----------------------------- MODULE SplitEffect -----------------------------
(***************************************************************************)
(* What splitting a configuration must not change: the device it leads to, *)
(* and the number of messages of a configuration that needs no splitting.  *)
(***************************************************************************)
EXTENDS BuildMessages, KernelDevice

CONSTANT Devices  \* the devices the messages are applied to

ASSUME DevicesAssumption ==
  Devices \subseteq {dev \in Device : ConsistentDevice(dev)}

-----------------------------------------------------------------------------

\* The length of the peers attribute, had it no limit.
WholeLen(cfg) ==
  FoldLeft(LAMBDA len, i :
             len + ChunkLen(cfg, [peer |-> i, first |-> TRUE, lo |-> 0,
                                  hi |-> ToSend(cfg.peers[i]), at |-> 0]),
           0, [i \in DOMAIN cfg.peers |-> i])

\* A configuration that fits into one message is sent as one, and the kernel
\* applies or refuses it as one request; build() refuses exactly those that do
\* not fit (parsed.rs:205-228).  Both loops bound a length, and a mistake by one
\* entry or one header in either cuts too early or too late.
OneMessageIffFits ==
  result = "ok" =>
    (Len(messages) = 1 <=> WholeLen(config) <= MAX_NLA_VALUE_LEN)

-----------------------------------------------------------------------------

SameEffect(cfg, msgs) ==
  \A dev \in Devices : ApplyMessages(dev, cfg, msgs) = ApplyWhole(dev, cfg)

\* "`WireguardHandle::set()` splits a configuration which does not fit into a
\* single netlink message over as many messages as the kernel requires"
\* (README.md:129-130), where "each message fills in what the prior messages
\* missed" (parsed.rs:232-233): the device ends up as if the configuration had
\* been one message.
SplitIsTransparent == result = "ok" => SameEffect(config, messages)

\* Splitting does not show in the device, unless it cuts a peer that is only to
\* be updated.  A chunk in the wrong order, a second ReplaceAllowedIps or
\* ReplacePeers, or a continuation of a peer being removed would show: they
\* drop what an earlier message has set, or bring a peer back.
SplitIsTransparentElsewhere ==
  result = "ok" /\ ~ SplitsUpdateOnly(config, messages)
    => SameEffect(config, messages)
=============================================================================
