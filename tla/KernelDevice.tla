---------------------------- MODULE KernelDevice ----------------------------
(***************************************************************************)
(* What the kernel's WireGuard driver makes of WG_CMD_SET_DEVICE messages, *)
(* as far as the code and the tests of this repository rely on it.  The    *)
(* driver itself is not part of the repository.                            *)
(*                                                                         *)
(* A device holds peers, and each allowed IP belongs to at most one peer:  *)
(* giving it to a peer takes it from the one that had it.  The device's    *)
(* own key, port and mark only travel in the first message and interact    *)
(* with nothing else; they are left out.                                   *)
(***************************************************************************)
EXTENDS WireguardConfig, SequencesExt

CONSTANTS
  NoAttrs,  \* the value of Attrs for a peer entry that sets none
  Absent,   \* instead of the attributes of a peer the device does not hold
  Nobody    \* instead of the owner of an IP that no peer has

ASSUME SentinelAssumption ==
  /\ NoAttrs \in Attrs /\ Absent \notin Attrs
  /\ Keys \cap {Nobody, "missing", "invalid"} = {}

Device == [peers : [Keys -> Attrs \cup {Absent}],
           owner : [Ips -> Keys \cup {Nobody}]]

\* Only a peer of the device owns allowed IPs.
ConsistentDevice(dev) ==
  \A ip \in Ips : dev.owner[ip] # Nobody => dev.peers[dev.owner[ip]] # Absent

-----------------------------------------------------------------------------

DropIps(dev, key) ==
  [dev EXCEPT !.owner = [ip \in Ips |-> IF @[ip] = key THEN Nobody ELSE @[ip]]]

RemovePeer(dev, key) == [DropIps(dev, key) EXCEPT !.peers[key] = Absent]

\* An allowed IP flagged RemoveMe is only taken from the peer that lists it.
SetIp(dev, key, ip) ==
  IF "RemoveMe" \notin ip.flags THEN [dev EXCEPT !.owner[ip.ip] = key]
  ELSE [dev EXCEPT !.owner[ip.ip] = IF @ = key THEN Nobody ELSE @]

\* The allowed IPs lo+1 .. hi of p, for a peer which exists by now.
SetIps(dev, p, lo, hi) ==
  FoldLeft(LAMBDA d, ip : SetIp(d, p.public_key, ip),
           dev, SubSeq(p.allowed_ips, lo + 1, hi))

\* One entry of WGDEVICE_A_PEERS.  Only a first chunk has flags and attributes.
SetPeer(dev, p, first, lo, hi) ==
  LET key == p.public_key
      flags == IF first THEN p.flags ELSE {}
      known == dev.peers[key] # Absent
      value == IF first /\ p.attrs # NoAttrs THEN p.attrs
               ELSE IF known THEN dev.peers[key] ELSE NoAttrs
      kept == IF "ReplaceAllowedIps" \in flags THEN DropIps(dev, key) ELSE dev
  IN  IF ~ known /\ flags \cap {"RemoveMe", "UpdateOnly"} # {} THEN dev
      ELSE IF "RemoveMe" \in flags THEN RemovePeer(dev, key)
      ELSE SetIps([kept EXCEPT !.peers[key] = value], p, lo, hi)

NoPeers == [peers |-> [k \in Keys |-> Absent], owner |-> [ip \in Ips |-> Nobody]]

\* WGDEVICE_F_REPLACE_PEERS takes effect before the peers of the message.
OpenMessage(dev, cfg, msg) ==
  IF msg.device /\ cfg.replace_peers THEN NoPeers ELSE dev

\* The first n entries of a message: all of them, or those in front of an
\* entry the kernel refuses.
ApplyEntries(dev, cfg, msg, n) ==
  FoldLeft(LAMBDA d, c : SetPeer(d, cfg.peers[c.peer], c.first, c.lo, c.hi),
           OpenMessage(dev, cfg, msg), SubSeq(msg.peers, 1, n))

ApplyMessage(dev, cfg, msg) == ApplyEntries(dev, cfg, msg, Len(msg.peers))

ApplyMessages(dev, cfg, msgs) ==
  FoldLeft(LAMBDA d, msg : ApplyMessage(d, cfg, msg), dev, msgs)

\* The whole configuration in one message, had netlink no limit on lengths.
ApplyWhole(dev, cfg) ==
  FoldLeft(LAMBDA d, p : SetPeer(d, p, TRUE, 0, Len(p.allowed_ips)),
           IF cfg.replace_peers THEN NoPeers ELSE dev, cfg.peers)
=============================================================================
