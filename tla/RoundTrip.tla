------------------------------ MODULE RoundTrip ------------------------------
(***************************************************************************)
(* A configuration is built into a message, a message is parsed into a     *)
(* configuration, and what was parsed is built again, in turn.  What is    *)
(* read is one message here: GetDevice has a device that takes several,    *)
(* which build() refuses when it is too large for one, and set() does not. *)
(***************************************************************************)
EXTENDS Conversions

CONSTANTS
  Values,        \* of attributes that are passed on as they are
  Bits,          \* of a value of bitflags
  GivenConfigs,  \* configurations of a caller
  GivenMessages  \* messages of the kernel

-----------------------------------------------------------------------------
(* What a caller may put into the parsed types.                            *)

Opt(S) == {None} \cup S

Text == [is : {"base64", "not base64"}, of : KeyBytes]
Duration == [secs : U64, nanos : 0..NANOS_PER_SECOND - 1]
Flag == [named : BOOLEAN, bits : SUBSET Bits]

IpAddress == [ip_addr : Addresses, prefix_length : 0..255, flags : Opt(SUBSET Flag)]

PeerParsed ==
  [endpoint : Opt(Values), public_key : Opt(Text), preshared_key : Opt(Text),
   persistent_keepalive : Opt(Values), last_handshake : Opt(Duration),
   rx_bytes : Opt(Values), tx_bytes : Opt(Values), allowed_ips : Opt(Seq(IpAddress)),
   protocol_version : Opt(Values), flags : Opt(SUBSET Flag)]

Parsed ==
  [iface_name : Opt(Values), iface_index : Opt(Values), public_key : Opt(Text),
   private_key : Opt(Text), listen_port : Opt(Values), fwmark : Opt(Values),
   peers : Opt(Seq(PeerParsed)), flags : Opt(SUBSET Flag)]

ASSUME NoneAssumption ==
  /\ None \notin Values /\ None \notin Text /\ None \notin Duration
  /\ None \notin Addresses /\ None \notin 0..255
  /\ None \notin IpAddress /\ None \notin Seq(IpAddress) /\ None \notin Seq(PeerParsed)
  /\ \A bits \in SUBSET Bits, names \in {DeviceFlags, PeerFlags, AllowedIpFlags} :
       None # ParsedFlags(bits, names)

ASSUME NamesAssumption == TooLong \cup HasNul \subseteq Values

-----------------------------------------------------------------------------
(* What the kernel sends: for each device its name or index, a name it has *)
(* room for, and peers that one attribute can hold; for each peer its      *)
(* public key, and prefix lengths that an address can have.                *)

IsFunction(f) == f = [x \in DOMAIN f |-> f[x]]

Whole(ip) == {"ip_addr", "prefix_length"} \subseteq DOMAIN ip

WireIpOK(ip) ==
  /\ IsFunction(ip) /\ DOMAIN ip \subseteq {"ip_addr", "prefix_length", "family", "flags"}
  /\ "flags" \in DOMAIN ip => ip["flags"] \in SUBSET Bits
  /\ Whole(ip) => /\ ip["ip_addr"] \in Addresses
                  /\ ip["prefix_length"] \in 0..MaxPrefix(ip["ip_addr"])
                  /\ "family" \in DOMAIN ip /\ ip["family"] = Family(ip["ip_addr"])

WirePeerOK(peer) ==
  /\ "public_key" \in DOMAIN peer /\ DOMAIN peer \subseteq PeerFieldNames
  /\ \A name \in DOMAIN peer :
       CASE name \in {"public_key", "preshared_key"} -> peer[name] \in KeyBytes
         [] name = "last_handshake" -> peer[name] \in [seconds : I64, nano_seconds : I64]
         [] name = "allowed_ips" -> /\ peer[name] \in Seq(Range(peer[name]))
                                    /\ \A ip \in Range(peer[name]) : WireIpOK(ip)
         [] name = "flags" -> peer[name] \in SUBSET Bits
         [] OTHER -> peer[name] \in Values

MessageOK(msg) ==
  /\ DOMAIN msg \subseteq DeviceFieldNames
  /\ {"iface_name", "iface_index"} \cap DOMAIN msg # {}
  /\ "iface_name" \in DOMAIN msg => msg["iface_name"] \notin TooLong \cup HasNul
  /\ "peers" \in DOMAIN msg => PeersLen(msg["peers"]) <= MAX_NLA_VALUE_LEN
  /\ \A name \in DOMAIN msg :
       CASE name \in {"public_key", "private_key"} -> msg[name] \in KeyBytes
         [] name = "peers" -> /\ msg[name] \in Seq(Range(msg[name]))
                              /\ \A peer \in Range(msg[name]) : WirePeerOK(peer)
         [] name = "flags" -> msg[name] \in SUBSET Bits
         [] OTHER -> msg[name] \in Values

ASSUME GivenAssumption ==
  GivenConfigs \subseteq Parsed /\ \A msg \in GivenMessages : MessageOK(msg)

\* A peer alone with one allowed IP fits: a few hundred bytes against 65528.
ASSUME FitsAssumption ==
  \A cfg \in GivenConfigs :
    LET peers == BuiltMessage(cfg)["peers"]
    IN  ValidConfig(cfg) /\ cfg.peers # None =>
          \A i \in DOMAIN peers :
            ("allowed_ips" \in DOMAIN peers[i] => Len(peers[i]["allowed_ips"]) <= 1)
              => PeersLen(<<peers[i]>>) <= MAX_NLA_VALUE_LEN

-----------------------------------------------------------------------------

VARIABLES
  pc,      \* "caller" has config, "wire" is to be parsed, or "rejected"
  config,  \* the configuration in the hands of the caller
  wire,    \* the last message
  given    \* history: the first message that was parsed

vars == <<pc, config, wire, given>>

Init ==
  /\ given = None
  /\ \/ pc = "caller" /\ wire = None /\ config \in GivenConfigs
     \/ pc = "wire" /\ config = None /\ wire \in GivenMessages

\* WireguardParsed::build()
Build ==
  /\ pc = "caller"
  /\ IF ValidConfig(config) /\ OneMessage(config)
     THEN pc' = "wire" /\ wire' = BuiltMessage(config)
     ELSE pc' = "rejected" /\ wire' = wire
  /\ UNCHANGED <<config, given>>

Parse ==
  /\ pc = "wire"
  /\ pc' = "caller"
  /\ config' = ParsedMessage(wire)
  /\ given' = IF given = None THEN wire ELSE given
  /\ UNCHANGED wire

Next == Build \/ Parse

Spec == Init /\ [][Next]_vars

-----------------------------------------------------------------------------

\* A removal is one for the kernel and for the code, however the caller spells
\* it: RemoveMe, Other(1), several bits in one Other, or some of them together.
\* The kernel gets the allowed IPs of exactly the peers it does not remove
\* (parsed.rs:394 and 407); a peer it removes must not be split, because the
\* continuation would create it again.
RemovalIsSeen ==
  pc = "wire" /\ config # None /\ config.peers # None =>
    \A i \in DOMAIN config.peers :
      LET peer == config.peers[i]
          sent == wire["peers"][i]
      IN  "allowed_ips" \in DOMAIN sent <=>
            /\ peer.allowed_ips # None
            /\ "flags" \in DOMAIN sent => RemoveMe \notin sent["flags"]

\* The time of a handshake is another one nowhere: whatever 64 bit integers the
\* kernel sends, and whatever Duration a caller sets, the other side finds the
\* same time or none (peer_parsed.rs:159-175 and 305-312 cast between i64, u64
\* and u32).
SameTime(duration, time) ==
  duration # None =>
    /\ time.nano_seconds = duration.nanos
    /\ time.seconds = duration.secs \/ ParsedTime(time) = None

NeverAnotherTime ==
  config # None /\ wire # None /\ config.peers # None /\ pc # "rejected" =>
    \A i \in DOMAIN config.peers :
      LET duration == config.peers[i].last_handshake
          sent == wire["peers"][i]
      IN  "last_handshake" \in DOMAIN sent => SameTime(duration, sent["last_handshake"])

-----------------------------------------------------------------------------

\* The allowed IPs of a message that can be parsed.
KeepWhole(ips, ip) == IF Whole(ip) THEN Append(ips, ip) ELSE ips

WholeIps(ips) == FoldLeft(KeepWhole, << >>, ips)

\* What an attribute of a peer looks like after it was parsed and built again.
Kept(peer, name) ==
  CASE name = "preshared_key" -> peer[name] # Zero
    [] name = "last_handshake" ->
         /\ peer[name].seconds >= 0
         /\ peer[name].nano_seconds \in 0..NANOS_PER_SECOND - 1
         /\ peer[name] # [seconds |-> 0, nano_seconds |-> 0]
    [] name = "allowed_ips" -> RemoveMe \notin (IF "flags" \in DOMAIN peer THEN peer["flags"] ELSE {})
    [] OTHER -> TRUE

SamePeer(before, after) ==
  /\ DOMAIN after = {name \in DOMAIN before : Kept(before, name)}
  /\ \A name \in DOMAIN after :
       after[name] = IF name = "allowed_ips" THEN WholeIps(before[name]) ELSE before[name]

\* Parsing a message and building it again, as often as one likes, changes
\* nothing: the message that is built is the one that was parsed, flag bits
\* without a name included, but for the index of an interface that has a name,
\* a preshared key of zeros, a time that is none, allowed IPs that cannot be
\* parsed, and those of a peer flagged RemoveMe.
WrittenBackUnchanged ==
  pc = "wire" /\ given # None =>
    /\ DOMAIN wire = DOMAIN given \ (IF "iface_name" \in DOMAIN given
                                     THEN {"iface_index"} ELSE {})
    /\ \A name \in DOMAIN wire \ {"peers"} : wire[name] = given[name]
    /\ "peers" \in DOMAIN given =>
         /\ Len(wire["peers"]) = Len(given["peers"])
         /\ \A i \in DOMAIN given["peers"] : SamePeer(given["peers"][i], wire["peers"][i])

\* What one message was parsed into is never refused by build(), however often
\* it went back and forth: its name, keys and prefixes pass every check (parsed.rs
\* 301-321 and 492-516), and it never outgrows one message (parsed.rs:215-226),
\* whatever is left out on the way.
ReadIsAccepted == pc = "rejected" => given = None
=============================================================================
