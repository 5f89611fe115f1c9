----------------------------- MODULE Conversions -----------------------------
(***************************************************************************)
(* Between the wire types of the netlink crates and the parsed types a     *)
(* caller sees.                                                            *)
(*                                                                         *)
(* The attributes of a message, peer or allowed IP are a function from the *)
(* names of those which are there; a parsed type has every field, None for *)
(* those which are not.  A Vec of flags is a set: nothing reads its order. *)
(* Built is what build() makes, one message; a configuration that needs    *)
(* several is refused here, and BuildMessages has what is made of it.      *)
(***************************************************************************)
EXTENDS Integers, SequencesExt

CONSTANTS
  None,
  KeyBytes, Zero,    \* keys of 32 bytes, and the one of zeros
  Addresses,         \* of allowed IPs
  Ipv4,              \* addresses and endpoints that are IPv4
  TooLong, HasNul,   \* interface names of IFNAMSIZ bytes or more, with a NUL byte
  U16_MAX,           \* largest length a netlink attribute can state (65535)
  I64_MAX,           \* 2^63 - 1
  NANOS_PER_SECOND

ASSUME ConversionAssumption ==
  /\ Zero \in KeyBytes /\ U16_MAX \in Nat
  /\ I64_MAX \in Nat /\ NANOS_PER_SECOND \in 1..I64_MAX

I64 == (-I64_MAX - 1)..I64_MAX
U64 == 0..2 * I64_MAX + 1

-----------------------------------------------------------------------------
(* Flags.  A value of bitflags is a set of bits, a parsed flag the bits it *)
(* stands for: one of a named flag, or those of Other(bits).               *)

DeviceFlags == {0}          \* ReplacePeers
PeerFlags == {0, 1, 2}      \* RemoveMe, ReplaceAllowedIps, UpdateOnly
AllowedIpFlags == {0}       \* RemoveMe

RemoveMe == 0

\* From<WireguardPeerFlags> and its two siblings.
ParsedFlag(bits, names) == [named |-> \E b \in names : bits = {b}, bits |-> bits]

\* bitflags: one item per named flag, and one with the bits that have no name.
Items(bits, names) == {{b} : b \in bits \cap names} \cup ({bits \ names} \ {{}})

ParsedFlags(bits, names) == {ParsedFlag(item, names) : item \in Items(bits, names)}

\* From<WireguardParsedPeerFlags> and its siblings, collected.
FlagBits(flags) == UNION {flag.bits : flag \in flags}

-----------------------------------------------------------------------------
(* Keys and times.                                                         *)

\* BASE64_STANDARD.encode(): a text, known by what it decodes to.
Encode(key) == [is |-> "base64", of |-> key]

\* decode_key()
Decodes(text) == text.is = "base64"
Decode(text) == text.of

\* v as i64, v as u64
AsI64(v) == IF v <= I64_MAX THEN v ELSE v - (2 * I64_MAX + 2)
AsU64(v) == v % (2 * I64_MAX + 2)

\* Duration::new() carries whole seconds over.
NewDuration(secs, nanos) ==
  [secs |-> secs + nanos \div NANOS_PER_SECOND, nanos |-> nanos % NANOS_PER_SECOND]

\* Faulty variant: whatever the kernel sends.
ParsedTimeUnchecked(time) == NewDuration(AsU64(time.seconds), AsU64(time.nano_seconds))

\* The LastHandshake arm of From<WireguardPeer>.
ParsedTime(time) ==
  IF \/ time.seconds = 0 /\ time.nano_seconds = 0
     \/ time.seconds < 0
     \/ time.nano_seconds \notin 0..NANOS_PER_SECOND - 1
  THEN None
  ELSE NewDuration(AsU64(time.seconds), time.nano_seconds)

WireTime(duration) == [seconds |-> AsI64(duration.secs), nano_seconds |-> duration.nanos]

-----------------------------------------------------------------------------
(* Allowed IPs.                                                            *)

\* The fields of a parsed type that are Some.
Defined(parsed) == {name \in DOMAIN parsed : parsed[name] # None}

ParsedOptFlags(wire, names) ==
  IF "flags" \in DOMAIN wire THEN ParsedFlags(wire["flags"], names) ELSE None

\* TryFrom<&WireguardAllowedIp>; None for its DecodeError.
ParsedIp(wire) ==
  IF {"ip_addr", "prefix_length"} \subseteq DOMAIN wire
  THEN [ip_addr |-> wire["ip_addr"], prefix_length |-> wire["prefix_length"],
        flags |-> ParsedOptFlags(wire, AllowedIpFlags)]
  ELSE None

\* Those that cannot be parsed are left out, with a warning.
PushIp(ips, wire) == IF ParsedIp(wire) = None THEN ips ELSE Append(ips, ParsedIp(wire))

ParsedIps(wire) == FoldLeft(PushIp, << >>, wire)

Family(address) == IF address \in Ipv4 THEN "Ipv4" ELSE "Ipv6"
MaxPrefix(address) == IF address \in Ipv4 THEN 32 ELSE 128

\* From<&WireguardIpAddress>
WireIp(ip) ==
  [name \in Defined(ip) \cup {"family"} |->
     CASE name = "family" -> Family(ip.ip_addr)
       [] name = "flags" -> FlagBits(ip.flags)
       [] OTHER -> ip[name]]

\* WireguardIpAddress::validate()
ValidIp(ip) == ip.prefix_length <= MaxPrefix(ip.ip_addr)

-----------------------------------------------------------------------------
(* Peers.                                                                  *)

PeerFieldNames == {"endpoint", "public_key", "preshared_key", "persistent_keepalive",
                   "last_handshake", "rx_bytes", "tx_bytes", "allowed_ips",
                   "protocol_version", "flags"}

\* From<WireguardPeer>
ParsedPeer(wire) ==
  [name \in PeerFieldNames |->
     IF name \notin DOMAIN wire THEN None
     ELSE CASE name = "public_key" -> Encode(wire[name])
            [] name = "preshared_key" ->
                 IF wire[name] = Zero THEN None ELSE Encode(wire[name])
            [] name = "last_handshake" -> ParsedTime(wire[name])
            [] name = "allowed_ips" -> ParsedIps(wire[name])
            [] name = "flags" -> ParsedFlags(wire[name], PeerFlags)
            [] OTHER -> wire[name]]

ValidPeer(peer) ==
  /\ peer.public_key # None
  /\ \A name \in {"public_key", "preshared_key"} :
       peer[name] # None => Decodes(peer[name])
  /\ peer.allowed_ips # None =>
       \A i \in DOMAIN peer.allowed_ips : ValidIp(peer.allowed_ips[i])

\* WireguardPeerParsed::build(), of a valid peer.
BuiltPeer(peer) ==
  [name \in Defined(peer) |->
     CASE name \in {"public_key", "preshared_key"} -> Decode(peer[name])
       [] name = "last_handshake" -> WireTime(peer[name])
       [] name = "allowed_ips" -> [i \in DOMAIN peer[name] |-> WireIp(peer[name][i])]
       [] name = "flags" -> FlagBits(peer[name])
       [] OTHER -> peer[name]]

\* Faulty variant: asks for the flag as it is spelled, not for its bit.
RemovedBySpelling(peer) ==
  peer.flags # None /\ ParsedFlag({RemoveMe}, PeerFlags) \in peer.flags

\* flags.contains(RemoveMe)
Removed(peer) == peer.flags # None /\ RemoveMe \in FlagBits(peer.flags)

\* The one chunk of a peer that fits: peer_chunks() drops the allowed IPs of a
\* peer that is being removed.
WirePeer(peer) ==
  LET built == BuiltPeer(peer)
  IN  [name \in DOMAIN built \ (IF Removed(peer) THEN {"allowed_ips"} ELSE {}) |-> built[name]]

-----------------------------------------------------------------------------
(* Lengths, in bytes, of what is on the wire: each attribute has a header  *)
(* of 4 bytes and is padded to a multiple of 4.                            *)

NLA_HEADER_SIZE == 4

MAX_NLA_VALUE_LEN == U16_MAX - NLA_HEADER_SIZE - 3

AttrLen(name, value) ==
  NLA_HEADER_SIZE +
    CASE name \in {"public_key", "preshared_key"} -> 32
      [] name = "endpoint" -> IF value \in Ipv4 THEN 16 ELSE 28
      [] name = "last_handshake" -> 16
      [] name \in {"rx_bytes", "tx_bytes"} -> 8
      [] name = "ip_addr" -> IF value \in Ipv4 THEN 4 ELSE 16
      [] OTHER -> 4

LenOf(wire, name) == IF name \in DOMAIN wire THEN AttrLen(name, wire[name]) ELSE 0

WireIpLen(ip) ==
  NLA_HEADER_SIZE + LenOf(ip, "family") + LenOf(ip, "ip_addr")
                  + LenOf(ip, "prefix_length") + LenOf(ip, "flags")

AddIpLen(len, ip) == len + WireIpLen(ip)

IpsLen(ips) == FoldLeft(AddIpLen, 0, ips)

WirePeerLen(peer) ==
  NLA_HEADER_SIZE
    + LenOf(peer, "public_key") + LenOf(peer, "preshared_key") + LenOf(peer, "endpoint")
    + LenOf(peer, "persistent_keepalive") + LenOf(peer, "last_handshake")
    + LenOf(peer, "rx_bytes") + LenOf(peer, "tx_bytes")
    + LenOf(peer, "protocol_version") + LenOf(peer, "flags")
    + (IF "allowed_ips" \in DOMAIN peer THEN NLA_HEADER_SIZE + IpsLen(peer["allowed_ips"]) ELSE 0)

AddPeerLen(len, peer) == len + WirePeerLen(peer)

PeersLen(peers) == FoldLeft(AddPeerLen, 0, peers)

-----------------------------------------------------------------------------
(* Messages.                                                               *)

DeviceFieldNames == {"iface_name", "iface_index", "public_key", "private_key",
                     "listen_port", "fwmark", "peers", "flags"}

\* From<WireguardMessage>
ParsedMessage(wire) ==
  [name \in DeviceFieldNames |->
     IF name \notin DOMAIN wire THEN None
     ELSE CASE name \in {"public_key", "private_key"} -> Encode(wire[name])
            [] name = "peers" -> [i \in DOMAIN wire[name] |-> ParsedPeer(wire[name][i])]
            [] name = "flags" -> ParsedFlags(wire[name], DeviceFlags)
            [] OTHER -> wire[name]]

\* iface_attribute()
ValidIface(cfg) ==
  /\ cfg.iface_name # None \/ cfg.iface_index # None
  /\ cfg.iface_name \notin TooLong \cup HasNul

ValidConfig(cfg) ==
  /\ ValidIface(cfg)
  /\ \A name \in {"public_key", "private_key"} : cfg[name] # None => Decodes(cfg[name])
  /\ cfg.peers # None => \A i \in DOMAIN cfg.peers : ValidPeer(cfg.peers[i])

\* Faulty variant: the name and the index of the interface are both sent.
DeviceAttributesBoth(cfg) == Defined(cfg) \ {"peers"}

\* device_attributes(): of name and index the name wins.
DeviceAttributes(cfg) ==
  Defined(cfg) \ (IF cfg.iface_name = None THEN {"peers"} ELSE {"peers", "iface_index"})

\* build_message(), of a valid configuration.
BuiltMessage(cfg) ==
  [name \in DeviceAttributes(cfg) \cup (Defined(cfg) \cap {"peers"}) |->
     CASE name \in {"public_key", "private_key"} -> Decode(cfg[name])
       [] name = "peers" -> [i \in DOMAIN cfg[name] |-> WirePeer(cfg[name][i])]
       [] name = "flags" -> FlagBits(cfg[name])
       [] OTHER -> cfg[name]]

\* Faulty variant: peers that end exactly at the limit are too many.
OneMessageOffByOne(cfg) ==
  LET msg == BuiltMessage(cfg)
  IN  "peers" \in DOMAIN msg => PeersLen(msg["peers"]) < MAX_NLA_VALUE_LEN

\* build_messages() makes one message of a valid configuration: all its peers
\* fit into one attribute.  (A single chunk always does, FitsAssumption.)
OneMessage(cfg) ==
  LET msg == BuiltMessage(cfg)
  IN  "peers" \in DOMAIN msg => PeersLen(msg["peers"]) <= MAX_NLA_VALUE_LEN
=============================================================================
