--------------------------- MODULE WireguardConfig ---------------------------
(***************************************************************************)
(* The configuration a caller hands to WireguardHandle::set() and the      *)
(* pieces it is cut into.  A netlink attribute holds at most 64 KiB, so    *)
(* the peers of a large configuration travel in several messages and the   *)
(* allowed IPs of one large peer in several chunks.                        *)
(*                                                                         *)
(* A chunk is described by its place in the configuration: the peer it     *)
(* belongs to, whether it carries the peer's state attributes (endpoint,   *)
(* keys, flags...), and the range lo+1 .. hi of the peer's allowed IPs it  *)
(* carries.                                                                *)
(***************************************************************************)
EXTENDS Integers, Sequences

CONSTANTS
  Keys,          \* public keys of peers (decoded, valid)
  Ips,           \* address ranges of allowed IPs
  Attrs,         \* opaque values of a peer's endpoint, preshared key, keepalive...
  AttrsLen,      \* how many bytes each value of Attrs takes in a message
  Configs,       \* the configurations under study
  U16_MAX,       \* largest length a netlink attribute can state (65535)
  IpsLen(_,_,_)  \* bytes of the allowed IPs lo+1 .. hi of a peer (IpsLenAssumption)

-----------------------------------------------------------------------------
(* Lengths, in bytes, as the netlink crates emit them: every attribute has *)
(* a header of 4 bytes and is padded to a multiple of 4.                   *)

NLA_HEADER_SIZE == 4
NLA_ALIGNTO == 4

\* What one attribute can hold once its own header and padding are paid for.
MAX_NLA_VALUE_LEN == U16_MAX - NLA_HEADER_SIZE - (NLA_ALIGNTO - 1)

PUBLIC_KEY_LEN == NLA_HEADER_SIZE + 32
FLAGS_LEN == NLA_HEADER_SIZE + 4

\* WireguardAllowedIp: the nest, its prefix length, family, address and flags.
IpLen(ip) ==
  NLA_HEADER_SIZE + 8 + 8 + (IF ip.is_ipv4 THEN 8 ELSE 20)
                          + (IF ip.flags = {} THEN 0 ELSE FLAGS_LEN)

-----------------------------------------------------------------------------
(* WireguardIpAddress, WireguardPeerParsed and WireguardParsed.            *)

\* "Other" is a value without any of these flags, Some(vec![]) included: an
\* attribute is emitted for it all the same.
PeerFlags == {"RemoveMe", "ReplaceAllowedIps", "UpdateOnly", "Other"}
AllowedIpFlags == {"RemoveMe", "Other"}

AllowedIp == [ip : Ips, is_ipv4 : BOOLEAN, prefix_length : 0..255,
              flags : SUBSET AllowedIpFlags]

\* A key is given as base64 text: only its being absent or undecodable matters.
\* has_allowed_ips tells Some(allowed_ips) from None.
PeerFields == [public_key : Keys \cup {"missing", "invalid"},
               preshared_key : {"none", "valid", "invalid"},
               attrs : Attrs,
               flags : SUBSET PeerFlags,
               has_allowed_ips : BOOLEAN,
               allowed_ips : Seq(AllowedIp)]

Peer == {p \in PeerFields : p.has_allowed_ips \/ p.allowed_ips = << >>}

Config == [iface_name : {"none", "valid", "too_long", "has_nul"},
           iface_index : BOOLEAN,
           keys_valid : BOOLEAN,         \* the device's own keys decode
           replace_peers : BOOLEAN,      \* WireguardParsedDeviceFlags::ReplacePeers
           peers : Seq(Peer)]

-----------------------------------------------------------------------------
(* What the code refuses before anything is sent.                          *)

ErrorKinds == {"InvalidInput", "InvalidKey"}

\* WireguardIpAddress::validate()
ValidPrefix(ip) == ip.prefix_length <= (IF ip.is_ipv4 THEN 32 ELSE 128)

\* WireguardPeerParsed::build(): the checks in the order the code makes them.
PeerError(p) ==
  CASE p.public_key = "missing" -> "InvalidInput"
    [] p.public_key = "invalid" -> "InvalidKey"
    [] p.preshared_key = "invalid" -> "InvalidKey"
    [] \E i \in DOMAIN p.allowed_ips : ~ ValidPrefix(p.allowed_ips[i]) -> "InvalidInput"
    [] OTHER -> "none"

\* iface_attribute(): the name wins over the index.
IfaceError(cfg) ==
  IF \/ cfg.iface_name \in {"too_long", "has_nul"}
     \/ cfg.iface_name = "none" /\ ~ cfg.iface_index
  THEN "InvalidInput"
  ELSE "none"

\* build_message(): the device's keys are only decoded for the first message.
MessageError(cfg, first) ==
  IF IfaceError(cfg) # "none" THEN IfaceError(cfg)
  ELSE IF first /\ ~ cfg.keys_valid THEN "InvalidKey" ELSE "none"

-----------------------------------------------------------------------------
(* Chunks and messages.                                                    *)

Chunk == [peer : Nat \ {0}, first : BOOLEAN, lo : Nat, hi : Nat,
          at : Nat]                      \* its offset in WGDEVICE_A_PEERS

Message == [device : BOOLEAN,            \* carries the device level attributes
            peers : Seq(Chunk)]

\* Faulty variant: a removed peer keeps its allowed IPs, and is cut like any other.
SendsIpsOfRemoved(p) == p.has_allowed_ips

\* peer_chunks() leaves out the allowed IPs of a peer which is being removed.
SendsIps(p) == p.has_allowed_ips /\ "RemoveMe" \notin p.flags

ToSend(p) == IF SendsIps(p) THEN Len(p.allowed_ips) ELSE 0

StateLen(p) ==
  PUBLIC_KEY_LEN + AttrsLen[p.attrs] + (IF p.flags = {} THEN 0 ELSE FLAGS_LEN)

\* The peer's nest without its allowed IPs: everything in the first chunk,
\* only the public key in a continuation.
PrefixLen(p, first) ==
  NLA_HEADER_SIZE + (IF first THEN StateLen(p) ELSE PUBLIC_KEY_LEN)

\* WireguardPeer::buffer_len() of a chunk.
ChunkLen(cfg, c) ==
  LET p == cfg.peers[c.peer]
  IN  PrefixLen(p, c.first)
        + (IF SendsIps(p) THEN NLA_HEADER_SIZE + IpsLen(p, c.lo, c.hi) ELSE 0)

-----------------------------------------------------------------------------
(* The contract between build_messages() and set(): what it means for a    *)
(* list of messages to be a configuration cut into pieces.                 *)

\* d is the chunk that comes right after c: it goes on where c stopped, or it
\* opens the next peer when c held the last allowed IP of its own.
Follows(cfg, c, d) ==
  \/ /\ c.hi < ToSend(cfg.peers[c.peer])
     /\ d.peer = c.peer /\ ~ d.first /\ d.lo = c.hi
  \/ /\ c.hi = ToSend(cfg.peers[c.peer])
     /\ d.peer = c.peer + 1 /\ d.first /\ d.lo = 0

Opens(c) == c.peer = 1 /\ c.first /\ c.lo = 0

Closes(cfg, c) == c.peer = Len(cfg.peers) /\ c.hi = ToSend(cfg.peers[c.peer])

\* A chunk of a peer that exists, which carries something.
GoodChunk(cfg, c) ==
  /\ c.peer \in 1..Len(cfg.peers)
  /\ c.lo <= c.hi /\ c.hi <= ToSend(cfg.peers[c.peer])
  /\ c.lo = c.hi => c.first /\ ToSend(cfg.peers[c.peer]) = 0

\* Read message after message, the chunks walk through the peers and through
\* the allowed IPs of each peer in their order, none left out and none twice;
\* only the first message carries the device level attributes.
IsSplitOf(cfg, msgs) ==
  /\ msgs # << >>
  /\ \A m \in 1..Len(msgs) :
       /\ msgs[m].device <=> m = 1
       /\ msgs[m].peers = << >> => Len(msgs) = 1 /\ cfg.peers = << >>
       /\ \A j \in 1..Len(msgs[m].peers) : GoodChunk(cfg, msgs[m].peers[j])
       /\ \A j \in 1..Len(msgs[m].peers) - 1 :
            Follows(cfg, msgs[m].peers[j], msgs[m].peers[j + 1])
  /\ \A m \in 1..Len(msgs) - 1 :
       Follows(cfg, msgs[m].peers[Len(msgs[m].peers)], msgs[m + 1].peers[1])
  /\ cfg.peers # << >> =>
       LET last == msgs[Len(msgs)].peers
       IN  Opens(msgs[1].peers[1]) /\ Closes(cfg, last[Len(last)])

\* A peer that is only to be updated is cut into chunks: the kernel would add
\* it, if it is not there, for a continuation, which does not repeat UpdateOnly.
SplitsUpdateOnly(cfg, msgs) ==
  \E m \in DOMAIN msgs : \E j \in DOMAIN msgs[m].peers :
    LET c == msgs[m].peers[j]
    IN  ~ c.first /\ "UpdateOnly" \in cfg.peers[c.peer].flags

\* The chunks of one message lie back to back in its peers attribute and end
\* within what the attribute can hold.
Fits(cfg, chunks) ==
  chunks # << >> =>
    LET n == Len(chunks)
    IN  /\ chunks[1].at = 0
        /\ \A j \in 1..n - 1 :
             chunks[j + 1].at = chunks[j].at + ChunkLen(cfg, chunks[j])
        /\ chunks[n].at + ChunkLen(cfg, chunks[n]) <= MAX_NLA_VALUE_LEN

-----------------------------------------------------------------------------
(* Assumptions on the constants.                                           *)

PeersOf(cfg) == {cfg.peers[i] : i \in DOMAIN cfg.peers}

ASSUME TypeAssumption ==
  /\ U16_MAX \in Nat /\ MAX_NLA_VALUE_LEN \in Nat
  /\ AttrsLen \in [Attrs -> Nat]
  /\ Configs \subseteq Config

\* IpsLen is the sum of the lengths of the allowed IPs in the range.
ASSUME IpsLenAssumption ==
  \A cfg \in Configs : \A p \in PeersOf(cfg) : \A lo \in 0..Len(p.allowed_ips) :
    /\ IpsLen(p, lo, lo) = 0
    /\ \A hi \in lo..Len(p.allowed_ips) : IpsLen(p, lo, hi) \in Nat
    /\ \A hi \in lo..Len(p.allowed_ips) - 1 :
         IpsLen(p, lo, hi + 1) = IpsLen(p, lo, hi) + IpLen(p.allowed_ips[hi + 1])

\* One allowed IP next to the state attributes of its peer always fits: a few
\* hundred bytes against 65528.
ASSUME FitsAssumption ==
  \A cfg \in Configs : \A p \in PeersOf(cfg) :
    /\ PrefixLen(p, TRUE) + NLA_HEADER_SIZE <= MAX_NLA_VALUE_LEN
    /\ \A i \in DOMAIN p.allowed_ips :
         PrefixLen(p, TRUE) + NLA_HEADER_SIZE + IpLen(p.allowed_ips[i])
           <= MAX_NLA_VALUE_LEN
=============================================================================
