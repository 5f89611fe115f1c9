---------------------------- MODULE ParsedDevice ----------------------------
(***************************************************************************)
(* How get_by_name() makes a WireguardParsed of the messages of a dump:    *)
(* WireguardParsed::from(Vec<WireguardMessage>), push_peer() and           *)
(* merge_continuation().  The kernel cuts the peers of a device over as    *)
(* many messages as it needs, and the allowed IPs of one peer over several *)
(* entries; the parts have to be put together again.                       *)
(***************************************************************************)
EXTENDS KernelDevice

CONSTANT AddressOf  \* the address and prefix length of each of Ips

ASSUME AddressAssumption ==
  /\ AddressOf \in [Ips -> AllowedIp]
  /\ \A ip \in Ips : /\ AddressOf[ip].ip = ip /\ AddressOf[ip].flags = {}
                     /\ ValidPrefix(AddressOf[ip])

\* An entry of WGDEVICE_A_PEERS in a dump.  A continuation has NoAttrs.
Entry == [public_key : Keys, attrs : Attrs, has_allowed_ips : BOOLEAN,
          allowed_ips : Seq(Ips)]

DumpMessage == [device : BOOLEAN,  \* carries the device level attributes
                peers : Seq(Entry)]

-----------------------------------------------------------------------------

\* WireguardPeerParsed::from(WireguardPeer).  The preshared key is among Attrs;
\* a dump holds no peer flags.
ParsedPeer(entry) ==
  [public_key |-> entry.public_key,
   preshared_key |-> IF entry.attrs = NoAttrs THEN "none" ELSE "valid",
   attrs |-> entry.attrs,
   flags |-> {},
   has_allowed_ips |-> entry.has_allowed_ips,
   allowed_ips |-> [i \in DOMAIN entry.allowed_ips |-> AddressOf[entry.allowed_ips[i]]]]

\* Faulty variant: the allowed IPs of a continuation replace those before.
MergeReplacing(peer, more) ==
  [peer EXCEPT !.has_allowed_ips = @ \/ more.has_allowed_ips,
               !.allowed_ips = IF more.has_allowed_ips THEN more.allowed_ips ELSE @]

\* merge_continuation(): allowed IPs add up, whatever else is there stays.
MergeContinuation(peer, more) ==
  [peer EXCEPT
     !.has_allowed_ips = @ \/ more.has_allowed_ips,
     !.allowed_ips = @ \o more.allowed_ips,
     !.preshared_key = IF @ = "none" THEN more.preshared_key ELSE @,
     !.attrs = IF @ = NoAttrs THEN more.attrs ELSE @,
     !.flags = @ \cup more.flags]

\* Faulty variant: no peer is ever taken for a continuation.
PushPeerAlways(peers, peer) == Append(peers, peer)

\* Faulty variant: an entry without attributes continues whatever comes before.
PushPeerBare(peers, peer) ==
  IF peers # << >> /\ peer.attrs = NoAttrs
  THEN [peers EXCEPT ![Len(peers)] = MergeContinuation(@, peer)]
  ELSE Append(peers, peer)

\* push_peer(): only the entry right in front of it can be the same peer.
PushPeer(peers, peer) ==
  IF peers # << >> /\ Last(peers).public_key = peer.public_key
  THEN [peers EXCEPT ![Len(peers)] = MergeContinuation(@, peer)]
  ELSE Append(peers, peer)

PushEntry(peers, entry) == PushPeer(peers, ParsedPeer(entry))

PushMessage(peers, msg) == FoldLeft(PushEntry, peers, msg.peers)

\* From<Vec<WireguardMessage>>.  The name and the index of the interface come
\* together, with the other device level attributes.
ParsedMessages(msgs) ==
  LET device == \E i \in DOMAIN msgs : msgs[i].device
  IN  [iface_name |-> IF device THEN "valid" ELSE "none",
       iface_index |-> device,
       keys_valid |-> TRUE,
       replace_peers |-> FALSE,
       peers |-> FoldLeft(PushMessage, << >>, msgs)]

\* The device such a configuration describes.
DescribedDevice(cfg) == ApplyWhole(NoPeers, cfg)
=============================================================================
