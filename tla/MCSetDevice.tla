----------------------------- MODULE MCSetDevice -----------------------------
(***************************************************************************)
(* Two clones of a handle, each with peers and allowed IPs of its own: one *)
(* configures a large peer in three parts and removes it, the other adds   *)
(* two peers in two parts, or is rejected.                                 *)
(***************************************************************************)
EXTENDS SetDevice, TLC

CONSTANTS c1, c2, k1, k2, k3, a, b, d, attrs,
          large, two_peers, remove_k1, remove_k2, no_key

MCAttrs == {NoAttrs, attrs}
MCAttrsLen == [v \in MCAttrs |-> IF v = NoAttrs THEN 0 ELSE 36]
MCU16_MAX == 143

MCIpsLen(p, lo, hi) ==
  FoldLeft(LAMBDA len, ip : len + IpLen(ip), 0, SubSeq(p.allowed_ips, lo + 1, hi))

Ip(ip, is_ipv4, flags) ==
  [ip |-> ip, is_ipv4 |-> is_ipv4, prefix_length |-> 32, flags |-> flags]

A == Ip(a, TRUE, {})
B == Ip(b, FALSE, {})
DropA == Ip(a, TRUE, {"RemoveMe"})
D == Ip(d, TRUE, {})

PeerWith(key, value, flags, ips) ==
  [public_key |-> key, preshared_key |-> "none", attrs |-> value,
   flags |-> flags, has_allowed_ips |-> TRUE, allowed_ips |-> ips]

ConfigWith(peers) ==
  [iface_name |-> "valid", iface_index |-> FALSE, keys_valid |-> TRUE,
   replace_peers |-> FALSE, peers |-> peers]

\* The only chunk of its message.
Chunked(peer, lo, hi) ==
  [peer |-> peer, first |-> lo = 0, lo |-> lo, hi |-> hi, at |-> 0]

MCCalls == {large, two_peers, remove_k1, remove_k2, no_key}

MCConfigOf ==
  (large :> ConfigWith(
     <<PeerWith(k1, attrs, {"ReplaceAllowedIps"}, <<A, B, DropA, B>>)>>)) @@
  (two_peers :> ConfigWith(
     <<PeerWith(k2, attrs, {}, <<D>>), PeerWith(k3, NoAttrs, {}, <<D>>)>>)) @@
  (remove_k1 :> RemovalConfig(k1)) @@
  (remove_k2 :> RemovalConfig(k2)) @@
  (no_key :> ConfigWith(<<PeerWith("missing", NoAttrs, {}, <<D>>)>>))

MCBuiltOf == [k \in MCCalls |-> IF k = no_key THEN "InvalidInput" ELSE "ok"]

\* What build_messages() makes of them.
MCMessagesOf ==
  (large :> <<[device |-> TRUE, peers |-> <<Chunked(1, 0, 1)>>],
              [device |-> FALSE, peers |-> <<Chunked(1, 1, 3)>>],
              [device |-> FALSE, peers |-> <<Chunked(1, 3, 4)>>]>>) @@
  (two_peers :> <<[device |-> TRUE, peers |-> <<Chunked(1, 0, 1)>>],
                  [device |-> FALSE, peers |-> <<Chunked(2, 0, 1)>>]>>) @@
  (remove_k1 :> <<[device |-> TRUE, peers |-> <<Chunked(1, 0, 0)>>]>>) @@
  (remove_k2 :> <<[device |-> TRUE, peers |-> <<Chunked(1, 0, 0)>>]>>) @@
  (no_key :> << >>)

MCCallsOf == (c1 :> {large, remove_k1}) @@ (c2 :> {two_peers, no_key})

\* Fewer calls, for the liveness property.
MCFewCallsOf == (c1 :> {large}) @@ (c2 :> {remove_k2})

\* Two clones that configure the same peer.
MCSamePeerCallsOf == (c1 :> {large}) @@ (c2 :> {remove_k1})

MCConfigs == {MCConfigOf[k] : k \in MCCalls}

\* An empty device, and one where the peers exist.
MCDevices ==
  { NoPeers,
    [peers |-> (k1 :> NoAttrs) @@ (k2 :> attrs) @@ (k3 :> Absent),
     owner |-> (a :> k1) @@ (b :> Nobody) @@ (d :> k2)] }
=============================================================================
