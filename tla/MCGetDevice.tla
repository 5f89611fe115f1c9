---------------------------- MODULE MCGetDevice ----------------------------
(***************************************************************************)
(* Dumps of devices with up to two peers and three allowed IPs, cut at     *)
(* every place, while others change the device up to twice.                *)
(***************************************************************************)
EXTENDS GetDevice, TLC

CONSTANTS k1, k2, a, b, d, some

MCAttrs == {NoAttrs, some}
MCAttrsLen == [v \in MCAttrs |-> IF v = NoAttrs THEN 0 ELSE 36]

MCIpsLen(p, lo, hi) ==
  FoldLeft(LAMBDA len, ip : len + IpLen(ip), 0, SubSeq(p.allowed_ips, lo + 1, hi))

MCAddressOf ==
  [ip \in Ips |-> [ip |-> ip, is_ipv4 |-> ip # b,
                   prefix_length |-> IF ip = b THEN 128 ELSE 32, flags |-> {}]]

MCConfigs == {}

\* Nobody; two peers that share the IPs; one of two that has them all.
MCDevices ==
  { NoPeers,
    [peers |-> (k1 :> some) @@ (k2 :> NoAttrs), owner |-> (a :> k1) @@ (b :> k1) @@ (d :> k2)],
    [peers |-> (k1 :> some) @@ (k2 :> some), owner |-> (a :> k2) @@ (b :> k2) @@ (d :> k2)] }
=============================================================================
