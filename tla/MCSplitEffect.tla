---------------------------- MODULE MCSplitEffect ----------------------------
(***************************************************************************)
(* Small configurations around a message limit of 136 bytes, which holds   *)
(* up to three allowed IPs of a peer without attributes, two small peers,  *)
(* and to the byte: two IPv4 ones of a peer with attributes, or a peer     *)
(* with flags and no IP followed by one with an IPv6 one.                  *)
(***************************************************************************)
EXTENDS SplitEffect

CONSTANTS k1, k2, a, b, attrs

MCAttrs == {NoAttrs, attrs}
MCAttrsLen == [v \in MCAttrs |-> IF v = NoAttrs THEN 0 ELSE 36]
MCU16_MAX == 143

MCIpsLen(p, lo, hi) ==
  FoldLeft(LAMBDA len, ip : len + IpLen(ip), 0, SubSeq(p.allowed_ips, lo + 1, hi))

Ip(ip, is_ipv4, flags) ==
  [ip |-> ip, is_ipv4 |-> is_ipv4, prefix_length |-> 32, flags |-> flags]

A == Ip(a, TRUE, {})
B == Ip(b, FALSE, {})
B4 == Ip(b, TRUE, {})
DropA == Ip(a, TRUE, {"RemoveMe"})
FlaggedB == Ip(b, FALSE, {"Other"})

IpLists ==
  { << >>, <<A>>, <<B>>, <<A, B4>>, <<A, B>>, <<A, FlaggedB>>, <<A, B, A>>, <<B, DropA, A, B>>, <<A, A, A, DropA, B>> }

PeerWith(key, value, flags, has_ips, ips) ==
  [public_key |-> key, preshared_key |-> "none", attrs |-> value,
   flags |-> flags, has_allowed_ips |-> has_ips, allowed_ips |-> ips]

FlagSets == {{}, {"Other"}, {"RemoveMe"}, {"UpdateOnly"}, {"ReplaceAllowedIps"},
             {"RemoveMe", "ReplaceAllowedIps"}}

PeersWith(key) ==
  { PeerWith(key, value, flags, TRUE, ips) :
      value \in MCAttrs, flags \in FlagSets, ips \in IpLists }
    \cup { PeerWith(key, value, flags, FALSE, << >>) :
             value \in MCAttrs, flags \in {{}, {"RemoveMe"}} }

\* Second and third entries: another peer, or the same one again.
Others ==
  { PeerWith(key, NoAttrs, flags, TRUE, ips) :
      key \in {k1, k2}, flags \in {{}, {"RemoveMe"}, {"ReplaceAllowedIps"}},
      ips \in {<<A>>, <<B>>, <<A, B, DropA>>, <<B, A, A, B, A>>} }

Good(peers_of, replace) ==
  [iface_name |-> "valid", iface_index |-> FALSE, keys_valid |-> TRUE,
   replace_peers |-> replace, peers |-> peers_of]

GoodConfigs ==
  { Good(list, replace) :
      list \in {<< >>} \cup {<<p>> : p \in PeersWith(k1)}
                 \cup {<<p, q>> : p \in PeersWith(k1), q \in Others}
                 \cup {<<q, p, o>> : q \in {o \in Others : o.public_key = k2},
                                     p \in {PeerWith(k1, attrs, {}, TRUE, <<A, A>>)},
                                     o \in Others},
      replace \in BOOLEAN }

\* Configurations with mistakes, in a message of their own or in a later one.
BadPeers ==
  LET p == PeerWith(k1, NoAttrs, {}, TRUE, <<A>>)
  IN  { [p EXCEPT !.public_key = "missing"], [p EXCEPT !.public_key = "invalid"],
        [p EXCEPT !.preshared_key = "invalid"],
        [p EXCEPT !.allowed_ips = <<A, [A EXCEPT !.prefix_length = 33]>>],
        [p EXCEPT !.allowed_ips = <<[B EXCEPT !.prefix_length = 128], B>>] }

MixedConfigs ==
  { [Good(list, FALSE) EXCEPT !.iface_name = iface_name, !.iface_index = iface_index,
                              !.keys_valid = keys_valid] :
      iface_name \in {"none", "valid", "too_long", "has_nul"},
      iface_index \in BOOLEAN, keys_valid \in BOOLEAN,
      list \in {<< >>} \cup { <<p, q>> : p, q \in BadPeers \cup
                  {PeerWith(k2, attrs, {}, TRUE, <<A, A, A, B>>)} } }

MCConfigs == GoodConfigs \cup MixedConfigs

\* Every device there is with these keys, IPs and attributes.
MCDevices == {dev \in Device : ConsistentDevice(dev)}
=============================================================================
