----------------------------- MODULE MCRoundTrip -----------------------------
(***************************************************************************)
(* Integers of three bits, a second of two nanoseconds, four flag bits of  *)
(* which one has no name: every flag value, every time, every combination  *)
(* of what a caller can leave out, one aspect at a time and in pairs.  One *)
(* attribute holds 128 bytes: three peers, or one with three allowed IPs.  *)
(***************************************************************************)
EXTENDS RoundTrip

CONSTANTS zero, key, v4, v6, value, long, nul

\* The fields of r, with those of s in their place.
With(r, s) == [name \in DOMAIN r \cup DOMAIN s |-> IF name \in DOMAIN s THEN s[name] ELSE r[name]]

-----------------------------------------------------------------------------

WireIps ==
  LET whole == [ip_addr |-> v4, prefix_length |-> 32, family |-> "Ipv4"]
      other == [ip_addr |-> v6, prefix_length |-> 128, family |-> "Ipv6", flags |-> {0, 3}]
  IN  {<< >>, <<whole, other>>, <<[ip_addr |-> v4], whole>>, <<other, [prefix_length |-> 1]>>}

BarePeer == [public_key |-> key]

KernelPeers ==
  {BarePeer}
    \cup {With(BarePeer, [last_handshake |-> [seconds |-> s, nano_seconds |-> n]]) :
            s \in I64, n \in I64}
    \cup {With(BarePeer, [flags |-> bits, allowed_ips |-> ips]) : bits \in SUBSET Bits, ips \in WireIps}
    \cup {With(BarePeer, [preshared_key |-> k, endpoint |-> value, rx_bytes |-> value]) :
            k \in {zero, key}}

FlaggedPeer == With(BarePeer, [flags |-> {1}])

MCGivenMessages ==
  {[iface_name |-> value, iface_index |-> value, peers |-> <<p>>] : p \in KernelPeers}
    \cup {[iface_index |-> value, private_key |-> k, flags |-> bits,
           peers |-> <<BarePeer, BarePeer>>] : k \in KeyBytes, bits \in SUBSET Bits}
    \cup {[iface_name |-> value, peers |-> <<BarePeer, BarePeer, p>>] : p \in {BarePeer, FlaggedPeer}}
    \cup {[iface_name |-> value, public_key |-> key, listen_port |-> value, fwmark |-> value]}

-----------------------------------------------------------------------------

NoPeer == [name \in PeerFieldNames |-> IF name = "public_key" THEN Encode(key) ELSE None]
NoConfig == [name \in DeviceFieldNames |-> None]

BadText == [is |-> "not base64", of |-> zero]
Texts == {None, BadText, Encode(zero), Encode(key)}

\* Named and unnamed spellings of the same bits, alone and together.
Spellings == {ParsedFlag({b}, PeerFlags) : b \in PeerFlags}
               \cup {[named |-> FALSE, bits |-> bits] : bits \in (SUBSET Bits) \ {{}}}
FlagLists == {None, {}} \cup {{f, g} : f \in Spellings, g \in Spellings}

CallerIps == {None, << >>}
               \cup {<<[ip_addr |-> ip, prefix_length |-> n, flags |-> f]>> :
                       ip \in Addresses, n \in {32, 33, 128, 129},
                       f \in {None, {[named |-> FALSE, bits |-> {0}]}}}

CallerPeers ==
  {With(NoPeer, [last_handshake |-> [secs |-> s, nanos |-> n]]) :
     s \in U64, n \in 0..NANOS_PER_SECOND - 1}
    \cup {With(NoPeer, [flags |-> f, allowed_ips |-> ips]) :
            f \in FlagLists, ips \in {None, << >>, <<[ip_addr |-> v4, prefix_length |-> 0, flags |-> None]>>}}
    \cup {With(NoPeer, [allowed_ips |-> ips]) : ips \in CallerIps}
    \cup {With(NoPeer, [public_key |-> t, preshared_key |-> u]) : t \in Texts, u \in Texts}

\* Lists of peers that are far from the limit, meet it exactly, and miss it by
\* the least there is: in the number of peers, their attributes and allowed IPs.
CallerPeerLists ==
  LET flagged == With(NoPeer, [flags |-> {ParsedFlag({1}, PeerFlags)}])
      kept == With(flagged, [persistent_keepalive |-> value])
      ip == [ip_addr |-> v4, prefix_length |-> 32, flags |-> None]
      withIps(n, flags) ==
        With(NoPeer, [flags |-> flags, allowed_ips |-> [i \in 1..n |-> ip]])
  IN  {<<NoPeer, NoPeer, p>> : p \in {NoPeer, flagged, kept}}
        \cup {<<withIps(n, f)>> : n \in 2..4, f \in {None, {ParsedFlag({RemoveMe}, PeerFlags)}}}

MCGivenConfigs ==
  {With(NoConfig, [iface_name |-> value, peers |-> ps]) : ps \in CallerPeerLists} \cup
  {With(NoConfig, [iface_name |-> value, peers |-> <<p>>]) : p \in CallerPeers}
    \cup {With(NoConfig, [iface_name |-> n, iface_index |-> i, private_key |-> t, peers |-> ps]) :
            n \in {None, value, long, nul}, i \in {None, value}, t \in Texts, ps \in {None, << >>}}
=============================================================================
