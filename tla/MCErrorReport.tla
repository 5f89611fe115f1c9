---------------------------- MODULE MCErrorReport ----------------------------
(***************************************************************************)
(* Every combination of keys a message may hold, in calls of one and two   *)
(* parts, and configurations with one mistake and with several.            *)
(***************************************************************************)
EXTENDS ErrorReport

CONSTANTS zero, public, private, preshared, value, long, nul, v4

With(r, s) == [name \in DOMAIN r |-> IF name \in DOMAIN s THEN s[name] ELSE r[name]]

NoConfig == [name \in DeviceFieldNames |-> None]
NoPeer == [name \in PeerFieldNames |-> None]

NotAKey(key) == [is |-> "not base64", of |-> key]

RefusedPeers ==
  LET ip(n) == [ip_addr |-> v4, prefix_length |-> n, flags |-> None]
      named == With(NoPeer, [public_key |-> Encode(public)])
  IN  {With(NoPeer, [preshared_key |-> Encode(preshared)]),
       With(named, [preshared_key |-> NotAKey(preshared), allowed_ips |-> <<ip(32), ip(33)>>]),
       With(named, [public_key |-> NotAKey(private)])}

MCConfigs ==
  {With(NoConfig, [iface_name |-> n, private_key |-> k, peers |-> ps]) :
     n \in {None, value, long, nul}, k \in {Encode(private), NotAKey(private)},
     ps \in {None} \cup {<<p>> : p \in RefusedPeers}}
    \cup {With(NoConfig, [iface_name |-> n]) : n \in {long, nul}}

MCAcks == {[extended_ack |-> value]}

MCPeers ==
  {[public_key |-> public], [public_key |-> public, flags |-> {0}]}
    \cup {[public_key |-> public, preshared_key |-> k] : k \in {zero, preshared}}

First ==
  {[iface_name |-> value, peers |-> <<p, q>>] : p \in MCPeers, q \in MCPeers}
    \cup {[iface_name |-> value, private_key |-> private, peers |-> <<p>>] : p \in MCPeers}
    \cup {[iface_index |-> value, private_key |-> private]}

\* Later parts name the interface and hold peers only.
Later == {[iface_name |-> value, peers |-> <<p>>] : p \in MCPeers}

MCSetCalls == {<<m>> : m \in First} \cup {<<m, n>> : m \in First, n \in Later}

MCGetRequest == [iface_name |-> value]

MCDumps ==
  {[iface_name |-> value, iface_index |-> value, public_key |-> public,
    private_key |-> private, peers |-> <<p, q>>] : p \in MCPeers, q \in MCPeers}
=============================================================================
