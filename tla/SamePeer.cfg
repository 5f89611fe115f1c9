\* One clone removes a peer while another is half-way through setting it.
CONSTANTS
  c1 = c1
  c2 = c2
  k1 = k1
  k2 = k2
  k3 = k3
  a = a
  b = b
  d = d
  attrs = attrs
  large = large
  two_peers = two_peers
  remove_k1 = remove_k1
  remove_k2 = remove_k2
  no_key = no_key
  NoAttrs = NoAttrs
  Absent = Absent
  Nobody = Nobody
  Nothing = Nothing
  Clients = {c1, c2}
  Keys = {k1, k2, k3}
  Ips = {a, b, d}
  Attrs <- MCAttrs
  AttrsLen <- MCAttrsLen
  U16_MAX <- MCU16_MAX
  IpsLen <- MCIpsLen
  Configs <- MCConfigs
  Calls <- MCCalls
  ConfigOf <- MCConfigOf
  BuiltOf <- MCBuiltOf
  MessagesOf <- MCMessagesOf
  CallsOf <- MCSamePeerCallsOf
  Devices <- MCDevices
  MaxCalls = 2
SPECIFICATION Spec
INVARIANT ContinuationFindsPeer
