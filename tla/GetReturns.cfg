\* get_by_name() returns, also when the task stops half-way.
CONSTANTS
  k1 = k1
  k2 = k2
  a = a
  b = b
  d = d
  some = some
  NoAttrs = NoAttrs
  Absent = Absent
  Nobody = Nobody
  Keys = {k1, k2}
  Ips = {a, b, d}
  Attrs <- MCAttrs
  AttrsLen <- MCAttrsLen
  U16_MAX = 143
  IpsLen <- MCIpsLen
  Configs <- MCConfigs
  AddressOf <- MCAddressOf
  Devices <- MCDevices
  IfaceNames = {"valid", "too_long", "has_nul"}
  MaxChanges = 1
SPECIFICATION Spec
PROPERTY EveryGetReturns
