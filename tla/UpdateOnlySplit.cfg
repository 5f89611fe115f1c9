\* A large peer that is only to be updated is created by its continuation.
CONSTANTS
  k1 = k1
  k2 = k2
  a = a
  b = b
  attrs = attrs
  NoAttrs = NoAttrs
  Absent = Absent
  Nobody = Nobody
  Keys = {k1, k2}
  Ips = {a, b}
  Attrs <- MCAttrs
  AttrsLen <- MCAttrsLen
  U16_MAX <- MCU16_MAX
  IpsLen <- MCIpsLen
  Configs <- MCConfigs
  Devices <- MCDevices
SPECIFICATION Spec
INVARIANT SplitIsTransparent
