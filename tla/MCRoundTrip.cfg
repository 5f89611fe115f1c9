\* Configurations and messages are built and parsed in turn.  A configuration
\* that is rejected ends the exchange.
CONSTANTS
  zero = zero
  key = key
  v4 = v4
  v6 = v6
  value = value
  long = long
  nul = nul
  None = None
  KeyBytes = {zero, key}
  Zero = zero
  Addresses = {v4, v6}
  Ipv4 = {v4}
  TooLong = {long}
  HasNul = {nul}
  U16_MAX = 135
  I64_MAX = 3
  NANOS_PER_SECOND = 2
  Values = {value, long, nul}
  Bits = {0, 1, 2, 3}
  GivenConfigs <- MCGivenConfigs
  GivenMessages <- MCGivenMessages
SPECIFICATION Spec
CHECK_DEADLOCK FALSE
INVARIANTS
  RemovalIsSeen
  NeverAnotherTime
  WrittenBackUnchanged
  ReadIsAccepted
