\* Every reply to every part of a call.  A call that has returned is over.
CONSTANTS
  zero = zero
  public = public
  private = private
  preshared = preshared
  value = value
  long = long
  nul = nul
  v4 = v4
  None = None
  KeyBytes = {zero, public, private, preshared}
  Zero = zero
  Addresses = {v4}
  Ipv4 = {v4}
  TooLong = {long}
  HasNul = {nul}
  U16_MAX = 65535
  I64_MAX = 3
  NANOS_PER_SECOND = 2
  Configs <- MCConfigs
  Acks <- MCAcks
  SetCalls <- MCSetCalls
  GetRequest <- MCGetRequest
  Dumps <- MCDumps
SPECIFICATION Spec
CHECK_DEADLOCK FALSE
INVARIANTS
  NoKeyShown
  ErrorShowsRequest
