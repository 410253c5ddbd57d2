SPECIFICATION SshSpec
CONSTANTS
  Origins = {scan}
  Window = 1
  AuthTail = 2
  FailureLimit = 2
  Year = 3
  MaxSecond = 4
  MaxAuthLines = 2
INVARIANTS
  NoneInFuture
