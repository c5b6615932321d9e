CONSTANTS
  Key = {k1, k2}
  Burst = 2
  Messages = 2
  Window = 3
  Dedup = 2
  MaxNow = 7
  MaxSays = 6
SPECIFICATION GateSpec
INVARIANTS
  RateBound
  NoTwins
  RefusalsAreFair
CHECK_DEADLOCK FALSE
