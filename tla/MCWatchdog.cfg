CONSTANTS
  a = a
  b = b
  o = o
  Agent = {a, b}
  Observer = {o}
  Capable = {a}
  Everyone = Everyone
  d1 = d1
  d2 = d2
  Detail = {d1, d2}
  NoDetail = NoDetail
  DeadAfter = 0
  PongTimeout = 0
  DeadTtl = 0
  AssumeIdleAfter = 1
  BlockedAfter = 0
  StallAfter = 0
  QueueCap = 1
  WakeCap = 1
  Silent = {b}
  Fragile = {b}
  Says <- Talk
  Reports <- Moods
  MaxNow = 3
SPECIFICATION Spec
PROPERTIES
  
  OnlyTheSilentAreDropped
CHECK_DEADLOCK FALSE
