CONSTANTS
  a = a
  b = b
  o = o
  ca = ca
  ca2 = ca2
  cb = cb
  co = co
  co2 = co2
  NoName = NoName
  NoConn = NoConn
  System = System
  Everyone = Everyone
  Transcript = Transcript
  Name = {a, b}
  Conn = {ca, cb}
  Slow <- None
  Fragile = {cb}
  QueueCap = 2
  WakeCap = 1
  ContextCap = 1
  Backlog = 1
  RecentWindow = 1
  ConfigRounds = 2
  OutboundMax = 2
  Hellos <- LiveHellos
  Says <- LiveSays
  Reports = {}
  Cmds <- None
  Others = {"roster", "malformed"}
  Screens = {"pass", "rate_limited"}
  Lapses = {"infer"}
  Crashes = FALSE
  MaxId = 3
  MaxLimit = 4
  MaxEvicted = 2
SPECIFICATION LiveSpec
PROPERTIES
  GoneIsReaped
  QueuedIsHandedOver
