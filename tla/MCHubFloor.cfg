CONSTANTS
  a = a
  b = b
  o = o
  ca = ca
  ca2 = ca2
  cb = cb
  co = co
  co2 = co2
  NoName = NoName
  NoConn = NoConn
  System = System
  Everyone = Everyone
  Transcript = Transcript
  Name = {a, b, o}
  Conn = {ca, cb, co}
  Slow <- None
  Fragile <- None
  QueueCap = 2
  WakeCap = 1
  ContextCap = 1
  Backlog = 1
  RecentWindow = 1
  ConfigRounds = 2
  OutboundMax = 2
  Hellos <- FloorHellos
  Says <- FloorSays
  Reports = {"idle"}
  Cmds <- FloorCmds
  Others <- None
  Screens = {"pass"}
  Lapses = {"infer"}
  Crashes = FALSE
  MaxId = 3
  MaxLimit = 3
  MaxEvicted = 1
SPECIFICATION Spec

  
PROPERTIES
  KeepsTheFloor
  
