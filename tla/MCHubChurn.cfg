CONSTANTS
  a = a
  b = b
  o = o
  ca = ca
  ca2 = ca2
  cb = cb
  co = co
  co2 = co2
  NoName = NoName
  NoConn = NoConn
  System = System
  Everyone = Everyone
  Transcript = Transcript
  Name = {a, b}
  Conn = {ca, ca2, cb}
  Slow = {ca}
  Fragile = {ca}
  QueueCap = 2
  WakeCap = 1
  ContextCap = 1
  Backlog = 1
  RecentWindow = 1
  ConfigRounds = 3
  OutboundMax = 1
  Hellos <- ChurnHellos
  Says <- ChurnSays
  Reports = {"idle"}
  Cmds <- None
  Others = {"bye", "pong"}
  Screens = {"pass"}
  Lapses = {"pong", "silence"}
  Crashes = FALSE
  MaxId = 3
  MaxLimit = 4
  MaxEvicted = 2
SPECIFICATION Spec
INVARIANTS
  OneNameOneConnection
  IdleMeansDrained
  SessionDoneNotMissed
