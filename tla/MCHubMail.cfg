CONSTANTS
  a = a
  b = b
  o = o
  ca = ca
  ca2 = ca2
  cb = cb
  co = co
  co2 = co2
  NoName = NoName
  NoConn = NoConn
  System = System
  Everyone = Everyone
  Transcript = Transcript
  Name = {a, b, o}
  Conn = {ca, ca2, co}
  Slow <- None
  Fragile = {ca}
  QueueCap = 2
  WakeCap = 1
  ContextCap = 1
  Backlog = 1
  RecentWindow = 2
  ConfigRounds = 5
  OutboundMax = 2
  Hellos <- MailHellos
  Says <- MailSays
  Reports = {"idle"}
  Cmds <- None
  Others <- None
  Screens = {"pass"}
  Lapses = {"ttl"}
  Crashes = TRUE
  MaxId = 3
  MaxLimit = 4
  MaxEvicted = 2
SPECIFICATION Spec
INVARIANTS
  TypeOK
  OldestFirst
  PrivateStaysPrivate
PROPERTIES
  
  ObserversSeeAll
  KeepsTheFloor
