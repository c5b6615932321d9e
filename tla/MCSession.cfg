CONSTANTS
  NoStream = NoStream
  Stale = Stale
  Stream = {s1, s2}
  Reader = {r1, r2}
  Harms = {"drop", "kill stream", "kill reader"}
  MaxMsg = 2
SPECIFICATION LiveSpec
INVARIANTS
  SocketServes
  LinesShownOnce
  
PROPERTIES
  ReadInTheEnd
