CONSTANTS
  NoFrame = NoFrame
  Sayer = {s1}
  Hook = {h1}
  Chokes = FALSE
  Impatient = FALSE
  Signals = TRUE
  MaxConn = 2
  MaxTries = 1
SPECIFICATION LiveSpec

  
PROPERTIES
  SayAnswered
  OutageEnds
CHECK_DEADLOCK FALSE
