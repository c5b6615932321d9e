CONSTANTS
  NoFrame = NoFrame
  Sayer = {s1, s2}
  Hook = {}
  Chokes = TRUE
  Impatient = TRUE
  Signals = FALSE
  MaxConn = 2
  MaxTries = 2
SPECIFICATION Spec
SYMMETRY Alike
INVARIANTS
  StreamTypeOK
  NoSayParkedInGap
  AnswersMatch
  
CHECK_DEADLOCK FALSE
