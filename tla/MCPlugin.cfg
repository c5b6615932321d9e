CONSTANTS
  TopLevel = {A, B}
  Child = {c}
  NoSession = NoSession
  HeldCap = 1
  Fails = TRUE
  Chokes = TRUE
  MaxMsg = 2
  MaxOutage = 1
  MaxSay = 1
  MaxTurn = 1
SPECIFICATION Spec
SYMMETRY Alike
INVARIANTS
  HubKnowsTheTurn
  
  NothingHangs
CHECK_DEADLOCK FALSE
