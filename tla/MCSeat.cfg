CONSTANTS
  Peer = {"peer"}
  RingCap = 2
  BacklogCap = 2
  MaxDay = 5
  MaxLine = 2
  MaxPoll = 1
  MaxEvent = 1
SPECIFICATION LiveSpec
INVARIANTS
  RingIsComplete
  AnswersFindTheirAsker
  KnowsTheFloor
PROPERTIES
  SeatEnds
CHECK_DEADLOCK FALSE
