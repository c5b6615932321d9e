CONSTANTS
  NoProc = NoProc
  NoHome = NoHome
  Stale = Stale
  Blank = Blank
  Proc = {p1, p2}
  Home = {h1, h2}
  Talk = {h1}
  MaxDay = 2
  MaxId = 2
  MaxFaults = 1
SPECIFICATION Spec
SYMMETRY Alike
INVARIANTS
  HomeIsItsOwn
  HistoryKept
PROPERTIES
  RendezvousKept
