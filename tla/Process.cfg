SPECIFICATION ProcessSpec
CONSTANTS
  Actors = {a1, a2, a3, a4}
  Stuck = {a1}
  None = None
  MaxTicks = 2
  Users = {u1, u2}
  NoDesk = NoOne
  MaxDesktops = 4
  MaxErrCount = 3
  MaxDesktopEvents = 2
  Plain = {p1, p2}
  Repeated = {r1}
  OnShutdown = {s1, s2}
  StuckGoroutines = {p1}
INVARIANT RunAccounted
PROPERTIES GroupStops  ActorsStop 
CHECK_DEADLOCK FALSE
