CONSTANTS
  a1 = a1
  a2 = a2
  p1 = p1
  None = None
  Agents = {a1, a2}
  Paths = {p1}
  Parent <- Subagent
  Threads = {1, 2}
  DrainMayTimeOut = TRUE
  MaxRequests = 4
SPECIFICATION MCSpec
INVARIANTS ServerIsSound
PROPERTIES  ShutdownCompletes
