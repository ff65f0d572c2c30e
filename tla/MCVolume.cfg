CONSTANTS
  c1 = c1
  c2 = c2
  orphan = orphan
  p1 = p1
  p2 = p2
  Human = Human
  None = None
  Orphan = orphan
  Agents <- AllAgents
  Clients = {c1, c2}
  Paths = {p1, p2}
  Fleets <- PassingFleets
  Careful = TRUE
  KnownPaths = TRUE
  MAX_CAS_REACQUIRES = 1
  MaxCalls = 3
  MaxServiceCalls = 2
  MaxFaults = 1
SPECIFICATION MCSpec
INVARIANTS  DiskIsSound
PROPERTIES EveryCallReturns KillsAreHarmless
