CONSTANTS
  Agents = {a1, a2}
  None = None
  ttl_ticks = 4
  max_accesses = 2
  heartbeat_timeout_ticks = 4
  max_hold_ticks = 5
  Strategies = {"lazy", "lease", "eager"}
  Clock = {0, 1, 4, 7}
  MaxCommits = 3
SYMMETRY AgentSymmetry
SPECIFICATION MCSpec
INVARIANTS CopiesAreHonest ReplayIsRight
PROPERTIES StoreStepsAreExact
CHECK_DEADLOCK FALSE
