CONSTANTS
  Agents = {1, 2, 3}
  None = None
  ttl_ticks = 2
  max_accesses = 1
  latency_ticks = 1
  transient_timeout = 2
  sim_heartbeat_timeout = 2
  sim_max_hold = 3
  SimStrategies = {"lazy", "lease", "access_count", "eager", "broadcast", "blind"}
  duration_ticks = 3
  MaxSimCommits = 2
  MaxFaults = 2
  n1 = n1
  n2 = n2
SYMMETRY NodeSymmetry
SPECIFICATION MCSpec
INVARIANTS  ReportIsRight
CHECK_DEADLOCK FALSE
