CONSTANTS
  Procs = {p1, p2}
  Ports = {1, 2, 3}
  None = None
  port_file_retry_attempts = 2
  inode_revalidation_budget = 1
  MAX_SHUTDOWN_RETRIES = 3
  MaxCalls = 3
  MaxRemovals = 2
  MaxFaults = 2
SPECIFICATION FairSpec
 
PROPERTIES EveryCallReturns
CHECK_DEADLOCK FALSE
