SPECIFICATION SweepsSpec
CONSTANTS
  a1 = a1 a2 = a2 a3 = a3 f1 = f1 f2 = f2
  None = None
  Agents = {a1, a2}
  Artifacts = {f1, f2}
  HeartbeatTimeout = 1 MaxHold = 2 TransientTimeout = 1
  MaxVersion = 2 MaxEpoch = 1 MaxTick = 2
INVARIANTS IndInv
PROPERTIES OnlyEntitledPublish ReclaimOnlyStale ClaimsExpire
