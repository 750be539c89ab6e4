SPECIFICATION Spec
CONSTANTS
  Servants <- MCServants
  Sensors <- MCSensors
  Tasks <- MCTasks
  TaskOf <- MCTaskOf
  Relations <- MCRelations
  Let <- MCLet
  Period <- MCPeriod
  Priority <- MCPriority
  HookPeriods <- MCHookPeriods
  FirstTick = 5
  HookStart = 8
  HeapEvents = 4
  R = R
  Idle = Idle
  None = None
  MaxTick = 24
  SlowTicks <- MCSlowTicks
  MaxMissed = 1
INVARIANTS
  NoLostWakeup
