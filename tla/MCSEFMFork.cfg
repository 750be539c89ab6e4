SPECIFICATION FairSpec
CONSTANTS
  Servants <- MCServants
  Sensors <- MCSensors
  Tasks <- MCTasks
  TaskOf <- MCTaskOf
  Relations <- MCRelations
  Let <- MCLet
  Period <- MCPeriod
  Priority <- MCPriority
  HookPeriods <- MCHookPeriods
  FirstTick = 11
  HookStart = 20
  HeapEvents = 11
  R = R
  Idle = Idle
  None = None
  MaxTick = 80
  SlowTicks <- MCSlowTicks
  MaxMissed = 1
INVARIANTS
  IInv
  EventPerRelation
  NoArrivedTwice
  RunToCompletion
  NoNullTransit
  InputsComplete
PROPERTIES
  RoundsKeepPeriod
  ImplementsRounds
  RoundsComplete
