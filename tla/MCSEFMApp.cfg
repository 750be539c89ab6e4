SPECIFICATION Spec
CONSTANTS
  Servants <- AppServants
  Sensors <- AppSensors
  Tasks <- MCTasks
  TaskOf <- xTaskOfServant
  Relations <- xRelations
  Let <- xLetOfServant
  Period <- xPeriodOfTask
  Priority <- AppPriority
  HookPeriods <- AppHookPeriods
  FirstTick = 100
  HookStart <- AppHookStart
  HeapEvents = 22
  R = R
  Idle = Idle
  None = None
  MaxTick = 5200
  SlowTicks <- MCSlowTicks
  MaxMissed = 1
INVARIANTS
  MeetsDeadline
  NoLostWakeup
