\* Creation, deletion, suspension and priorities of tasks
SPECIFICATION TaskSpec
CONSTANTS
    control = control
    child = child
    worker = worker
    Idle = Idle
    Task <- MCTask
    Creation <- MCCreation
    Priority <- MCPriority
    MaxPriorities = 3
    EventLists = {}
    TickWidth = 2
    OverflowWidth = 2
    Preemption = TRUE
    MaxMissed = 1
    Calls <- MCCalls
    IsrResumes = {worker}
    DelayTimes <- MCDelayTimes
    NewPriorities = {0, 2}
INVARIANTS
    OneList
    HighestPriorityRuns
