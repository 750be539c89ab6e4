\* Delays, missed ticks and the overflow of the tick count
SPECIFICATION FairTaskSpec
CONSTANTS
    cyclic = cyclic
    waiter = waiter
    locker = locker
    Idle = Idle
    Task <- MCTask
    Creation <- MCCreation
    Priority <- MCPriority
    MaxPriorities = 3
    EventLists = {}
    TickWidth = 4
    OverflowWidth = 2
    Preemption = TRUE
    MaxMissed = 2
    Calls <- MCCalls
    IsrResumes = {}
    DelayTimes <- MCDelayTimes
    NewPriorities = {}
INVARIANTS
    NoLateWake
    NoEarlyWake
PROPERTY EqualShare
