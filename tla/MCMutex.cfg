\* Priority inheritance
SPECIFICATION Spec
CONSTANTS
    low = low
    middle = middle
    high = high
    mutex = mutex
    Idle = Idle
    Null = Null
    Task <- MCTask
    Creation <- MCCreation
    Priority <- MCPriority
    MaxPriorities = 4
    EventLists <- MCEventLists
    TickWidth = 4
    OverflowWidth = 2
    Preemption = TRUE
    MaxMissed = 1
    Calls <- MCCalls
    IsrResumes = {}
    DelayTimes = {1}
    NewPriorities = {}
    Queues = {mutex}
    Mutexes = {mutex}
    Length <- MCLength
    Items = {1}
    WaitTimes <- MCWait
    IsrSends = {}
    IsrReceives = {}
    MaxLock = 1
INVARIANTS
    Inheritance
    NoEarlyTimeout
PROPERTIES
    ImplementsBlockingQueue
