\* Waiting, waking and timing out, with interrupts that send and receive
SPECIFICATION Spec
CONSTANTS
    producer = producer
    consumer = consumer
    observer = observer
    mailbox = mailbox
    Idle = Idle
    Null = Null
    Task <- MCTask
    Creation <- MCCreation
    Priority <- MCPriority
    MaxPriorities = 3
    EventLists <- MCEventLists
    TickWidth = 2
    OverflowWidth = 2
    Preemption = TRUE
    MaxMissed = 1
    Calls <- MCCalls
    IsrResumes = {}
    DelayTimes = {}
    NewPriorities = {}
    Queues = {mailbox}
    Mutexes = {}
    Length <- MCLength
    Items = {1}
    WaitTimes <- MCWait
    IsrSends = {mailbox}
    IsrReceives = {mailbox}
    MaxLock = 2
INVARIANTS
    QueueTypeOK
    WokenForEach
    LockedBySuspender
    HighestFirst
