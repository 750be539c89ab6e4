\* The scheduling and the priorities of src/freertos/FreeRTOSConfig.h
SPECIFICATION Spec
CONSTANTS
    sensor = sensor
    servant = servant
    rServant = rServant
    sensorSem = sensorSem
    servantSem = servantSem
    rSem = rSem
    Idle = Idle
    Task <- MCTask
    Priority <- MCPriority
    Semaphores <- MCSemaphores
    Calls <- MCCalls
    HookGives = {rSem}
    Preemption = FALSE
    NestingWidth = 16
    KernelPriority = 127
    MaxSyscallPriority = 191
INVARIANTS
    NobodySleepsGiven
