------------------------------- MODULE Tasks -------------------------------
(***************************************************************************)
(* The scheduler, tasks.c: tasks in lists by state, the tick count and its *)
(* overflow, delays, suspension of tasks and of the scheduler, priorities, *)
(* creation and deletion.  Tasks call any function their code contains     *)
(* (Calls) at any time; the tick interrupt and one that resumes tasks come *)
(* at any point outside of critical sections.                              *)
(*                                                                         *)
(* A critical section is one step, and so is a stretch with the scheduler  *)
(* suspended in which interrupts can change nothing the stretch uses.      *)
(* `left' and `since' are history variables: they measure real time.       *)
(***************************************************************************)
EXTENDS Integers, Sequences, FiniteSets, SequencesExt

CONSTANTS
    Task,           \* the application's tasks
    Idle,           \* the idle task
    Creation,       \* tasks created before vTaskStartScheduler, in that order
    Priority,       \* the priority each task is created with
    MaxPriorities,  \* configMAX_PRIORITIES
    EventLists,     \* the lists tasks wait in, two for each queue
    TickWidth,      \* number of values of portTickType
    OverflowWidth,  \* number of values of xNumOfOverflows
    Preemption,     \* configUSE_PREEMPTION
    MaxMissed,      \* bound on the ticks one suspension of the scheduler spans
    Calls,          \* the functions each task's code calls
    IsrResumes,     \* tasks an interrupt handler resumes
    DelayTimes,     \* arguments of vTaskDelay and vTaskDelayUntil
    NewPriorities   \* arguments of vTaskPrioritySet

AllTasks   == Task \cup {Idle}
Priorities == 0 .. MaxPriorities - 1
Ticks      == 0 .. TickWidth - 1
MaxDelay   == TickWidth - 1         \* portMAX_DELAY

ASSUME TasksAssumption ==
    /\ MaxPriorities \in Nat \ {0} /\ MaxMissed \in Nat /\ IsFiniteSet(Task)
    /\ Idle \notin Task /\ Creation \in Seq(Task) /\ IsInjective(Creation)
    /\ Priority \in [AllTasks -> Priorities] /\ Priority[Idle] = 0
    /\ TickWidth \in Nat \ {0, 1} /\ OverflowWidth \in Nat \ {0, 1}
    /\ DelayTimes \subseteq 1 .. TickWidth - 1 /\ NewPriorities \subseteq Priorities
    /\ Preemption \in BOOLEAN /\ IsrResumes \subseteq Task

VARIABLES
    pc,             \* where each task is
    pxCurrentTCB,
    ready,          \* pxReadyTasksLists, each in the order its tasks get their turn
    uxTopReadyPriority,
    delayed,        \* pxDelayedTaskList
    overflowed,     \* pxOverflowDelayedTaskList
    suspended,      \* xSuspendedTaskList: suspended, or waiting without a limit
    terminating,    \* xTasksWaitingTermination, uxTasksDeleted long
    events,         \* the lists of tasks that wait for an event
    pendingReady,   \* xPendingReadyList
    wake,           \* value of xGenericListItem: the time to wake
    evalue,         \* value of xEventListItem
    prio, base,     \* uxPriority, uxBasePriority
    xTickCount, xNumOfOverflows, xNextTaskUnblockTime,
    uxSchedulerSuspended, uxMissedTicks, xMissedYield,
    pendSV,         \* a context switch is requested
    resuming,       \* xTaskResumeAll is catching up with ticks; does it yield then
    previous,       \* *pxPreviousWakeTime of each task
    left,           \* ticks of real time each task still has to wait
    since           \* ticks of real time since `previous'

generic    == <<ready, uxTopReadyPriority, delayed, overflowed, suspended, terminating>>
eventItems == <<events, pendingReady>>
priorities == <<prio, base, evalue>>
clock      == <<xTickCount, xNumOfOverflows, xNextTaskUnblockTime>>
scheduler  == <<uxSchedulerSuspended, uxMissedTicks, xMissedYield, resuming>>
history    == <<left, since>>
taskVars   == <<pc, pxCurrentTCB, generic, eventItems, wake, priorities, clock,
                scheduler, pendSV, previous, history>>

-----------------------------------------------------------------------------
(* Lists. vListInsertEnd makes an item the last to get its turn. *)

\* The tasks of s that are in us, in their order: each has as many before it as it
\* has now
Those(s, us) ==
    LET kept   == {i \in DOMAIN s : s[i] \in us}
        Nth(k) == CHOOSE i \in kept : Cardinality({j \in kept : j < i}) = k - 1
    IN  [k \in 1 .. Cardinality(kept) |-> s[Nth(k)]]

Without(s, us) == Those(s, ToSet(s) \ us)

(* Mutant: a task is put behind all others, whatever its priority. *)
InsertLast(s, t, value) == Append(s, t)

\* vListInsert: behind all items of at most the same value
Insert(s, t, value) ==
    LET later == {i \in DOMAIN s : value[s[i]] > value[t]}
        at    == IF later = {} THEN Len(s) + 1 ELSE CHOOSE i \in later : \A j \in later : i <= j
    IN  InsertAt(s, at, t)

\* prvAddTaskToReadyQueue for the tasks of us in turn, out of the list each is in
AddToReady(us, priority) ==
    /\ ready' = [p \in Priorities |-> Without(ready[p], ToSet(us))
                                        \o Those(us, {u \in AllTasks : priority[u] = p})]
    /\ LET tops == {priority[u] : u \in ToSet(us)} \cup {uxTopReadyPriority}
       IN  uxTopReadyPriority' = CHOOSE p \in tops : \A q \in tops : q <= p

MakeReady(us, priority) ==
    /\ AddToReady(us, priority)
    /\ delayed'    = Without(delayed, ToSet(us))
    /\ overflowed' = Without(overflowed, ToSet(us))
    /\ suspended'  = Without(suspended, ToSet(us))
    /\ UNCHANGED terminating

\* vListRemove of both items of u
RemoveFromLists(u) ==
    /\ ready'        = [p \in Priorities |-> Without(ready[p], {u})]
    /\ delayed'      = Without(delayed, {u})
    /\ overflowed'   = Without(overflowed, {u})
    /\ events'       = [l \in EventLists |-> Without(events[l], {u})]
    /\ pendingReady' = Without(pendingReady, {u})
    /\ UNCHANGED uxTopReadyPriority

IsReady(t)   == \E p \in Priorities : t \in ToSet(ready[p])
IsDelayed(t) == t \in ToSet(delayed) \cup ToSet(overflowed)
IsWaiting(t) == \E l \in EventLists : t \in ToSet(events[l])
IsAway(t)    == IsDelayed(t) \/ t \in ToSet(suspended)
Exists(t)    == IsReady(t) \/ IsAway(t)

-----------------------------------------------------------------------------
(* The tick. *)

\* vTaskIncrementTick with the scheduler running: prvCheckDelayedTasks looks at
\* the list only from the tick xNextTaskUnblockTime on
IncrementTick ==
    LET tick    == (xTickCount + 1) % TickWidth
        wraps   == tick = 0
        list    == IF wraps THEN overflowed ELSE delayed
        unblock == IF ~wraps THEN xNextTaskUnblockTime
                   ELSE IF list = <<>> THEN MaxDelay ELSE wake[Head(list)]
        later   == {i \in DOMAIN list : wake[list[i]] > tick}
        n       == IF tick < unblock THEN 0
                   ELSE IF later = {} THEN Len(list)
                   ELSE (CHOOSE i \in later : \A j \in later : i <= j) - 1
        due     == SubSeq(list, 1, n)
        rest    == SubSeq(list, n + 1, Len(list))
    IN  /\ xTickCount' = tick
        /\ xNumOfOverflows' = IF wraps THEN (xNumOfOverflows + 1) % OverflowWidth
                              ELSE xNumOfOverflows
        /\ xNextTaskUnblockTime' = IF tick < unblock THEN unblock
                                   ELSE IF rest = <<>> THEN MaxDelay ELSE wake[Head(rest)]
        /\ delayed' = rest
        /\ overflowed' = IF wraps THEN delayed ELSE overflowed
        /\ AddToReady(due, prio)
        /\ events' = [l \in EventLists |-> Without(events[l], ToSet(due))]
        /\ pendingReady' = Without(pendingReady, ToSet(due))
        /\ UNCHANGED <<suspended, terminating>>

PassTime == left' = [t \in AllTasks |-> IF left[t] > 0 THEN left[t] - 1 ELSE 0]
         /\ since' = [t \in AllTasks |-> IF since[t] < TickWidth /\ "vTaskDelayUntil" \in Calls[t]
                                         THEN since[t] + 1 ELSE since[t]]

\* xPortSysTickHandler
Tick ==
    /\ resuming = "no"
    /\ PassTime
    /\ pendSV' = (pendSV \/ Preemption)
    /\ \/ /\ uxSchedulerSuspended = 0
          /\ IncrementTick
          /\ UNCHANGED uxMissedTicks
       \/ /\ uxSchedulerSuspended > 0 /\ uxMissedTicks < MaxMissed
          /\ uxMissedTicks' = uxMissedTicks + 1
          /\ UNCHANGED <<generic, eventItems, clock>>
    /\ UNCHANGED <<pc, pxCurrentTCB, wake, priorities, uxSchedulerSuspended, xMissedYield,
                   resuming, previous>>

(* Mutant: the first task of the list gets every turn. *)
NextTurnStays(s) == s

\* listGET_OWNER_OF_NEXT_ENTRY: the task that gets its turn is the last to get the next
NextTurn(s) == Append(Tail(s), Head(s))

\* xPortPendSVHandler, vTaskSwitchContext
Switch ==
    /\ pendSV /\ resuming = "no"
    /\ pendSV' = FALSE
    /\ \/ /\ uxSchedulerSuspended > 0
          /\ xMissedYield' = TRUE
          /\ UNCHANGED <<pxCurrentTCB, ready, uxTopReadyPriority>>
       \/ /\ uxSchedulerSuspended = 0
          /\ LET inUse == {p \in 0 .. uxTopReadyPriority : ready[p] # <<>>}
                 top   == CHOOSE p \in inUse : \A q \in inUse : q <= p
             IN  /\ uxTopReadyPriority' = top
                 /\ pxCurrentTCB' = Head(ready[top])
                 /\ ready' = [ready EXCEPT ![top] = NextTurn(@)]
          /\ UNCHANGED xMissedYield
    /\ UNCHANGED <<pc, delayed, overflowed, suspended, terminating, eventItems, wake,
                   priorities, clock, uxSchedulerSuspended, uxMissedTicks, resuming,
                   previous, history>>

-----------------------------------------------------------------------------
(* Suspending and resuming the scheduler. *)

\* vTaskSuspendAll
SuspendAll == uxSchedulerSuspended' = uxSchedulerSuspended + 1

\* The end of xTaskResumeAll, and the portYIELD_WITHIN_API of its callers
YieldAfterResume(yield) ==
    /\ pendSV' = (yield \/ xMissedYield)
    /\ xMissedYield' = FALSE
    /\ resuming' = "no"

\* Whether one of us, just woken, is at least as important as the running task
WakesNoLower(us) == \E u \in ToSet(us) : prio[u] >= prio[pxCurrentTCB]

(* Mutant: the priorities of the pending tasks are not compared. *)
PendingRequireNoYield == FALSE

PendingRequireYield == WakesNoLower(pendingReady)

\* xTaskResumeAll up to the missed ticks; yield tells whether the caller yields anyway
ResumeAll(yield) ==
    /\ uxSchedulerSuspended' = uxSchedulerSuspended - 1
    /\ \/ /\ uxSchedulerSuspended > 1
          /\ UNCHANGED <<generic, pendingReady, pendSV, xMissedYield, resuming>>
       \/ /\ uxSchedulerSuspended = 1
          /\ MakeReady(pendingReady, prio)
          /\ pendingReady' = <<>>
          /\ LET required == yield \/ PendingRequireYield
             IN  IF uxMissedTicks = 0 THEN YieldAfterResume(required)
                 ELSE /\ resuming' = IF required \/ Preemption THEN "yields" ELSE "returns"
                      /\ UNCHANGED <<pendSV, xMissedYield>>
    /\ UNCHANGED <<events, wake, priorities, clock, uxMissedTicks, pxCurrentTCB, previous, history>>

\* The loop of xTaskResumeAll over the missed ticks, in its critical section
CatchUp ==
    /\ resuming # "no"
    /\ IncrementTick
    /\ uxMissedTicks' = uxMissedTicks - 1
    /\ IF uxMissedTicks = 1 THEN YieldAfterResume(resuming = "yields")
       ELSE UNCHANGED <<pendSV, xMissedYield, resuming>>
    /\ UNCHANGED <<pc, pxCurrentTCB, wake, priorities, uxSchedulerSuspended, previous, history>>

\* t executes code outside of interrupts
Executes(t) == t = pxCurrentTCB /\ ~pendSV /\ resuming = "no"

\* t may call f: not while it has suspended the scheduler
CallsFunction(t, f) ==
    Executes(t) /\ pc[t] = "run" /\ uxSchedulerSuspended = 0 /\ f \in Calls[t]

\* portYIELD_WITHIN_API if b
Yield(b) == pendSV' = b

TaskSuspendAll(t) ==
    /\ Executes(t) /\ pc[t] = "run" /\ "vTaskSuspendAll" \in Calls[t]
    /\ uxSchedulerSuspended < 2     \* nested once, as by pvPortMalloc
    /\ SuspendAll
    /\ UNCHANGED <<pc, pxCurrentTCB, generic, eventItems, wake, priorities, clock,
                   uxMissedTicks, xMissedYield, resuming, pendSV, previous, history>>

TaskResumeAll(t) ==
    /\ Executes(t) /\ pc[t] = "run" /\ uxSchedulerSuspended > 0
    /\ ResumeAll(FALSE)
    /\ UNCHANGED pc

-----------------------------------------------------------------------------
(* Delays. *)

WakeTime(ticks) == (xTickCount + ticks) % TickWidth

(* Mutant: the time of the next wake-up is left as it is. *)
UnblockTimeKept(time) == xNextTaskUnblockTime

UnblockTime(time) == IF time < xNextTaskUnblockTime THEN time ELSE xNextTaskUnblockTime

\* vListRemove and prvAddCurrentTaskToDelayedList
AddToDelayed(t, time) ==
    /\ ready' = [p \in Priorities |-> Without(ready[p], {t})]
    /\ wake' = [wake EXCEPT ![t] = time]
    /\ \/ /\ time < xTickCount
          /\ overflowed' = Insert(overflowed, t, wake')
          /\ UNCHANGED <<delayed, xNextTaskUnblockTime>>
       \/ /\ time >= xTickCount
          /\ delayed' = Insert(delayed, t, wake')
          /\ xNextTaskUnblockTime' = UnblockTime(time)
          /\ UNCHANGED overflowed
    /\ UNCHANGED <<uxTopReadyPriority, suspended, terminating, xTickCount, xNumOfOverflows>>

\* vTaskDelay up to xTaskResumeAll
Delay(t, ticks) ==
    /\ CallsFunction(t, "vTaskDelay")
    /\ SuspendAll
    /\ AddToDelayed(t, WakeTime(ticks))
    /\ pc' = [pc EXCEPT ![t] = "resume"]
    /\ left' = [left EXCEPT ![t] = ticks]
    /\ UNCHANGED <<pxCurrentTCB, eventItems, priorities, uxMissedTicks, xMissedYield,
                   resuming, pendSV, previous, since>>

(* Mutant: the overflow of the tick count is not considered. *)
ShouldDelayNoOverflow(t, time) == time > xTickCount

\* Whether time, an increment after previous[t], has not come yet
ShouldDelay(t, time) ==
    IF xTickCount < previous[t] THEN time < previous[t] /\ time > xTickCount
                                ELSE time < previous[t] \/ time > xTickCount

\* vTaskDelayUntil up to xTaskResumeAll, called within a cycle of the tick count
\* after the time it last woke at
DelayUntil(t, increment) ==
    LET time == (previous[t] + increment) % TickWidth
    IN  /\ CallsFunction(t, "vTaskDelayUntil") /\ since[t] \in 0 .. TickWidth - 1
        /\ SuspendAll
        /\ previous' = [previous EXCEPT ![t] = time]
        /\ \/ ShouldDelay(t, time) /\ AddToDelayed(t, time)
           \/ ~ShouldDelay(t, time) /\ UNCHANGED <<generic, wake, clock>>
        /\ pc' = [pc EXCEPT ![t] = "resume"]
        /\ left' = [left EXCEPT ![t] = IF increment > since[t] THEN increment - since[t] ELSE 0]
        /\ since' = [since EXCEPT ![t] = @ - increment]
        /\ UNCHANGED <<pxCurrentTCB, eventItems, priorities, uxMissedTicks, xMissedYield,
                       resuming, pendSV>>

\* The end of both
DelayResume(t) ==
    /\ Executes(t) /\ pc[t] = "resume"
    /\ ResumeAll(TRUE)
    /\ pc' = [pc EXCEPT ![t] = "run"]

-----------------------------------------------------------------------------
(* Tasks. *)

\* xTaskCreate with the scheduler running; the new task's code begins by reading
\* the tick count into *pxPreviousWakeTime
Create(t, u) ==
    /\ CallsFunction(t, "xTaskCreate") /\ ~Exists(u) /\ u \notin ToSet(terminating)
    /\ prio' = [prio EXCEPT ![u] = Priority[u]]
    /\ base' = [base EXCEPT ![u] = Priority[u]]
    /\ evalue' = [evalue EXCEPT ![u] = MaxPriorities - Priority[u]]
    /\ AddToReady(<<u>>, prio')
    /\ pc' = [pc EXCEPT ![u] = "run"]
    /\ previous' = [previous EXCEPT ![u] = xTickCount]
    /\ since' = [since EXCEPT ![u] = 0] /\ left' = [left EXCEPT ![u] = 0]
    /\ Yield(prio[t] < Priority[u])
    /\ UNCHANGED <<pxCurrentTCB, delayed, overflowed, suspended, terminating, eventItems,
                   wake, clock, scheduler>>

\* vTaskDelete, also of the calling task
Delete(t, u) ==
    /\ CallsFunction(t, "vTaskDelete") /\ Exists(u)
    /\ RemoveFromLists(u)
    /\ suspended' = Without(suspended, {u})
    /\ terminating' = Append(terminating, u)
    /\ left' = [left EXCEPT ![u] = 0]
    /\ Yield(u = t)
    /\ UNCHANGED <<pc, pxCurrentTCB, wake, priorities, clock, scheduler, previous, since>>

\* vTaskSuspend, also of the calling task
Suspend(t, u) ==
    /\ CallsFunction(t, "vTaskSuspend") /\ Exists(u)
    /\ RemoveFromLists(u)
    /\ suspended' = Append(Without(suspended, {u}), u)
    /\ left' = [left EXCEPT ![u] = 0]
    /\ Yield(u = t)
    /\ UNCHANGED <<pc, pxCurrentTCB, terminating, wake, priorities, clock, scheduler,
                   previous, since>>

(* Mutant: the list of pending tasks is not looked at. *)
IsTaskSuspendedOrPending(u) == u \in ToSet(suspended) /\ ~IsWaiting(u)

\* xTaskIsTaskSuspended: suspended, not waiting without a limit, nor resumed already
IsTaskSuspended(u) ==
    u \in ToSet(suspended) /\ u \notin ToSet(pendingReady) /\ ~IsWaiting(u)

\* vTaskResume
Resume(t, u) ==
    /\ CallsFunction(t, "vTaskResume") /\ u # t /\ IsTaskSuspended(u)
    /\ MakeReady(<<u>>, prio)
    /\ Yield(prio[u] >= prio[t])
    /\ UNCHANGED <<pc, pxCurrentTCB, eventItems, wake, priorities, clock, scheduler,
                   previous, history>>

\* xTaskResumeFromISR in an interrupt handler that yields when told to
ResumeFromISR(u) ==
    /\ resuming = "no" /\ u \in IsrResumes /\ IsTaskSuspended(u)
    /\ \/ /\ uxSchedulerSuspended = 0
          /\ MakeReady(<<u>>, prio)
          /\ pendSV' = (pendSV \/ prio[u] >= prio[pxCurrentTCB])
          /\ UNCHANGED pendingReady
       \/ /\ uxSchedulerSuspended > 0
          /\ pendingReady' = Append(pendingReady, u)
          /\ UNCHANGED <<generic, pendSV>>
    /\ UNCHANGED <<pc, pxCurrentTCB, events, wake, priorities, clock, scheduler,
                   previous, history>>

\* vTaskPrioritySet, also of the calling task
PrioritySet(t, u, new) ==
    /\ CallsFunction(t, "vTaskPrioritySet") /\ Exists(u) /\ base[u] # new
    /\ prio' = [prio EXCEPT ![u] = IF base[u] = @ THEN new ELSE @]
    /\ base' = [base EXCEPT ![u] = new]
    /\ evalue' = [evalue EXCEPT ![u] = MaxPriorities - new]
    /\ IF u \in ToSet(ready[base[u]]) THEN AddToReady(<<u>>, prio')
       ELSE UNCHANGED <<ready, uxTopReadyPriority>>
    /\ Yield(IF new > base[u] THEN u # t ELSE u = t)
    /\ UNCHANGED <<pc, pxCurrentTCB, delayed, overflowed, suspended, terminating, eventItems,
                   wake, clock, scheduler, previous, history>>

-----------------------------------------------------------------------------
(* The idle task, prvIdleTask and prvCheckTasksWaitingTermination. *)

IdleYield ==
    /\ Executes(Idle) /\ pc[Idle] = "run"
    /\ Preemption => Len(ready[0]) > 1
    /\ Yield(TRUE)
    /\ UNCHANGED <<pc, pxCurrentTCB, generic, eventItems, wake, priorities, clock, scheduler,
                   previous, history>>

\* The list is looked at with the scheduler suspended; only the idle task shortens it
IdleBegin ==
    /\ Executes(Idle) /\ pc[Idle] = "run" /\ terminating # <<>>
    /\ SuspendAll
    /\ pc' = [pc EXCEPT ![Idle] = "resume"]
    /\ UNCHANGED <<pxCurrentTCB, generic, eventItems, wake, priorities, clock, uxMissedTicks,
                   xMissedYield, resuming, pendSV, previous, history>>

IdleResume ==
    /\ Executes(Idle) /\ pc[Idle] = "resume"
    /\ ResumeAll(FALSE)
    /\ pc' = [pc EXCEPT ![Idle] = "free"]

IdleFree ==
    /\ Executes(Idle) /\ pc[Idle] = "free"
    /\ terminating' = Tail(terminating)
    /\ pc' = [pc EXCEPT ![Idle] = "run"]
    /\ UNCHANGED <<pxCurrentTCB, ready, uxTopReadyPriority, delayed, overflowed, suspended,
                   eventItems, wake, priorities, clock, scheduler, pendSV, previous, history>>

-----------------------------------------------------------------------------
(* What queues use. *)

\* vTaskPlaceOnEventList
PlaceOnEventList(t, l, ticksToWait) ==
    /\ events' = [events EXCEPT ![l] = Insert(@, t, evalue)]
    /\ \/ /\ ticksToWait = MaxDelay
          /\ ready' = [p \in Priorities |-> Without(ready[p], {t})]
          /\ suspended' = Append(suspended, t)
          /\ UNCHANGED <<uxTopReadyPriority, delayed, overflowed, terminating, wake, clock>>
       \/ /\ ticksToWait # MaxDelay
          /\ AddToDelayed(t, WakeTime(ticksToWait))
    /\ UNCHANGED pendingReady

\* The first n tasks that wait in l, or all
Waiting(l, n) == SubSeq(events[l], 1, IF n > Len(events[l]) THEN Len(events[l]) ELSE n)

\* xTaskRemoveFromEventList, for each of them in turn
RemoveFromEventList(l, n) ==
    LET us == Waiting(l, n)
    IN  /\ events' = [events EXCEPT ![l] = Without(@, ToSet(us))]
        /\ \/ /\ uxSchedulerSuspended = 0
              /\ MakeReady(us, prio)
              /\ UNCHANGED pendingReady
           \/ /\ uxSchedulerSuspended > 0
              /\ pendingReady' = pendingReady \o us
              /\ UNCHANGED generic

-----------------------------------------------------------------------------
\* The state vTaskStartScheduler leaves: the idle task is created last, and
\* pxCurrentTCB is the last created of the highest priority
TaskInit ==
    LET created == Append(Creation, Idle)
        top == CHOOSE p \in Priorities : /\ \E t \in ToSet(created) : Priority[t] = p
                                         /\ \A t \in ToSet(created) : Priority[t] <= p
    IN  /\ pc = [t \in AllTasks |-> "run"]
        /\ ready = [p \in Priorities |-> Those(created, {t \in AllTasks : Priority[t] = p})]
        /\ uxTopReadyPriority = top /\ pxCurrentTCB = Last(ready[top])
        /\ delayed = <<>> /\ overflowed = <<>> /\ suspended = <<>> /\ terminating = <<>>
        /\ events = [l \in EventLists |-> <<>>] /\ pendingReady = <<>>
        /\ wake = [t \in AllTasks |-> 0]
        /\ prio = Priority /\ base = Priority
        /\ evalue = [t \in AllTasks |-> MaxPriorities - Priority[t]]
        /\ xTickCount = 0 /\ xNumOfOverflows = 0 /\ xNextTaskUnblockTime = MaxDelay
        /\ uxSchedulerSuspended = 0 /\ uxMissedTicks = 0 /\ xMissedYield = FALSE
        /\ pendSV = FALSE /\ resuming = "no"
        /\ previous = [t \in AllTasks |-> 0]
        /\ left = [t \in AllTasks |-> 0] /\ since = [t \in AllTasks |-> 0]

ApiCall(t) ==
    \/ TaskSuspendAll(t) \/ TaskResumeAll(t) \/ DelayResume(t)
    \/ \E d \in DelayTimes : Delay(t, d) \/ DelayUntil(t, d)
    \/ \E u \in Task : Create(t, u) \/ Delete(t, u) \/ Suspend(t, u) \/ Resume(t, u)
    \/ \E u \in Task, p \in NewPriorities : PrioritySet(t, u, p)

IdleStep == IdleYield \/ IdleBegin \/ IdleResume \/ IdleFree
Interrupt == Tick \/ \E u \in Task : ResumeFromISR(u)

TaskNext ==
    \/ Interrupt \/ Switch \/ CatchUp \/ IdleStep
    \/ \E t \in Task : ApiCall(t)

TaskSpec == TaskInit /\ [][TaskNext]_taskVars

\* The processor executes code and the tick keeps coming.  A task that suspends the
\* scheduler ends the suspension (nested ones may come in between, hence SF).  That
\* a task calls another function is not assumed.
FairTaskSpec ==
    /\ TaskSpec
    /\ WF_taskVars(Tick) /\ WF_taskVars(Switch) /\ WF_taskVars(CatchUp)
    /\ \A t \in Task : /\ WF_taskVars(DelayResume(t)) /\ WF_taskVars(TaskResumeAll(t))
                       /\ SF_taskVars(uxSchedulerSuspended = 1 /\ TaskResumeAll(t))
    /\ WF_taskVars(IdleStep)

-----------------------------------------------------------------------------
(* Properties. *)

TasksTypeOK ==
    /\ pxCurrentTCB \in AllTasks
    /\ ready \in [Priorities -> Seq(AllTasks)] /\ uxTopReadyPriority \in Priorities
    /\ \A s \in {delayed, overflowed, suspended, terminating, pendingReady} : s \in Seq(Task)
    /\ events \in [EventLists -> Seq(Task)]
    /\ wake \in [AllTasks -> Ticks] /\ evalue \in [AllTasks -> 1 .. MaxPriorities]
    /\ prio \in [AllTasks -> Priorities] /\ base \in [AllTasks -> Priorities]
    /\ xTickCount \in Ticks /\ xNextTaskUnblockTime \in Ticks
    /\ xNumOfOverflows \in 0 .. OverflowWidth - 1
    /\ uxSchedulerSuspended \in 0 .. 2 /\ uxMissedTicks \in 0 .. MaxMissed
    /\ xMissedYield \in BOOLEAN /\ pendSV \in BOOLEAN
    /\ resuming \in {"no", "yields", "returns"}
    /\ previous \in [AllTasks -> Ticks]
    /\ left \in [AllTasks -> Ticks] /\ since \in [AllTasks -> -TickWidth .. TickWidth]

\* Each task is in one list for its state, a ready list being that of its
\* priority; a task whose event came is pending in place of waiting for it, until
\* the scheduler is resumed, and is meanwhile in the list it waited in.  The code
\* takes items out of whatever list they are in, in functions that run with the
\* scheduler suspended, in critical sections and in interrupts.
OneList ==
    LET others == <<delayed, overflowed, suspended, terminating>>
    IN  /\ \A p \in Priorities : /\ IsInjective(ready[p])
                                 /\ \A t \in ToSet(ready[p]) : prio[t] = p
        /\ \A i \in DOMAIN others :
              /\ IsInjective(others[i])
              /\ \A t \in ToSet(others[i]) :
                    ~IsReady(t) /\ \A j \in DOMAIN others : t \in ToSet(others[j]) => i = j
        /\ IsInjective(pendingReady) /\ \A l \in EventLists : IsInjective(events[l])
        /\ pendingReady # <<>> => uxSchedulerSuspended > 0
        /\ \A t \in ToSet(pendingReady) : IsAway(t) /\ ~IsWaiting(t)
        /\ \A l \in EventLists : \A t \in ToSet(events[l]) :
              IsAway(t) /\ \A m \in EventLists : t \in ToSet(events[m]) => l = m

\* No task sleeps past its time, in ticks of real time: whatever the tick count
\* wrapped to in between, whichever of the two lists it went to, and however
\* many of the ticks were missed (prvCheckDelayedTasks, xNextTaskUnblockTime).
NoLateWake ==
    uxMissedTicks = 0 => \A t \in AllTasks : IsDelayed(t) => left[t] > 0

\* vTaskDelay and vTaskDelayUntil return no earlier than asked for, and
\* vTaskDelayUntil tells a time that has passed from one that has overflowed.
NoEarlyWake == \A t \in AllTasks : IsReady(t) /\ pc[t] = "run" => left[t] = 0

\* With preemption, code runs in no task while one of higher priority is ready
\* ("any task becoming available will automatically get the processor",
\* prvIdleTask), unless the scheduler is suspended or about to switch.
HighestPriorityRuns ==
    Preemption /\ uxSchedulerSuspended = 0 /\ ~pendSV /\ resuming = "no" =>
        /\ IsReady(pxCurrentTCB)
        /\ \A p \in Priorities : p > prio[pxCurrentTCB] => ready[p] = <<>>

\* As long as tasks of its priority get the processor, so does every task that stays
\* ready ("an equal share of the processor time", vTaskSwitchContext), whatever is
\* inserted into their list and whenever tasks of higher priority preempt them.
EqualShare ==
    \A t \in Task : []<>(prio[pxCurrentTCB] = prio[t])
                        => []<>(pxCurrentTCB = t \/ ~IsReady(t))

=============================================================================
