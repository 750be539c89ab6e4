-------------------------------- MODULE SEFM --------------------------------
(***************************************************************************)
(* The servant execution flow model (SEFM) that T-SEFM adds to FreeRTOS:   *)
(* servants that fire when an event has arrived on each of their input     *)
(* relations, the R-Servant that moves due events to the ready list and    *)
(* wakes the servants whose inputs are complete, the tick hook, and the    *)
(* cooperative scheduling of all of them on one processor.                 *)
(*                                                                         *)
(* Sources: servant.c (vSensor, vServant, vR_Servant and their helpers),   *)
(* eventlist.c (through the operations of EventPool; the module EventList  *)
(* has its linked lists), app.c (the tables), main.c (the tick hook), and the  *)
(* parts of queue.c and tasks.c a binary semaphore goes through.           *)
(*                                                                         *)
(* Events are records, kept apart by the code's serial number; the lists   *)
(* are the sets of EventPool.                                              *)
(***************************************************************************)
EXTENDS EventPool

CONSTANTS
  Servants,     \* flags of the S-Servants: 0 .. NUMBEROFSERVANT - 2
  Sensors,      \* the servants main() creates from vSensor
  Tasks,        \* indices of xPeriodOfTask
  TaskOf,       \* xTaskOfServant
  Relations,    \* the pairs <<xInFlag, xOutFlag>> of xRelations
  Let,          \* xLetOfServant, in ticks
  Period,       \* xPeriodOfTask, in ticks
  Priority,     \* the priority main() gives each S-Servant
  HookPeriods,  \* the periods the tick hook tests
  FirstTick,    \* the tick at which the hook starts every sensor
  HookStart,    \* the tick from which the hook wakes the R-Servant
  HeapEvents,   \* how many eveECB blocks the heap can hold
  R,            \* the R-Servant
  Idle,         \* the idle task
  None,         \* a NULL pxEventListItem
  MaxTick,      \* bound: the clock stops here
  SlowTicks,    \* bound: the ticks at which code may take time
  MaxMissed     \* bound: the ticks one suspension of the scheduler may span

Inputs(s)  == {r[1] : r \in {q \in Relations : q[2] = s}}
Outputs(s) == {r[2] : r \in {q \in Relations : q[1] = s}}
SensorOf(s) == CHOOSE x \in Sensors : TaskOf[x] = TaskOf[s]

(* vEventCreateAll: an event to a servant that does not come later in the  *)
(* flags is the last of its round and goes back to the sensor.             *)
IsLast(s, d) == d <= s

(* The application's tables.  A task is a graph of servants numbered in    *)
(* topological order from its only sensor, with last relations back to the *)
(* sensor; TaskIsRound says that the sources of those last relations       *)
(* depend on every servant of the task.                                    *)
Member(x) == {s \in Servants : TaskOf[s] = TaskOf[x]}

ClosedUnderInputs(S) ==
  \A r \in Relations : r[2] \in S /\ ~IsLast(r[1], r[2]) => r[1] \in S

TaskIsRound(x) ==
  \A S \in SUBSET Member(x) :
     x \in S /\ Inputs(x) \subseteq S /\ ClosedUnderInputs(S) => S = Member(x)

ASSUME TablesAssumption ==
  /\ Servants \subseteq Nat /\ IsFiniteSet(Servants)
  /\ Sensors \subseteq Servants
  /\ Relations \subseteq Servants \X Servants
  /\ TaskOf \in [Servants -> Tasks]
  /\ Let \in [Servants -> Nat \ {0}]
  /\ Period \in [Tasks -> Nat \ {0}]
  /\ Priority \in [Servants -> Nat \ {0, 1}]
  /\ {R, Idle} \cap Servants = {} /\ R # Idle

ASSUME TopologyAssumption ==
  /\ \A s \in Servants : \E x \in Sensors : TaskOf[x] = TaskOf[s]
  /\ \A x, y \in Sensors : TaskOf[x] = TaskOf[y] => x = y
  /\ \A r \in Relations : TaskOf[r[1]] = TaskOf[r[2]]
  /\ \A r \in Relations : IsLast(r[1], r[2]) <=> r[2] \in Sensors
  /\ \A s \in Servants : Inputs(s) # {} /\ Outputs(s) # {}
  /\ \A x \in Sensors : TaskIsRound(x)

ASSUME ClockAssumption ==
  /\ FirstTick \in Nat \ {0} /\ HookStart \in Nat /\ FirstTick < HookStart
  /\ MaxTick \in Nat
  /\ HookPeriods \subseteq Nat \ {0}

(* Every task has come to wait for its semaphore well before the first     *)
(* tick the hook reacts to (100 ms after the scheduler starts in app.c).   *)
ASSUME StartupAssumption ==
  SlowTicks \subseteq {t \in Nat : t >= FirstTick} /\ MaxMissed \in Nat

(* One block for the End Flag event and one for each relation.             *)
ASSUME HeapAssumption ==
  HeapEvents \in Nat /\ HeapEvents > Cardinality(Relations)

(* vServant copies the data of xDatas[i] from pxEvent[i] for every output, *)
(* and vSensor sizes pxEvent by its outputs: with other degrees the code   *)
(* reads or writes past those arrays.  The tables of app.c satisfy this.   *)
ASSUME DegreeAssumption ==
  \A s \in Servants :
    IF s \in Sensors THEN Cardinality(Inputs(s)) <= Cardinality(Outputs(s))
                     ELSE Cardinality(Outputs(s)) <= Cardinality(Inputs(s))

VARIABLES
  missed,     \* uxMissedTicks
  isInit,     \* IS_INIT of the tick hook
  sem,        \* xBinarySemaphore: 1 when it has been given
  blocked,    \* the tasks waiting for their semaphore
  current,    \* pxCurrentTCB
  suspended,  \* uxSchedulerSuspended
  placing,    \* the running task found its semaphore empty and is about to wait
  yieldDue,   \* xMissedYield, or a task in xPendingReadyList to switch to
  pc,         \* where each S-Servant is in its loop
  rpc,        \* where the R-Servant is in its loop
  count,      \* xCount of each sensor
  deadline,   \* xDatas[0].xNextPeriod of each S-Servant, 0 before its first job
  start,      \* the time each S-Servant last wrote to its TCB
  held,       \* the events pxEvent points to, until they are deleted
  listSet,    \* pxCurrentReadyList is not NULL
  flag,       \* xRelations.xRelation[i].xFlag
  moved,      \* pxEventListItem of the R-Servant
  dangling,   \* events deleted while still linked into the ready list
  serial      \* xEventSerialNumber

clockVars == <<now, missed, isInit>>
schedVars == <<sem, blocked, current, suspended, placing, yieldDue>>
jobVars   == <<pc, count, deadline, start, held>>
listVars  == <<eventList, serial>>
readyVars == <<readyList, listSet>>
matchVars == <<rpc, flag, moved, dangling>>
vars == <<clockVars, schedVars, jobVars, listVars, readyVars, matchVars>>

Event == [src : Servants, dst : Servants,
          xSlackTime : Nat, xTime : Nat, xLevel : Nat]

TypeOK ==
  /\ now \in Nat /\ missed \in Nat /\ isInit \in BOOLEAN
  /\ sem \in [Servants \cup {R} -> {0, 1}]
  /\ blocked \in SUBSET (Servants \cup {R})
  /\ current \in Servants \cup {R, Idle}
  /\ suspended \in BOOLEAN /\ placing \in BOOLEAN /\ yieldDue \in BOOLEAN
  /\ pc \in [Servants -> {"first", "take", "exec", "let"}]
  /\ rpc \in {"take", "transit", "match", "fire"}
  /\ count \in [Sensors -> Nat]
  /\ deadline \in [Servants -> Nat]
  /\ start \in [Servants -> Nat]
  /\ held \in [Servants -> SUBSET Event]
  /\ eventList \in SUBSET Event /\ readyList \in SUBSET Event
  /\ listSet \in BOOLEAN
  /\ flag \in [Relations -> {1, 2}]
  /\ moved \in Event \cup {None}
  /\ dangling \in SUBSET Event
  /\ serial \in Nat

-----------------------------------------------------------------------------
(* The kernel: priorities, the choice of the next task and the semaphores. *)

(* Mutant: the R-Servant is created above all servants.                    *)
PrioAbove(t) == IF t = Idle THEN 0 ELSE IF t = R THEN 20 ELSE Priority[t]

Prio(t) == IF t = Idle THEN 0 ELSE IF t = R THEN 1 ELSE Priority[t]

(* vTaskSwitchContext takes a task from the highest non-empty ready queue; *)
(* among equals it takes turns, which is left open here.                   *)
Highest(ready) == {t \in ready : \A u \in ready : Prio(u) <= Prio(t)}

SwitchContext(waiting) ==
  current' \in Highest((Servants \cup {R, Idle}) \ waiting)

Running(t) == current = t /\ ~suspended

(* A task of the set woken has become ready: a switch is requested when    *)
(* one has at least the priority of the running task, and put off while    *)
(* the scheduler is suspended.                                             *)
Preempt(woken) ==
  LET yield == \E t \in woken : Prio(t) >= Prio(current)
  IN  /\ IF yield /\ ~suspended
         THEN SwitchContext(blocked \ woken) ELSE UNCHANGED current
      /\ yieldDue' = (yieldDue \/ (yield /\ suspended))

(* The tasks that wait for a semaphore of S and are woken when it is given *)
Woken(S) == {t \in S \cap blocked : sem[t] = 0}

(* Mutant: the semaphore counts its gives.                                 *)
GiveCounts(S) ==
  /\ sem' = [t \in DOMAIN sem |-> IF t \in S THEN sem[t] + 1 ELSE sem[t]]
  /\ blocked' = blocked \ Woken(S)
  /\ Preempt(Woken(S))
  /\ UNCHANGED <<suspended, placing>>

(* xSemaphoreGive of each semaphore of S: a task that waits for one that   *)
(* was empty becomes ready; one that is full stays full and wakes nobody.  *)
Give(S) ==
  /\ sem' = [t \in DOMAIN sem |-> IF t \in S THEN 1 ELSE sem[t]]
  /\ blocked' = blocked \ Woken(S)
  /\ Preempt(Woken(S))
  /\ UNCHANGED <<suspended, placing>>

(* xSemaphoreTake of t's own semaphore, with portMAX_DELAY: taken, ...     *)
Take(t) ==
  /\ Running(t) /\ sem[t] = 1
  /\ sem' = [sem EXCEPT ![t] = 0]
  /\ UNCHANGED <<blocked, current, suspended, placing, yieldDue>>

(* vTaskSuspendAll, from a semaphore found empty or from the heap.         *)
SuspendAll(t) ==
  /\ Running(t)
  /\ suspended' = TRUE
  /\ UNCHANGED <<sem, blocked, current, placing, yieldDue>>

(* xTaskResumeAll: the ticks missed are counted now.  The tick hook is not *)
(* called for them.                                                        *)
ResumeAll(yield, waiting) ==
  /\ suspended' = FALSE /\ yieldDue' = FALSE
  /\ now' = now + missed /\ missed' = 0
  /\ IF yield \/ yieldDue THEN SwitchContext(waiting) ELSE UNCHANGED current

(* ... or found empty.  With the scheduler suspended the task looks again  *)
(* and, if it is still empty, waits.  The tick interrupt gives semaphores  *)
(* with the call for tasks, which knows nothing of the lock on the queue:  *)
(* one given before the second look makes the task try again, one given    *)
(* after it finds nobody waiting and wakes nobody.                         *)
WaitBegin(t) == sem[t] = 0 /\ SuspendAll(t)

WaitTest(t) ==
  /\ current = t /\ suspended /\ ~placing /\ sem[t] = 0
  /\ placing' = TRUE
  /\ UNCHANGED <<sem, blocked, current, suspended, yieldDue>>

WaitEnd(t) ==
  /\ current = t /\ suspended
  /\ placing \/ sem[t] = 1
  /\ placing' = FALSE
  /\ blocked' = IF placing THEN blocked \cup {t} ELSE blocked
  /\ ResumeAll(placing, blocked')
  /\ UNCHANGED <<sem, isInit>>

(* The idle task yields whenever it runs, since configUSE_PREEMPTION is 0. *)
IdleYield ==
  /\ Running(Idle)
  /\ SwitchContext(blocked)
  /\ UNCHANGED <<clockVars, sem, blocked, suspended, placing, yieldDue,
                 jobVars, listVars, readyVars, matchVars>>

-----------------------------------------------------------------------------
(* Events and the heap blocks they live in.                                *)

Live == eventList \cup readyList \cup UNION {held[s] : s \in Servants}

(* The relations of a servant are listed by ascending destination.         *)
Rank(s, d) == Cardinality({x \in Outputs(s) : x < d})

(* vEventCreateAll of servant s, when the blocks in use are those of       *)
(* `live' and of the End Flag event: an event that gets no block is lost.  *)
CreateAll(s, nextPeriod, time, live) ==
  LET new  == {NewEvent(s, d, IsLast(s, d), nextPeriod[d], time,
                        serial + Rank(s, d)) : d \in Outputs(s)}
      free == HeapEvents - 1 - Cardinality(live)
      kept == {e \in new : e.xLevel - serial < free}
  IN  /\ Create(kept)
      /\ serial' = serial + Cardinality(kept)

(* Mutant: the search of vEventReceive stops before the last item.         *)
VisibleButLast(s) ==
  IF listSet
  THEN {e \in readyList : e.dst = s /\ e.src \in Inputs(s)
                            /\ \E f \in readyList : e.xLevel < f.xLevel}
  ELSE {}

(* What vEventReceive finds from the list pxCurrentReadyList points to.    *)
Visible(s) ==
  IF listSet THEN {e \in readyList : e.dst = s /\ e.src \in Inputs(s)} ELSE {}

(* Mutant: the event received is not unlinked.                             *)
ReceiveLinked(s, got) ==
  /\ got \subseteq Visible(s)
  /\ \A e, f \in got : e.src = f.src => e = f
  /\ {e.src : e \in got} = {e.src : e \in Visible(s)}
  /\ UNCHANGED readyList
  /\ UNCHANGED listSet

(* vEventReceiveAll after the take: one event from each source that sent   *)
(* one is unlinked from the ready list.                                    *)
ReceiveAll(s, got) ==
  /\ got \subseteq Visible(s)
  /\ \A e, f \in got : e.src = f.src => e = f
  /\ {e.src : e \in got} = {e.src : e \in Visible(s)}
  /\ Receive(got)
  /\ UNCHANGED listSet

-----------------------------------------------------------------------------
(* Tasks made from vSensor.                                                *)

(* The first time round a sensor only waits for the tick hook.             *)
SensorFirst(x) ==
  /\ x \in Sensors /\ pc[x] = "first"
  /\ Take(x)
  /\ pc' = [pc EXCEPT ![x] = "exec"]
  /\ UNCHANGED <<clockVars, count, deadline, start, held, listVars, readyVars, matchVars>>

(* Later it receives what the last servants sent, and deletes it at once.  *)
SensorReceive(x) ==
  /\ x \in Sensors /\ pc[x] = "take"
  /\ Take(x)
  /\ \E got \in SUBSET Visible(x) : ReceiveAll(x, got)
  /\ pc' = [pc EXCEPT ![x] = "exec"]
  /\ UNCHANGED <<clockVars, count, deadline, start, held, listVars, matchVars>>

(* The heap suspends the scheduler while it allocates or frees a block;    *)
(* the calls a job makes are taken as one such stretch.                    *)
HeapBegin(s) ==
  /\ pc[s] = "exec"
  /\ SuspendAll(s)
  /\ UNCHANGED <<clockVars, jobVars, listVars, readyVars, matchVars>>

HeapEnd(s) ==
  /\ current = s /\ suspended
  /\ ResumeAll(FALSE, blocked)
  /\ UNCHANGED <<sem, blocked, placing, isInit>>

(* It starts the next round: the start of the task's next period is the    *)
(* deadline of this one.                                                   *)
SensorExec(x) ==
  /\ x \in Sensors /\ pc[x] = "exec"
  /\ HeapEnd(x)
  /\ LET nextPeriod == (count[x] + 1) * Period[TaskOf[x]]
     IN  /\ count' = [count EXCEPT ![x] = @ + 1]
         /\ deadline' = [deadline EXCEPT ![x] = nextPeriod]
         /\ CreateAll(x, [d \in Outputs(x) |-> nextPeriod], now + Let[x], Live)
  /\ start' = [start EXCEPT ![x] = now]
  /\ pc' = [pc EXCEPT ![x] = "let"]
  /\ UNCHANGED <<held, readyVars, matchVars>>

-----------------------------------------------------------------------------
(* Tasks made from vServant.                                               *)

ServantReceive(s) ==
  /\ s \in Servants \ Sensors /\ pc[s] = "take"
  /\ Take(s)
  /\ \E got \in SUBSET Visible(s) :
       /\ ReceiveAll(s, got)
       /\ held' = [held EXCEPT ![s] = got]
  /\ pc' = [pc EXCEPT ![s] = "exec"]
  /\ UNCHANGED <<clockVars, count, deadline, start, listVars, matchVars>>

(* The data of each output is that of one of the inputs, which are deleted *)
(* before the outputs are created.  (The code pairs the i-th output with   *)
(* the i-th input; which of them that is is left open.)                    *)
ServantExec(s) ==
  /\ s \in Servants \ Sensors /\ pc[s] = "exec"
  /\ HeapEnd(s)
  /\ \E data \in [Outputs(s) -> held[s]], first \in Outputs(s) :
       /\ deadline' = [deadline EXCEPT ![s] = data[first].xSlackTime]
       /\ CreateAll(s, [d \in Outputs(s) |-> data[d].xSlackTime],
                    now + Let[s], Live \ held[s])
  /\ held' = [held EXCEPT ![s] = {}]
  /\ start' = [start EXCEPT ![s] = now]
  /\ pc' = [pc EXCEPT ![s] = "let"]
  /\ UNCHANGED <<count, readyVars, matchVars>>

(* vTaskDelayLET keeps the processor until the servant's logical execution *)
(* time is over; only then is the R-Servant told.                          *)
LetOver(s) == now >= start[s] + Let[s]

DelayLET(s) ==
  /\ Running(s) /\ pc[s] = "let" /\ ~LetOver(s)
  /\ UNCHANGED vars

(* Mutant: the servant does not wake the R-Servant when it ends.           *)
FinishSilently(s) ==
  /\ Running(s) /\ pc[s] = "let" /\ LetOver(s)
  /\ pc' = [pc EXCEPT ![s] = "take"]
  /\ UNCHANGED <<clockVars, schedVars, count, deadline, start, held, listVars, readyVars, matchVars>>

Finish(s) ==
  /\ Running(s) /\ pc[s] = "let" /\ LetOver(s)
  /\ Give({R})
  /\ pc' = [pc EXCEPT ![s] = "take"]
  /\ UNCHANGED <<clockVars, count, deadline, start, held, listVars, readyVars, matchVars>>

WaitForTrigger(s) ==
  /\ pc[s] \in {"first", "take"}
  /\ \/ (WaitBegin(s) \/ WaitTest(s)) /\ UNCHANGED clockVars
     \/ WaitEnd(s)
  /\ UNCHANGED <<jobVars, listVars, readyVars, matchVars>>

-----------------------------------------------------------------------------
(* vR_Servant.                                                             *)

RTake ==
  /\ rpc = "take"
  /\ Take(R)
  /\ rpc' = "transit"
  /\ UNCHANGED <<clockVars, jobVars, listVars, readyVars, flag, moved, dangling>>

RWait ==
  /\ rpc = "take"
  /\ \/ (WaitBegin(R) \/ WaitTest(R)) /\ UNCHANGED clockVars
     \/ WaitEnd(R)
  /\ UNCHANGED <<jobVars, listVars, readyVars, matchVars>>

(* xEventListTransit: the first event moves to the ready list if it is     *)
(* due; otherwise both pointers become NULL and the R-Servant waits again. *)
RTransit ==
  /\ Running(R) /\ rpc = "transit"
  /\ \/ /\ \E e \in eventList : Transit(e) /\ moved' = e
        /\ listSet' = TRUE
        /\ rpc' = "match"
     \/ /\ NothingDue
        /\ moved' = None
        /\ listSet' = FALSE
        /\ rpc' = "take"
        /\ UNCHANGED <<eventList, readyList>>
  /\ UNCHANGED <<clockVars, schedVars, jobVars, serial, flag, dangling>>

(* Mutant: any one event triggers its destination.                         *)
RMatchAny ==
  /\ Running(R) /\ rpc = "match"
  /\ LET r == <<moved.src, moved.dst>>
     IN  /\ IF flag[r] = 2
            THEN dangling' = dangling \cup {moved} /\ UNCHANGED flag
            ELSE flag' = [flag EXCEPT ![r] = 2] /\ UNCHANGED dangling
         /\ rpc' = "fire"
  /\ UNCHANGED <<clockVars, schedVars, jobVars, listVars, readyVars, moved>>

(* The loop over the relations of the destination.  An event that arrives  *)
(* on a relation that has one already is reported and deleted, but stays   *)
(* linked into the ready list.                                             *)
RMatch ==
  /\ Running(R) /\ rpc = "match"
  /\ LET r == <<moved.src, moved.dst>>
         missing == {q \in Relations : q[2] = r[2] /\ q # r /\ flag[q] = 1}
     IN  /\ IF flag[r] = 2
            THEN dangling' = dangling \cup {moved} /\ UNCHANGED flag
            ELSE flag' = [flag EXCEPT ![r] = 2] /\ UNCHANGED dangling
         /\ rpc' = IF missing = {} THEN "fire" ELSE "transit"
  /\ UNCHANGED <<clockVars, schedVars, jobVars, listVars, readyVars, moved>>

(* Mutant: the relations of the destination are not reset.                 *)
RFireNoReset ==
  /\ Running(R) /\ rpc = "fire"
  /\ Give({moved.dst})
  /\ rpc' = "take"
  /\ UNCHANGED <<clockVars, jobVars, listVars, readyVars, flag, moved, dangling>>

(* All inputs of the destination have arrived: it is triggered.            *)
RFire ==
  /\ Running(R) /\ rpc = "fire"
  /\ flag' = [r \in Relations |-> IF r[2] = moved.dst THEN 1 ELSE flag[r]]
  /\ Give({moved.dst})
  /\ rpc' = "take"
  /\ UNCHANGED <<clockVars, jobVars, listVars, readyVars, moved, dangling>>

-----------------------------------------------------------------------------
(* The tick interrupt.                                                     *)

(* Mutant: the hook does not wait for the first periods to pass.           *)
HookDueAlways(t) == \E p \in HookPeriods : t % p = 0

(* Mutant: `&&' for `||' between the periods.                              *)
HookDueAll(t) == t >= HookStart /\ \A p \in HookPeriods : t % p = 0

(* The R-Servant is woken at each multiple of one of the periods tested.   *)
HookDue(t) == t >= HookStart /\ \E p \in HookPeriods : t % p = 0

(* vApplicationTickHook, when xTickCount is t.                             *)
TickHook(t) ==
  /\ isInit' = (isInit /\ t # FirstTick)
  /\ Give((IF isInit /\ t = FirstTick THEN Sensors ELSE {})
            \cup (IF HookDue(t) THEN {R} ELSE {}))

CodeIsWaiting ==
  \/ Running(Idle)
  \/ \E s \in Servants : Running(s) /\ pc[s] = "let" /\ ~LetOver(s)

(* vTaskIncrementTick.  While the scheduler is suspended the tick is only  *)
(* remembered, and the hook sees the tick count of before.  Outside        *)
(* SlowTicks code takes no time but for its LET.                           *)
Tick ==
  /\ now + missed < MaxTick
  /\ now + missed \in SlowTicks \/ CodeIsWaiting
  /\ suspended => missed < MaxMissed
  /\ IF suspended THEN missed' = missed + 1 /\ UNCHANGED now
                  ELSE now' = now + 1 /\ UNCHANGED missed
  /\ TickHook(now')
  /\ UNCHANGED <<jobVars, listVars, readyVars, matchVars>>

-----------------------------------------------------------------------------
(* After vSemaphoreInitialise, vParameterInitialise and the creation of    *)
(* the tasks: every semaphore is taken and the task of highest priority    *)
(* runs first.                                                             *)
Init ==
  /\ now = 0 /\ missed = 0 /\ isInit = TRUE
  /\ sem = [t \in Servants \cup {R} |-> 0]
  /\ blocked = {}
  /\ current \in Highest(Servants \cup {R, Idle})
  /\ suspended = FALSE /\ placing = FALSE /\ yieldDue = FALSE
  /\ pc = [s \in Servants |-> IF s \in Sensors THEN "first" ELSE "take"]
  /\ rpc = "take"
  /\ count = [x \in Sensors |-> 2]
  /\ deadline = [s \in Servants |-> 0]
  /\ start = [s \in Servants |-> 0]
  /\ held = [s \in Servants |-> {}]
  /\ eventList = {} /\ readyList = {}
  /\ listSet = FALSE
  /\ flag = [r \in Relations |-> 1]
  /\ moved = None
  /\ dangling = {}
  /\ serial = 0

Job(s) ==
  \/ SensorFirst(s) \/ SensorReceive(s) \/ SensorExec(s)
  \/ ServantReceive(s) \/ ServantExec(s) \/ HeapBegin(s)
  \/ DelayLET(s) \/ Finish(s) \/ WaitForTrigger(s)

RServant == RTake \/ RWait \/ RTransit \/ RMatch \/ RFire

Next ==
  \/ \E s \in Servants : Job(s)
  \/ RServant
  \/ IdleYield
  \/ Tick

Spec == Init /\ [][Next]_vars

(* The processor executes the running task and the clock does not stop     *)
(* before MaxTick.                                                         *)
FairSpec ==
  /\ Spec
  /\ WF_vars((\E s \in Servants : Job(s)) \/ RServant)
  /\ WF_vars(Tick)

-----------------------------------------------------------------------------
(* Properties.                                                             *)

(* Marked(s, d): the relation <<s, d>> must carry an event now.  Forward,  *)
(* when s has run in the task's current round and d has not; back to the   *)
(* sensor, when s has run and the sensor has not yet consumed its event.   *)
Ran(s) == deadline[s] # 0 /\ deadline[s] = deadline[SensorOf(s)]

Marked(s, d) ==
  IF IsLast(s, d) THEN Ran(s) /\ pc[d] # "exec" ELSE Ran(s) /\ ~Ran(d)

On(s, d) == {e \in Live : e.src = s /\ e.dst = d}

(* At every moment a relation carries at most one event, and exactly one   *)
(* when its source is ahead of its destination: the transit, matching,     *)
(* reception, deletion and creation of events by the tasks never loses or  *)
(* duplicates one (servant.c, eventlist.c), and the heap never runs out.   *)
EventPerRelation ==
  \A r \in Relations :
    /\ \A e, f \in On(r[1], r[2]) : e = f
    /\ On(r[1], r[2]) # {} <=> Marked(r[1], r[2])

(* The R-Servant never meets an event on a relation that has one already,  *)
(* "Error: This event has arrived!!" (servant.c:511-515), after which a    *)
(* deleted event would be linked into the ready list.                      *)
NoArrivedTwice == dangling = {}

(* A servant that executes holds exactly one event from each of its        *)
(* sources, every one due and all of the same round: pxEvent[i] is never   *)
(* NULL although pxCurrentReadyList and the ready list are shared by all   *)
(* tasks (servant.c:186-208, 411).                                         *)
InputsComplete ==
  \A s \in Servants \ Sensors : pc[s] = "exec" =>
    /\ {e.src : e \in held[s]} = Inputs(s)
    /\ \A e, f \in held[s] : e.src = f.src => e = f
    /\ \A e \in held[s] : e.dst = s /\ e.xTime <= now
                            /\ e.xSlackTime = deadline[SensorOf(s)]

(* While the R-Servant is between taking its semaphore and triggering a    *)
(* servant nothing else runs, and at most one servant is between its       *)
(* trigger and the end of its LET: what the R-Servant decided is never     *)
(* stale when it is used (servant.c:471-560).                              *)
RunToCompletion ==
  /\ rpc # "take" => current = R
  /\ \A s, u \in Servants :
       pc[s] \in {"exec", "let"} /\ pc[u] \in {"exec", "let"} => s = u

(* The R-Servant never looks into xEventList before the first event has    *)
(* been created: until then the list is not initialised and its first item *)
(* is NULL (eventlist.c:358-362, 412-420).                                 *)
NoNullTransit == rpc = "transit" => serial > 0

(* No wake-up of the R-Servant is lost: when every task waits, the first   *)
(* event of the list is not due.  Gives to its binary semaphore merge, and *)
(* the tick hook only looks at multiples of four of the periods            *)
(* (main.c:164-175, servant.c:368, 435).                                   *)
NoLostWakeup ==
  Servants \cup {R} \subseteq blocked => NothingDue

(* With code that takes no more than its LET no servant is still in its   *)
(* job after the deadline of the round: none of the "missing deadline"     *)
(* messages is printed (servant.c:362-366, 428-433).                       *)
MeetsDeadline ==
  \A s \in Servants : pc[s] = "let" => now <= deadline[s]

(* A sensor starts a round no earlier than the deadline of the previous    *)
(* one, which is the start of the new period: outputs wait for the         *)
(* deadline however early the round was done (eventlist.c:216-219).        *)
RoundsKeepPeriod ==
  [][\A x \in Sensors : count'[x] # count[x] => now >= deadline[x]]_vars

(* Every sensor starts and every round that starts ends: a deadline one    *)
(* period or more before the horizon is followed by the sensor's next job, *)
(* so the R-Servant is woken again for every event that waits in the list  *)
(* (servant.c:368, 435, main.c:164-175) - unless it sleeps with its        *)
(* semaphore given, and no give can wake it any more (queue.c:1063-1080).  *)
SleepsGiven(t) == t \in blocked /\ sem[t] = 1

RoundsComplete ==
  \A x \in Sensors :
    LET P == Period[TaskOf[x]]
    IN  \A k \in 0 .. (MaxTick \div P) - 1 :
          deadline[x] = k * P ~> deadline[x] > k * P \/ SleepsGiven(R)

(* The runtime implements the abstract rounds: no interleaving of servants *)
(* of any tasks makes a servant run twice in a round, before its inputs,   *)
(* or after its task has moved on.                                         *)
Rounds == INSTANCE LetRounds WITH
  round <- [x \in Sensors |-> count[x] - 2],
  ran   <- {s \in Servants : Ran(s)}

ImplementsRounds == Rounds!Spec
=============================================================================
