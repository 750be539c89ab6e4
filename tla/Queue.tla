------------------------------- MODULE Queue -------------------------------
(***************************************************************************)
(* Queues, semaphores and mutexes, queue.c, on top of the scheduler.       *)
(*                                                                         *)
(* A call that has to wait goes through a loop: it tests the queue in a    *)
(* critical section, suspends the scheduler, locks the queue, checks the   *)
(* time and the queue again, enters a waiting list, unlocks the queue for  *)
(* each side and resumes the scheduler.  pc names the step it is at.       *)
(* Interrupts come between any two steps; while the queue is locked they   *)
(* send and receive but leave the waiting lists to the unlocking.          *)
(***************************************************************************)
EXTENDS Tasks

CONSTANTS
    Queues, Mutexes,    \* mutexes are queues of length 1
    Length,             \* uxLength of each
    Items,              \* what is sent
    WaitTimes,          \* arguments xTicksToWait of each task
    IsrSends, IsrReceives,  \* queues interrupt handlers send to and receive from
    MaxLock,            \* bound on what interrupts do while a queue is locked
    Null

ASSUME QueueAssumption ==
    /\ Mutexes \subseteq Queues /\ Length \in [Queues -> Nat \ {0}]
    /\ \A m \in Mutexes : Length[m] = 1 /\ m \notin IsrSends \cup IsrReceives
    /\ EventLists = Queues \X {"send", "receive"}
    /\ WaitTimes \in [Task -> SUBSET Ticks]
    /\ MaxLock \in Nat /\ Items # {} /\ Null \notin AllTasks

VARIABLES
    messages,           \* what waits in each queue, first to be received first
    pxMutexHolder,
    xRxLock, xTxLock,
    call,               \* the call each task is in: its arguments and local variables
    timeOut             \* xTimeOut of the call

queues    == <<messages, pxMutexHolder, xRxLock, xTxLock>>
queueVars == <<queues, call, timeOut>>
vars      == <<taskVars, queueVars>>

Unlocked   == -1
Unmodified == 0         \* queueLOCKED_UNMODIFIED
NoCall     == [kind |-> "none"]

\* The side of the queue a call is on, and the list it waits in
Side(c)   == IF c.kind = "send" THEN "send" ELSE "receive"
List(c)   == <<c.queue, Side(c)>>
(* Mutant: a queue is full one message too late. *)
IsFullLate(q) == Len(messages[q]) > Length[q]

IsFull(q)  == Len(messages[q]) = Length[q]      \* prvIsQueueFull
IsEmpty(q) == messages[q] = <<>>                \* prvIsQueueEmpty
Blocked(c) == IF Side(c) = "send" THEN IsFull(c.queue) ELSE IsEmpty(c.queue)

\* prvCopyDataToQueue, without the mutex holder
Put(q, item, position) ==
    IF position = "back" THEN Append(messages[q], item) ELSE <<item>> \o messages[q]

-----------------------------------------------------------------------------
(* The critical section at the head of the loop. *)

(* Mutant: an inherited priority is kept. *)
DisinheritsNever(t, q) == FALSE

Disinherits(t, q) == q \in Mutexes /\ prio[t] # base[t]

\* A send that finds room: a mutex is no longer held and its holder, the caller,
\* gives back an inherited priority (vTaskPriorityDisinherit); a waiting task wakes
SendNow(t, c) ==
    LET q == c.queue
        disinherits == Disinherits(t, q)
        woken == Waiting(<<q, "receive">>, 1)
    IN  /\ messages' = [messages EXCEPT ![q] = Put(q, c.item, c.position)]
        /\ pxMutexHolder' = [pxMutexHolder EXCEPT ![q] = Null]
        /\ prio' = IF disinherits THEN [prio EXCEPT ![t] = base[t]] ELSE prio
        /\ evalue' = IF disinherits THEN [evalue EXCEPT ![t] = MaxPriorities - base[t]]
                     ELSE evalue
        /\ MakeReady((IF disinherits THEN <<t>> ELSE <<>>) \o woken, prio')
        /\ events' = [events EXCEPT ![<<q, "receive">>] = Without(@, ToSet(woken))]
        /\ Yield(\E u \in ToSet(woken) : prio'[u] >= prio'[t])

\* A receive or a peek that finds a message: room for a sender, or, after a peek,
\* a message for another receiver
ReceiveNow(t, c) ==
    LET q == c.queue
        l == IF c.kind = "peek" THEN <<q, "receive">> ELSE <<q, "send">>
    IN  /\ messages' = IF c.kind = "peek" THEN messages
                       ELSE [messages EXCEPT ![q] = Tail(@)]
        /\ pxMutexHolder' = IF q \in Mutexes THEN [pxMutexHolder EXCEPT ![q] = t]
                            ELSE pxMutexHolder
        /\ RemoveFromEventList(l, 1)
        /\ Yield(WakesNoLower(Waiting(l, 1)))
        /\ UNCHANGED <<prio, evalue>>

NoTime == [overflow |-> 0, entering |-> 0]

Return(t) ==
    /\ pc' = [pc EXCEPT ![t] = "run"]
    /\ call' = [call EXCEPT ![t] = NoCall]
    /\ timeOut' = [timeOut EXCEPT ![t] = NoTime]
    /\ left' = [left EXCEPT ![t] = 0]

\* vTaskSetTimeOutState
Now == [overflow |-> xNumOfOverflows, entering |-> xTickCount]

\* xQueueGenericSend and xQueueGenericReceive from the head of the loop
Test(t, c) ==
    \/ /\ ~Blocked(c)
       /\ IF c.kind = "send" THEN SendNow(t, c) ELSE ReceiveNow(t, c)
       /\ Return(t)
       /\ UNCHANGED pendingReady
    \/ /\ Blocked(c)
       /\ \/ c.wait = 0 /\ Return(t)
          \/ /\ c.wait # 0
             /\ call' = [call EXCEPT ![t] = [c EXCEPT !.entered = TRUE]]
             /\ IF c.entered THEN UNCHANGED <<timeOut, left>>
                ELSE /\ timeOut' = [timeOut EXCEPT ![t] = Now]
                     /\ left' = [left EXCEPT ![t] = IF c.wait = MaxDelay THEN 0 ELSE c.wait]
             /\ pc' = [pc EXCEPT ![t] = "suspend"]
       /\ UNCHANGED <<generic, eventItems, prio, evalue, messages, pxMutexHolder, pendSV>>

TestUnchanged ==
    UNCHANGED <<pxCurrentTCB, base, wake, clock, scheduler, previous, since, xRxLock, xTxLock>>

\* A mutex is given by the task that took it, and not taken twice or peeked at
UsesMutexProperly(t, c) ==
    c.queue \in Mutexes => /\ c.kind # "peek"
                           /\ c.kind = "send" <=> pxMutexHolder[c.queue] = t

Begin(t, c) ==
    /\ CallsFunction(t, c.kind) /\ c.queue \in Calls[t]
    /\ UsesMutexProperly(t, c)
    /\ Test(t, c)
    /\ TestUnchanged

Again(t) ==
    /\ Executes(t) /\ pc[t] = "test"
    /\ Test(t, call[t])
    /\ TestUnchanged

-----------------------------------------------------------------------------
(* The rest of the loop. *)

At(t, place, next) ==
    Executes(t) /\ pc[t] = place /\ pc' = [pc EXCEPT ![t] = next]

CallSuspendAll(t) ==
    /\ At(t, "suspend", "lock")
    /\ SuspendAll
    /\ UNCHANGED <<pxCurrentTCB, generic, eventItems, wake, priorities, clock, uxMissedTicks,
                   xMissedYield, resuming, pendSV, previous, history, queueVars>>

\* Steps that change neither the scheduler's suspension nor the tick count
InCall == UNCHANGED <<pxCurrentTCB, base, uxSchedulerSuspended, uxMissedTicks, resuming,
                      pendSV, previous, history>>
ListsUnchanged == UNCHANGED <<generic, eventItems, wake, clock>>

\* prvLockQueue
LockQueue(t) ==
    LET q == call[t].queue
        Locked(lock) == IF lock = Unlocked THEN Unmodified ELSE lock
    IN  /\ At(t, "lock", "check")
        /\ xRxLock' = [xRxLock EXCEPT ![q] = Locked(@)]
        /\ xTxLock' = [xTxLock EXCEPT ![q] = Locked(@)]
        /\ InCall /\ ListsUnchanged
        /\ UNCHANGED <<prio, evalue, xMissedYield, messages, pxMutexHolder, call, timeOut>>

Elapsed(t) == (xTickCount - timeOut[t].entering) % TickWidth

(* Mutant: a call gives up though it was to wait for as long as it takes. *)
HasTimedOutImpatient(t) ==
    \/ xNumOfOverflows # timeOut[t].overflow /\ xTickCount >= timeOut[t].entering
    \/ Elapsed(t) >= call[t].wait

(* Mutant: an overflow of the tick count counts as a full cycle. *)
HasTimedOutOverflow(t) ==
    /\ call[t].wait # MaxDelay
    /\ \/ xNumOfOverflows # timeOut[t].overflow
       \/ Elapsed(t) >= call[t].wait

\* xTaskCheckForTimeOut: what it returns
HasTimedOut(t) ==
    /\ call[t].wait # MaxDelay
    /\ \/ xNumOfOverflows # timeOut[t].overflow /\ xTickCount >= timeOut[t].entering
       \/ Elapsed(t) >= call[t].wait

\* xTaskCheckForTimeOut and prvIsQueueFull or prvIsQueueEmpty
Check(t) ==
    LET c == call[t]
        outcome == IF HasTimedOut(t) THEN "timeout" ELSE IF Blocked(c) THEN "wait" ELSE "retry"
        restarts == ~HasTimedOut(t) /\ c.wait # MaxDelay
    IN  /\ At(t, "check", IF outcome # "wait" THEN "unlockTx"
                          ELSE IF c.queue \in Mutexes /\ Side(c) = "receive" THEN "inherit"
                          ELSE "place")
        /\ call' = [call EXCEPT ![t].outcome = outcome,
                                ![t].wait = IF restarts THEN @ - Elapsed(t) ELSE @]
        /\ timeOut' = IF restarts THEN [timeOut EXCEPT ![t] = Now] ELSE timeOut
        /\ InCall /\ ListsUnchanged
        /\ UNCHANGED <<prio, evalue, xMissedYield, queues>>

\* vTaskPriorityInherit
Inherit(t) ==
    LET h == pxMutexHolder[call[t].queue]
    IN  /\ At(t, "inherit", "place")
        /\ \/ /\ prio[h] >= prio[t]
              /\ UNCHANGED <<prio, evalue, generic>>
           \/ /\ prio[h] < prio[t]
              /\ prio' = [prio EXCEPT ![h] = prio[t]]
              /\ evalue' = [evalue EXCEPT ![h] = MaxPriorities - prio[t]]
              /\ IF h \in ToSet(ready[prio[h]]) THEN AddToReady(<<h>>, prio')
                 ELSE UNCHANGED <<ready, uxTopReadyPriority>>
              /\ UNCHANGED <<delayed, overflowed, suspended, terminating>>
        /\ InCall
        /\ UNCHANGED <<eventItems, wake, clock, xMissedYield, queueVars>>

Place(t) ==
    /\ At(t, "place", "unlockTx")
    /\ PlaceOnEventList(t, List(call[t]), call[t].wait)
    /\ InCall
    /\ UNCHANGED <<prio, evalue, xMissedYield, queueVars>>

(* Mutant: one task wakes, however many messages came. *)
ToWakeOne(lock) == IF lock > Unmodified THEN 1 ELSE 0

ToWake(lock) == IF lock > Unmodified THEN lock ELSE 0

\* One half of prvUnlockQueue: a task wakes for each message sent, or received, by
\* interrupts while the queue was locked
UnlockSide(l, lock) ==
    LET n == ToWake(lock)
    IN  /\ RemoveFromEventList(l, n)
        /\ xMissedYield' = (xMissedYield \/ WakesNoLower(Waiting(l, n)))

UnlockTx(t) ==
    LET q == call[t].queue
    IN  /\ At(t, "unlockTx", "unlockRx")
        /\ UnlockSide(<<q, "receive">>, xTxLock[q])
        /\ xTxLock' = [xTxLock EXCEPT ![q] = Unlocked]
        /\ InCall
        /\ UNCHANGED <<wake, clock, prio, evalue, messages, pxMutexHolder, xRxLock, call, timeOut>>

UnlockRx(t) ==
    LET q == call[t].queue
    IN  /\ At(t, "unlockRx", "resumeAll")
        /\ UnlockSide(<<q, "send">>, xRxLock[q])
        /\ xRxLock' = [xRxLock EXCEPT ![q] = Unlocked]
        /\ InCall
        /\ UNCHANGED <<wake, clock, prio, evalue, messages, pxMutexHolder, xTxLock, call, timeOut>>

\* xTaskResumeAll: a task that waits yields in any case, and tries again when it
\* runs next; one whose time is over returns errQUEUE_FULL or errQUEUE_EMPTY
CallResumeAll(t) ==
    /\ At(t, "resumeAll", IF call[t].outcome = "timeout" THEN "run" ELSE "test")
    /\ ResumeAll(call[t].outcome = "wait")
    /\ IF call[t].outcome = "timeout"
       THEN /\ call' = [call EXCEPT ![t] = NoCall]
            /\ timeOut' = [timeOut EXCEPT ![t] = NoTime]
       ELSE UNCHANGED <<call, timeOut>>
    /\ UNCHANGED queues

-----------------------------------------------------------------------------
(* Interrupt handlers, which yield when told to. *)

\* Wake a task of list l, or count if the queue is locked
WakeFromISR(l, lock) ==
    \/ /\ lock = Unlocked
       /\ RemoveFromEventList(l, 1)
       /\ pendSV' = (pendSV \/ WakesNoLower(Waiting(l, 1)))
    \/ /\ lock # Unlocked
       /\ UNCHANGED <<generic, eventItems, pendSV>>

(* Mutant: messages are counted whether or not the queue is locked. *)
CountAlways(lock) == lock + 1

Count(lock) == IF lock = Unlocked THEN Unlocked ELSE lock + 1

FromISRUnchanged ==
    UNCHANGED <<pc, pxCurrentTCB, wake, priorities, clock, scheduler, previous, history,
                pxMutexHolder, call, timeOut>>

\* xQueueGenericSendFromISR
SendFromISR(q, item, position) ==
    /\ resuming = "no" /\ q \in IsrSends /\ ~IsFull(q) /\ xTxLock[q] < MaxLock
    /\ messages' = [messages EXCEPT ![q] = Put(q, item, position)]
    /\ WakeFromISR(<<q, "receive">>, xTxLock[q])
    /\ xTxLock' = [xTxLock EXCEPT ![q] = Count(@)]
    /\ UNCHANGED xRxLock /\ FromISRUnchanged

\* xQueueReceiveFromISR
ReceiveFromISR(q) ==
    /\ resuming = "no" /\ q \in IsrReceives /\ ~IsEmpty(q) /\ xRxLock[q] < MaxLock
    /\ messages' = [messages EXCEPT ![q] = Tail(@)]
    /\ WakeFromISR(<<q, "send">>, xRxLock[q])
    /\ xRxLock' = [xRxLock EXCEPT ![q] = Count(@)]
    /\ UNCHANGED xTxLock /\ FromISRUnchanged

-----------------------------------------------------------------------------
\* Queues as xQueueGenericCreate and xQueueCreateMutex leave them: a mutex is
\* created empty and then given
Init ==
    /\ TaskInit
    /\ messages = [q \in Queues |-> IF q \in Mutexes THEN <<CHOOSE i \in Items : TRUE>> ELSE <<>>]
    /\ pxMutexHolder = [q \in Queues |-> Null]
    /\ xRxLock = [q \in Queues |-> Unlocked] /\ xTxLock = [q \in Queues |-> Unlocked]
    /\ call = [t \in AllTasks |-> NoCall]
    /\ timeOut = [t \in AllTasks |-> NoTime]

Arguments(t) ==
    [kind : {"send"}, queue : Queues, item : Items, position : {"back", "front"},
     wait : WaitTimes[t], entered : {FALSE}, outcome : {"none"}]
    \cup
    [kind : {"receive", "peek"}, queue : Queues, item : {Null}, position : {Null},
     wait : WaitTimes[t], entered : {FALSE}, outcome : {"none"}]

QueueStep(t) ==
    \/ \E c \in Arguments(t) : Begin(t, c)
    \/ Again(t) \/ CallSuspendAll(t) \/ LockQueue(t) \/ Check(t) \/ Inherit(t) \/ Place(t)
    \/ UnlockTx(t) \/ UnlockRx(t) \/ CallResumeAll(t)

QueueInterrupt ==
    \E q \in Queues : \/ ReceiveFromISR(q)
                      \/ \E i \in Items, p \in {"back", "front"} : SendFromISR(q, i, p)

Next ==
    \/ TaskNext /\ UNCHANGED queueVars
    \/ QueueInterrupt
    \/ \E t \in Task : QueueStep(t)

Spec == Init /\ [][Next]_vars

-----------------------------------------------------------------------------
(* Properties. *)

\* Where a task is in a call that had to wait
InACall == {"suspend", "lock", "check", "inherit", "place", "unlockTx", "unlockRx",
            "resumeAll", "test"}

Bounded == \A q \in Queues : messages[q] \in Seq(Items) /\ Len(messages[q]) <= Length[q]

QueueTypeOK ==
    /\ TasksTypeOK
    /\ pc \in [AllTasks -> InACall \cup {"run", "resume", "free"}]
    /\ Bounded
    /\ pxMutexHolder \in [Queues -> Task \cup {Null}]
    /\ xRxLock \in [Queues -> Unlocked .. MaxLock] /\ xTxLock \in [Queues -> Unlocked .. MaxLock]
    /\ \A t \in AllTasks : call[t] = NoCall \/ call[t].wait \in Ticks
    /\ timeOut \in [AllTasks -> [overflow : 0 .. OverflowWidth - 1, entering : Ticks]]

\* The tasks that will test q again before they wait or give up
Retrying(q, side) ==
    {t \in Task : /\ call[t] # NoCall /\ List(call[t]) = <<q, side>>
                  /\ t \notin ToSet(events[<<q, side>>])
                  /\ pc[t] \notin {"inherit", "place"} /\ call[t].outcome # "timeout"}

Counted(lock) == IF lock = Unlocked THEN 0 ELSE lock

\* Nobody waits for a message, or for room, that is there and for which no other
\* task was woken: each message put wakes one task, now or, if it came while the
\* queue was locked, at its unlocking.
WokenForEach ==
    \A q \in Queues :
        /\ events[<<q, "receive">>] # <<>> =>
              Len(messages[q]) <= Cardinality(Retrying(q, "receive")) + Counted(xTxLock[q])
        /\ events[<<q, "send">>] # <<>> =>
              Length[q] - Len(messages[q])
                 <= Cardinality(Retrying(q, "send")) + Counted(xRxLock[q])

\* A call gives up no earlier than it was asked to, whatever it went through in
\* between: wake-ups that come to nothing, missed ticks, the overflow of the count.
NoEarlyTimeout ==
    \A t \in Task : call[t] # NoCall /\ call[t].outcome = "timeout" => left[t] = 0

\* A queue is locked only while the scheduler is suspended, by the running task;
\* so no two tasks lock it, and interrupts find it unlocked again.
LockedBySuspender ==
    \A q \in Queues : xRxLock[q] # Unlocked \/ xTxLock[q] # Unlocked =>
        /\ uxSchedulerSuspended = 1
        /\ call[pxCurrentTCB] # NoCall /\ call[pxCurrentTCB].queue = q

\* A mutex has a holder when it is taken and only then.
HeldWhenTaken == \A m \in Mutexes : IsEmpty(m) <=> pxMutexHolder[m] # Null

\* The holder of a mutex runs at no lower priority than any task that waits for it.
HolderInherits ==
    \A m \in Mutexes : \A t \in ToSet(events[<<m, "receive">>]) :
        pxMutexHolder[m] # Null => prio[pxMutexHolder[m]] >= prio[t]

\* A task that holds no mutex has its own priority back.
PriorityGivenBack ==
    \A t \in Task : prio[t] = base[t] \/ \E m \in Mutexes : pxMutexHolder[m] = t

\* Mutexes have holders when they are taken; the holder runs at the priority of the
\* highest task that waits for it, and a task that holds no mutex has its own
\* priority back.
Inheritance == HeldWhenTaken /\ HolderInherits /\ PriorityGivenBack

\* "the highest priority task is the first to be woken by the event"
\* (vTaskPlaceOnEventList)
HighestFirst ==
    \A l \in EventLists : \A i, j \in DOMAIN events[l] :
        i < j => prio[events[l][i]] >= prio[events[l][j]]

-----------------------------------------------------------------------------
(* What the calls do all together. *)

\* A call without the variables of the loop
Request(c) == [kind |-> c.kind, queue |-> c.queue, item |-> c.item, position |-> c.position,
               patient |-> c.wait = MaxDelay]

Pending == [t \in Task |-> IF pc[t] \in InACall THEN Request(call[t]) ELSE NoCall]

BQ == INSTANCE BlockingQueue WITH
    pending <- Pending,
    Recreated <- IF \E t \in Task : "xTaskCreate" \in Calls[t] THEN Task ELSE {}

\* xQueueGenericSend and xQueueGenericReceive, with all their tests, locks and
\* retries, keep what a queue promises (BlockingQueue): a call has its effect once,
\* on the queue as it is at that moment, or returns errQUEUE_FULL or errQUEUE_EMPTY
\* without one, and that never if it was to wait for portMAX_DELAY; and a mutex is
\* given by its holder only.
ImplementsBlockingQueue == BQ!Spec

=============================================================================
