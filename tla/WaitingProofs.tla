----------------------------- MODULE WaitingProofs -----------------------------
(***************************************************************************)
(* Theorems about waiting in Tasks and Queue: types and ranges             *)
(* (QueueTypes), limits of calls (TimeoutsNotEarly), delays that are not   *)
(* too short (DelaysNotShort) and not too long (DelaysNotLongHolds,        *)
(* NobodyOversleeps), the order in which tasks wait (HighestIsFirst),      *)
(* their waking (EachMessageWakes) and the priorities that the holders of  *)
(* mutexes inherit (PrioritiesGivenBack, InheritanceHolds), for any tasks, *)
(* priorities, queues, waits and width of the tick count.                  *)
(***************************************************************************)
EXTENDS TaskListProofs

(***************************************************************************)
(* The types of what is not a list.                                        *)
(***************************************************************************)

(* The widths of the two counters.                                         *)
LEMMA Widths ==
  /\ TickWidth \in Nat /\ TickWidth > 1 /\ Ticks = 0 .. TickWidth - 1
  /\ MaxDelay = TickWidth - 1 /\ MaxDelay \in Ticks
  /\ OverflowWidth \in Nat /\ OverflowWidth > 1
BY TasksAssumption DEF Ticks, MaxDelay

(* A remainder is below its width.                                         *)
LEMMA Remainders ==
  \A n \in Nat : n % TickWidth \in Ticks /\ n % OverflowWidth \in 0 .. OverflowWidth - 1
BY TasksAssumption DEF Ticks, MaxDelay

(* Whether a switch is requested, or was while the scheduler was suspended.*)
LEMMA FlagTypes ==
  ASSUME xMissedYield \in BOOLEAN, pendSV \in BOOLEAN, TaskNext
  PROVE  xMissedYield' \in BOOLEAN /\ pendSV' \in BOOLEAN
<1>1. ASSUME NEW yield \in BOOLEAN, ResumeAll(yield)
      PROVE  xMissedYield' \in BOOLEAN /\ pendSV' \in BOOLEAN
  <2>1. xMissedYield' \in BOOLEAN
    BY <1>1 DEF ResumeAll, YieldAfterResume
  <2>2. PendingRequireYield \in BOOLEAN
    BY DEF PendingRequireYield, WakesNoLower
  <2>3. pendSV' = pendSV \/ pendSV' = ((yield \/ PendingRequireYield) \/ xMissedYield)
    BY <1>1 DEF ResumeAll, YieldAfterResume
  <2> QED BY <2>1, <2>2, <2>3
<1>2. CASE Tick
  BY <1>2 DEF Tick
<1>3. ASSUME NEW u \in Task, ResumeFromISR(u)
      PROVE  xMissedYield' \in BOOLEAN /\ pendSV' \in BOOLEAN
  BY <1>3 DEF ResumeFromISR, scheduler
<1>4. CASE Switch
  BY <1>4 DEF Switch
<1>5. CASE CatchUp
  BY <1>5 DEF CatchUp, YieldAfterResume
<1>6. CASE IdleStep
  <2>1. CASE IdleResume
    <3>1. \E yield \in BOOLEAN : ResumeAll(yield)
      BY <2>1 DEF IdleResume
    <3> QED BY <1>1, <3>1
  <2>2. CASE IdleYield \/ IdleBegin \/ IdleFree
    BY <2>2 DEF IdleYield, IdleBegin, IdleFree, Yield, scheduler
  <2> QED BY <1>6, <2>1, <2>2 DEF IdleStep
<1>7. ASSUME NEW t \in Task, ApiCall(t) PROVE xMissedYield' \in BOOLEAN /\ pendSV' \in BOOLEAN
  <2>1. CASE TaskSuspendAll(t)
    BY <2>1 DEF TaskSuspendAll
  <2>2. CASE TaskResumeAll(t) \/ DelayResume(t)
    <3>1. ResumeAll(FALSE) \/ ResumeAll(TRUE)
      BY <2>2 DEF TaskResumeAll, DelayResume
    <3> QED BY <1>1, <3>1
  <2>3. ASSUME NEW d \in DelayTimes, Delay(t, d) \/ DelayUntil(t, d)
        PROVE  xMissedYield' \in BOOLEAN /\ pendSV' \in BOOLEAN
    BY <2>3 DEF Delay, DelayUntil
  <2>4. ASSUME NEW u \in Task, Create(t, u) \/ Delete(t, u) \/ Suspend(t, u) \/ Resume(t, u)
        PROVE  xMissedYield' \in BOOLEAN /\ pendSV' \in BOOLEAN
    <3>1. UNCHANGED xMissedYield
      BY <2>4 DEF Create, Delete, Suspend, Resume, scheduler
    <3>2. CASE Create(t, u)
      <4>1. pendSV' = (prio[t] < Priority[u])
        BY <3>2 DEF Create, Yield
      <4> QED BY <3>1, <4>1
    <3>3. CASE Resume(t, u)
      BY <3>1, <3>3 DEF Resume, Yield
    <3>4. CASE Delete(t, u) \/ Suspend(t, u)
      BY <3>1, <3>4 DEF Delete, Suspend, Yield
    <3> QED BY <2>4, <3>2, <3>3, <3>4
  <2>5. ASSUME NEW u \in Task, NEW p \in NewPriorities, PrioritySet(t, u, p)
        PROVE  xMissedYield' \in BOOLEAN /\ pendSV' \in BOOLEAN
    BY <2>5 DEF PrioritySet, Yield, scheduler
  <2> QED BY <1>7, <2>1, <2>2, <2>3, <2>4, <2>5 DEF ApiCall
<1> QED BY <1>2, <1>3, <1>4, <1>5, <1>6, <1>7 DEF TaskNext, Interrupt

(* Arrays of lists stay arrays.                                            *)
ListArrays ==
    ready = [p \in Priorities |-> ready[p]] /\ events = [l \in EventLists |-> events[l]]

(* The arrays of lists stay arrays.                                        *)
LEMMA ArrayTypes ==
  ASSUME ListArrays, TaskNext
  PROVE  ListArrays'
<1> USE DEF ListArrays
<1>1. CASE Tick \/ CatchUp
  BY <1>1 DEF Tick, CatchUp, IncrementTick, AddToReady, generic, eventItems
<1>2. ASSUME NEW u \in Task, ResumeFromISR(u) PROVE ListArrays'
  BY <1>2 DEF ResumeFromISR, MakeReady, AddToReady, generic
<1>3. CASE Switch
  BY <1>3 DEF Switch, eventItems
<1>4. ASSUME NEW yield, ResumeAll(yield) PROVE ListArrays'
  BY <1>4 DEF ResumeAll, MakeReady, AddToReady, generic
<1>5. CASE IdleStep
  BY <1>4, <1>5 DEF IdleStep, IdleYield, IdleBegin, IdleResume, IdleFree, generic, eventItems
<1>6. ASSUME NEW t \in Task, ApiCall(t) PROVE ListArrays'
  <2>1. CASE TaskSuspendAll(t)
    BY <2>1 DEF TaskSuspendAll, generic, eventItems
  <2>2. CASE TaskResumeAll(t) \/ DelayResume(t)
    BY <1>4, <2>2 DEF TaskResumeAll, DelayResume
  <2>3. ASSUME NEW d \in DelayTimes, Delay(t, d) \/ DelayUntil(t, d) PROVE ListArrays'
    BY <2>3 DEF Delay, DelayUntil, AddToDelayed, generic, eventItems
  <2>4. ASSUME NEW u \in Task, Create(t, u) \/ Resume(t, u) PROVE ListArrays'
    BY <2>4 DEF Create, Resume, MakeReady, AddToReady, eventItems
  <2>5. ASSUME NEW u \in Task, Delete(t, u) \/ Suspend(t, u) PROVE ListArrays'
    BY <2>5 DEF Delete, Suspend, RemoveFromLists
  <2>6. ASSUME NEW u \in Task, NEW p \in NewPriorities, PrioritySet(t, u, p) PROVE ListArrays'
    BY <2>6 DEF PrioritySet, AddToReady, eventItems
  <2> QED BY <1>6, <2>1, <2>2, <2>3, <2>4, <2>5, <2>6 DEF ApiCall
<1> QED BY <1>1, <1>2, <1>3, <1>5, <1>6 DEF TaskNext, Interrupt

(* Ticks are missed only while the scheduler is suspended, and then caught *)
(* up with.                                                                *)
Missing ==
    /\ uxSchedulerSuspended \in 0 .. 2 /\ uxMissedTicks \in 0 .. MaxMissed
    /\ resuming \in {"no", "yields", "returns"}
    /\ uxSchedulerSuspended = 0 /\ resuming = "no" => uxMissedTicks = 0
    /\ resuming # "no" => uxSchedulerSuspended = 0 /\ uxMissedTicks > 0

(* xTaskResumeAll with no missed tick ends the suspension with none.       *)
LEMMA ResumeAllMissing ==
  ASSUME Missing, resuming = "no", uxSchedulerSuspended # 0, NEW yield, ResumeAll(yield)
  PROVE  Missing'
BY DEF ResumeAll, YieldAfterResume, Missing

(* Ticks are missed only while the scheduler is suspended or resuming.     *)
LEMMA TaskNextMissing ==
  ASSUME Missing, Shapes, InSuspension, SuspendedByRunning, TaskNext
  PROVE  Missing'
<1> USE DEF Missing
<1>1. CASE Tick
  BY <1>1, TasksAssumption DEF Tick
<1>2. ASSUME NEW u \in Task, ResumeFromISR(u) PROVE Missing'
  BY <1>2 DEF ResumeFromISR, scheduler
<1>3. CASE Switch
  BY <1>3 DEF Switch
<1>4. CASE CatchUp
  BY <1>4, TasksAssumption DEF CatchUp, YieldAfterResume
<1>5. CASE IdleStep
  <2>1. CASE IdleYield \/ IdleFree
    BY <2>1 DEF IdleYield, IdleFree, scheduler
  <2>2. CASE IdleBegin
    <3>1. uxSchedulerSuspended = 0
      BY <2>2, TasksAssumption DEF IdleBegin, Executes, SuspendedByRunning, Suspending, LockedForRx
    <3> QED BY <2>2, <3>1 DEF IdleBegin, SuspendAll, Executes
  <2>3. CASE IdleResume
    <3>1. uxSchedulerSuspended = 1
      BY <2>3 DEF IdleResume, Executes, InSuspension, Suspending, AllTasks
    <3>2. resuming = "no" /\ \E yield : ResumeAll(yield)
      BY <2>3 DEF IdleResume, Executes
    <3> QED BY <3>1, <3>2, ResumeAllMissing
  <2> QED BY <1>5, <2>1, <2>2, <2>3 DEF IdleStep
<1>6. ASSUME NEW t \in Task, ApiCall(t) PROVE Missing'
  <2>1. CASE TaskSuspendAll(t)
    BY <2>1 DEF TaskSuspendAll, SuspendAll, Executes
  <2>2. CASE TaskResumeAll(t)
    <3>1. resuming = "no" /\ uxSchedulerSuspended # 0
      BY <2>2 DEF TaskResumeAll, Executes
    <3>2. \E yield : ResumeAll(yield)
      BY <2>2 DEF TaskResumeAll
    <3> QED BY <3>1, <3>2, ResumeAllMissing
  <2>3. CASE DelayResume(t)
    <3>1. uxSchedulerSuspended = 1
      BY <2>3 DEF DelayResume, Executes, InSuspension, Suspending, AllTasks
    <3>2. resuming = "no" /\ \E yield : ResumeAll(yield)
      BY <2>3 DEF DelayResume, Executes
    <3> QED BY <3>1, <3>2, ResumeAllMissing
  <2>4. ASSUME NEW d \in DelayTimes, Delay(t, d) \/ DelayUntil(t, d) PROVE Missing'
    BY <2>4 DEF Delay, DelayUntil, CallsFunction, Executes, SuspendAll
  <2>5. ASSUME NEW u \in Task, Create(t, u) \/ Delete(t, u) \/ Suspend(t, u) \/ Resume(t, u)
        PROVE  Missing'
    BY <2>5 DEF Create, Delete, Suspend, Resume, scheduler
  <2>6. ASSUME NEW u \in Task, NEW p \in NewPriorities, PrioritySet(t, u, p) PROVE Missing'
    BY <2>6 DEF PrioritySet, scheduler
  <2> QED BY <1>6, <2>1, <2>2, <2>3, <2>4, <2>5, <2>6 DEF ApiCall
<1> QED BY <1>1, <1>2, <1>3, <1>4, <1>5, <1>6 DEF TaskNext, Interrupt

Places == InACall \cup {"run", "resume", "free"}

(* pc and the counters.                                                    *)
ClockTypes ==
    /\ xTickCount \in Ticks /\ xNextTaskUnblockTime \in Ticks
    /\ xNumOfOverflows \in 0 .. OverflowWidth - 1
    /\ pc \in [AllTasks -> Places] /\ wake \in [AllTasks -> Ticks]
    /\ previous \in [AllTasks -> Ticks] /\ evalue \in [AllTasks -> 1 .. MaxPriorities]
    /\ left \in [AllTasks -> Ticks] /\ since \in [AllTasks -> -TickWidth .. TickWidth]

(* The tick, but for the history: it wakes the first n tasks of the list.  *)
LEMMA TickWakesFirst ==
  ASSUME ListTypes, xTickCount \in Ticks, wake \in [AllTasks -> Ticks],
         xNextTaskUnblockTime \in Ticks, IncrementTick
  PROVE  LET tick    == (xTickCount + 1) % TickWidth
             list    == IF tick = 0 THEN overflowed ELSE delayed
             unblock == IF tick # 0 THEN xNextTaskUnblockTime
                        ELSE IF list = <<>> THEN MaxDelay ELSE wake[Head(list)]
         IN  \E n \in 0 .. Len(list) :
               LET due  == SubSeq(list, 1, n)
                   rest == SubSeq(list, n + 1, Len(list))
               IN  /\ xTickCount' = tick /\ delayed' = rest
                   /\ overflowed' = IF tick = 0 THEN delayed ELSE overflowed
                   /\ AddToReady(due, prio)
                   /\ events' = [l \in EventLists |-> Without(events[l], ToSet(due))]
                   /\ pendingReady' = Without(pendingReady, ToSet(due))
                   /\ UNCHANGED <<suspended, terminating>>
                   /\ tick < unblock => n = 0 /\ xNextTaskUnblockTime' = unblock
                   /\ ~(tick < unblock) =>
                         /\ \A i \in 1 .. n : wake[list[i]] <= tick
                         /\ n < Len(list) => wake[list[n + 1]] > tick
                         /\ xNextTaskUnblockTime' = IF rest = <<>> THEN MaxDelay ELSE wake[Head(rest)]
<1> DEFINE tick    == (xTickCount + 1) % TickWidth
           list    == IF tick = 0 THEN overflowed ELSE delayed
           unblock == IF tick # 0 THEN xNextTaskUnblockTime
                      ELSE IF list = <<>> THEN MaxDelay ELSE wake[Head(list)]
           later   == {i \in DOMAIN list : wake[list[i]] > tick}
           first   == CHOOSE i \in later : \A j \in later : i <= j
           n       == IF tick < unblock THEN 0 ELSE IF later = {} THEN Len(list) ELSE first - 1
           due     == SubSeq(list, 1, n)
           rest    == SubSeq(list, n + 1, Len(list))
<1>1. /\ xTickCount' = tick /\ delayed' = rest
      /\ overflowed' = IF tick = 0 THEN delayed ELSE overflowed
      /\ AddToReady(due, prio)
      /\ events' = [l \in EventLists |-> Without(events[l], ToSet(due))]
      /\ pendingReady' = Without(pendingReady, ToSet(due))
      /\ UNCHANGED <<suspended, terminating>>
      /\ xNextTaskUnblockTime' = IF tick < unblock THEN unblock
                                 ELSE IF rest = <<>> THEN MaxDelay ELSE wake[Head(rest)]
  BY DEF IncrementTick
<1>2. Good(list) /\ tick \in Nat
  <2>1. xTickCount + 1 \in Nat
    BY Widths
  <2>2. tick \in Ticks
    BY <2>1, Remainders
  <2> QED BY <2>2, Widths DEF ListTypes
<1> HIDE DEF list, unblock, tick
<1>3. /\ Len(list) \in Nat /\ DOMAIN list = 1 .. Len(list) /\ later \subseteq 1 .. Len(list)
      /\ \A i \in 1 .. Len(list) : wake[list[i]] \in Nat
  <2>1. /\ Len(list) \in Nat /\ DOMAIN list = 1 .. Len(list)
        /\ \A i \in 1 .. Len(list) : list[i] \in AllTasks
    BY <1>2, GoodFacts
  <2>2. \A u \in AllTasks : wake[u] \in Nat
    BY Widths
  <2> QED BY <2>1, <2>2
<1>4. later # {} => first \in later /\ \A j \in later : first <= j
  <2>1. later \in SUBSET Nat
    BY <1>3
  <2> HIDE DEF later
  <2> QED BY <2>1, Least
<1> HIDE DEF first
<1>5. n \in 0 .. Len(list)
  <2>1. later # {} => first \in 1 .. Len(list)
    BY <1>3, <1>4
  <2> HIDE DEF later
  <2> QED BY <1>3, <2>1
<1>6. ASSUME ~(tick < unblock)
      PROVE  /\ \A i \in 1 .. n : wake[list[i]] <= tick
             /\ n < Len(list) => wake[list[n + 1]] > tick
  <2>1. CASE later = {}
    <3>1. n = Len(list)
      BY <1>6, <2>1
    <3> QED BY <1>2, <1>3, <2>1, <3>1
  <2>2. CASE later # {}
    <3>1. n = first - 1 /\ first \in 1 .. Len(list) /\ wake[list[first]] > tick
      BY <1>3, <1>4, <1>6, <2>2
    <3>2. \A i \in 1 .. n : i \notin later /\ i \in DOMAIN list
      BY <1>3, <1>4, <2>2, <3>1
    <3> QED BY <1>2, <1>3, <3>1, <3>2
  <2> QED BY <2>1, <2>2
<1>7. tick < unblock => n = 0
  OBVIOUS
<1> HIDE DEF n, later
<1>8. \E m \in 0 .. Len(list) :
          LET d == SubSeq(list, 1, m)
              r == SubSeq(list, m + 1, Len(list))
          IN  /\ xTickCount' = tick /\ delayed' = r
              /\ overflowed' = IF tick = 0 THEN delayed ELSE overflowed
              /\ AddToReady(d, prio)
              /\ events' = [l \in EventLists |-> Without(events[l], ToSet(d))]
              /\ pendingReady' = Without(pendingReady, ToSet(d))
              /\ UNCHANGED <<suspended, terminating>>
              /\ tick < unblock => m = 0 /\ xNextTaskUnblockTime' = unblock
              /\ ~(tick < unblock) =>
                    /\ \A i \in 1 .. m : wake[list[i]] <= tick
                    /\ m < Len(list) => wake[list[m + 1]] > tick
                    /\ xNextTaskUnblockTime' = IF r = <<>> THEN MaxDelay ELSE wake[Head(r)]
  BY <1>1, <1>5, <1>6, <1>7, Zenon
<1> QED BY <1>8 DEF tick, list, unblock

(* vTaskIncrementTick keeps the counters and the next time to unblock in   *)
(* their range.                                                            *)
LEMMA IncrementTickTypes ==
  ASSUME ClockTypes, ListTypes, IncrementTick
  PROVE  /\ xTickCount' \in Ticks /\ xNextTaskUnblockTime' \in Ticks
         /\ xNumOfOverflows' \in 0 .. OverflowWidth - 1
<1> DEFINE tick    == (xTickCount + 1) % TickWidth
           list    == IF tick = 0 THEN overflowed ELSE delayed
           unblock == IF tick # 0 THEN xNextTaskUnblockTime
                      ELSE IF list = <<>> THEN MaxDelay ELSE wake[Head(list)]
<1>1. xTickCount + 1 \in Nat /\ xNumOfOverflows + 1 \in Nat
  BY Widths DEF ClockTypes
<1>2. tick \in Ticks /\ (xNumOfOverflows + 1) % OverflowWidth \in 0 .. OverflowWidth - 1
  BY <1>1, Remainders
<1>3. xTickCount' = tick /\ xNumOfOverflows' = IF tick = 0 THEN (xNumOfOverflows + 1) % OverflowWidth
                                               ELSE xNumOfOverflows
  BY DEF IncrementTick
<1>4. Good(list)
  BY DEF ListTypes
<1>5. PICK n \in 0 .. Len(list) :
         LET rest == SubSeq(list, n + 1, Len(list))
         IN  \/ xNextTaskUnblockTime' = unblock
             \/ xNextTaskUnblockTime' = IF rest = <<>> THEN MaxDelay ELSE wake[Head(rest)]
  BY TickWakesFirst DEF ClockTypes
<1> DEFINE rest == SubSeq(list, n + 1, Len(list))
<1>6. Good(rest)
  BY <1>4, <1>5, GoodSplit
<1>7. \A s : Good(s) /\ s # <<>> => wake[Head(s)] \in Ticks
  BY GoodTail DEF ClockTypes
<1>8. unblock \in Ticks
  <2> HIDE DEF list
  <2> QED BY <1>4, <1>7, Widths DEF ClockTypes
<1>9. (IF rest = <<>> THEN MaxDelay ELSE wake[Head(rest)]) \in Ticks
  <2> HIDE DEF rest
  <2> QED BY <1>6, <1>7, Widths
<1> QED BY <1>2, <1>3, <1>5, <1>8, <1>9 DEF ClockTypes

(* Setting the time to wake.                                               *)
LEMMA AddToDelayedTypes ==
  ASSUME ClockTypes, NEW t \in Task, NEW time \in Ticks, AddToDelayed(t, time)
  PROVE  /\ wake' \in [AllTasks -> Ticks] /\ xNextTaskUnblockTime' \in Ticks
         /\ UNCHANGED <<xTickCount, xNumOfOverflows>>
BY DEF ClockTypes, AddToDelayed, UnblockTime, AllTasks

(* A tick of real time keeps what measures it in its range.                *)
LEMMA PassTimeTypes ==
  ASSUME ClockTypes, PassTime
  PROVE  left' \in [AllTasks -> Ticks] /\ since' \in [AllTasks -> -TickWidth .. TickWidth]
<1>1. \A t \in AllTasks : (IF left[t] > 0 THEN left[t] - 1 ELSE 0) \in Ticks
  BY Widths DEF ClockTypes
<1>2. \A t \in AllTasks : since[t] \in -TickWidth .. TickWidth
  BY DEF ClockTypes
<1>3. \A t \in AllTasks : (IF since[t] < TickWidth /\ "vTaskDelayUntil" \in Calls[t]
                           THEN since[t] + 1 ELSE since[t]) \in -TickWidth .. TickWidth
  BY <1>2, Widths
<1> QED BY <1>1, <1>3 DEF PassTime

(* The delays note times that are ticks.                                   *)
LEMMA DelayTypes ==
  ASSUME ClockTypes, NEW t \in Task, NEW d \in DelayTimes, Delay(t, d) \/ DelayUntil(t, d)
  PROVE  ClockTypes'
<1>1. t \in AllTasks /\ d \in Ticks /\ d > 0 /\ d <= TickWidth /\ d \in Nat
  BY TasksAssumption DEF AllTasks, Ticks
<1>2. previous[t] \in Ticks /\ xTickCount \in Ticks
  BY <1>1 DEF ClockTypes
<1>3. (previous[t] + d) % TickWidth \in Ticks /\ (xTickCount + d) % TickWidth \in Ticks
  <2>1. previous[t] + d \in Nat /\ xTickCount + d \in Nat
    BY <1>1, <1>2, Widths
  <2> QED BY <2>1, Remainders
<1>4. pc' \in [AllTasks -> Places] /\ UNCHANGED evalue
  BY <1>1 DEF Delay, DelayUntil, ClockTypes, priorities, Places
<1>5. /\ wake' \in [AllTasks -> Ticks] /\ xNextTaskUnblockTime' \in Ticks
      /\ UNCHANGED <<xTickCount, xNumOfOverflows>>
  <2>1. CASE \E time \in Ticks : AddToDelayed(t, time)
    BY <2>1, AddToDelayedTypes
  <2>2. CASE UNCHANGED <<wake, clock>>
    BY <2>2 DEF ClockTypes, clock
  <2> QED BY <1>3, <2>1, <2>2 DEF Delay, DelayUntil, WakeTime
<1>6. previous' \in [AllTasks -> Ticks]
  BY <1>3 DEF Delay, DelayUntil, ClockTypes
<1>7. left' \in [AllTasks -> Ticks] /\ since' \in [AllTasks -> -TickWidth .. TickWidth]
  <2>1. CASE Delay(t, d)
    BY <1>1, <2>1 DEF Delay, ClockTypes
  <2>2. CASE DelayUntil(t, d)
    <3>1. since[t] \in 0 .. TickWidth - 1
      BY <2>2 DEF DelayUntil
    <3>2. /\ (IF d > since[t] THEN d - since[t] ELSE 0) \in Ticks
          /\ since[t] - d \in -TickWidth .. TickWidth
      BY <1>1, <3>1, Widths
    <3> QED BY <2>2, <3>2 DEF DelayUntil, ClockTypes
  <2> QED BY <2>1, <2>2
<1> QED BY <1>4, <1>5, <1>6, <1>7 DEF ClockTypes

(* Every step of the scheduler keeps the times, priorities and list values *)
(* in their range.                                                         *)
LEMMA TaskNextClock ==
  ASSUME ClockTypes, ListsInv, TaskNext
  PROVE  ClockTypes'
<1>1. CASE Tick
  <2>1. ListTypes /\ UNCHANGED <<pc, wake, previous, evalue>>
    BY <1>1 DEF ListsInv, Tick, priorities
  <2>2. /\ xTickCount' \in Ticks /\ xNextTaskUnblockTime' \in Ticks
        /\ xNumOfOverflows' \in 0 .. OverflowWidth - 1
    <3>1. CASE IncrementTick
      BY <2>1, <3>1, IncrementTickTypes
    <3>2. CASE UNCHANGED clock
      BY <3>2 DEF clock, ClockTypes
    <3> QED BY <1>1, <3>1, <3>2 DEF Tick
  <2>3. left' \in [AllTasks -> Ticks] /\ since' \in [AllTasks -> -TickWidth .. TickWidth]
    BY <1>1, PassTimeTypes DEF Tick
  <2> QED BY <2>1, <2>2, <2>3 DEF ClockTypes
<1>2. CASE CatchUp
  <2>1. ListTypes /\ UNCHANGED <<pc, wake, previous, left, since, evalue>> /\ IncrementTick
    BY <1>2 DEF ListsInv, CatchUp, priorities, history
  <2> QED BY <2>1, IncrementTickTypes DEF ClockTypes
<1>3. CASE Switch \/ \E u \in Task : ResumeFromISR(u)
  BY <1>3 DEF Switch, ResumeFromISR, ClockTypes, clock, history, priorities
<1>4. ASSUME NEW yield, ResumeAll(yield), pc' \in [AllTasks -> Places] PROVE ClockTypes'
  BY <1>4 DEF ResumeAll, ClockTypes, clock, history, priorities
<1>5. CASE IdleStep
  <2>1. pc' \in [AllTasks -> Places]
    BY <1>5 DEF IdleStep, IdleYield, IdleBegin, IdleResume, IdleFree, ClockTypes, Places
  <2>2. CASE IdleResume
    BY <1>4, <2>1, <2>2 DEF IdleResume
  <2>3. CASE IdleYield \/ IdleBegin \/ IdleFree
    BY <2>1, <2>3 DEF IdleYield, IdleBegin, IdleFree, ClockTypes, clock, history, priorities
  <2> QED BY <1>5, <2>2, <2>3 DEF IdleStep
<1>6. ASSUME NEW t \in Task, ApiCall(t) PROVE ClockTypes'
  <2>1. CASE TaskSuspendAll(t)
    BY <2>1 DEF TaskSuspendAll, ClockTypes, clock, history, priorities
  <2>2. CASE TaskResumeAll(t) \/ DelayResume(t)
    <3>1. pc' \in [AllTasks -> Places]
      BY <2>2 DEF TaskResumeAll, DelayResume, ClockTypes, Places
    <3>2. ResumeAll(FALSE) \/ ResumeAll(TRUE)
      BY <2>2 DEF TaskResumeAll, DelayResume
    <3> QED BY <1>4, <3>1, <3>2
  <2>3. CASE \E d \in DelayTimes : Delay(t, d) \/ DelayUntil(t, d)
    BY <2>3, DelayTypes
  <2>4. ASSUME NEW u \in Task, Create(t, u) PROVE ClockTypes'
    <3>1. u \in AllTasks /\ MaxPriorities - Priority[u] \in 1 .. MaxPriorities
      BY TasksAssumption DEF AllTasks, Priorities
    <3>2. 0 \in -TickWidth .. TickWidth
      BY Widths
    <3> QED BY <2>4, <3>1, <3>2, Widths DEF Create, ClockTypes, clock, Places
  <2>5. ASSUME NEW u \in Task, Delete(t, u) \/ Suspend(t, u) \/ Resume(t, u) PROVE ClockTypes'
    BY <2>5, Widths, SMTT(30) DEF Delete, Suspend, Resume, ClockTypes, clock, history, priorities, Ticks
  <2>6. ASSUME NEW u \in Task, NEW p \in NewPriorities, PrioritySet(t, u, p) PROVE ClockTypes'
    <3>1. u \in AllTasks /\ MaxPriorities - p \in 1 .. MaxPriorities
      BY TasksAssumption DEF AllTasks, Priorities
    <3> QED BY <2>6, <3>1 DEF PrioritySet, ClockTypes, clock, history
  <2> QED BY <1>6, <2>1, <2>2, <2>3, <2>4, <2>5, <2>6 DEF ApiCall
<1> QED BY <1>1, <1>2, <1>3, <1>5, <1>6 DEF TaskNext, Interrupt

(* What calls keep.                                                        *)
CallTypes ==
    /\ pxMutexHolder \in [Queues -> Task \cup {Null}]
    /\ xRxLock \in [Queues -> Unlocked .. MaxLock] /\ xTxLock \in [Queues -> Unlocked .. MaxLock]
    /\ \A t \in AllTasks : call[t] = NoCall \/ call[t].wait \in Ticks
    /\ timeOut \in [AllTasks -> [overflow : 0 .. OverflowWidth - 1, entering : Ticks]]

TypeInv ==
    /\ xMissedYield \in BOOLEAN /\ pendSV \in BOOLEAN
    /\ ListArrays /\ Missing /\ ClockTypes /\ CallTypes

(* The counts of a queue's lock.                                           *)
LEMMA LockBounds ==
  /\ Unlocked \in Int /\ Unmodified \in Int /\ MaxLock \in Nat /\ Unlocked = -1 /\ Unmodified = 0
  /\ Unlocked \in Unlocked .. MaxLock /\ Unmodified \in Unlocked .. MaxLock
BY QueueAssumption DEF Unlocked, Unmodified

(* Tasks of a list of waiting tasks become ready or pending.               *)
LEMMA RemoveFromEventListTypes ==
  ASSUME ListArrays, NEW l, NEW n, RemoveFromEventList(l, n)
  PROVE  ListArrays'
BY DEF ListArrays, RemoveFromEventList, MakeReady, AddToReady, generic

(* The time a call notes is a time.                                        *)
LEMMA TimeOutTypes ==
  ASSUME ClockTypes, CallTypes, NEW t \in AllTasks,
         timeOut' \in {timeOut, [timeOut EXCEPT ![t] = Now], [timeOut EXCEPT ![t] = NoTime]}
  PROVE  timeOut' \in [AllTasks -> [overflow : 0 .. OverflowWidth - 1, entering : Ticks]]
<1>1. /\ Now \in [overflow : 0 .. OverflowWidth - 1, entering : Ticks]
      /\ NoTime \in [overflow : 0 .. OverflowWidth - 1, entering : Ticks]
  BY Widths DEF Now, NoTime, ClockTypes
<1> QED BY <1>1 DEF CallTypes

(* The test of a call, which succeeds, fails or notes the time.            *)
LEMMA TestTypes ==
  ASSUME TypeInv, QueueInv, ListsInv, NEW t \in Task, NEW c, IsCall(c), c.wait \in Ticks,
         Test(t, c), TestUnchanged
  PROVE  TypeInv'
<1>1. t \in AllTasks /\ base[t] \in Priorities /\ MaxPriorities - base[t] \in 1 .. MaxPriorities
  BY TasksAssumption DEF AllTasks, ListsInv, ListTypes, Priorities
<1>2. ListArrays'
  <2>1. CASE UNCHANGED <<generic, eventItems>>
    BY <2>1 DEF ListArrays, generic, eventItems, TypeInv
  <2>2. CASE SendNow(t, c)
    BY <2>2 DEF SendNow, MakeReady, AddToReady, ListArrays, TypeInv
  <2>3. CASE ReceiveNow(t, c)
    <3>1. \E l : RemoveFromEventList(l, 1)
      BY <2>3 DEF ReceiveNow
    <3> QED BY <3>1, RemoveFromEventListTypes DEF TypeInv
  <2> QED BY <2>1, <2>2, <2>3 DEF Test
<1>3. pendSV' \in BOOLEAN
  <2>1. CASE SendNow(t, c)
    BY <2>1 DEF SendNow, Yield
  <2>2. CASE ReceiveNow(t, c)
    BY <2>2 DEF ReceiveNow, Yield, WakesNoLower
  <2>3. CASE UNCHANGED pendSV
    BY <2>3 DEF TypeInv
  <2> QED BY <2>1, <2>2, <2>3 DEF Test
<1>4. xMissedYield' \in BOOLEAN /\ Missing'
  BY DEF TestUnchanged, scheduler, Missing, TypeInv
<1>5. ClockTypes'
  <2>1. /\ UNCHANGED <<xTickCount, xNextTaskUnblockTime, xNumOfOverflows, wake, previous, since>>
        /\ pc' \in [AllTasks -> Places]
    BY DEF TestUnchanged, Test, Return, clock, ClockTypes, Places, InACall, TypeInv
  <2>2. evalue' \in [AllTasks -> 1 .. MaxPriorities]
    BY <1>1 DEF Test, SendNow, ReceiveNow, ClockTypes, TypeInv
  <2>3. left' \in [AllTasks -> Ticks]
    <3>1. 0 \in Ticks /\ (IF c.wait = MaxDelay THEN 0 ELSE c.wait) \in Ticks
      BY Widths
    <3>2. \/ left' = left \/ left' = [left EXCEPT ![t] = 0]
          \/ left' = [left EXCEPT ![t] = IF c.wait = MaxDelay THEN 0 ELSE c.wait]
      BY DEF Test, Return
    <3> QED BY <3>1, <3>2 DEF ClockTypes, TypeInv
  <2> QED BY <2>1, <2>2, <2>3 DEF ClockTypes, TypeInv
<1>6. CallTypes'
  <2>1. UNCHANGED <<xRxLock, xTxLock>>
    BY DEF TestUnchanged
  <2>2. pxMutexHolder' \in [Queues -> Task \cup {Null}]
    BY DEF Test, SendNow, ReceiveNow, CallTypes, TypeInv
  <2>3. timeOut' \in [AllTasks -> [overflow : 0 .. OverflowWidth - 1, entering : Ticks]]
    <3>1. timeOut' \in {timeOut, [timeOut EXCEPT ![t] = Now], [timeOut EXCEPT ![t] = NoTime]}
      BY DEF Test, Return
    <3> QED BY <1>1, <3>1, TimeOutTypes DEF TypeInv
  <2>4. ASSUME NEW u \in AllTasks PROVE call'[u] = NoCall \/ call'[u].wait \in Ticks
    <3>1. DOMAIN call = AllTasks
      BY DEF QueueInv, Shapes
    <3>2. call' = [call EXCEPT ![t] = NoCall] \/ call' = [call EXCEPT ![t] = [c EXCEPT !.entered = TRUE]]
      BY DEF Test, Return
    <3>3. [c EXCEPT !.entered = TRUE].wait = c.wait
      BY DEF IsCall
    <3>4. call[u] = NoCall \/ call[u].wait \in Ticks
      BY DEF CallTypes, TypeInv
    <3>5. CASE u = t
      BY <3>1, <3>2, <3>3, <3>5
    <3>6. CASE u # t
      BY <3>1, <3>2, <3>4, <3>6
    <3> QED BY <3>5, <3>6
  <2> QED BY <2>1, <2>2, <2>3, <2>4 DEF CallTypes, TypeInv
<1> QED BY <1>2, <1>3, <1>4, <1>5, <1>6 DEF TypeInv

(* A step of the loop that leaves the clock and the history alone.         *)
LEMMA LoopTypes ==
  ASSUME TypeInv, QueueInv, ListInv, Patience, NEW t \in Task,
         \/ CallSuspendAll(t) \/ LockQueue(t) \/ Check(t) \/ Inherit(t) \/ Place(t)
         \/ UnlockTx(t) \/ UnlockRx(t) \/ CallResumeAll(t)
  PROVE  TypeInv'
<1> USE DEF TypeInv
<1>1. PICK from \in InACall, place \in Places : At(t, from, place)
  BY DEF CallSuspendAll, LockQueue, Check, Inherit, Place, UnlockTx, UnlockRx, CallResumeAll,
         InACall, Places
<1>2. /\ t \in AllTasks /\ t = pxCurrentTCB /\ resuming = "no" /\ pc[t] = from
      /\ pc' \in [AllTasks -> Places]
      /\ from \in Suspending => uxSchedulerSuspended = 1
      /\ from \notin Suspending => uxSchedulerSuspended = 0
      /\ IsCall(call[t])
  BY <1>1, LoopFacts DEF ClockTypes
<1>3. ListArrays'
  <2>1. CASE CallSuspendAll(t) \/ LockQueue(t) \/ Check(t)
    BY <2>1 DEF CallSuspendAll, LockQueue, Check, ListsUnchanged, ListArrays, generic, eventItems
  <2>2. CASE Inherit(t)
    BY <2>2 DEF Inherit, AddToReady, ListArrays, eventItems, generic
  <2>3. CASE Place(t)
    BY <2>3 DEF Place, PlaceOnEventList, AddToDelayed, ListArrays
  <2>4. CASE UnlockTx(t) \/ UnlockRx(t)
    <3>1. \E l, n : RemoveFromEventList(l, n)
      BY <2>4 DEF UnlockTx, UnlockRx, UnlockSide
    <3> QED BY <3>1, RemoveFromEventListTypes
  <2>5. CASE CallResumeAll(t)
    BY <2>5 DEF CallResumeAll, ResumeAll, MakeReady, AddToReady, ListArrays, generic
  <2> QED BY <2>1, <2>2, <2>3, <2>4, <2>5
<1>4. Missing' /\ xMissedYield' \in BOOLEAN /\ pendSV' \in BOOLEAN
  <2>1. CASE CallSuspendAll(t)
    <3>1. uxSchedulerSuspended = 0
      BY <1>2, <2>1 DEF CallSuspendAll, At, Suspending, LockedForRx
    <3> QED BY <1>2, <2>1, <3>1 DEF CallSuspendAll, SuspendAll, Missing
  <2>2. CASE LockQueue(t) \/ Check(t) \/ Inherit(t) \/ Place(t)
    BY <2>2 DEF LockQueue, Check, Inherit, Place, InCall, Missing
  <2>3. CASE UnlockTx(t) \/ UnlockRx(t)
    <3>1. Missing' /\ pendSV' \in BOOLEAN
      BY <2>3 DEF UnlockTx, UnlockRx, InCall, Missing
    <3>2. \E l, n : xMissedYield' = (xMissedYield \/ WakesNoLower(Waiting(l, n)))
      BY <2>3 DEF UnlockTx, UnlockRx, UnlockSide
    <3>3. \A us : WakesNoLower(us) \in BOOLEAN
      BY DEF WakesNoLower
    <3> QED BY <3>1, <3>2, <3>3
  <2>4. CASE CallResumeAll(t)
    <3>1. uxSchedulerSuspended # 0
      BY <1>2, <2>4 DEF CallResumeAll, At, Suspending, LockedForRx
    <3>2. PICK yield : yield = (call[t].outcome = "wait") /\ ResumeAll(yield)
      BY <2>4 DEF CallResumeAll
    <3>3. Missing'
      BY <1>2, <3>1, <3>2, ResumeAllMissing
    <3>4. xMissedYield' \in BOOLEAN
      BY <3>2 DEF ResumeAll, YieldAfterResume
    <3>5. PendingRequireYield \in BOOLEAN /\ yield \in BOOLEAN
      BY <3>2 DEF PendingRequireYield, WakesNoLower
    <3>6. pendSV' = pendSV \/ pendSV' = ((yield \/ PendingRequireYield) \/ xMissedYield)
      BY <3>2 DEF ResumeAll, YieldAfterResume
    <3> QED BY <3>3, <3>4, <3>5, <3>6
  <2> QED BY <2>1, <2>2, <2>3, <2>4
<1>5. call[t].wait \in Ticks
  BY <1>1, <1>2 DEF Patience
<1>6. ClockTypes'
  <2>1. UNCHANGED <<previous, left, since>>
    BY DEF CallSuspendAll, LockQueue, Check, Inherit, Place, UnlockTx, UnlockRx, CallResumeAll,
           ResumeAll, InCall, history
  <2>2. evalue' \in [AllTasks -> 1 .. MaxPriorities]
    <3>1. CASE Inherit(t)
      <4>1. MaxPriorities - prio[t] \in 1 .. MaxPriorities
        BY <1>2, TasksAssumption DEF ListInv, ListsInv, ListTypes, Priorities
      <4> QED BY <3>1, <4>1 DEF Inherit, ClockTypes
    <3>2. CASE ~Inherit(t)
      BY <3>2 DEF CallSuspendAll, LockQueue, Check, Place, UnlockTx, UnlockRx, CallResumeAll,
                  ResumeAll, priorities, ClockTypes
    <3> QED BY <3>1, <3>2
  <2>3. /\ wake' \in [AllTasks -> Ticks] /\ xNextTaskUnblockTime' \in Ticks
        /\ UNCHANGED <<xTickCount, xNumOfOverflows>>
    <3>1. CASE UNCHANGED <<wake, clock>>
      BY <3>1 DEF clock, ClockTypes
    <3>2. CASE \E time \in Ticks : AddToDelayed(t, time)
      BY <3>2, AddToDelayedTypes
    <3>3. CASE Place(t)
      <4>1. xTickCount + call[t].wait \in Nat
        BY <1>5, Widths DEF ClockTypes
      <4>2. WakeTime(call[t].wait) \in Ticks
        BY <4>1, Remainders DEF WakeTime
      <4> QED BY <3>1, <3>2, <3>3, <4>2 DEF Place, PlaceOnEventList
    <3>4. CASE ~Place(t)
      BY <3>1, <3>4 DEF CallSuspendAll, LockQueue, Check, Inherit, UnlockTx, UnlockRx,
                  CallResumeAll, ResumeAll, ListsUnchanged
    <3> QED BY <3>3, <3>4
  <2> QED BY <1>2, <2>1, <2>2, <2>3 DEF ClockTypes
<1>7. CallTypes'
  <2>1. UNCHANGED pxMutexHolder
    BY DEF CallSuspendAll, LockQueue, Check, Inherit, Place, UnlockTx, UnlockRx, CallResumeAll,
           queueVars, queues
  <2>2. xRxLock' \in [Queues -> Unlocked .. MaxLock] /\ xTxLock' \in [Queues -> Unlocked .. MaxLock]
    <3>1. CASE LockQueue(t)
      BY <3>1, LockBounds DEF LockQueue, CallTypes
    <3>2. CASE UnlockTx(t) \/ UnlockRx(t)
      BY <3>2, LockBounds DEF UnlockTx, UnlockRx, CallTypes
    <3>3. CASE CallSuspendAll(t) \/ Check(t) \/ Inherit(t) \/ Place(t) \/ CallResumeAll(t)
      BY <3>3 DEF CallSuspendAll, Check, Inherit, Place, CallResumeAll, queueVars, queues, CallTypes
    <3> QED BY <3>1, <3>2, <3>3
  <2>3. timeOut' \in [AllTasks -> [overflow : 0 .. OverflowWidth - 1, entering : Ticks]]
    <3>1. timeOut' \in {timeOut, [timeOut EXCEPT ![t] = Now], [timeOut EXCEPT ![t] = NoTime]}
      BY DEF CallSuspendAll, LockQueue, Check, Inherit, Place, UnlockTx, UnlockRx, CallResumeAll,
             queueVars
    <3> QED BY <1>2, <3>1, TimeOutTypes
  <2>4. ASSUME NEW u \in AllTasks PROVE call'[u] = NoCall \/ call'[u].wait \in Ticks
    <3>1. DOMAIN call = AllTasks /\ (call[u] = NoCall \/ call[u].wait \in Ticks)
      BY DEF QueueInv, Shapes, CallTypes
    <3>2. CASE Check(t)
      <4>1. call'[t].wait \in Ticks
        BY <3>2, CheckKeepsRequest
      <4>2. u # t => call'[u] = call[u]
        BY <3>1, <3>2 DEF Check, AllTasks
      <4> QED BY <3>1, <4>1, <4>2
    <3>3. CASE CallResumeAll(t)
      BY <3>1, <3>3 DEF CallResumeAll
    <3>4. CASE UNCHANGED call
      BY <3>1, <3>4
    <3> QED BY <3>2, <3>3, <3>4 DEF CallSuspendAll, LockQueue, Inherit, Place, UnlockTx, UnlockRx,
                                    queueVars
  <2> QED BY <2>1, <2>2, <2>3, <2>4 DEF CallTypes
<1> QED BY <1>3, <1>4, <1>6, <1>7

(* The calls of the interrupts.                                            *)
LEMMA InterruptTypes ==
  ASSUME TypeInv, QueueInterrupt
  PROVE  TypeInv'
<1> USE DEF TypeInv
<1>1. PICK q \in Queues : \/ ReceiveFromISR(q)
                          \/ \E i \in Items, p \in {"back", "front"} : SendFromISR(q, i, p)
  BY DEF QueueInterrupt
<1>2. FromISRUnchanged
  BY <1>1 DEF ReceiveFromISR, SendFromISR
<1>3. PICK l, lock : WakeFromISR(l, lock)
  BY <1>1 DEF ReceiveFromISR, SendFromISR
<1>4. ListArrays'
  <2>1. CASE RemoveFromEventList(l, 1)
    BY <2>1, RemoveFromEventListTypes
  <2>2. CASE UNCHANGED <<generic, eventItems>>
    BY <2>2 DEF ListArrays, generic, eventItems
  <2> QED BY <1>3, <2>1, <2>2 DEF WakeFromISR
<1>5. pendSV' \in BOOLEAN
  <2>1. \A us : WakesNoLower(us) \in BOOLEAN
    BY DEF WakesNoLower
  <2>2. pendSV' = pendSV \/ \E us : pendSV' = (pendSV \/ WakesNoLower(us))
    BY <1>3 DEF WakeFromISR
  <2> QED BY <2>1, <2>2
<1>6. Missing' /\ ClockTypes' /\ xMissedYield' \in BOOLEAN
  BY <1>2 DEF FromISRUnchanged, Missing, ClockTypes, scheduler, clock, priorities, history
<1>7. CallTypes'
  <2>1. UNCHANGED <<pxMutexHolder, call, timeOut>>
    BY <1>2 DEF FromISRUnchanged
  <2>2. \A n \in Unlocked .. MaxLock : n < MaxLock => Count(n) \in Unlocked .. MaxLock
    BY LockBounds DEF Count
  <2>3. xRxLock' \in [Queues -> Unlocked .. MaxLock] /\ xTxLock' \in [Queues -> Unlocked .. MaxLock]
    BY <1>1, <2>2 DEF ReceiveFromISR, SendFromISR, CallTypes
  <2> QED BY <2>1, <2>3 DEF CallTypes
<1> QED BY <1>4, <1>5, <1>6, <1>7

(* The types hold at first.                                                *)
LEMMA TypesInitially == Init => TypeInv
<1> SUFFICES ASSUME Init PROVE TypeInv
  OBVIOUS
<1>1. ListArrays
  BY DEF Init, TaskInit, ListArrays
<1>2. Missing /\ xMissedYield \in BOOLEAN /\ pendSV \in BOOLEAN
  <2>1. Missing
    BY TasksAssumption DEF Init, TaskInit, Missing
  <2>2. xMissedYield = FALSE /\ pendSV = FALSE
    BY DEF Init, TaskInit
  <2> QED BY <2>1, <2>2
<1>3. ClockTypes
  <2>1. \A t \in AllTasks : MaxPriorities - Priority[t] \in 1 .. MaxPriorities
    BY TasksAssumption DEF Priorities
  <2>2. 0 \in Ticks /\ 0 \in -TickWidth .. TickWidth /\ 0 \in 0 .. OverflowWidth - 1
    BY Widths
  <2> QED BY <2>1, <2>2, Widths DEF Init, TaskInit, ClockTypes, Places
<1>4. CallTypes
  BY LockBounds, Widths DEF Init, CallTypes, NoTime
<1> QED BY <1>1, <1>2, <1>3, <1>4 DEF TypeInv

(* Every step keeps the types.                                             *)
LEMMA TypesNext == QueueInv /\ ListInv /\ Patience /\ TypeInv /\ [Next]_vars => TypeInv'
<1> SUFFICES ASSUME QueueInv, ListInv, Patience, TypeInv, [Next]_vars PROVE TypeInv'
  OBVIOUS
<1>1. ListsInv /\ Shapes /\ InSuspension /\ SuspendedByRunning
  BY DEF ListInv, QueueInv
<1>2. CASE TaskNext /\ UNCHANGED queueVars
  <2>1. CallTypes'
    BY <1>2 DEF queueVars, queues, CallTypes, TypeInv
  <2> QED BY <1>1, <1>2, <2>1, FlagTypes, ArrayTypes, TaskNextMissing, TaskNextClock DEF TypeInv
<1>3. CASE QueueInterrupt
  BY <1>3, InterruptTypes
<1>4. ASSUME NEW t \in Task, QueueStep(t) PROVE TypeInv'
  <2>1. ASSUME NEW c \in Arguments(t), Begin(t, c) PROVE TypeInv'
    <3>1. IsCall(c) /\ Test(t, c) /\ TestUnchanged
      BY <2>1 DEF Arguments, IsCall, Begin, UsesMutexProperly
    <3>2. c.wait \in Ticks
      BY QueueAssumption DEF Arguments
    <3> QED BY <1>1, <3>1, <3>2, TestTypes
  <2>2. CASE Again(t)
    <3>1. Test(t, call[t]) /\ TestUnchanged /\ pc[t] \in InACall
      BY <2>2 DEF Again, InACall
    <3>2. IsCall(call[t]) /\ call[t].wait \in Ticks
      BY <3>1 DEF QueueInv, Calling, Patience
    <3> QED BY <1>1, <3>1, <3>2, TestTypes
  <2> QED BY <1>4, <2>1, <2>2, LoopTypes DEF QueueStep
<1>5. CASE UNCHANGED vars
  BY <1>5 DEF vars, taskVars, queueVars, queues, generic, eventItems, priorities, clock, scheduler,
              history, TypeInv, ListArrays, Missing, ClockTypes, CallTypes
<1> QED BY <1>2, <1>3, <1>4, <1>5 DEF Next

(* A list without the idle task is one of the application's tasks.         *)
LEMMA TaskList ==
  ASSUME NEW s, Good(s), Idle \notin ToSet(s)
  PROVE  s \in Seq(Task)
<1>1. \A i \in 1 .. Len(s) : s[i] \in Task
  BY GoodFacts DEF AllTasks
<1> QED BY <1>1, GoodFacts DEF Good

(* They are those of QueueTypeOK.                                          *)
LEMMA TypesAreRight == QueueInv /\ ListInv /\ TypeInv => QueueTypeOK
<1> SUFFICES ASSUME QueueInv, ListInv, TypeInv PROVE QueueTypeOK
  OBVIOUS
<1>1. ListTypes /\ AllApart /\ IdleReady /\ Idle \in AllTasks
  BY DEF ListInv, ListsInv, AllTasks
<1>2. /\ \A s \in {delayed, overflowed, suspended, terminating, pendingReady} :
            Good(s) /\ Idle \notin ToSet(s)
      /\ \A l \in EventLists : Good(events[l]) /\ Idle \notin ToSet(events[l])
  <2>1. IsReady(Idle)
    BY <1>1, TasksAssumption DEF IdleReady, IsReady, Priorities
  <2>2. /\ Idle \notin ToSet(delayed) \cup ToSet(overflowed) \cup ToSet(suspended)
        /\ Idle \notin ToSet(terminating) /\ Idle \notin ToSet(pendingReady)
        /\ \A l \in EventLists : Idle \notin ToSet(events[l])
    BY <1>1, <2>1 DEF AllApart, Apart, IsAway, IsDelayed
  <2> QED BY <1>1, <2>2 DEF ListTypes
<1>3. /\ \A s \in {delayed, overflowed, suspended, terminating, pendingReady} : s \in Seq(Task)
      /\ events \in [EventLists -> Seq(Task)]
  BY <1>2, TaskList DEF TypeInv, ListArrays
<1>4. ready \in [Priorities -> Seq(AllTasks)]
  BY <1>1 DEF TypeInv, ListArrays, ListTypes, Good
<1>5. TasksTypeOK
  BY <1>1, <1>3, <1>4 DEF TasksTypeOK, TypeInv, Missing, ClockTypes, ListTypes
<1> QED BY <1>5 DEF QueueTypeOK, TypeInv, ClockTypes, CallTypes, Places, QueueInv

(* QueueTypeOK: lists hold tasks, items and counters keep the range of     *)
(* their C types, locks count to their limit and calls are in one of their *)
(* places, for any tasks, queues and widths of the tick count.             *)
THEOREM QueueTypes == Spec => []QueueTypeOK
<1> DEFINE Inv == QueueInv /\ ListInv /\ Patience /\ TypeInv
<1>1. Init => Inv
  BY QueueInitially, ListsInitially, PatienceInitially, TypesInitially
<1>2. Inv /\ [Next]_vars => Inv'
  BY QueueNext, ListsNext, NextRefines, TypesNext DEF Refines
<1>3. Inv => QueueTypeOK
  BY TypesAreRight
<1> QED BY <1>1, <1>2, <1>3, PTL DEF Spec

(***************************************************************************)
(* Time.                                                                   *)
(***************************************************************************)

(* The tick after each, and the ticks between two of them.                 *)
LEMMA NextTick ==
  \A x \in Ticks : (x + 1) % TickWidth = IF x = MaxDelay THEN 0 ELSE x + 1
<1> SUFFICES ASSUME NEW x \in Ticks PROVE (x + 1) % TickWidth = IF x = MaxDelay THEN 0 ELSE x + 1
  OBVIOUS
<1>1. TickWidth \in Nat \ {0} /\ x \in Nat /\ x <= MaxDelay /\ MaxDelay = TickWidth - 1
  BY Widths
<1>2. CASE x = MaxDelay
  BY <1>1, <1>2
<1>3. CASE x # MaxDelay
  BY <1>1, <1>3
<1> QED BY <1>2, <1>3

(* The ticks from y to x, x being later.                                   *)
LEMMA Between ==
  \A x, y \in Ticks : (x - y) % TickWidth = IF x >= y THEN x - y ELSE x - y + TickWidth
<1> SUFFICES ASSUME NEW x \in Ticks, NEW y \in Ticks
             PROVE  (x - y) % TickWidth = IF x >= y THEN x - y ELSE x - y + TickWidth
  OBVIOUS
<1>1. TickWidth \in Nat \ {0} /\ x \in 0 .. TickWidth - 1 /\ y \in 0 .. TickWidth - 1
  BY Widths
<1>2. CASE x >= y
  BY <1>1, <1>2
<1>3. CASE x < y
  BY <1>1, <1>3
<1> QED BY <1>1, <1>2, <1>3

-----------------------------------------------------------------------------
(* NoEarlyTimeout.                                                         *)

(* Where a call whose time is over may still be.                           *)
Expiring == {"unlockTx", "unlockRx", "resumeAll"}

(* The ticks counted since a call noted the time, if it still has to wait. *)
Age(t) == IF xTickCount >= timeOut[t].entering THEN xTickCount - timeOut[t].entering
          ELSE xTickCount - timeOut[t].entering + TickWidth

(* A call that has real time left has at least that much left of its own   *)
(* count, ticks that were missed included, and the tick count has not been *)
(* all the way round since.                                                *)
Ages(t) ==
    /\ call[t] # NoCall /\ call[t].outcome = "timeout" => pc[t] \in Expiring /\ left[t] = 0
    /\ pc[t] \in InACall /\ call[t].wait # MaxDelay /\ left[t] > 0 =>
          /\ left[t] <= call[t].wait - Age(t) - uxMissedTicks
          /\ xTickCount >= timeOut[t].entering => xNumOfOverflows = timeOut[t].overflow

AllAges == \A t \in Task : Ages(t)

(* The numbers of a call.                                                  *)
LEMMA AgeTypes ==
  ASSUME TypeInv, NEW t \in Task
  PROVE  /\ xTickCount \in Ticks /\ timeOut[t].entering \in Ticks
         /\ timeOut[t].overflow \in Int /\ xNumOfOverflows \in Int
         /\ left[t] \in Nat /\ uxMissedTicks \in Nat
         /\ Age(t) = Elapsed(t) /\ Age(t) \in Ticks
<1>1. /\ xTickCount \in Ticks /\ timeOut[t].entering \in Ticks
      /\ timeOut[t].overflow \in Int /\ xNumOfOverflows \in Int
      /\ left[t] \in Ticks /\ uxMissedTicks \in Nat
  BY TasksAssumption DEF TypeInv, ClockTypes, CallTypes, Missing, AllTasks
<1>2. Age(t) = Elapsed(t)
  BY <1>1, Between DEF Age, Elapsed
<1>3. Age(t) \in Ticks
  BY <1>1, Widths DEF Age
<1> QED BY <1>1, <1>2, <1>3, Widths

(* One tick is counted: the age grows by one or goes back to 0.            *)
LEMMA AgeGrows ==
  ASSUME TypeInv, NEW t \in Task, UNCHANGED timeOut, xTickCount' = (xTickCount + 1) % TickWidth,
         Age(t) # MaxDelay
  PROVE  /\ Age(t)' = Age(t) + 1
         /\ xTickCount' # 0 => (xTickCount' >= timeOut[t].entering => xTickCount >= timeOut[t].entering)
         /\ xTickCount' = 0 => ~(xTickCount' >= timeOut[t].entering)
<1>1. /\ xTickCount \in Ticks /\ timeOut[t].entering \in Ticks
  BY AgeTypes
<1>2. xTickCount' = IF xTickCount = MaxDelay THEN 0 ELSE xTickCount + 1
  BY <1>1, NextTick
<1> QED BY <1>1, <1>2, Widths, SMTT(30) DEF Age

(* A tick, counted while its real time passes or later.                    *)
LEMMA TickAges ==
  ASSUME TypeInv, Patience, NEW t \in Task, Ages(t), UNCHANGED <<pc, call, timeOut>>, IncrementTick,
         left'[t] \in Nat, uxMissedTicks' \in Nat,
         left'[t] <= left[t],
         left'[t] > 0 => left'[t] + uxMissedTicks' <= left[t] + uxMissedTicks - 1
  PROVE  Ages(t)'
<1>1. /\ left[t] \in Nat /\ uxMissedTicks \in Nat
      /\ Age(t) \in Ticks /\ xTickCount \in Ticks
  BY AgeTypes
<1>2. call[t] # NoCall /\ call[t].outcome = "timeout" => pc[t] \in Expiring /\ left'[t] = 0
  BY <1>1 DEF Ages
<1>3. ASSUME pc[t] \in InACall, call[t].wait # MaxDelay, left'[t] > 0
      PROVE  /\ left'[t] <= call[t].wait - Age(t)' - uxMissedTicks'
             /\ xTickCount' >= timeOut[t].entering => xNumOfOverflows' = timeOut[t].overflow
  <2>1. /\ left[t] <= call[t].wait - Age(t) - uxMissedTicks
        /\ xTickCount >= timeOut[t].entering => xNumOfOverflows = timeOut[t].overflow
    BY <1>1, <1>3 DEF Ages
  <2>2. call[t].wait \in Ticks
    BY <1>3 DEF Patience
  <2>3. Age(t) + 1 <= call[t].wait /\ Age(t) # MaxDelay
    BY <1>1, <1>3, <2>1, <2>2, Widths
  <2>4. xTickCount' = (xTickCount + 1) % TickWidth
    BY DEF IncrementTick
  <2>5. xTickCount' # 0 => xNumOfOverflows' = xNumOfOverflows
    BY DEF IncrementTick
  <2>6. Age(t)' = Age(t) + 1
    BY <2>3, <2>4, AgeGrows
  <2>7. xTickCount' >= timeOut[t].entering => xTickCount >= timeOut[t].entering /\ xTickCount' # 0
    BY <2>3, <2>4, AgeGrows
  <2>8. left'[t] <= call[t].wait - Age(t)' - uxMissedTicks'
    <3>1. \A old, new, missed, more, age, wait \in Int :
             new + more <= old + missed - 1 /\ old <= wait - age - missed => new <= wait - (age + 1) - more
      OBVIOUS
    <3>2. /\ left[t] \in Int /\ left'[t] \in Int /\ uxMissedTicks \in Int /\ uxMissedTicks' \in Int
          /\ Age(t) \in Int /\ call[t].wait \in Int
      BY <1>1, <2>2, Widths
    <3>3. left'[t] + uxMissedTicks' <= left[t] + uxMissedTicks - 1
      BY <1>3
    <3> QED BY <2>1, <2>6, <3>1, <3>2, <3>3
  <2> QED BY <2>1, <2>5, <2>7, <2>8
<1> QED BY <1>2, <1>3 DEF Ages

(* No tick is counted, and the call goes on or ends.                       *)
LEMMA QuietAges ==
  ASSUME NEW t \in Task, Ages(t), call'[t] = call[t], timeOut'[t] = timeOut[t],
         UNCHANGED <<xTickCount, xNumOfOverflows, uxMissedTicks>>,
         pc[t] \in InACall => left'[t] \in {left[t], 0},
         \/ pc'[t] = pc[t]
         \/ pc[t] \in InACall /\ pc'[t] \in Expiring
         \/ pc[t] \notin Expiring /\ (pc'[t] \in InACall => pc[t] \in InACall)
  PROVE  Ages(t)'
<1>1. Expiring \subseteq InACall
  BY DEF Expiring, InACall
<1>2. Age(t)' = Age(t)
  BY DEF Age
<1> QED BY <1>1, <1>2 DEF Ages

(* What the scheduler's other steps do to a call that waits.               *)
LEMMA SchedulerLeavesAges ==
  ASSUME Shapes, TypeInv, TaskNext, NEW t \in Task
  PROVE  \/ Tick \/ CatchUp
         \/ /\ UNCHANGED <<xTickCount, xNumOfOverflows, uxMissedTicks>>
            /\ pc[t] \in InACall => left'[t] \in {left[t], 0}
<1> USE DEF TypeInv, ClockTypes, AllTasks
<1>2. CASE \E u \in Task : ResumeFromISR(u)
  BY <1>2 DEF ResumeFromISR, clock, scheduler, history
<1>3. CASE Switch
  BY <1>3 DEF Switch, clock, scheduler, history
<1>5. CASE IdleStep
  BY <1>5 DEF IdleStep, IdleYield, IdleBegin, IdleResume, IdleFree, ResumeAll, clock, scheduler, history
<1>6. ASSUME NEW u \in Task, ApiCall(u)
      PROVE  /\ UNCHANGED <<xTickCount, xNumOfOverflows, uxMissedTicks>>
             /\ pc[t] \in InACall => left'[t] \in {left[t], 0}
  <2>1. CASE TaskSuspendAll(u) \/ TaskResumeAll(u) \/ DelayResume(u)
    BY <2>1 DEF TaskSuspendAll, TaskResumeAll, DelayResume, ResumeAll, clock, history
  <2>2. ASSUME NEW d \in DelayTimes, Delay(u, d) \/ DelayUntil(u, d)
        PROVE  /\ UNCHANGED <<xTickCount, xNumOfOverflows, uxMissedTicks>>
               /\ pc[t] \in InACall => left'[t] \in {left[t], 0}
    <3>1. UNCHANGED <<xTickCount, xNumOfOverflows, uxMissedTicks>>
      BY <2>2 DEF Delay, DelayUntil, AddToDelayed, clock
    <3>2. pc[u] \notin InACall
      BY <2>2 DEF Delay, DelayUntil, CallsFunction, InACall
    <3>3. t # u => left'[t] = left[t]
      BY <2>2 DEF Delay, DelayUntil
    <3> QED BY <3>1, <3>2, <3>3
  <2>3. CASE \E v \in Task : Create(u, v) \/ Delete(u, v) \/ Suspend(u, v) \/ Resume(u, v)
    BY <2>3 DEF Create, Delete, Suspend, Resume, clock, scheduler, history
  <2>4. CASE \E v \in Task, p \in NewPriorities : PrioritySet(u, v, p)
    BY <2>4 DEF PrioritySet, clock, scheduler, history
  <2> QED BY <1>6, <2>1, <2>2, <2>3, <2>4 DEF ApiCall
<1> QED BY <1>2, <1>3, <1>5, <1>6 DEF TaskNext, Interrupt

(* The scheduler's steps put no task into or out of the end of a call.     *)
LEMMA SchedulerLeavesPlaces ==
  ASSUME QueueInv, TaskNext, NEW t \in Task
  PROVE  pc'[t] = pc[t] \/ (pc[t] \notin Expiring /\ pc'[t] \notin InACall)
<1>1. Shapes /\ InSuspension /\ SuspendedByRunning
  BY DEF QueueInv
<1>2. Expiring \subseteq InACall \cap Suspending /\ "run" \notin InACall
  BY DEF Expiring, InACall, Suspending, LockedForRx
<1>3. \/ pc'[t] = pc[t]
      \/ pc[t] \notin InACall /\ pc'[t] \notin InACall
      \/ pc'[t] = "run"
  BY <1>1, SchedulerLeavesCalls
<1>4. ASSUME pc[t] \in Expiring, pc'[t] # pc[t] PROVE FALSE
  <2>1. t = pxCurrentTCB /\ uxSchedulerSuspended = 1 /\ t \in AllTasks
    BY <1>1, <1>2, <1>4 DEF InSuspension, AllTasks
  <2>2. pc[t] # "run" /\ pc[t] # "resume"
    BY <1>4 DEF Expiring
  <2> QED BY <1>1, <1>4, <2>1, <2>2, TaskNextFacts DEF SchedulerStep, Enters, Leaves, Nests
<1> QED BY <1>2, <1>3, <1>4

(* The scheduler's functions leave the times of calls alone, but for the   *)
(* tick.                                                                   *)
LEMMA SchedulerAges ==
  ASSUME QueueInv, TypeInv, TypeInv', Patience, TaskNext, UNCHANGED queueVars, AllAges
  PROVE  AllAges'
<1> SUFFICES ASSUME NEW t \in Task PROVE Ages(t)'
  BY DEF AllAges
<1>1. /\ Ages(t) /\ UNCHANGED <<call, timeOut>> /\ Shapes /\ t \in AllTasks
      /\ left[t] \in Nat /\ left'[t] \in Nat /\ uxMissedTicks \in Nat /\ uxMissedTicks' \in Nat
  <2>1. left[t] \in Nat /\ uxMissedTicks \in Nat
    BY AgeTypes
  <2>2. (left[t] \in Nat /\ uxMissedTicks \in Nat)'
    <3>1. left'[t] \in Ticks /\ uxMissedTicks' \in 0 .. MaxMissed
      BY DEF TypeInv, ClockTypes, Missing, AllTasks
    <3> QED BY <3>1, Widths, TasksAssumption
  <2> QED BY <2>1, <2>2 DEF AllAges, queueVars, QueueInv, AllTasks
<1>2. CASE CatchUp
  <2>1. UNCHANGED <<pc, left>> /\ uxMissedTicks' = uxMissedTicks - 1 /\ IncrementTick
    BY <1>2 DEF CatchUp, history
  <2> QED BY <1>1, <2>1, TickAges
<1>3. CASE Tick
  <2>1. UNCHANGED pc /\ left'[t] = IF left[t] > 0 THEN left[t] - 1 ELSE 0
    BY <1>1, <1>3 DEF Tick, PassTime
  <2>2. CASE IncrementTick /\ UNCHANGED uxMissedTicks
    BY <1>1, <2>1, <2>2, TickAges
  <2>3. CASE uxMissedTicks' = uxMissedTicks + 1 /\ UNCHANGED clock
    <3>1. UNCHANGED <<xTickCount, xNumOfOverflows>>
      BY <2>3 DEF clock
    <3>2. Age(t)' = Age(t) /\ Age(t) \in Nat
      BY <1>1, <3>1, AgeTypes, Widths DEF Age
    <3>3. pc[t] \in InACall => call[t].wait \in Nat
      BY Widths DEF Patience
    <3> QED BY <1>1, <2>1, <2>3, <3>1, <3>2, <3>3 DEF Ages
  <2> QED BY <1>3, <2>2, <2>3 DEF Tick
<1>4. CASE ~Tick /\ ~CatchUp
  BY <1>1, <1>4, SchedulerLeavesAges, SchedulerLeavesPlaces, QuietAges
<1> QED BY <1>2, <1>3, <1>4

(* The head of the loop: a call that enters it notes the time, with all of *)
(* its wait left and no tick missed.                                       *)
LEMMA TestAges ==
  ASSUME QueueInv, TypeInv, NEW t \in Task, NEW c, IsCall(c), c.wait \in Ticks,
         Test(t, c), TestUnchanged, resuming = "no", uxSchedulerSuspended = 0,
         c.outcome # "timeout", c.entered => Ages(t) /\ pc[t] \in InACall /\ c = call[t]
  PROVE  Ages(t)'
<1>1. t \in DOMAIN pc /\ t \in DOMAIN call /\ t \in DOMAIN timeOut /\ t \in DOMAIN left
  BY DEF QueueInv, Shapes, TypeInv, ClockTypes, CallTypes, AllTasks
<1>2. UNCHANGED <<xTickCount, xNumOfOverflows, uxMissedTicks>> /\ uxMissedTicks = 0
  BY DEF TestUnchanged, clock, scheduler, TypeInv, Missing
<1>3. CASE Return(t)
  BY <1>1, <1>3 DEF Return, Ages, InACall
<1>4. CASE ~Return(t)
  <2>1. /\ c.wait # 0 /\ pc'[t] = "suspend" /\ call'[t] = [c EXCEPT !.entered = TRUE]
        /\ IF c.entered THEN UNCHANGED <<timeOut, left>>
           ELSE /\ timeOut'[t] = Now
                /\ left'[t] = IF c.wait = MaxDelay THEN 0 ELSE c.wait
    BY <1>1, <1>4 DEF Test
  <2>2. call'[t].wait = c.wait /\ call'[t].outcome = c.outcome
    BY <2>1 DEF IsCall
  <2>3. CASE c.entered
    <3>1. Age(t)' = Age(t)
      BY <1>2, <2>1, <2>3 DEF Age
    <3> QED BY <1>2, <2>1, <2>2, <2>3, <3>1 DEF Ages
  <2>4. CASE ~c.entered
    <3>1. timeOut'[t].entering = xTickCount /\ timeOut'[t].overflow = xNumOfOverflows
      BY <2>1, <2>4 DEF Now
    <3>2. xTickCount \in Nat
      BY AgeTypes, Widths
    <3>3. Age(t)' = 0
      BY <1>2, <3>1, <3>2 DEF Age
    <3> QED BY <1>2, <2>1, <2>2, <2>4, <3>1, <3>3, Widths DEF Ages
  <2> QED BY <2>3, <2>4
<1> QED BY <1>3, <1>4

(* The check: only a call with no real time left has timed out, and one    *)
(* that has not starts again with what is left.                            *)
LEMMA CheckAges ==
  ASSUME QueueInv, TypeInv, Patience, NEW t \in Task, Check(t), Ages(t)
  PROVE  Ages(t)'
<1> DEFINE c == call[t]
<1>1. t \in DOMAIN pc /\ t \in DOMAIN call /\ t \in DOMAIN timeOut /\ t \in AllTasks
  BY DEF QueueInv, Shapes, CallTypes, TypeInv, AllTasks
<1>2. /\ pc[t] = "check" /\ pc[t] \in InACall /\ IsCall(c) /\ c.wait \in Ticks
  BY DEF Check, At, InACall, QueueInv, Calling, Patience
<1>3. UNCHANGED <<xTickCount, xNumOfOverflows, uxMissedTicks, left>>
  BY DEF Check, InCall, ListsUnchanged, clock, history
<1>4. /\ HasTimedOut(t) => call'[t].outcome = "timeout" /\ pc'[t] = "unlockTx"
      /\ ~HasTimedOut(t) => call'[t].outcome # "timeout"
      /\ IF ~HasTimedOut(t) /\ c.wait # MaxDelay
         THEN call'[t].wait = c.wait - Elapsed(t) /\ timeOut'[t] = Now
         ELSE call'[t].wait = c.wait /\ timeOut'[t] = timeOut[t]
  BY <1>1, <1>2 DEF Check, At, IsCall
<1>5. /\ left[t] \in Nat /\ Age(t) = Elapsed(t) /\ Age(t) \in Nat /\ uxMissedTicks \in Nat
      /\ xTickCount \in Nat /\ c.wait \in Nat /\ MaxDelay \in Nat
  BY <1>2, AgeTypes, Widths
<1>6. c.wait # MaxDelay /\ left[t] > 0 =>
         /\ left[t] <= c.wait - Age(t) - uxMissedTicks
         /\ xTickCount >= timeOut[t].entering => xNumOfOverflows = timeOut[t].overflow
  BY <1>2 DEF Ages
<1>7. CASE HasTimedOut(t)
  <2>1. /\ c.wait # MaxDelay
        /\ \/ xNumOfOverflows # timeOut[t].overflow /\ xTickCount >= timeOut[t].entering
           \/ Elapsed(t) >= c.wait
    BY <1>7 DEF HasTimedOut
  <2>2. left[t] = 0
    BY <1>5, <1>6, <2>1
  <2> QED BY <1>3, <1>4, <1>7, <2>2 DEF Ages, Expiring
<1>8. CASE ~HasTimedOut(t)
  <2>1. CASE c.wait # MaxDelay
    <3>1. timeOut'[t].entering = xTickCount /\ timeOut'[t].overflow = xNumOfOverflows
      BY <1>4, <1>8, <2>1 DEF Now
    <3>2. Age(t)' = 0
      BY <1>3, <1>5, <3>1 DEF Age
    <3>3. call'[t].wait = c.wait - Age(t)
      BY <1>4, <1>5, <1>8, <2>1
    <3> HIDE DEF c
    <3> QED BY <1>3, <1>4, <1>5, <1>6, <1>8, <2>1, <3>1, <3>2, <3>3 DEF Ages
  <2>2. CASE c.wait = MaxDelay
    BY <1>4, <1>8, <2>2 DEF Ages
  <2> QED BY <2>1, <2>2
<1> QED BY <1>7, <1>8

(* The rest of the loop.                                                   *)
LEMMA LoopAges ==
  ASSUME QueueInv, TypeInv, NEW t \in Task, Ages(t),
         \/ CallSuspendAll(t) \/ LockQueue(t) \/ Inherit(t) \/ Place(t)
         \/ UnlockTx(t) \/ UnlockRx(t) \/ CallResumeAll(t)
  PROVE  Ages(t)'
<1>1. t \in DOMAIN pc /\ t \in DOMAIN call /\ t \in DOMAIN timeOut
  BY DEF QueueInv, Shapes, TypeInv, CallTypes, AllTasks
<1>2. UNCHANGED <<uxMissedTicks, left>>
  BY DEF CallSuspendAll, LockQueue, Inherit, Place, UnlockTx, UnlockRx, CallResumeAll,
         ResumeAll, InCall, history
<1>3. UNCHANGED <<xTickCount, xNumOfOverflows>>
  <2>1. CASE Place(t)
    BY <2>1 DEF Place, PlaceOnEventList, AddToDelayed, clock
  <2>2. CASE ~Place(t)
    BY <2>2 DEF CallSuspendAll, LockQueue, Inherit, UnlockTx, UnlockRx, CallResumeAll,
                ResumeAll, ListsUnchanged, clock
  <2> QED BY <2>1, <2>2
<1>4. CASE CallResumeAll(t)
  <2>1. CASE call[t].outcome = "timeout"
    BY <1>1, <1>4, <2>1 DEF CallResumeAll, At, Ages, InACall
  <2>2. CASE call[t].outcome # "timeout"
    <3>1. UNCHANGED <<call, timeOut>> /\ pc[t] \in InACall
      BY <1>4, <2>2 DEF CallResumeAll, At, InACall
    <3>2. Age(t)' = Age(t)
      BY <1>3, <3>1 DEF Age
    <3> QED BY <1>2, <1>3, <2>2, <3>1, <3>2 DEF Ages
  <2> QED BY <2>1, <2>2
<1>5. CASE CallSuspendAll(t) \/ LockQueue(t) \/ Inherit(t) \/ Place(t)
  <2>1. UNCHANGED <<call, timeOut>> /\ pc[t] \in InACall /\ pc[t] \notin Expiring
    BY <1>5 DEF CallSuspendAll, LockQueue, Inherit, Place, At, queueVars, InACall, Expiring
  <2> QED BY <1>2, <1>3, <2>1, QuietAges
<1>6. CASE UnlockTx(t) \/ UnlockRx(t)
  <2>1. UNCHANGED <<call, timeOut>> /\ pc[t] \in InACall /\ pc'[t] \in Expiring
    BY <1>1, <1>6 DEF UnlockTx, UnlockRx, At, InACall, Expiring
  <2> QED BY <1>2, <1>3, <2>1, QuietAges
<1> QED BY <1>4, <1>5, <1>6

(* A step of one task's call leaves the calls of the others alone.         *)
LEMMA OthersAges ==
  ASSUME QueueInv, TypeInv, NEW t \in Task, QueueStep(t), NEW u \in Task, u # t, Ages(u)
  PROVE  Ages(u)'
<1>1. /\ u \in DOMAIN pc /\ u \in DOMAIN call /\ u \in DOMAIN timeOut /\ u \in DOMAIN left
      /\ t \in DOMAIN call
  BY DEF QueueInv, Shapes, TypeInv, ClockTypes, CallTypes, AllTasks
<1>2. CASE \E c : Test(t, c) /\ TestUnchanged
  <2>1. pc'[u] = pc[u] /\ call'[u] = call[u] /\ timeOut'[u] = timeOut[u] /\ left'[u] = left[u]
    BY <1>1, <1>2 DEF Test, Return
  <2>2. UNCHANGED <<xTickCount, xNumOfOverflows, uxMissedTicks>>
    BY <1>2 DEF TestUnchanged, clock, scheduler
  <2> QED BY <2>1, <2>2, QuietAges
<1>3. CASE \/ CallSuspendAll(t) \/ LockQueue(t) \/ Check(t) \/ Inherit(t) \/ Place(t)
           \/ UnlockTx(t) \/ UnlockRx(t) \/ CallResumeAll(t)
  <2>1. UNCHANGED <<uxMissedTicks, left>>
    BY <1>3 DEF CallSuspendAll, LockQueue, Check, Inherit, Place, UnlockTx, UnlockRx, CallResumeAll,
                ResumeAll, InCall, history
  <2>2. UNCHANGED <<xTickCount, xNumOfOverflows>>
    <3>1. CASE Place(t)
      BY <3>1 DEF Place, PlaceOnEventList, AddToDelayed, clock
    <3>2. CASE ~Place(t)
      BY <1>3, <3>2 DEF CallSuspendAll, LockQueue, Check, Inherit, UnlockTx, UnlockRx, CallResumeAll,
                        ResumeAll, ListsUnchanged, clock
    <3> QED BY <3>1, <3>2
  <2>3. pc'[u] = pc[u]
    BY <1>1, <1>3 DEF CallSuspendAll, LockQueue, Check, Inherit, Place, UnlockTx, UnlockRx,
                      CallResumeAll, At
  <2>4. call'[u] = call[u] /\ timeOut'[u] = timeOut[u]
    <3>1. CASE Check(t)
      BY <1>1, <3>1 DEF Check
    <3>2. CASE CallResumeAll(t)
      BY <1>1, <3>2 DEF CallResumeAll
    <3>3. CASE ~Check(t) /\ ~CallResumeAll(t)
      BY <1>3, <3>3 DEF CallSuspendAll, LockQueue, Inherit, Place, UnlockTx, UnlockRx, queueVars
    <3> QED BY <3>1, <3>2, <3>3
  <2> QED BY <2>1, <2>2, <2>3, <2>4, QuietAges
<1> QED BY <1>2, <1>3 DEF QueueStep, Begin, Again

(* Every step keeps the ages of all calls.                                 *)
LEMMA AgesNext ==
  ASSUME QueueInv, TypeInv, TypeInv', Patience, AllAges, [Next]_vars
  PROVE  AllAges'
<1>1. CASE TaskNext /\ UNCHANGED queueVars
  BY <1>1, SchedulerAges
<1>2. CASE QueueInterrupt
  <2>1. FromISRUnchanged
    BY <1>2 DEF QueueInterrupt, SendFromISR, ReceiveFromISR
  <2>2. UNCHANGED <<pc, call, timeOut, left, xTickCount, xNumOfOverflows, uxMissedTicks>>
    BY <2>1 DEF FromISRUnchanged, clock, scheduler, history
  <2> QED BY <2>2, QuietAges DEF AllAges
<1>3. ASSUME NEW t \in Task, QueueStep(t) PROVE AllAges'
  <2>1. Ages(t)
    BY DEF AllAges
  <2>2. ASSUME NEW c \in Arguments(t), Begin(t, c) PROVE Ages(t)'
    <3>1. IsCall(c) /\ c.wait \in Ticks /\ ~c.entered /\ c.outcome # "timeout"
      BY <2>2, QueueAssumption DEF Arguments, IsCall, Begin, UsesMutexProperly
    <3>2. Test(t, c) /\ TestUnchanged /\ resuming = "no" /\ uxSchedulerSuspended = 0
      BY <2>2 DEF Begin, CallsFunction, Executes
    <3> QED BY <3>1, <3>2, TestAges
  <2>3. ASSUME Again(t) PROVE Ages(t)'
    <3>1. /\ t = pxCurrentTCB /\ pc[t] = "test" /\ resuming = "no"
          /\ Test(t, call[t]) /\ TestUnchanged
      BY <2>3 DEF Again, Executes
    <3>2. pc[t] \in InACall /\ pc[t] \notin Expiring /\ pc[t] \notin Suspending \cup {"run"}
      BY <3>1 DEF InACall, Expiring, Suspending, LockedForRx
    <3>3. IsCall(call[t]) /\ call[t].wait \in Ticks
      BY <3>2 DEF QueueInv, Calling, Patience
    <3>4. uxSchedulerSuspended = 0
      BY <3>1, <3>2, NotSuspended
    <3>5. call[t].outcome # "timeout"
      <4>1. NoCall.kind = "none"
        BY DEF NoCall
      <4>2. call[t] # NoCall
        BY <3>3, <4>1 DEF IsCall
      <4> QED BY <2>1, <3>2, <4>2 DEF Ages
    <3> QED BY <2>1, <3>1, <3>2, <3>3, <3>4, <3>5, TestAges
  <2>4. Ages(t)'
    <3>1. ASSUME Check(t) PROVE Ages(t)'
      BY <2>1, <3>1, CheckAges
    <3>2. CASE \/ CallSuspendAll(t) \/ LockQueue(t) \/ Inherit(t) \/ Place(t)
               \/ UnlockTx(t) \/ UnlockRx(t) \/ CallResumeAll(t)
      BY <2>1, <3>2, LoopAges
    <3> QED BY <1>3, <2>2, <2>3, <3>1, <3>2 DEF QueueStep
  <2>5. ASSUME NEW u \in Task, u # t PROVE Ages(u)'
    BY <1>3, <2>5, OthersAges DEF AllAges
  <2> QED BY <2>4, <2>5 DEF AllAges
<1>4. CASE UNCHANGED vars
  BY <1>4, QuietAges DEF AllAges, vars, taskVars, queueVars, clock, scheduler, history
<1> QED BY <1>1, <1>2, <1>3, <1>4 DEF Next

(* NoEarlyTimeout: a call gives up no earlier than it was asked to.        *)
THEOREM TimeoutsNotEarly == Spec => []NoEarlyTimeout
<1> DEFINE Inv == QueueInv /\ ListInv /\ Patience /\ TypeInv /\ AllAges
<1>1. Init => Inv
  <2>1. Init => AllAges
    BY DEF Init, TaskInit, AllAges, Ages, InACall, AllTasks
  <2> QED BY <2>1, QueueInitially, ListsInitially, PatienceInitially, TypesInitially
<1>2. Inv /\ [Next]_vars => Inv'
  <2> SUFFICES ASSUME Inv, [Next]_vars PROVE Inv'
    OBVIOUS
  <2>1. (QueueInv /\ ListInv /\ Patience /\ TypeInv)'
    BY QueueNext, ListsNext, NextRefines, TypesNext DEF Refines
  <2> QED BY <2>1, AgesNext
<1>3. Inv => NoEarlyTimeout
  BY DEF AllAges, Ages, NoEarlyTimeout
<1> QED BY <1>1, <1>2, <1>3, PTL DEF Spec

-----------------------------------------------------------------------------
(* Lists in the order of a value.                                          *)

Ascending(s, value) == \A i, j \in 1 .. Len(s) : i < j => value[s[i]] <= value[s[j]]

(* Items taken out of a list leave the others in order.                    *)
LEMMA AscendingWithout ==
  ASSUME NEW s, Good(s), NEW us, NEW value, Ascending(s, value)
  PROVE  Ascending(Without(s, us), value) /\ Ascending(Those(s, us), value)
<1>1. ASSUME NEW r, KeepsOrder(r, s) PROVE Ascending(r, value)
  BY <1>1 DEF Ascending, KeepsOrder
<1>2. KeepsOrder(Those(s, us), s) /\ KeepsOrder(Those(s, ToSet(s) \ us), s)
  BY GoodThose
<1> QED BY <1>1, <1>2 DEF Without

(* Both parts of a list in order are in order.                             *)
LEMMA AscendingSplit ==
  ASSUME NEW s, Good(s), NEW n \in 0 .. Len(s), NEW value, Ascending(s, value)
  PROVE  LET a == SubSeq(s, 1, n)
             b == SubSeq(s, n + 1, Len(s))
         IN  /\ Ascending(a, value) /\ Ascending(b, value)
             /\ Len(a) = n /\ \A i \in 1 .. n : a[i] = s[i]
             /\ Len(b) = Len(s) - n /\ \A i \in 1 .. Len(s) - n : b[i] = s[n + i]
<1> DEFINE a == SubSeq(s, 1, n)
           b == SubSeq(s, n + 1, Len(s))
<1>0. Len(s) \in Nat /\ n \in Nat /\ n <= Len(s) /\ s \in Seq(AllTasks)
  BY GoodFacts DEF Good
<1>1. Len(a) = n /\ \A i \in 1 .. n : a[i] = s[i]
  BY <1>0, SubSeqProperties, Z3
<1>2. Len(b) = Len(s) - n /\ \A i \in 1 .. Len(s) - n : b[i] = s[n + i]
  BY <1>0, SubSeqProperties, Z3
<1> HIDE DEF a, b
<1>3. Ascending(a, value)
  BY <1>0, <1>1 DEF Ascending
<1>4. Ascending(b, value)
  <2> SUFFICES ASSUME NEW i \in 1 .. Len(s) - n, NEW j \in 1 .. Len(s) - n, i < j
               PROVE  value[b[i]] <= value[b[j]]
    BY <1>2 DEF Ascending
  <2>1. n + i \in 1 .. Len(s) /\ n + j \in 1 .. Len(s) /\ n + i < n + j
    BY <1>0
  <2> QED BY <1>2, <2>1 DEF Ascending
<1> QED BY <1>1, <1>2, <1>3, <1>4 DEF a, b

(* A list of smaller values followed by one of larger ones is in order.    *)
LEMMA AscendingConcat ==
  ASSUME NEW a, NEW b, Good(a), Good(b), NEW value, Ascending(a, value), Ascending(b, value),
         \A x \in ToSet(a), y \in ToSet(b) : value[x] <= value[y]
  PROVE  Ascending(a \o b, value)
<1> DEFINE c == a \o b
<1>1. /\ Len(a) \in Nat /\ Len(b) \in Nat
      /\ \A i \in 1 .. Len(a) : a[i] \in ToSet(a)
      /\ \A i \in 1 .. Len(b) : b[i] \in ToSet(b)
  BY GoodFacts
<1>2. /\ Len(c) = Len(a) + Len(b)
      /\ \A i \in 1 .. Len(c) : c[i] = IF i <= Len(a) THEN a[i] ELSE b[i - Len(a)]
  BY ConcatProperties DEF Good
<1> HIDE DEF c
<1> SUFFICES ASSUME NEW i \in 1 .. Len(c), NEW j \in 1 .. Len(c), i < j
             PROVE  value[c[i]] <= value[c[j]]
  BY DEF Ascending, c
<1>3. CASE j <= Len(a)
  BY <1>1, <1>2, <1>3 DEF Ascending
<1>4. CASE i > Len(a)
  <2>1. i - Len(a) \in 1 .. Len(b) /\ j - Len(a) \in 1 .. Len(b) /\ i - Len(a) < j - Len(a)
    BY <1>1, <1>2, <1>4
  <2>2. c[i] = b[i - Len(a)] /\ c[j] = b[j - Len(a)]
    BY <1>1, <1>2, <1>4
  <2> QED BY <2>1, <2>2 DEF Ascending
<1>5. CASE i <= Len(a) /\ j > Len(a)
  <2>1. i \in 1 .. Len(a) /\ j - Len(a) \in 1 .. Len(b)
    BY <1>1, <1>2, <1>5
  <2>2. c[i] = a[i] /\ c[j] = b[j - Len(a)]
    BY <1>1, <1>2, <1>5
  <2> QED BY <1>1, <2>1, <2>2
<1> QED BY <1>1, <1>2, <1>3, <1>4, <1>5

(* vListInsert                                                             *)
LEMMA AscendingInsert ==
  ASSUME NEW s, Good(s), NEW t \in AllTasks, t \notin ToSet(s), NEW value,
         \A u \in AllTasks : value[u] \in Int, Ascending(s, value)
  PROVE  Ascending(Insert(s, t, value), value)
<1> DEFINE later == {i \in DOMAIN s : value[s[i]] > value[t]}
           first == CHOOSE i \in later : \A j \in later : i <= j
           at == IF later = {} THEN Len(s) + 1 ELSE first
           a == SubSeq(s, 1, at - 1)
           b == SubSeq(s, at, Len(s))
<1>1. Insert(s, t, value) = a \o <<t>> \o b
  BY DEF Insert, InsertAt
<1>2. /\ Len(s) \in Nat /\ DOMAIN s = 1 .. Len(s) /\ value[t] \in Int
      /\ \A i \in 1 .. Len(s) : value[s[i]] \in Int
  BY GoodFacts
<1>3. \E n \in 0 .. Len(s) :
         /\ at = n + 1 /\ \A i \in 1 .. n : value[s[i]] <= value[t]
         /\ n < Len(s) => value[t] <= value[s[n + 1]]
  <2>1. CASE later = {}
    <3>1. at = Len(s) + 1
      BY <2>1
    <3>2. \A i \in 1 .. Len(s) : value[s[i]] <= value[t]
      BY <1>2, <2>1
    <3> HIDE DEF at
    <3> QED BY <1>2, <3>1, <3>2
  <2>2. CASE later # {}
    <3>1. later \in SUBSET Nat /\ later \subseteq 1 .. Len(s)
      BY <1>2
    <3>2. first \in later /\ \A j \in later : first <= j
      <4> HIDE DEF later
      <4> QED BY <2>2, <3>1, Least
    <3>3. at = first
      BY <2>2
    <3>4. first \in 1 .. Len(s) /\ value[t] < value[s[first]]
      BY <1>2, <3>2
    <3>5. \A i \in 1 .. Len(s) : i < first => value[s[i]] <= value[t]
      <4> HIDE DEF first
      <4> QED BY <1>2, <3>2, <3>4
    <3> HIDE DEF at, first, later
    <3>6. first - 1 \in 0 .. Len(s) /\ at = (first - 1) + 1
      BY <1>2, <3>3, <3>4
    <3>7. \A i \in 1 .. first - 1 : value[s[i]] <= value[t]
      BY <1>2, <3>4, <3>5
    <3>8. value[t] <= value[s[(first - 1) + 1]]
      BY <1>2, <3>3, <3>4, <3>6
    <3> QED BY <3>6, <3>7, <3>8
  <2> QED BY <2>1, <2>2
<1> HIDE DEF at, first, later
<1>4. PICK n \in 0 .. Len(s) :
         /\ at = n + 1 /\ \A i \in 1 .. n : value[s[i]] <= value[t]
         /\ n < Len(s) => value[t] <= value[s[n + 1]]
  BY <1>3
<1>5. at - 1 = n /\ n \in Nat /\ n <= Len(s)
  BY <1>2, <1>4
<1>6. a = SubSeq(s, 1, n) /\ b = SubSeq(s, n + 1, Len(s))
  BY <1>4, <1>5
<1> HIDE DEF a, b
<1>7. /\ Good(a) /\ Good(b) /\ ToSet(a) \cap ToSet(b) = {} /\ ToSet(a) \cup ToSet(b) = ToSet(s)
  BY <1>6, GoodSplit
<1>8. /\ Ascending(a, value) /\ Ascending(b, value)
      /\ Len(a) = n /\ \A i \in 1 .. n : a[i] = s[i]
      /\ Len(b) = Len(s) - n /\ \A i \in 1 .. Len(s) - n : b[i] = s[n + i]
  BY <1>6, AscendingSplit
<1>9. \A x \in ToSet(a) : value[x] <= value[t]
  <2> SUFFICES ASSUME NEW x \in ToSet(a) PROVE value[x] <= value[t]
    OBVIOUS
  <2>1. PICK i \in 1 .. Len(a) : x = a[i]
    BY <1>7, GoodFacts
  <2> QED BY <1>4, <1>8, <2>1
<1>10. ASSUME NEW y \in ToSet(b) PROVE value[t] <= value[y]
  <2>1. PICK j \in 1 .. Len(b) : y = b[j]
    BY <1>7, GoodFacts
  <2>2. /\ j \in 1 .. Len(s) - n /\ y = s[n + j] /\ n + j \in 1 .. Len(s)
        /\ n + 1 \in 1 .. Len(s) /\ n < Len(s)
    BY <1>2, <1>5, <1>8, <2>1
  <2>3. value[s[n + 1]] <= value[s[n + j]]
    <3>1. CASE j = 1
      BY <1>2, <2>2, <3>1
    <3>2. CASE j > 1
      BY <1>5, <2>2, <3>2 DEF Ascending
    <3> QED BY <2>2, <3>1, <3>2
  <2> QED BY <1>2, <1>4, <2>2, <2>3
<1>11. /\ Good(<<t>>) /\ ToSet(<<t>>) = {t} /\ Ascending(<<t>>, value)
  BY GoodOne DEF Ascending
<1>12. /\ Good(a \o <<t>>) /\ ToSet(a \o <<t>>) = ToSet(a) \cup {t}
  BY <1>7, <1>11, GoodConcat
<1>13. Ascending(a \o <<t>>, value)
  BY <1>7, <1>8, <1>9, <1>11, AscendingConcat
<1>14. \A x \in ToSet(a \o <<t>>), y \in ToSet(b) : value[x] <= value[y]
  <2>1. \A x \in ToSet(a), y \in ToSet(b) : /\ value[x] \in Int /\ value[y] \in Int /\ value[t] \in Int
                                            /\ value[x] <= value[t] /\ value[t] <= value[y]
    BY <1>7, <1>9, <1>10, GoodFacts
  <2> QED BY <1>10, <1>12, <2>1
<1>15. Ascending((a \o <<t>>) \o b, value)
  BY <1>7, <1>8, <1>12, <1>13, <1>14, AscendingConcat
<1> QED BY <1>1, <1>15

-----------------------------------------------------------------------------
(* NoEarlyWake and NoLateWake.                                             *)

(* What is left of n ticks of the tick count, the missed ones taken off.   *)
Remaining(n, missed) == IF n > missed THEN n - missed ELSE 0

(* A task in one of the two lists of delayed tasks is to wake in this or   *)
(* in the next cycle of the tick count, after as many ticks of real time   *)
(* as it still has to wait; a call that has to wait measures its time by   *)
(* itself, and only such calls wait for an event and for the time.         *)
Timely(t) ==
    /\ t \in ToSet(delayed) => wake[t] > xTickCount /\ xNextTaskUnblockTime <= wake[t]
    /\ t \in ToSet(overflowed) => wake[t] < xTickCount
    /\ IsDelayed(t) /\ (IsWaiting(t) \/ t \in ToSet(pendingReady)) => pc[t] \in InACall
    /\ pc[t] \in InACall => call[t].wait # 0
    /\ pc[t] \notin InACall =>
          left[t] = IF t \in ToSet(delayed) THEN Remaining(wake[t] - xTickCount, uxMissedTicks)
                    ELSE IF t \in ToSet(overflowed)
                    THEN Remaining(wake[t] + TickWidth - xTickCount, uxMissedTicks) ELSE 0

(* Cycles of the tick count between *pxPreviousWakeTime and now.           *)
Periodic(t) ==
    "vTaskDelayUntil" \in Calls[t] /\ since[t] < TickWidth =>
        \E k \in Int : previous[t] + since[t] = xTickCount + uxMissedTicks + k * TickWidth

InTime ==
    /\ Ascending(delayed, wake) /\ Ascending(overflowed, wake)
    /\ \A t \in AllTasks : Timely(t)

(* The numbers.                                                            *)
LEMMA TimeTypes ==
  ASSUME TypeInv, NEW t \in AllTasks
  PROVE  /\ xTickCount \in 0 .. MaxDelay /\ xNextTaskUnblockTime \in 0 .. MaxDelay
         /\ wake[t] \in 0 .. MaxDelay /\ left[t] \in Nat /\ uxMissedTicks \in Nat
         /\ previous[t] \in 0 .. MaxDelay /\ since[t] \in Int
         /\ TickWidth = MaxDelay + 1 /\ MaxDelay \in Nat /\ Ticks = 0 .. MaxDelay
<1>1. /\ xTickCount \in Ticks /\ xNextTaskUnblockTime \in Ticks /\ wake[t] \in Ticks
      /\ left[t] \in Ticks /\ uxMissedTicks \in Nat /\ previous[t] \in Ticks
      /\ since[t] \in -TickWidth .. TickWidth
  BY TasksAssumption DEF TypeInv, ClockTypes, Missing
<1> QED BY <1>1, Widths

-----------------------------------------------------------------------------
(* Steps in which the time does not change and no task begins to sleep.    *)

(* Tasks leave the lists of delayed tasks, other than those of gone only   *)
(* such as are in a call; and nobody begins to wait for an event.          *)
OnlyWakes(gone) ==
    /\ \/ UNCHANGED <<delayed, overflowed>>
       \/ \E us : delayed' = Without(delayed, us) /\ overflowed' = Without(overflowed, us)
    /\ \A t \in AllTasks :
          /\ t \notin gone /\ pc[t] \notin InACall /\ IsDelayed(t) => IsDelayed(t)'
          /\ IsWaiting(t)' \/ t \in ToSet(pendingReady') =>
                IsWaiting(t) \/ t \in ToSet(pendingReady) \/ ~IsDelayed(t)

(* The lists of delayed tasks only get shorter, and stay in order.         *)
LEMMA OnlyWakesLists ==
  ASSUME ListsInv, InTime, NEW gone, OnlyWakes(gone)
  PROVE  /\ ToSet(delayed') \subseteq ToSet(delayed) /\ ToSet(overflowed') \subseteq ToSet(overflowed)
         /\ Ascending(delayed', wake) /\ Ascending(overflowed', wake)
<1>1. Good(delayed) /\ Good(overflowed) /\ Ascending(delayed, wake) /\ Ascending(overflowed, wake)
  BY DEF ListsInv, ListTypes, InTime
<1>2. CASE UNCHANGED <<delayed, overflowed>>
  BY <1>1, <1>2
<1>3. ASSUME NEW us, delayed' = Without(delayed, us), overflowed' = Without(overflowed, us)
      PROVE  /\ ToSet(delayed') \subseteq ToSet(delayed) /\ ToSet(overflowed') \subseteq ToSet(overflowed)
             /\ Ascending(delayed', wake) /\ Ascending(overflowed', wake)
  BY <1>1, <1>3, GoodWithout, AscendingWithout
<1> QED BY <1>2, <1>3 DEF OnlyWakes

(* Such a step keeps every task timely, if what it takes out had waited    *)
(* long enough or is in a call.                                            *)
LEMMA QuietTimes ==
  ASSUME ListsInv, TypeInv, InTime, NEW gone, OnlyWakes(gone),
         UNCHANGED <<wake, xTickCount, xNextTaskUnblockTime, uxMissedTicks>>,
         \A t \in AllTasks :
            /\ pc'[t] \in InACall => call'[t].wait # 0
            /\ pc'[t] \notin InACall =>
                  \/ left'[t] = 0 /\ ~IsDelayed(t)'
                  \/ t \notin gone /\ pc[t] \notin InACall /\ left'[t] = left[t]
  PROVE  InTime'
<1>1. /\ ToSet(delayed') \subseteq ToSet(delayed) /\ ToSet(overflowed') \subseteq ToSet(overflowed)
      /\ Ascending(delayed', wake) /\ Ascending(overflowed', wake)
  BY OnlyWakesLists
<1>2. ASSUME NEW t \in AllTasks PROVE Timely(t)'
  <2>1. /\ Timely(t)
        /\ t \in ToSet(delayed) => t \notin ToSet(overflowed)
        /\ t \notin gone /\ pc[t] \notin InACall /\ IsDelayed(t) => IsDelayed(t)'
        /\ IsWaiting(t)' \/ t \in ToSet(pendingReady') =>
              IsWaiting(t) \/ t \in ToSet(pendingReady) \/ ~IsDelayed(t)
        /\ IsDelayed(t)' => IsDelayed(t)
    BY <1>1 DEF OnlyWakes, InTime, ListsInv, AllApart, Apart, IsDelayed
  <2>2. /\ t \in ToSet(delayed') => wake'[t] > xTickCount' /\ xNextTaskUnblockTime' <= wake'[t]
        /\ t \in ToSet(overflowed') => wake'[t] < xTickCount'
    BY <1>1, <2>1 DEF Timely
  <2>3. IsDelayed(t)' /\ (IsWaiting(t)' \/ t \in ToSet(pendingReady')) => pc'[t] \in InACall
    BY <2>1 DEF Timely
  <2>4. pc'[t] \notin InACall =>
          left'[t] = IF t \in ToSet(delayed') THEN Remaining(wake[t] - xTickCount, uxMissedTicks)
                     ELSE IF t \in ToSet(overflowed')
                     THEN Remaining(wake[t] + TickWidth - xTickCount, uxMissedTicks) ELSE 0
    <3>1. CASE left'[t] = 0 /\ ~IsDelayed(t)'
      BY <3>1 DEF IsDelayed
    <3>2. CASE t \notin gone /\ pc[t] \notin InACall /\ left'[t] = left[t]
      <4>1. /\ t \in ToSet(delayed') <=> t \in ToSet(delayed)
            /\ t \in ToSet(overflowed') <=> t \in ToSet(overflowed)
        BY <1>1, <2>1, <3>2 DEF IsDelayed
      <4> QED BY <2>1, <3>2, <4>1 DEF Timely
    <3> QED BY <3>1, <3>2
  <2> QED BY <2>2, <2>3, <2>4 DEF Timely
<1> QED BY <1>1, <1>2 DEF InTime

-----------------------------------------------------------------------------
(* The tick: those woken were to wake now, the others later.               *)
LEMMA TickWakes ==
  ASSUME ListsInv, TypeInv, InTime, IncrementTick
  PROVE  /\ xTickCount' = IF xTickCount = MaxDelay THEN 0 ELSE xTickCount + 1
         /\ Ascending(delayed', wake) /\ Ascending(overflowed', wake)
         /\ \A t \in AllTasks :
               /\ t \in ToSet(delayed') =>
                     /\ wake[t] > xTickCount' /\ xNextTaskUnblockTime' <= wake[t]
                     /\ t \in ToSet(IF xTickCount = MaxDelay THEN overflowed ELSE delayed)
               /\ t \in ToSet(overflowed') => t \in ToSet(overflowed) /\ xTickCount # MaxDelay
               /\ IsDelayed(t) /\ ~IsDelayed(t)' =>
                     /\ wake[t] = xTickCount'
                     /\ t \in ToSet(IF xTickCount = MaxDelay THEN overflowed ELSE delayed)
               /\ IsWaiting(t)' => IsWaiting(t)
               /\ t \in ToSet(pendingReady') => t \in ToSet(pendingReady)
<1> DEFINE tick    == (xTickCount + 1) % TickWidth
           list    == IF tick = 0 THEN overflowed ELSE delayed
           unblock == IF tick # 0 THEN xNextTaskUnblockTime
                      ELSE IF list = <<>> THEN MaxDelay ELSE wake[Head(list)]
<1>1. /\ xTickCount \in 0 .. MaxDelay /\ MaxDelay \in Nat /\ xNextTaskUnblockTime \in 0 .. MaxDelay
      /\ \A t \in AllTasks : wake[t] \in 0 .. MaxDelay
      /\ Idle \in AllTasks
  BY TimeTypes DEF AllTasks
<1>2. /\ tick = IF xTickCount = MaxDelay THEN 0 ELSE xTickCount + 1
      /\ tick \in 0 .. MaxDelay
      /\ tick = 0 <=> xTickCount = MaxDelay
  <2>1. tick = IF xTickCount = MaxDelay THEN 0 ELSE xTickCount + 1
    BY <1>1, NextTick, Widths
  <2> HIDE DEF tick
  <2> QED BY <1>1, <2>1
<1>3. /\ Good(delayed) /\ Good(overflowed) /\ Good(pendingReady) /\ ListTypes
      /\ \A l \in EventLists : Good(events[l])
      /\ Ascending(delayed, wake) /\ Ascending(overflowed, wake)
  BY DEF ListsInv, ListTypes, InTime
<1>4. PICK n \in 0 .. Len(list) :
        LET due  == SubSeq(list, 1, n)
            rest == SubSeq(list, n + 1, Len(list))
        IN  /\ xTickCount' = tick /\ delayed' = rest
            /\ overflowed' = IF tick = 0 THEN delayed ELSE overflowed
            /\ events' = [l \in EventLists |-> Without(events[l], ToSet(due))]
            /\ pendingReady' = Without(pendingReady, ToSet(due))
            /\ tick < unblock => n = 0 /\ xNextTaskUnblockTime' = unblock
            /\ ~(tick < unblock) =>
                  /\ \A i \in 1 .. n : wake[list[i]] <= tick
                  /\ n < Len(list) => wake[list[n + 1]] > tick
                  /\ xNextTaskUnblockTime' = IF rest = <<>> THEN MaxDelay ELSE wake[Head(rest)]
  <2>1. xTickCount \in Ticks /\ wake \in [AllTasks -> Ticks] /\ xNextTaskUnblockTime \in Ticks
    BY DEF TypeInv, ClockTypes
  <2> QED BY <1>3, <2>1, TickWakesFirst
<1> DEFINE due  == SubSeq(list, 1, n)
           rest == SubSeq(list, n + 1, Len(list))
<1>5. /\ xTickCount' = tick /\ delayed' = rest
      /\ overflowed' = IF tick = 0 THEN delayed ELSE overflowed
      /\ events' = [l \in EventLists |-> Without(events[l], ToSet(due))]
      /\ pendingReady' = Without(pendingReady, ToSet(due))
      /\ tick < unblock => n = 0 /\ xNextTaskUnblockTime' = unblock
      /\ ~(tick < unblock) =>
            /\ \A i \in 1 .. n : wake[list[i]] <= tick
            /\ n < Len(list) => wake[list[n + 1]] > tick
            /\ xNextTaskUnblockTime' = IF rest = <<>> THEN MaxDelay ELSE wake[Head(rest)]
  BY <1>4
<1> HIDE DEF tick
<1>6. Good(list) /\ Ascending(list, wake) /\ Len(list) \in Nat
  <2>1. Good(list) /\ Ascending(list, wake)
    BY <1>3
  <2> HIDE DEF list
  <2> QED BY <2>1, GoodFacts
(* A task in delayed when the tick count overflows would have to wake      *)
(* after the last tick.                                                    *)
<1>7. /\ \A t \in ToSet(delayed) : t \in AllTasks /\ wake[t] > xTickCount /\ tick # 0
                                 /\ xNextTaskUnblockTime <= wake[t]
      /\ \A t \in ToSet(overflowed) : t \in AllTasks
  <2>1. ASSUME NEW t \in ToSet(delayed) PROVE /\ t \in AllTasks /\ wake[t] > xTickCount
                                             /\ xNextTaskUnblockTime <= wake[t]
    BY <1>3, GoodFacts DEF InTime, Timely
  <2>2. ASSUME NEW t \in ToSet(delayed) PROVE tick # 0
    BY <1>1, <1>2, <2>1
  <2> QED BY <1>3, <2>1, <2>2, GoodFacts
<1>8. \A t \in ToSet(list) : t \in AllTasks /\ wake[t] >= tick
  BY <1>1, <1>2, <1>7
<1>9. /\ Good(due) /\ Good(rest) /\ ToSet(due) \cap ToSet(rest) = {}
      /\ ToSet(due) \cup ToSet(rest) = ToSet(list)
      /\ Ascending(rest, wake) /\ Len(due) = n /\ \A i \in 1 .. n : due[i] = list[i]
      /\ Len(rest) = Len(list) - n /\ \A i \in 1 .. Len(list) - n : rest[i] = list[n + i]
  <2> HIDE DEF list
  <2> QED BY <1>6, GoodSplit, AscendingSplit
<1>10. \A t \in ToSet(list) : tick < unblock => unblock <= wake[t]
  <2>1. CASE tick # 0
    BY <1>7, <2>1
  <2>2. CASE tick = 0
    <3>1. ASSUME NEW t \in ToSet(list) PROVE unblock <= wake[t]
      <4>1. list # <<>> /\ unblock = wake[Head(list)]
        <5>1. list # <<>>
          BY <3>1, GoodEmpty
        <5> QED BY <2>2, <5>1
      <4>2. PICK j \in 1 .. Len(list) : t = list[j]
        <5> HIDE DEF list
        <5> QED BY <1>6, GoodFacts
      <4>3. Head(list) = list[1] /\ 1 \in 1 .. Len(list) /\ wake[list[1]] \in Int
        <5> HIDE DEF list
        <5>1. Head(list) = list[1] /\ 1 \in 1 .. Len(list) /\ list[1] \in ToSet(list)
          BY <1>6, <4>2, GoodFacts DEF Good
        <5> QED BY <1>1, <1>8, <5>1
      <4> HIDE DEF list, unblock
      <4>4. wake[list[1]] <= wake[list[j]]
        <5>1. CASE j = 1
          BY <4>3, <5>1
        <5>2. CASE j > 1
          BY <1>6, <4>3, <5>2 DEF Ascending
        <5> QED BY <5>1, <5>2
      <4> QED BY <4>1, <4>2, <4>3, <4>4
    <3> QED BY <3>1
  <2> QED BY <2>1, <2>2
<1> HIDE DEF list, due, rest
<1>11. ASSUME NEW t \in ToSet(due) PROVE wake[t] = tick
  <2>1. PICK i \in 1 .. n : t = list[i]
    BY <1>9, GoodFacts
  <2>2. n # 0
    BY <2>1
  <2>3. wake[t] <= tick
    BY <1>5, <2>1, <2>2
  <2> QED BY <1>1, <1>2, <1>8, <1>9, <2>3
<1>12. ASSUME NEW t \in ToSet(rest) PROVE wake[t] > tick /\ xNextTaskUnblockTime' <= wake[t]
  <2>0. t \in ToSet(list) /\ t \in AllTasks /\ wake[t] \in Int /\ unblock \in Int
    <3>1. t \in ToSet(list) /\ t \in AllTasks /\ wake[t] \in Int
      BY <1>1, <1>8, <1>9
    <3>2. list # <<>> => Head(list) \in AllTasks
      BY <1>6, GoodTail
    <3> QED BY <1>1, <3>1, <3>2
  <2>1. CASE tick < unblock
    <3>1. unblock <= wake[t]
      BY <1>10, <2>0, <2>1
    <3> HIDE DEF unblock
    <3> QED BY <1>1, <1>2, <1>5, <2>0, <2>1, <3>1
  <2>2. CASE ~(tick < unblock)
    <3>1. PICK j \in 1 .. Len(rest) : t = rest[j]
      BY <1>9, GoodFacts
    <3>2. rest # <<>> /\ Head(rest) = rest[1] /\ 1 \in 1 .. Len(rest)
      <4>1. rest # <<>>
        BY GoodEmpty, <3>1
      <4>2. Len(rest) \in Nat /\ rest \in Seq(AllTasks)
        BY <1>9 DEF Good
      <4> QED BY <3>1, <4>1, <4>2
    <3>3. n < Len(list) /\ rest[1] = list[n + 1]
      BY <1>6, <1>9, <3>2
    <3>4. wake[rest[1]] > tick /\ xNextTaskUnblockTime' = wake[rest[1]]
      BY <1>5, <2>2, <3>2, <3>3
    <3>5. rest[1] \in AllTasks /\ wake[rest[1]] \in Int
      BY <1>1, <1>9, <3>2, GoodFacts
    <3>6. wake[rest[1]] <= wake[t]
      <4>1. CASE j = 1
        BY <3>1, <3>5, <4>1
      <4>2. CASE j > 1
        BY <1>9, <3>1, <3>2, <4>2 DEF Ascending
      <4> QED BY <3>1, <4>1, <4>2
    <3> QED BY <1>1, <1>2, <2>0, <3>4, <3>5, <3>6
  <2> QED BY <2>1, <2>2
<1>13. Ascending(delayed', wake) /\ Ascending(overflowed', wake)
  BY <1>3, <1>5, <1>9
<1>14. ASSUME NEW t \in AllTasks
       PROVE  /\ t \in ToSet(delayed') =>
                    /\ wake[t] > xTickCount' /\ xNextTaskUnblockTime' <= wake[t]
                    /\ t \in ToSet(list)
              /\ t \in ToSet(overflowed') => t \in ToSet(overflowed) /\ xTickCount # MaxDelay
              /\ IsDelayed(t) /\ ~IsDelayed(t)' => wake[t] = xTickCount' /\ t \in ToSet(list)
              /\ IsWaiting(t)' => IsWaiting(t)
              /\ t \in ToSet(pendingReady') => t \in ToSet(pendingReady)
  <2>1. t \in ToSet(delayed') =>
           /\ wake[t] > xTickCount' /\ xNextTaskUnblockTime' <= wake[t] /\ t \in ToSet(list)
    BY <1>5, <1>9, <1>12
  <2>2. t \in ToSet(overflowed') => t \in ToSet(overflowed) /\ xTickCount # MaxDelay
    BY <1>2, <1>5, <1>7
  <2>3. IsDelayed(t) /\ ~IsDelayed(t)' => wake[t] = xTickCount' /\ t \in ToSet(list)
    <3> SUFFICES ASSUME t \in ToSet(delayed) \cup ToSet(overflowed),
                        t \notin ToSet(delayed'), t \notin ToSet(overflowed')
                 PROVE  wake[t] = tick /\ t \in ToSet(list)
      BY <1>5 DEF IsDelayed
    <3>1. t \in ToSet(list)
      BY <1>5, <1>7 DEF list
    <3>2. t \in ToSet(due)
      BY <1>5, <1>9, <3>1
    <3> QED BY <1>11, <3>1, <3>2
  <2>4. t \in ToSet(pendingReady') => t \in ToSet(pendingReady)
    BY <1>3, <1>5, GoodWithout
  <2>5. IsWaiting(t)' => IsWaiting(t)
    BY <1>3, <1>5, GoodWithout DEF IsWaiting
  <2> QED BY <2>1, <2>2, <2>3, <2>4, <2>5
<1>15. list = IF xTickCount = MaxDelay THEN overflowed ELSE delayed
  BY <1>2 DEF list
<1> QED BY <1>2, <1>5, <1>13, <1>14, <1>15

(* The tick of vTaskIncrementTick, whether it is counted as it comes or    *)
(* later.                                                                  *)
LEMMA TickInTime ==
  ASSUME ListsInv, TypeInv, TypeInv', InTime, IncrementTick, UNCHANGED <<pc, wake, call>>,
         \/ /\ uxMissedTicks = 0 /\ UNCHANGED uxMissedTicks
            /\ \A t \in AllTasks : left'[t] = IF left[t] > 0 THEN left[t] - 1 ELSE 0
         \/ uxMissedTicks > 0 /\ uxMissedTicks' = uxMissedTicks - 1 /\ UNCHANGED left
  PROVE  InTime'
<1>1. /\ xTickCount' = IF xTickCount = MaxDelay THEN 0 ELSE xTickCount + 1
      /\ Ascending(delayed', wake) /\ Ascending(overflowed', wake)
  BY TickWakes
<1>2. ASSUME NEW t \in AllTasks PROVE Timely(t)'
  <2>1. /\ t \in ToSet(delayed') =>
              /\ wake[t] > xTickCount' /\ xNextTaskUnblockTime' <= wake[t]
              /\ t \in ToSet(IF xTickCount = MaxDelay THEN overflowed ELSE delayed)
        /\ t \in ToSet(overflowed') => t \in ToSet(overflowed) /\ xTickCount # MaxDelay
        /\ IsDelayed(t) /\ ~IsDelayed(t)' =>
              /\ wake[t] = xTickCount'
              /\ t \in ToSet(IF xTickCount = MaxDelay THEN overflowed ELSE delayed)
        /\ IsWaiting(t)' => IsWaiting(t)
        /\ t \in ToSet(pendingReady') => t \in ToSet(pendingReady)
    BY TickWakes
  <2>2. /\ Timely(t)
        /\ t \in ToSet(delayed) => t \notin ToSet(overflowed)
    BY DEF InTime, ListsInv, AllApart, Apart
  <2>3. /\ xTickCount \in 0 .. MaxDelay /\ wake[t] \in 0 .. MaxDelay /\ left[t] \in Nat
        /\ uxMissedTicks \in Nat /\ uxMissedTicks' \in Nat
        /\ TickWidth = MaxDelay + 1 /\ MaxDelay \in Nat
    BY TimeTypes DEF TypeInv, Missing
  <2>4. \/ /\ uxMissedTicks = 0 /\ uxMissedTicks' = uxMissedTicks
           /\ left'[t] = IF left[t] > 0 THEN left[t] - 1 ELSE 0
        \/ uxMissedTicks > 0 /\ uxMissedTicks' = uxMissedTicks - 1 /\ left'[t] = left[t]
    OBVIOUS
  <2>6. \A n \in Int : n >= 1 /\ left[t] = Remaining(n, uxMissedTicks)
                         => left'[t] = Remaining(n - 1, uxMissedTicks')
    BY <2>3, <2>4 DEF Remaining
  <2>7. left[t] = 0 => left'[t] = 0
    BY <2>4
  <2>8. Remaining(0, uxMissedTicks') = 0
    <3>1. \A m \in Nat : Remaining(0, m) = 0
      BY DEF Remaining
    <3> QED BY <2>3, <3>1
  <2>9. ASSUME pc[t] \notin InACall
        PROVE  left'[t] = IF t \in ToSet(delayed') THEN Remaining(wake[t] - xTickCount', uxMissedTicks')
                          ELSE IF t \in ToSet(overflowed')
                          THEN Remaining(wake[t] + TickWidth - xTickCount', uxMissedTicks') ELSE 0
    <3>1. CASE ~IsDelayed(t)
      <4>1. left[t] = 0 /\ ~IsDelayed(t)'
        BY <1>1, <2>1, <2>2, <2>9, <3>1 DEF Timely, IsDelayed
      <4> QED BY <2>7, <4>1 DEF IsDelayed
    <3>2. CASE t \in ToSet(delayed)
      <4>1. /\ left[t] = Remaining(wake[t] - xTickCount, uxMissedTicks) /\ wake[t] > xTickCount
            /\ t \notin ToSet(overflowed)
        BY <2>2, <2>9, <3>2 DEF Timely
      <4>2. xTickCount' = xTickCount + 1 /\ xTickCount # MaxDelay
        BY <1>1, <2>3, <4>1
      <4>3. /\ left'[t] = Remaining(wake[t] - xTickCount - 1, uxMissedTicks')
            /\ wake[t] - xTickCount - 1 = wake[t] - xTickCount'
        BY <2>3, <2>6, <4>1, <4>2
      <4>4. t \notin ToSet(overflowed')
        BY <2>1, <4>1
      <4>5. CASE t \in ToSet(delayed')
        BY <4>3, <4>5
      <4>6. CASE t \notin ToSet(delayed')
        <5>1. wake[t] - xTickCount' = 0
          BY <2>1, <2>3, <3>2, <4>4, <4>6 DEF IsDelayed
        <5> QED BY <2>8, <4>3, <4>4, <4>6, <5>1
      <4> QED BY <4>5, <4>6
    <3>3. CASE t \in ToSet(overflowed)
      <4>1. /\ left[t] = Remaining(wake[t] + TickWidth - xTickCount, uxMissedTicks) /\ wake[t] < xTickCount
            /\ t \notin ToSet(delayed)
        BY <2>2, <2>9, <3>3 DEF Timely
      <4>2. left'[t] = Remaining(wake[t] + TickWidth - xTickCount - 1, uxMissedTicks')
        BY <2>3, <2>6, <4>1
      <4>3. CASE xTickCount = MaxDelay
        <5>1. wake[t] + TickWidth - xTickCount - 1 = wake[t] - xTickCount' /\ t \notin ToSet(overflowed')
          BY <1>1, <2>1, <2>3, <4>3
        <5>2. t \notin ToSet(delayed') => wake[t] - xTickCount' = 0
          BY <2>1, <2>3, <3>3, <5>1 DEF IsDelayed
        <5> QED BY <2>8, <4>2, <5>1, <5>2
      <4>4. CASE xTickCount # MaxDelay
        <5>1. wake[t] + TickWidth - xTickCount - 1 = wake[t] + TickWidth - xTickCount'
          BY <1>1, <2>3, <4>4
        <5>2. t \notin ToSet(delayed') /\ t \in ToSet(overflowed')
          BY <2>1, <3>3, <4>1, <4>4 DEF IsDelayed
        <5> QED BY <4>2, <5>1, <5>2
      <4> QED BY <4>3, <4>4
    <3> QED BY <3>1, <3>2, <3>3 DEF IsDelayed
  <2>10. /\ t \in ToSet(overflowed') => wake[t] < xTickCount'
         /\ IsDelayed(t)' => IsDelayed(t)
    <3>1. t \in ToSet(overflowed') => wake[t] < xTickCount'
      BY <1>1, <2>1, <2>2, <2>3 DEF Timely
    <3>2. IsDelayed(t)' => IsDelayed(t)
      BY <2>1 DEF IsDelayed
    <3> QED BY <3>1, <3>2
  <2> QED BY <2>1, <2>2, <2>9, <2>10 DEF Timely
<1> QED BY <1>1, <1>2 DEF InTime

(* A tick is missed.                                                       *)
LEMMA MissedInTime ==
  ASSUME ListsInv, TypeInv, InTime, UNCHANGED <<pc, wake, call, generic, eventItems, clock>>,
         uxMissedTicks' = uxMissedTicks + 1,
         \A t \in AllTasks : left'[t] = IF left[t] > 0 THEN left[t] - 1 ELSE 0
  PROVE  InTime'
<1>1. UNCHANGED <<delayed, overflowed, events, pendingReady, xTickCount, xNextTaskUnblockTime>>
  BY DEF generic, eventItems, clock
<1>2. ASSUME NEW t \in AllTasks PROVE Timely(t)'
  <2>1. /\ xTickCount \in 0 .. MaxDelay /\ wake[t] \in 0 .. MaxDelay /\ left[t] \in Nat
        /\ uxMissedTicks \in Nat /\ TickWidth = MaxDelay + 1 /\ MaxDelay \in Nat
    BY TimeTypes
  <2>2. \A n \in Int : left[t] = Remaining(n, uxMissedTicks)
                         => left'[t] = Remaining(n, uxMissedTicks + 1)
    BY <2>1 DEF Remaining
  <2>3. left[t] = 0 => left'[t] = 0
    OBVIOUS
  <2>4. Timely(t)
    BY DEF InTime
  <2>5. pc[t] \notin InACall =>
          left'[t] = IF t \in ToSet(delayed) THEN Remaining(wake[t] - xTickCount, uxMissedTicks + 1)
                     ELSE IF t \in ToSet(overflowed)
                     THEN Remaining(wake[t] + TickWidth - xTickCount, uxMissedTicks + 1) ELSE 0
    BY <2>1, <2>2, <2>3, <2>4 DEF Timely
  <2> QED BY <1>1, <2>4, <2>5 DEF Timely, IsDelayed, IsWaiting
<1> QED BY <1>1, <1>2 DEF InTime

-----------------------------------------------------------------------------
(* A task begins to sleep.                                                 *)
LEMMA SleepInTime ==
  ASSUME ListsInv, TypeInv, InTime, NEW t \in Task, IsReady(t), NEW time \in Ticks,
         time # xTickCount, AddToDelayed(t, time), UNCHANGED uxMissedTicks,
         \A u \in AllTasks : u # t =>
            /\ pc'[u] = pc[u] /\ call'[u] = call[u] /\ left'[u] = left[u]
            /\ IsWaiting(u)' \/ u \in ToSet(pendingReady') => IsWaiting(u) \/ u \in ToSet(pendingReady),
         IsWaiting(t)' \/ t \in ToSet(pendingReady') => pc'[t] \in InACall,
         pc'[t] \in InACall => call'[t].wait # 0,
         pc'[t] \notin InACall =>
            left'[t] = Remaining(IF time > xTickCount THEN time - xTickCount
                                 ELSE time + TickWidth - xTickCount, uxMissedTicks)
  PROVE  InTime'
<1>1. /\ t \in AllTasks /\ t \notin ToSet(delayed) /\ t \notin ToSet(overflowed)
      /\ Good(delayed) /\ Good(overflowed)
      /\ Ascending(delayed, wake) /\ Ascending(overflowed, wake)
  BY DEF AllTasks, ListsInv, AllApart, Apart, IsAway, IsDelayed, ListTypes, InTime
<1>2. /\ xTickCount \in 0 .. MaxDelay /\ xNextTaskUnblockTime \in 0 .. MaxDelay
      /\ time \in 0 .. MaxDelay /\ MaxDelay \in Nat
      /\ \A u \in AllTasks : wake[u] \in 0 .. MaxDelay
      /\ wake \in [AllTasks -> Ticks]
  BY <1>1, TimeTypes DEF TypeInv, ClockTypes
<1>3. wake' = [wake EXCEPT ![t] = time] /\ UNCHANGED xTickCount
  BY DEF AddToDelayed
<1>4. PICK new : new = wake'
  OBVIOUS
<1>5. /\ new[t] = time /\ \A u \in AllTasks : u # t => new[u] = wake[u]
      /\ \A u \in AllTasks : new[u] \in Int
  BY <1>1, <1>2, <1>3, <1>4
<1>6. ASSUME NEW s, Good(s), t \notin ToSet(s), Ascending(s, wake)
      PROVE  /\ Ascending(s, new) /\ Ascending(Insert(s, t, new), new)
             /\ ToSet(Insert(s, t, new)) = ToSet(s) \cup {t}
  <2>1. \A i \in 1 .. Len(s) : new[s[i]] = wake[s[i]]
    BY <1>5, <1>6, GoodFacts
  <2>2. Ascending(s, new)
    BY <1>6, <2>1 DEF Ascending
  <2> QED BY <1>1, <1>5, <1>6, <2>2, AscendingInsert, GoodInsert
<1>7. /\ Ascending(delayed', new) /\ Ascending(overflowed', new)
      /\ ToSet(delayed') = IF time > xTickCount THEN ToSet(delayed) \cup {t} ELSE ToSet(delayed)
      /\ ToSet(overflowed') = IF time > xTickCount THEN ToSet(overflowed) ELSE ToSet(overflowed) \cup {t}
      /\ xNextTaskUnblockTime' <= xNextTaskUnblockTime
      /\ time > xTickCount => xNextTaskUnblockTime' <= time
  <2>1. CASE time < xTickCount
    <3>1. overflowed' = Insert(overflowed, t, new) /\ UNCHANGED <<delayed, xNextTaskUnblockTime>>
      BY <1>2, <1>4, <2>1 DEF AddToDelayed
    <3> QED BY <1>1, <1>2, <1>6, <2>1, <3>1
  <2>2. CASE time > xTickCount
    <3>1. /\ delayed' = Insert(delayed, t, new) /\ UNCHANGED overflowed
          /\ xNextTaskUnblockTime' = UnblockTime(time)
      BY <1>2, <1>4, <2>2 DEF AddToDelayed
    <3>2. xNextTaskUnblockTime' <= xNextTaskUnblockTime /\ xNextTaskUnblockTime' <= time
      BY <1>2, <3>1 DEF UnblockTime
    <3> QED BY <1>1, <1>6, <2>2, <3>1, <3>2
  <2> QED BY <1>2, <2>1, <2>2
<1>8. xNextTaskUnblockTime' \in Int
  BY <1>2 DEF AddToDelayed, UnblockTime
<1>9. ASSUME NEW u \in AllTasks, u # t PROVE Timely(u)'
  <2>1. /\ u \in ToSet(delayed') <=> u \in ToSet(delayed)
        /\ u \in ToSet(overflowed') <=> u \in ToSet(overflowed)
    BY <1>7, <1>9
  <2>2. /\ pc'[u] = pc[u] /\ call'[u] = call[u] /\ left'[u] = left[u] /\ wake'[u] = wake[u]
        /\ IsWaiting(u)' \/ u \in ToSet(pendingReady') => IsWaiting(u) \/ u \in ToSet(pendingReady)
        /\ Timely(u) /\ wake[u] \in Int
    BY <1>2, <1>4, <1>5, <1>9 DEF InTime
  <2>3. u \in ToSet(delayed') => wake'[u] > xTickCount' /\ xNextTaskUnblockTime' <= wake'[u]
    BY <1>2, <1>3, <1>7, <1>8, <2>1, <2>2 DEF Timely
  <2> QED BY <1>3, <2>1, <2>2, <2>3 DEF Timely, IsDelayed
<1>10. Timely(t)'
  <2>1. wake'[t] = time /\ UNCHANGED <<xTickCount, uxMissedTicks>>
    BY <1>3, <1>4, <1>5
  <2>2. /\ t \in ToSet(delayed') <=> time > xTickCount
        /\ t \in ToSet(overflowed') <=> time < xTickCount
    BY <1>1, <1>2, <1>7
  <2> QED BY <1>2, <1>7, <2>1, <2>2 DEF Timely, IsDelayed
<1> QED BY <1>4, <1>7, <1>9, <1>10 DEF InTime

-----------------------------------------------------------------------------
(* Steps of the scheduler.                                                 *)

(* Tasks that wait for an event, or are pending, become ready.             *)
LEMMA WokenInCalls ==
  ASSUME ListsInv, InTime, NEW us, Good(us), NEW new, MakeReady(us, new),
         \A t \in ToSet(us) : IsDelayed(t) => pc[t] \in InACall
  PROVE  /\ delayed' = Without(delayed, ToSet(us)) /\ overflowed' = Without(overflowed, ToSet(us))
         /\ \A t \in AllTasks : pc[t] \notin InACall /\ IsDelayed(t) => IsDelayed(t)'
<1>1. delayed' = Without(delayed, ToSet(us)) /\ overflowed' = Without(overflowed, ToSet(us))
  BY DEF MakeReady
<1>2. /\ ToSet(delayed') = ToSet(delayed) \ ToSet(us)
      /\ ToSet(overflowed') = ToSet(overflowed) \ ToSet(us)
  BY <1>1, GoodWithout DEF ListsInv, ListTypes
<1> QED BY <1>1, <1>2 DEF IsDelayed

(* xTaskResumeAll moves tasks that were woken during the suspension.       *)
LEMMA ResumeAllInTime ==
  ASSUME ListsInv, InTime, NEW yield, ResumeAll(yield)
  PROVE  /\ OnlyWakes({})
         /\ UNCHANGED <<wake, xTickCount, xNextTaskUnblockTime, uxMissedTicks, left>>
<1>1. UNCHANGED <<events, wake, xTickCount, xNextTaskUnblockTime, uxMissedTicks, left>>
  BY DEF ResumeAll, clock, history
<1>2. CASE UNCHANGED <<generic, pendingReady>>
  BY <1>1, <1>2 DEF OnlyWakes, generic, IsDelayed, IsWaiting
<1>3. CASE MakeReady(pendingReady, prio) /\ pendingReady' = <<>>
  <2>1. Good(pendingReady) /\ \A t \in ToSet(pendingReady) : IsDelayed(t) => pc[t] \in InACall
    BY GoodFacts DEF ListsInv, ListTypes, InTime, Timely
  <2>2. /\ delayed' = Without(delayed, ToSet(pendingReady))
        /\ overflowed' = Without(overflowed, ToSet(pendingReady))
        /\ \A t \in AllTasks : pc[t] \notin InACall /\ IsDelayed(t) => IsDelayed(t)'
    BY <1>3, <2>1, WokenInCalls
  <2>3. ToSet(pendingReady') = {} /\ \A t : IsWaiting(t)' <=> IsWaiting(t)
    BY <1>1, <1>3, GoodEmpty DEF IsWaiting
  <2> QED BY <1>1, <2>2, <2>3 DEF OnlyWakes
<1> QED BY <1>1, <1>2, <1>3 DEF ResumeAll

(* Steps that leave those lists alone.                                     *)
LEMMA QuietOnlyWakes ==
  ASSUME UNCHANGED <<delayed, overflowed, events, pendingReady>>
  PROVE  OnlyWakes({})
BY DEF OnlyWakes, IsDelayed, IsWaiting

(* A step that only wakes tasks and changes neither a place outside of a   *)
(* call nor what is left of a wait.                                        *)
LEMMA StillInTime ==
  ASSUME ListsInv, TypeInv, InTime, OnlyWakes({}),
         UNCHANGED <<wake, xTickCount, xNextTaskUnblockTime, uxMissedTicks, left, call>>,
         \A t \in AllTasks : pc'[t] \in InACall <=> pc[t] \in InACall
  PROVE  InTime'
<1>1. \A t \in AllTasks : /\ pc'[t] \in InACall => call'[t].wait # 0
                          /\ pc'[t] \notin InACall => left'[t] = left[t] /\ pc[t] \notin InACall
  BY DEF InTime, Timely
<1>2. PICK gone : gone = {}
  OBVIOUS
<1> QED BY <1>1, <1>2, QuietTimes

(* The idle task frees tasks that wait for nothing.                        *)
LEMMA IdleInTime ==
  ASSUME ListsInv, DOMAIN pc = AllTasks, TypeInv, InTime, UNCHANGED call, IdleStep
  PROVE  InTime'
<1>1. \A t \in AllTasks : pc'[t] \in InACall <=> pc[t] \in InACall
  BY DEF IdleStep, IdleYield, IdleBegin, IdleResume, IdleFree, InACall
<1>2. CASE IdleResume
  <2>1. \E yield : ResumeAll(yield)
    BY <1>2 DEF IdleResume
  <2> QED BY <1>1, <2>1, ResumeAllInTime, StillInTime
<1>3. CASE IdleYield \/ IdleBegin \/ IdleFree
  <2>1. UNCHANGED <<delayed, overflowed, events, pendingReady, wake, xTickCount,
                    xNextTaskUnblockTime, uxMissedTicks, left>>
    BY <1>3 DEF IdleYield, IdleBegin, IdleFree, generic, eventItems, clock, scheduler, history
  <2> QED BY <1>1, <2>1, QuietOnlyWakes, StillInTime
<1> QED BY <1>2, <1>3 DEF IdleStep

(* A suspended task becomes ready.                                         *)
LEMMA ResumedInTime ==
  ASSUME ListsInv, InTime, NEW u \in Task, IsTaskSuspended(u), MakeReady(<<u>>, prio),
         UNCHANGED <<events, pendingReady>>
  PROVE  OnlyWakes({})
<1>1. u \in AllTasks /\ ~IsDelayed(u)
  BY DEF AllTasks, IsTaskSuspended, ListsInv, AllApart, Apart
<1>2. Good(<<u>>) /\ ToSet(<<u>>) = {u}
  BY <1>1, GoodOne
<1>3. /\ \E us : delayed' = Without(delayed, us) /\ overflowed' = Without(overflowed, us)
      /\ \A t \in AllTasks : pc[t] \notin InACall /\ IsDelayed(t) => IsDelayed(t)'
  BY <1>1, <1>2, WokenInCalls
<1>4. \A t : IsWaiting(t)' <=> IsWaiting(t)
  BY DEF IsWaiting
<1> QED BY <1>3, <1>4 DEF OnlyWakes

(* xTaskResumeFromISR wakes a task that was suspended.                     *)
LEMMA ResumeFromISRInTime ==
  ASSUME ListsInv, TypeInv, InTime, UNCHANGED call, NEW u \in Task, ResumeFromISR(u)
  PROVE  InTime'
<1>1. /\ UNCHANGED <<pc, events, wake, xTickCount, xNextTaskUnblockTime, uxMissedTicks, left>>
      /\ IsTaskSuspended(u)
      /\ \/ MakeReady(<<u>>, prio) /\ UNCHANGED pendingReady
         \/ pendingReady' = Append(pendingReady, u) /\ UNCHANGED generic
  BY DEF ResumeFromISR, clock, scheduler, history
<1>2. CASE MakeReady(<<u>>, prio) /\ UNCHANGED pendingReady
  BY <1>1, <1>2, ResumedInTime, StillInTime
<1>3. CASE pendingReady' = Append(pendingReady, u) /\ UNCHANGED generic
  <2>1. u \in AllTasks /\ ~IsDelayed(u) /\ u \notin ToSet(pendingReady) /\ Good(pendingReady)
    BY <1>1 DEF AllTasks, IsTaskSuspended, ListsInv, AllApart, Apart, ListTypes
  <2>2. ToSet(pendingReady') = ToSet(pendingReady) \cup {u}
    BY <1>3, <2>1, GoodAppend
  <2>3. UNCHANGED <<delayed, overflowed>>
    BY <1>3 DEF generic
  <2>4. OnlyWakes({})
    BY <1>1, <2>1, <2>2, <2>3 DEF OnlyWakes, IsDelayed, IsWaiting
  <2> QED BY <1>1, <2>4, StillInTime
<1> QED BY <1>1, <1>2, <1>3

-----------------------------------------------------------------------------
(* Whole cycles of the tick count.                                         *)
LEMMA Cycles ==
  \A k \in Int : /\ (k + 1) * TickWidth = k * TickWidth + TickWidth
                 /\ (k - 1) * TickWidth = k * TickWidth - TickWidth
                 /\ k * TickWidth \in Int
                 /\ k >= 2 => k * TickWidth >= 2 * TickWidth
                 /\ k <= -1 => k * TickWidth <= -TickWidth
<1> SUFFICES ASSUME NEW k \in Int
             PROVE  /\ (k + 1) * TickWidth = k * TickWidth + TickWidth
                    /\ (k - 1) * TickWidth = k * TickWidth - TickWidth
                    /\ k * TickWidth \in Int
                    /\ k >= 2 => k * TickWidth >= 2 * TickWidth
                    /\ k <= -1 => k * TickWidth <= -TickWidth
  OBVIOUS
<1>1. TickWidth \in Nat /\ TickWidth > 1
  BY Widths
<1>2. (k + 1) * TickWidth = k * TickWidth + TickWidth
  BY <1>1
<1>3. (k - 1) * TickWidth = k * TickWidth - TickWidth
  BY <1>1
<1>4. k >= 2 => k * TickWidth >= 2 * TickWidth
  BY <1>1
<1>5. k <= -1 => k * TickWidth <= -TickWidth
  BY <1>1
<1> QED BY <1>1, <1>2, <1>3, <1>4, <1>5

(* Remainders of what DelayUntil adds up.                                  *)
LEMMA Sums ==
  \A x \in Ticks, d \in Ticks :
     (x + d) % TickWidth = IF x + d < TickWidth THEN x + d ELSE x + d - TickWidth
<1> SUFFICES ASSUME NEW x \in Ticks, NEW d \in Ticks
             PROVE  (x + d) % TickWidth = IF x + d < TickWidth THEN x + d ELSE x + d - TickWidth
  OBVIOUS
<1>1. TickWidth \in Nat \ {0} /\ x \in 0 .. TickWidth - 1 /\ d \in 0 .. TickWidth - 1
  BY Widths
<1>2. CASE x + d < TickWidth
  BY <1>1, <1>2
<1>3. CASE x + d >= TickWidth
  BY <1>1, <1>3
<1> QED BY <1>1, <1>2, <1>3

(* vTaskDelay                                                              *)
LEMMA DelayInTime ==
  ASSUME ListsInv, TypeInv, InTime, DOMAIN pc = AllTasks, UNCHANGED call,
         NEW t \in Task, NEW d \in DelayTimes, Delay(t, d)
  PROVE  InTime'
<1>1. /\ t \in AllTasks /\ IsReady(t) /\ uxSchedulerSuspended = 0 /\ resuming = "no"
      /\ pendingReady = <<>>
  BY CallingFacts DEF Delay
<1>2. /\ AddToDelayed(t, WakeTime(d)) /\ pc' = [pc EXCEPT ![t] = "resume"]
      /\ left' = [left EXCEPT ![t] = d] /\ UNCHANGED <<events, pendingReady, uxMissedTicks>>
  BY DEF Delay, eventItems
<1>3. /\ xTickCount \in 0 .. MaxDelay /\ MaxDelay \in Nat /\ TickWidth = MaxDelay + 1
      /\ d \in 1 .. MaxDelay /\ d \in Ticks /\ xTickCount \in Ticks /\ uxMissedTicks = 0
      /\ DOMAIN left = AllTasks
  <2>1. d \in 1 .. MaxDelay
    BY TasksAssumption DEF MaxDelay
  <2> QED BY <1>1, <2>1, TimeTypes DEF TypeInv, Missing, ClockTypes
<1> DEFINE time == WakeTime(d)
<1>4. time = IF xTickCount + d < TickWidth THEN xTickCount + d ELSE xTickCount + d - TickWidth
  BY <1>3, Sums DEF WakeTime
<1> HIDE DEF time
<1>5. time \in Ticks /\ time # xTickCount
      /\ d = IF time > xTickCount THEN time - xTickCount ELSE time + TickWidth - xTickCount
  BY <1>3, <1>4, Widths
<1>6. pc'[t] \notin InACall /\ left'[t] = d /\ Remaining(d, uxMissedTicks) = d
  BY <1>1, <1>2, <1>3 DEF InACall, Remaining
<1>7. /\ ~IsWaiting(t)' /\ t \notin ToSet(pendingReady')
      /\ \A u \in AllTasks : u # t =>
            /\ pc'[u] = pc[u] /\ call'[u] = call[u] /\ left'[u] = left[u]
            /\ IsWaiting(u)' \/ u \in ToSet(pendingReady') => IsWaiting(u) \/ u \in ToSet(pendingReady)
  BY <1>1, <1>2, <1>3, GoodEmpty DEF IsWaiting, ListsInv, AllApart, Apart
<1>8. AddToDelayed(t, time)
  BY <1>2 DEF time
<1> QED BY <1>1, <1>2, <1>5, <1>6, <1>7, <1>8, SleepInTime

(* vTaskDelayUntil: from the ticks since the time it last woke at, and the *)
(* overflow of the tick count, it finds how long there is to go.           *)
LEMMA UntilTimes ==
  ASSUME TypeInv, NEW t \in Task, NEW d \in DelayTimes, DelayUntil(t, d), Periodic(t)
  PROVE  LET time == (previous[t] + d) % TickWidth
         IN  /\ time \in Ticks /\ uxMissedTicks = 0
             /\ \E k \in Int : time + since[t] - d = xTickCount + k * TickWidth
             /\ ShouldDelay(t, time) => time # xTickCount /\ d > since[t]
                  /\ d - since[t] = IF time > xTickCount THEN time - xTickCount
                                    ELSE time + TickWidth - xTickCount
             /\ ~ShouldDelay(t, time) => d <= since[t]
<1> DEFINE time == (previous[t] + d) % TickWidth
<1>1. /\ t \in AllTasks /\ "vTaskDelayUntil" \in Calls[t] /\ since[t] \in 0 .. TickWidth - 1
      /\ uxSchedulerSuspended = 0 /\ resuming = "no"
  BY DEF AllTasks, DelayUntil, CallsFunction, Executes
<1>2. /\ xTickCount \in 0 .. MaxDelay /\ MaxDelay \in Nat /\ TickWidth = MaxDelay + 1
      /\ d \in 1 .. MaxDelay /\ d \in Ticks /\ previous[t] \in Ticks
      /\ previous[t] \in 0 .. MaxDelay /\ uxMissedTicks = 0
  <2>1. d \in 1 .. MaxDelay
    BY TasksAssumption DEF MaxDelay
  <2> QED BY <1>1, <2>1, TimeTypes DEF TypeInv, Missing, ClockTypes
<1>3. time = IF previous[t] + d < TickWidth THEN previous[t] + d ELSE previous[t] + d - TickWidth
  BY <1>2, Sums
<1> HIDE DEF time
<1>4. PICK k \in Int : previous[t] + since[t] = xTickCount + uxMissedTicks + k * TickWidth
  BY <1>1, <1>2 DEF Periodic
<1>5. k * TickWidth \in Int /\ (k - 1) * TickWidth = k * TickWidth - TickWidth
  BY <1>4, Cycles
<1>6. k = 0 \/ k = 1
  <2>1. ~(k >= 2)
    <3> SUFFICES ASSUME k >= 2 PROVE FALSE
      OBVIOUS
    <3>1. k * TickWidth >= 2 * TickWidth
      BY Cycles
    <3> QED BY <1>1, <1>2, <1>4, <1>5, <3>1
  <2>2. ~(k <= -1)
    <3> SUFFICES ASSUME k <= -1 PROVE FALSE
      OBVIOUS
    <3>1. k * TickWidth <= -TickWidth
      BY Cycles
    <3> QED BY <1>1, <1>2, <1>4, <1>5, <3>1
  <2> QED BY <2>1, <2>2
<1>7. previous[t] + since[t] = xTickCount \/ previous[t] + since[t] = xTickCount + TickWidth
  BY <1>2, <1>4, <1>6
<1>8. \E j \in Int : time + since[t] - d = xTickCount + j * TickWidth
  <2>1. CASE previous[t] + d < TickWidth
    <3>1. time + since[t] - d = xTickCount + k * TickWidth
      BY <1>1, <1>2, <1>3, <1>4, <1>5, <2>1
    <3> QED BY <3>1
  <2>2. CASE previous[t] + d >= TickWidth
    <3>1. time + since[t] - d = previous[t] + since[t] - TickWidth
      BY <1>1, <1>2, <1>3, <2>2
    <3>2. previous[t] + since[t] = xTickCount + k * TickWidth
      BY <1>2, <1>4, <1>5
    <3> DEFINE z == k * TickWidth
               y == (k - 1) * TickWidth
    <3>3. z \in Int /\ y = z - TickWidth /\ k - 1 \in Int
      BY <1>4, <1>5
    <3> HIDE DEF z, y
    <3>4. time + since[t] - d = xTickCount + y
      <4>1. previous[t] + since[t] = xTickCount + z
        BY <3>2 DEF z
      <4> QED BY <1>1, <1>2, <3>1, <3>3, <4>1
    <3> QED BY <3>3, <3>4 DEF y
  <2> QED BY <1>2, <2>1, <2>2
<1>9. time \in Ticks
  BY <1>2, <1>3, Widths
<1>10. ShouldDelay(t, time) => time # xTickCount /\ d > since[t]
          /\ d - since[t] = IF time > xTickCount THEN time - xTickCount
                            ELSE time + TickWidth - xTickCount
  <2>1. CASE xTickCount < previous[t]
    BY <1>1, <1>2, <1>3, <1>7, <2>1 DEF ShouldDelay
  <2>2. CASE ~(xTickCount < previous[t])
    BY <1>1, <1>2, <1>3, <1>7, <2>2 DEF ShouldDelay
  <2> QED BY <2>1, <2>2
<1>11. ~ShouldDelay(t, time) => d <= since[t]
  <2>1. CASE xTickCount < previous[t]
    BY <1>1, <1>2, <1>3, <1>7, <2>1 DEF ShouldDelay
  <2>2. CASE ~(xTickCount < previous[t])
    BY <1>1, <1>2, <1>3, <1>7, <2>2 DEF ShouldDelay
  <2> QED BY <2>1, <2>2
<1> QED BY <1>2, <1>8, <1>9, <1>10, <1>11 DEF time

(* vTaskDelayUntil sleeps for what is left of the period, across the       *)
(* overflow.                                                               *)
LEMMA DelayUntilInTime ==
  ASSUME ListsInv, TypeInv, InTime, DOMAIN pc = AllTasks, UNCHANGED call,
         NEW t \in Task, NEW d \in DelayTimes, DelayUntil(t, d), Periodic(t)
  PROVE  InTime'
<1> DEFINE time == (previous[t] + d) % TickWidth
<1>1. /\ t \in AllTasks /\ IsReady(t) /\ pendingReady = <<>> /\ DOMAIN left = AllTasks
      /\ pc[t] = "run"
  BY CallingFacts DEF DelayUntil, TypeInv, ClockTypes
<1>2. /\ AddToDelayed(t, time) \/ UNCHANGED <<generic, wake, clock>>
      /\ ShouldDelay(t, time) => AddToDelayed(t, time)
      /\ ~ShouldDelay(t, time) => UNCHANGED <<generic, wake, clock>>
      /\ pc' = [pc EXCEPT ![t] = "resume"]
      /\ left' = [left EXCEPT ![t] = IF d > since[t] THEN d - since[t] ELSE 0]
      /\ UNCHANGED <<events, pendingReady, uxMissedTicks>>
  BY DEF DelayUntil, eventItems
<1>3. /\ time \in Ticks /\ uxMissedTicks = 0
      /\ ShouldDelay(t, time) => time # xTickCount /\ d > since[t]
           /\ d - since[t] = IF time > xTickCount THEN time - xTickCount
                             ELSE time + TickWidth - xTickCount
      /\ ~ShouldDelay(t, time) => d <= since[t]
  BY UntilTimes
<1>4. since[t] \in Int /\ d \in Int
  BY TasksAssumption DEF DelayUntil
<1> HIDE DEF time
<1>5. /\ ~IsWaiting(t)' /\ t \notin ToSet(pendingReady')
      /\ \A u \in AllTasks : u # t =>
            /\ pc'[u] = pc[u] /\ call'[u] = call[u] /\ left'[u] = left[u]
            /\ IsWaiting(u)' \/ u \in ToSet(pendingReady') => IsWaiting(u) \/ u \in ToSet(pendingReady)
      /\ pc'[t] \notin InACall /\ left'[t] = IF d > since[t] THEN d - since[t] ELSE 0
  BY <1>1, <1>2, GoodEmpty DEF IsWaiting, ListsInv, AllApart, Apart, InACall
<1>6. CASE ShouldDelay(t, time)
  <2>1. d > since[t] /\ AddToDelayed(t, time) /\ time # xTickCount
    BY <1>2, <1>3, <1>6
  <2>2. left'[t] = Remaining(d - since[t], uxMissedTicks)
    BY <1>3, <1>4, <1>5, <2>1 DEF Remaining
  <2>3. left'[t] = Remaining(IF time > xTickCount THEN time - xTickCount
                             ELSE time + TickWidth - xTickCount, uxMissedTicks)
    BY <1>3, <1>6, <2>2
  <2> QED BY <1>1, <1>2, <1>3, <1>5, <2>1, <2>3, SleepInTime
<1>7. CASE ~ShouldDelay(t, time)
  <2>1. UNCHANGED <<delayed, overflowed, wake, xTickCount, xNextTaskUnblockTime>>
    BY <1>2, <1>7 DEF generic, clock
  <2>2. OnlyWakes({})
    BY <1>2, <2>1, QuietOnlyWakes
  <2>3. left'[t] = 0 /\ ~IsDelayed(t)'
    BY <1>1, <1>3, <1>4, <1>5, <1>7, <2>1 DEF ListsInv, AllApart, Apart, IsAway, IsDelayed
  <2>4. \A u \in AllTasks :
            /\ pc'[u] \in InACall => call'[u].wait # 0
            /\ pc'[u] \notin InACall =>
                  \/ left'[u] = 0 /\ ~IsDelayed(u)'
                  \/ pc[u] \notin InACall /\ left'[u] = left[u]
    BY <1>5, <2>3 DEF InTime, Timely
  <2>5. PICK gone : gone = {}
    OBVIOUS
  <2> QED BY <1>2, <2>1, <2>2, <2>4, <2>5, QuietTimes
<1> QED BY <1>6, <1>7

(* A new task has nothing to wait for.                                     *)
LEMMA CreateInTime ==
  ASSUME ListsInv, TypeInv, InTime, DOMAIN pc = AllTasks, UNCHANGED call,
         NEW t \in Task, NEW u \in Task, Create(t, u)
  PROVE  InTime'
<1>1. /\ u \in AllTasks /\ ~IsDelayed(u) /\ pc' = [pc EXCEPT ![u] = "run"]
      /\ left' = [left EXCEPT ![u] = 0] /\ DOMAIN left = AllTasks
      /\ UNCHANGED <<delayed, overflowed, events, pendingReady, wake, xTickCount,
                     xNextTaskUnblockTime, uxMissedTicks>>
  BY DEF AllTasks, Create, Exists, IsAway, eventItems, clock, scheduler, TypeInv, ClockTypes
<1>2. OnlyWakes({})
  BY <1>1, QuietOnlyWakes
<1>3. \A v \in AllTasks :
         /\ pc'[v] \in InACall => call'[v].wait # 0
         /\ pc'[v] \notin InACall => \/ left'[v] = 0 /\ ~IsDelayed(v)'
                                     \/ pc[v] \notin InACall /\ left'[v] = left[v]
  BY <1>1 DEF InTime, Timely, InACall, IsDelayed
<1>4. PICK gone : gone = {}
  OBVIOUS
<1> QED BY <1>1, <1>2, <1>3, <1>4, QuietTimes

(* A task that is deleted or suspended does not sleep any more.            *)
LEMMA RemovedInTime ==
  ASSUME ListsInv, TypeInv, InTime, DOMAIN pc = AllTasks, UNCHANGED call,
         NEW t \in Task, NEW u \in Task, Delete(t, u) \/ Suspend(t, u)
  PROVE  InTime'
<1>1. /\ u \in AllTasks /\ DOMAIN left = AllTasks
      /\ RemoveFromLists(u) /\ left' = [left EXCEPT ![u] = 0]
      /\ UNCHANGED <<pc, wake, xTickCount, xNextTaskUnblockTime, uxMissedTicks>>
  BY DEF AllTasks, Delete, Suspend, clock, scheduler, TypeInv, ClockTypes
<1>2. /\ ToSet(delayed') = ToSet(delayed) \ {u} /\ ToSet(overflowed') = ToSet(overflowed) \ {u}
      /\ ToSet(pendingReady') = ToSet(pendingReady) \ {u}
      /\ \A l \in EventLists : ToSet(events'[l]) = ToSet(events[l]) \ {u}
  BY <1>1, RemoveFromListsFacts DEF ListsInv
<1>3. \E us : delayed' = Without(delayed, us) /\ overflowed' = Without(overflowed, us)
  BY <1>1 DEF RemoveFromLists
<1>4. OnlyWakes({u})
  BY <1>2, <1>3 DEF OnlyWakes, IsDelayed, IsWaiting
<1>5. \A v \in AllTasks :
         /\ pc'[v] \in InACall => call'[v].wait # 0
         /\ pc'[v] \notin InACall => \/ left'[v] = 0 /\ ~IsDelayed(v)'
                                     \/ v \notin {u} /\ pc[v] \notin InACall /\ left'[v] = left[v]
  BY <1>1, <1>2 DEF InTime, Timely, IsDelayed
<1> QED BY <1>1, <1>4, <1>5, QuietTimes

(* Every function of the scheduler that a task calls.                      *)
LEMMA ApiCallInTime ==
  ASSUME ListsInv, TypeInv, InTime, DOMAIN pc = AllTasks, UNCHANGED call,
         NEW t \in Task, ApiCall(t), Periodic(t)
  PROVE  InTime'
<1>1. CASE TaskSuspendAll(t)
  <2>1. UNCHANGED <<pc, delayed, overflowed, events, pendingReady, wake, xTickCount,
                    xNextTaskUnblockTime, uxMissedTicks, left>>
    BY <1>1 DEF TaskSuspendAll, generic, eventItems, clock, history
  <2> QED BY <2>1, QuietOnlyWakes, StillInTime
<1>2. CASE TaskResumeAll(t) \/ DelayResume(t)
  <2>1. \A u \in AllTasks : pc'[u] \in InACall <=> pc[u] \in InACall
    BY <1>2 DEF TaskResumeAll, DelayResume, InACall
  <2>2. ResumeAll(FALSE) \/ ResumeAll(TRUE)
    BY <1>2 DEF TaskResumeAll, DelayResume
  <2>3. \E yield : ResumeAll(yield)
    BY <2>2
  <2> QED BY <2>1, <2>3, ResumeAllInTime, StillInTime
<1>3. CASE \E d \in DelayTimes : Delay(t, d) \/ DelayUntil(t, d)
  BY <1>3, DelayInTime, DelayUntilInTime
<1>4. CASE \E u \in Task : Create(t, u) \/ Delete(t, u) \/ Suspend(t, u)
  BY <1>4, CreateInTime, RemovedInTime
<1>5. ASSUME NEW u \in Task, Resume(t, u) PROVE InTime'
  <2>1. /\ IsTaskSuspended(u) /\ MakeReady(<<u>>, prio)
        /\ UNCHANGED <<pc, events, pendingReady, wake, xTickCount, xNextTaskUnblockTime,
                       uxMissedTicks, left>>
    BY <1>5 DEF Resume, eventItems, clock, scheduler, history
  <2> QED BY <2>1, ResumedInTime, StillInTime
<1>6. ASSUME NEW u \in Task, NEW p \in NewPriorities, PrioritySet(t, u, p) PROVE InTime'
  <2>1. UNCHANGED <<pc, delayed, overflowed, events, pendingReady, wake, xTickCount,
                    xNextTaskUnblockTime, uxMissedTicks, left>>
    BY <1>6 DEF PrioritySet, eventItems, clock, scheduler, history
  <2> QED BY <2>1, QuietOnlyWakes, StillInTime
<1> QED BY <1>1, <1>2, <1>3, <1>4, <1>5, <1>6 DEF ApiCall

(* Every step of the scheduler.                                            *)
LEMMA TaskNextInTime ==
  ASSUME ListsInv, TypeInv, TypeInv', InTime, \A t \in Task : Periodic(t), DOMAIN pc = AllTasks,
         UNCHANGED call, TaskNext
  PROVE  InTime'
<1>1. CASE Tick
  <2>1. /\ resuming = "no" /\ UNCHANGED <<pc, wake>>
        /\ \A t \in AllTasks : left'[t] = IF left[t] > 0 THEN left[t] - 1 ELSE 0
    BY <1>1 DEF Tick, PassTime
  <2>2. CASE uxSchedulerSuspended = 0 /\ IncrementTick /\ UNCHANGED uxMissedTicks
    <3>1. uxMissedTicks = 0
      BY <2>1, <2>2 DEF TypeInv, Missing
    <3> QED BY <2>1, <2>2, <3>1, TickInTime
  <2>3. CASE uxMissedTicks' = uxMissedTicks + 1 /\ UNCHANGED <<generic, eventItems, clock>>
    BY <2>1, <2>3, MissedInTime
  <2> QED BY <1>1, <2>2, <2>3 DEF Tick
<1>2. CASE CatchUp
  <2>1. /\ IncrementTick /\ UNCHANGED <<pc, wake, left>> /\ uxMissedTicks' = uxMissedTicks - 1
        /\ uxMissedTicks > 0
    BY <1>2 DEF CatchUp, history, TypeInv, Missing
  <2> QED BY <2>1, TickInTime
<1>3. CASE Switch
  <2>1. UNCHANGED <<pc, delayed, overflowed, events, pendingReady, wake, xTickCount,
                    xNextTaskUnblockTime, uxMissedTicks, left>>
    BY <1>3 DEF Switch, eventItems, clock, history
  <2> QED BY <2>1, QuietOnlyWakes, StillInTime
<1> QED BY <1>1, <1>2, <1>3, ResumeFromISRInTime, IdleInTime, ApiCallInTime
        DEF TaskNext, Interrupt

(* The time of vTaskDelayUntil, in ticks of the tick count and of real     *)
(* time.                                                                   *)
LEMMA TaskNextPeriodic ==
  ASSUME ListsInv, TypeInv, \A t \in Task : Periodic(t), TaskNext, NEW t \in Task
  PROVE  Periodic(t)'
<1>1. /\ t \in AllTasks /\ Periodic(t) /\ DOMAIN previous = AllTasks /\ DOMAIN since = AllTasks
  BY DEF AllTasks, TypeInv, ClockTypes
<1>2. /\ xTickCount \in 0 .. MaxDelay /\ MaxDelay \in Nat /\ TickWidth = MaxDelay + 1
      /\ previous[t] \in Int /\ since[t] \in Int /\ uxMissedTicks \in Nat
  BY <1>1, TimeTypes
<1>3. ASSUME IncrementTick
      PROVE  xTickCount' = xTickCount + 1 \/ xTickCount' = xTickCount + 1 - TickWidth
  <2>1. xTickCount' = (xTickCount + 1) % TickWidth
    BY <1>3 DEF IncrementTick
  <2>2. xTickCount' = IF xTickCount = MaxDelay THEN 0 ELSE xTickCount + 1
    BY <1>2, <2>1, NextTick, Widths
  <2> QED BY <1>2, <2>2
(* A tick that comes, or is missed: n is 1 if it counts as real time.      *)
<1>4. ASSUME NEW n \in {0, 1}, UNCHANGED previous, since'[t] = since[t] + n,
             \/ xTickCount' + uxMissedTicks' = xTickCount + uxMissedTicks + n
             \/ xTickCount' + uxMissedTicks' = xTickCount + uxMissedTicks + n - TickWidth
      PROVE  Periodic(t)'
  <2> SUFFICES ASSUME "vTaskDelayUntil" \in Calls[t], since'[t] < TickWidth
               PROVE  \E k \in Int : previous[t] + since'[t] =
                                        xTickCount' + uxMissedTicks' + k * TickWidth
    BY <1>4 DEF Periodic
  <2>1. since[t] < TickWidth
    BY <1>2, <1>4
  <2>2. PICK k \in Int : previous[t] + since[t] = xTickCount + uxMissedTicks + k * TickWidth
    BY <1>1, <2>1 DEF Periodic
  <2> DEFINE z == k * TickWidth
             y == (k + 1) * TickWidth
  <2>3. z \in Int /\ y = z + TickWidth /\ k + 1 \in Int
    BY <2>2, Cycles
  <2>4. previous[t] + since[t] = xTickCount + uxMissedTicks + z
    BY <2>2
  <2> HIDE DEF z, y
  <2>5. \/ previous[t] + since'[t] = xTickCount' + uxMissedTicks' + z
        \/ previous[t] + since'[t] = xTickCount' + uxMissedTicks' + y
    <3>0. xTickCount' + uxMissedTicks' \in Int
      BY <1>2, <1>4
    <3>1. PICK now \in Int, new \in Int :
             now = xTickCount + uxMissedTicks /\ new = xTickCount' + uxMissedTicks'
      BY <1>2, <3>0
    <3>2. new = now + n \/ new = now + n - TickWidth
      BY <1>4, <3>1
    <3>3. previous[t] + since[t] = now + z
      BY <2>4, <3>1
    <3>4. \/ previous[t] + since'[t] = new + z
          \/ previous[t] + since'[t] = new + y
      <4>1. /\ since'[t] = since[t] + n /\ n \in Int /\ previous[t] \in Int /\ since[t] \in Int
            /\ TickWidth \in Int /\ now \in Int /\ new \in Int
        BY <1>2, <1>4, <3>1
      <4>2. previous[t] + since'[t] = now + z + n
        BY <2>3, <3>3, <4>1
      <4> QED BY <2>3, <3>2, <4>1, <4>2
    <3> QED BY <3>1, <3>4
  <2> QED BY <2>2, <2>3, <2>5 DEF z, y
<1>5. CASE Tick
  <2>1. /\ UNCHANGED previous
        /\ since'[t] = IF since[t] < TickWidth /\ "vTaskDelayUntil" \in Calls[t]
                       THEN since[t] + 1 ELSE since[t]
    BY <1>1, <1>5 DEF Tick, PassTime
  <2>2. \/ xTickCount' + uxMissedTicks' = xTickCount + uxMissedTicks + 1
        \/ xTickCount' + uxMissedTicks' = xTickCount + uxMissedTicks + 1 - TickWidth
    <3>1. CASE IncrementTick /\ UNCHANGED uxMissedTicks
      BY <1>2, <1>3, <3>1
    <3>2. CASE uxMissedTicks' = uxMissedTicks + 1 /\ UNCHANGED clock
      BY <1>2, <3>2 DEF clock
    <3> QED BY <1>5, <3>1, <3>2 DEF Tick
  <2>3. CASE since[t] < TickWidth /\ "vTaskDelayUntil" \in Calls[t]
    <3>1. since'[t] = since[t] + 1
      BY <2>1, <2>3
    <3> QED BY <1>4, <2>1, <2>2, <3>1
  <2>4. CASE ~(since[t] < TickWidth /\ "vTaskDelayUntil" \in Calls[t])
    BY <2>1, <2>4 DEF Periodic
  <2> QED BY <2>3, <2>4
<1>6. CASE CatchUp
  <2>1. UNCHANGED <<previous, since>> /\ uxMissedTicks' = uxMissedTicks - 1 /\ IncrementTick
    BY <1>6 DEF CatchUp, history
  <2>2. \/ xTickCount' + uxMissedTicks' = xTickCount + uxMissedTicks + 0
        \/ xTickCount' + uxMissedTicks' = xTickCount + uxMissedTicks + 0 - TickWidth
    BY <1>2, <1>3, <2>1
  <2>3. since'[t] = since[t] + 0
    BY <1>2, <2>1
  <2> QED BY <1>4, <2>1, <2>2, <2>3
<1>7. ASSUME UNCHANGED <<xTickCount, uxMissedTicks>>, previous'[t] = previous[t], since'[t] = since[t]
      PROVE  Periodic(t)'
  BY <1>1, <1>7 DEF Periodic
<1>8. CASE Switch \/ \E u \in Task : ResumeFromISR(u)
  <2>1. UNCHANGED <<xTickCount, uxMissedTicks, previous, since>>
    BY <1>8 DEF Switch, ResumeFromISR, clock, scheduler, history
  <2> QED BY <1>7, <2>1
<1>9. CASE IdleStep
  <2>1. UNCHANGED <<xTickCount, uxMissedTicks, previous, since>>
    BY <1>9 DEF IdleStep, IdleYield, IdleBegin, IdleResume, IdleFree, ResumeAll, clock, scheduler,
                history
  <2> QED BY <1>7, <2>1
<1>10. ASSUME NEW u \in Task, ApiCall(u) PROVE Periodic(t)'
  <2>1. CASE TaskSuspendAll(u) \/ TaskResumeAll(u) \/ DelayResume(u)
    <3>1. UNCHANGED <<xTickCount, uxMissedTicks, previous, since>>
      BY <2>1 DEF TaskSuspendAll, TaskResumeAll, DelayResume, ResumeAll, clock, history
    <3> QED BY <1>7, <3>1
  <2>2. ASSUME NEW d \in DelayTimes, Delay(u, d) PROVE Periodic(t)'
    <3>1. UNCHANGED <<xTickCount, uxMissedTicks, previous, since>>
      BY <2>2 DEF Delay, AddToDelayed, clock
    <3> QED BY <1>7, <3>1
  <2>3. ASSUME NEW d \in DelayTimes, DelayUntil(u, d) PROVE Periodic(t)'
    <3>1. UNCHANGED <<xTickCount, uxMissedTicks>>
      BY <2>3 DEF DelayUntil, AddToDelayed, clock
    <3>2. /\ previous' = [previous EXCEPT ![u] = (previous[u] + d) % TickWidth]
          /\ since' = [since EXCEPT ![u] = @ - d]
      BY <2>3 DEF DelayUntil
    <3>3. CASE u # t
      BY <1>7, <3>1, <3>2, <3>3
    <3>4. CASE u = t
      <4>1. /\ uxMissedTicks = 0
            /\ \E k \in Int : ((previous[t] + d) % TickWidth) + since[t] - d = xTickCount + k * TickWidth
            /\ (previous[t] + d) % TickWidth \in Ticks
        BY <1>1, <2>3, <3>4, UntilTimes
      <4>2. previous'[t] = (previous[t] + d) % TickWidth /\ since'[t] = since[t] - d /\ d \in Int
        BY <1>1, <3>2, <3>4, TasksAssumption
      <4>3. PICK time \in Int : time = (previous[t] + d) % TickWidth
        BY <4>1, Widths
      <4>4. PICK k \in Int : time + since[t] - d = xTickCount + k * TickWidth
        BY <4>1, <4>3
      <4>5. k * TickWidth \in Int
        BY <4>4, Cycles
      <4> DEFINE z == k * TickWidth
      <4>6. previous'[t] + since'[t] = xTickCount' + uxMissedTicks' + z
        <5>1. z \in Int /\ time + since[t] - d = xTickCount + z
          BY <4>4, <4>5
        <5> HIDE DEF z
        <5>2. time + (since[t] - d) = xTickCount + 0 + z
          BY <1>2, <4>2, <5>1
        <5> QED BY <3>1, <4>1, <4>2, <4>3, <5>2
      <4> QED BY <4>4, <4>6 DEF Periodic
    <3> QED BY <3>3, <3>4
  <2>4. ASSUME NEW v \in Task, Create(u, v) PROVE Periodic(t)'
    <3>1. /\ UNCHANGED <<xTickCount, uxMissedTicks>> /\ uxMissedTicks = 0
          /\ previous' = [previous EXCEPT ![v] = xTickCount] /\ since' = [since EXCEPT ![v] = 0]
      BY <2>4 DEF Create, CallsFunction, Executes, clock, scheduler, TypeInv, Missing
    <3>2. CASE v # t
      BY <1>7, <3>1, <3>2
    <3>3. CASE v = t
      <4>1. previous'[t] = xTickCount /\ since'[t] = 0
        BY <1>1, <3>1, <3>3
      <4>2. previous'[t] + since'[t] = xTickCount' + uxMissedTicks' + 0 * TickWidth
        BY <1>2, <3>1, <4>1
      <4> QED BY <4>2 DEF Periodic
    <3> QED BY <3>2, <3>3
  <2>5. ASSUME NEW v \in Task, Delete(u, v) \/ Suspend(u, v) \/ Resume(u, v) PROVE Periodic(t)'
    <3>1. UNCHANGED <<xTickCount, uxMissedTicks, previous, since>>
      BY <2>5 DEF Delete, Suspend, Resume, clock, scheduler, history
    <3> QED BY <1>7, <3>1
  <2>6. ASSUME NEW v \in Task, NEW p \in NewPriorities, PrioritySet(u, v, p) PROVE Periodic(t)'
    <3>1. UNCHANGED <<xTickCount, uxMissedTicks, previous, since>>
      BY <2>6 DEF PrioritySet, clock, scheduler, history
    <3> QED BY <1>7, <3>1
  <2> QED BY <1>10, <2>1, <2>2, <2>3, <2>4, <2>5, <2>6 DEF ApiCall
<1> QED BY <1>5, <1>6, <1>8, <1>9, <1>10 DEF TaskNext, Interrupt

-----------------------------------------------------------------------------
(* Steps of calls.                                                         *)

(* Tasks of a list of waiting tasks become ready or pending: if they also  *)
(* waited for a time, they are in calls.                                   *)
LEMMA RemoveFromEventListWakes ==
  ASSUME ListsInv, InTime, NEW l \in EventLists, NEW n \in Nat, RemoveFromEventList(l, n)
  PROVE  OnlyWakes({})
<1>1. /\ Good(Waiting(l, n)) /\ Good(pendingReady)
      /\ \A t \in ToSet(Waiting(l, n)) : t \in AllTasks /\ t \in ToSet(events[l])
  BY WaitingFacts DEF ListsInv, ListTypes
<1>2. \A t \in ToSet(Waiting(l, n)) :
         IsWaiting(t) /\ t \notin ToSet(pendingReady) /\ (IsDelayed(t) => pc[t] \in InACall)
  <2> SUFFICES ASSUME NEW t \in ToSet(Waiting(l, n))
               PROVE  IsWaiting(t) /\ t \notin ToSet(pendingReady) /\ (IsDelayed(t) => pc[t] \in InACall)
    OBVIOUS
  <2>1. IsWaiting(t) /\ t \in AllTasks
    BY <1>1 DEF IsWaiting
  <2> QED BY <1>1, <2>1, WaitingApart DEF ListsInv, InTime, Timely
<1>3. \A t \in AllTasks : IsWaiting(t)' => IsWaiting(t)
  <2>1. \A m \in EventLists : ToSet(events'[m]) \subseteq ToSet(events[m])
    <3>1. events' = [events EXCEPT ![l] = Without(@, ToSet(Waiting(l, n)))]
      BY DEF RemoveFromEventList
    <3> QED BY <3>1, GoodWithout DEF ListsInv, ListTypes
  <2> QED BY <2>1 DEF IsWaiting
<1>4. CASE MakeReady(Waiting(l, n), prio) /\ UNCHANGED pendingReady
  <2>1. /\ \E us : delayed' = Without(delayed, us) /\ overflowed' = Without(overflowed, us)
        /\ \A t \in AllTasks : pc[t] \notin InACall /\ IsDelayed(t) => IsDelayed(t)'
    BY <1>1, <1>2, <1>4, WokenInCalls
  <2> QED BY <1>3, <1>4, <2>1 DEF OnlyWakes
<1>5. CASE pendingReady' = pendingReady \o Waiting(l, n) /\ UNCHANGED generic
  <2>1. ToSet(pendingReady') = ToSet(pendingReady) \cup ToSet(Waiting(l, n))
    BY <1>1, <1>2, <1>5, GoodConcat
  <2>2. UNCHANGED <<delayed, overflowed>>
    BY <1>5 DEF generic
  <2> QED BY <1>2, <1>3, <2>1, <2>2 DEF OnlyWakes, IsDelayed
<1> QED BY <1>4, <1>5 DEF RemoveFromEventList

(* The test of a call wakes those who wait for what it did.                *)
LEMMA TestInTime ==
  ASSUME ListInv, QueueInv, TypeInv, InTime, NEW t \in Task, NEW c, IsCall(c), Test(t, c),
         TestUnchanged, Executes(t), uxSchedulerSuspended = 0
  PROVE  InTime'
<1>1. /\ t \in AllTasks /\ DOMAIN pc = AllTasks /\ DOMAIN call = AllTasks /\ DOMAIN left = AllTasks
      /\ IsReady(t) /\ ~IsDelayed(t) /\ ListsInv /\ t \notin ToSet(pendingReady) /\ ~IsWaiting(t)
  <2>1. IsReady(t) /\ t \in AllTasks
    BY Executing DEF ListInv, AllTasks
  <2> QED BY <2>1 DEF ListInv, ListsInv, AllApart, Apart, IsAway, IsWaiting, QueueInv, Shapes,
                      TypeInv, ClockTypes
<1>2. UNCHANGED <<wake, xTickCount, xNextTaskUnblockTime, uxMissedTicks>>
  BY DEF TestUnchanged, clock, scheduler
<1>3. OnlyWakes({})
  <2>1. CASE SendNow(t, c) /\ UNCHANGED pendingReady
    <3> DEFINE l     == <<c.queue, "receive">>
               woken == Waiting(l, 1)
               self  == IF Disinherits(t, c.queue) THEN <<t>> ELSE <<>>
    <3>1. /\ l \in EventLists /\ MakeReady(self \o woken, prio')
          /\ events' = [events EXCEPT ![l] = Without(@, ToSet(woken))]
      BY <2>1, EventListsOf DEF SendNow
    <3>2. /\ Good(woken)
          /\ \A u \in ToSet(woken) : u \in AllTasks /\ u \in ToSet(events[l])
      BY <1>1, <3>1, WaitingFacts DEF ListsInv
    <3>3. /\ Good(self) /\ ToSet(self) \subseteq {t}
      BY <1>1, GoodOne, GoodEmpty
    <3> HIDE DEF self, woken
    <3>4. Good(self \o woken) /\ ToSet(self \o woken) = ToSet(self) \cup ToSet(woken)
      <4>1. ToSet(self) \cap ToSet(woken) = {}
        BY <1>1, <3>1, <3>2, <3>3 DEF IsWaiting
      <4> QED BY <3>2, <3>3, <4>1, GoodConcat
    <3>5. \A u \in ToSet(self \o woken) : IsDelayed(u) => pc[u] \in InACall
      BY <1>1, <3>1, <3>2, <3>3, <3>4 DEF InTime, Timely, IsWaiting
    <3>6. PICK new : MakeReady(self \o woken, new)
      BY <3>1
    <3>7. /\ \E us : delayed' = Without(delayed, us) /\ overflowed' = Without(overflowed, us)
          /\ \A u \in AllTasks : pc[u] \notin InACall /\ IsDelayed(u) => IsDelayed(u)'
      BY <1>1, <3>4, <3>5, <3>6, WokenInCalls
    <3>8. \A u \in AllTasks : IsWaiting(u)' => IsWaiting(u)
      <4>1. \A m \in EventLists : ToSet(events'[m]) \subseteq ToSet(events[m])
        BY <1>1, <3>1, GoodWithout DEF ListsInv, ListTypes
      <4> QED BY <4>1 DEF IsWaiting
    <3> QED BY <2>1, <3>7, <3>8 DEF OnlyWakes
  <2>2. CASE ReceiveNow(t, c)
    <3>1. PICK l \in EventLists : RemoveFromEventList(l, 1)
      BY <2>2, EventListsOf DEF ReceiveNow
    <3> QED BY <1>1, <3>1, RemoveFromEventListWakes
  <2>3. CASE UNCHANGED <<generic, eventItems>>
    <3>1. UNCHANGED <<delayed, overflowed, events, pendingReady>>
      BY <2>3 DEF generic, eventItems
    <3> QED BY <3>1, QuietOnlyWakes
  <2> QED BY <2>1, <2>2, <2>3 DEF Test
<1>4. ~IsDelayed(t)'
  BY <1>1, <1>3, OnlyWakesLists DEF IsDelayed
<1>5. \A u \in AllTasks : u # t => pc'[u] = pc[u] /\ call'[u] = call[u] /\ left'[u] = left[u]
  BY <1>1 DEF Test, Return
<1>6. \/ pc'[t] = "run" /\ left'[t] = 0
      \/ pc'[t] = "suspend" /\ call'[t].wait # 0
  <2>1. CASE Return(t)
    BY <1>1, <2>1 DEF Return
  <2>2. CASE /\ c.wait # 0 /\ call' = [call EXCEPT ![t] = [c EXCEPT !.entered = TRUE]]
             /\ pc' = [pc EXCEPT ![t] = "suspend"]
    <3>1. call'[t] = [c EXCEPT !.entered = TRUE] /\ pc'[t] = "suspend"
      BY <1>1, <2>2
    <3> QED BY <2>2, <3>1 DEF IsCall
  <2> QED BY <2>1, <2>2 DEF Test
<1>7. "run" \notin InACall /\ "suspend" \in InACall
  BY DEF InACall
<1>8. \A u \in AllTasks :
         /\ pc'[u] \in InACall => call'[u].wait # 0
         /\ pc'[u] \notin InACall => \/ left'[u] = 0 /\ ~IsDelayed(u)'
                                     \/ pc[u] \notin InACall /\ left'[u] = left[u]
  BY <1>4, <1>5, <1>6, <1>7 DEF InTime, Timely
<1>9. PICK gone : gone = {}
  OBVIOUS
<1> QED BY <1>1, <1>2, <1>3, <1>8, <1>9, QuietTimes

(* A step on the way through a call, or its end.                           *)
LEMMA LoopInTime ==
  ASSUME ListInv, QueueInv, TypeInv, InTime, NEW t \in Task, NEW from \in InACall, NEW place,
         At(t, from, place), OnlyWakes({}),
         UNCHANGED <<wake, xTickCount, xNextTaskUnblockTime, uxMissedTicks, left>>,
         \A u \in AllTasks : u # t => call'[u] = call[u],
         \/ place \in InACall /\ call'[t].wait # 0
         \/ place \notin InACall /\ left[t] = 0 /\ IsReady(t)
  PROVE  InTime'
<1>1. t \in AllTasks /\ pc[t] = from /\ pc' = [pc EXCEPT ![t] = place] /\ pc'[t] = place
  BY LoopFacts
<1>2. ListsInv /\ DOMAIN pc = AllTasks
  BY DEF ListInv, QueueInv, Shapes
<1>3. IsReady(t) => ~IsDelayed(t)'
  BY <1>1, <1>2, OnlyWakesLists DEF ListsInv, AllApart, Apart, IsAway, IsDelayed
<1>4. \A u \in AllTasks :
         /\ pc'[u] \in InACall => call'[u].wait # 0
         /\ pc'[u] \notin InACall => \/ left'[u] = 0 /\ ~IsDelayed(u)'
                                     \/ pc[u] \notin InACall /\ left'[u] = left[u]
  <2> SUFFICES ASSUME NEW u \in AllTasks
               PROVE  /\ pc'[u] \in InACall => call'[u].wait # 0
                      /\ pc'[u] \notin InACall => \/ left'[u] = 0 /\ ~IsDelayed(u)'
                                                  \/ pc[u] \notin InACall /\ left'[u] = left[u]
    OBVIOUS
  <2>1. CASE u = t
    BY <1>1, <1>3, <2>1
  <2>2. CASE u # t
    BY <1>1, <1>2, <2>2 DEF InTime, Timely
  <2> QED BY <2>1, <2>2
<1>5. PICK gone : gone = {}
  OBVIOUS
<1> QED BY <1>2, <1>4, <1>5, QuietTimes

(* The steps of the loop that leave the lists of tasks alone.              *)
LEMMA QuietLoopInTime ==
  ASSUME ListInv, QueueInv, TypeInv, Patience, InTime, NEW t \in Task,
         CallSuspendAll(t) \/ LockQueue(t) \/ Check(t) \/ Inherit(t)
  PROVE  InTime'
<1>1. PICK from \in InACall, place \in InACall : At(t, from, place)
  BY DEF CallSuspendAll, LockQueue, Check, Inherit, InACall
<1>2. UNCHANGED <<delayed, overflowed, events, pendingReady, wake, xTickCount,
                  xNextTaskUnblockTime, uxMissedTicks, left>>
  BY DEF CallSuspendAll, LockQueue, Check, Inherit, InCall, ListsUnchanged, generic, eventItems,
         clock, history
<1>3. OnlyWakes({})
  BY <1>2, QuietOnlyWakes
<1>4. /\ t \in AllTasks /\ DOMAIN call = AllTasks /\ pc[t] = from /\ IsCall(call[t])
      /\ call[t].wait # 0 /\ call[t].wait \in Ticks
  <2>1. t \in AllTasks /\ pc[t] = from /\ IsCall(call[t])
    BY <1>1, LoopFacts
  <2> QED BY <2>1 DEF QueueInv, Shapes, InTime, Timely, Patience
<1>5. /\ \A u \in AllTasks : u # t => call'[u] = call[u]
      /\ call'[t].wait # 0
  <2>1. CASE UNCHANGED call
    BY <1>4, <2>1
  <2>2. CASE Check(t)
    <3> DEFINE d == IF ~HasTimedOut(t) /\ call[t].wait # MaxDelay THEN call[t].wait - Elapsed(t)
                    ELSE call[t].wait
    <3>1. d # 0
      <4>1. CASE ~HasTimedOut(t) /\ call[t].wait # MaxDelay
        <5>1. ~(Elapsed(t) >= call[t].wait)
          BY <4>1 DEF HasTimedOut
        <5>2. Elapsed(t) \in Int /\ call[t].wait \in Int
          BY <1>4, AgeTypes, Widths
        <5> QED BY <4>1, <5>1, <5>2
      <4>2. CASE ~(~HasTimedOut(t) /\ call[t].wait # MaxDelay)
        BY <1>4, <4>2
      <4> QED BY <4>1, <4>2
    <3>2. \E o : call' = [call EXCEPT ![t].outcome = o, ![t].wait = d]
      BY <2>2 DEF Check
    <3> HIDE DEF d
    <3>3. PICK o : call' = [call EXCEPT ![t].outcome = o, ![t].wait = d]
      BY <3>2
    <3>4. /\ call'[t] = [call[t] EXCEPT !.outcome = o, !.wait = d]
          /\ \A u \in AllTasks : u # t => call'[u] = call[u]
      BY <1>4, <3>3
    <3> QED BY <1>4, <3>1, <3>4 DEF IsCall
  <2> QED BY <2>1, <2>2 DEF CallSuspendAll, LockQueue, Inherit, queueVars
<1> QED BY <1>1, <1>2, <1>3, <1>5, LoopInTime

(* vTaskPlaceOnEventList                                                   *)
LEMMA PlaceInTime ==
  ASSUME ListInv, QueueInv, TypeInv, Patience, InTime, NEW t \in Task, Place(t)
  PROVE  InTime'
<1> DEFINE l == List(call[t])
           d == call[t].wait
<1>1. /\ At(t, "place", "unlockTx") /\ PlaceOnEventList(t, l, d)
      /\ UNCHANGED <<uxMissedTicks, left, call>>
  BY DEF Place, InCall, history, queueVars
<1>2. "place" \in InACall /\ "unlockTx" \in InACall
      /\ "place" \notin {"unlockTx", "unlockRx", "resumeAll"}
  BY DEF InACall
<1>3. /\ t \in AllTasks /\ IsReady(t) /\ pc[t] = "place"
      /\ pc' = [pc EXCEPT ![t] = "unlockTx"] /\ pc'[t] = "unlockTx" /\ IsCall(call[t])
  BY <1>1, <1>2, LoopFacts
<1>4. /\ d \in Ticks /\ d # 0 /\ l \in EventLists /\ ListsInv /\ DOMAIN pc = AllTasks
      /\ DOMAIN left = AllTasks /\ DOMAIN call = AllTasks
  BY <1>2, <1>3, EventListsOf DEF Patience, InTime, Timely, ListInv, QueueInv, Shapes, TypeInv,
     ClockTypes
<1>5. \A u \in AllTasks : u # t => (IsWaiting(u)' => IsWaiting(u))
  <2>1. Good(events[l]) /\ t \notin ToSet(events[l]) /\ DOMAIN events = EventLists
    BY <1>3, <1>4 DEF ListsInv, ListTypes, AllApart, Apart
  <2>2. ToSet(Insert(events[l], t, evalue)) = ToSet(events[l]) \cup {t}
    BY <1>3, <2>1, GoodInsert
  <2>3. events' = [events EXCEPT ![l] = Insert(@, t, evalue)]
    BY <1>1 DEF PlaceOnEventList
  <2> HIDE DEF l
  <2>4. \A m \in EventLists : ToSet(events'[m]) \subseteq ToSet(events[m]) \cup {t}
    BY <1>4, <2>1, <2>2, <2>3
  <2> QED BY <2>4 DEF IsWaiting
<1>6. ~IsDelayed(t) /\ pendingReady' = pendingReady
  BY <1>1, <1>3, <1>4 DEF PlaceOnEventList, ListsInv, AllApart, Apart, IsAway
<1>7. CASE d = MaxDelay /\ UNCHANGED <<delayed, overflowed, wake, clock>>
  <2>1. OnlyWakes({})
    BY <1>5, <1>6, <1>7 DEF OnlyWakes, IsDelayed
  <2>2. UNCHANGED <<wake, xTickCount, xNextTaskUnblockTime, uxMissedTicks, left>>
    BY <1>1, <1>7 DEF clock
  <2>3. "unlockTx" \in InACall /\ call'[t].wait # 0 /\ \A u \in AllTasks : u # t => call'[u] = call[u]
    BY <1>1, <1>2, <1>4
  <2> QED BY <1>1, <1>2, <2>1, <2>2, <2>3, LoopInTime
<1>8. CASE d # MaxDelay /\ AddToDelayed(t, WakeTime(d))
  <2> DEFINE time == WakeTime(d)
  <2>1. /\ xTickCount \in 0 .. MaxDelay /\ MaxDelay \in Nat /\ TickWidth = MaxDelay + 1
        /\ d \in 0 .. MaxDelay /\ xTickCount \in Ticks
    BY <1>3, <1>4, TimeTypes
  <2>2. time = IF xTickCount + d < TickWidth THEN xTickCount + d ELSE xTickCount + d - TickWidth
    BY <1>4, <2>1, Sums DEF WakeTime
  <2>3. AddToDelayed(t, time)
    BY <1>8
  <2> HIDE DEF time, d, l
  <2>4. time \in Ticks /\ time # xTickCount
    BY <1>4, <2>1, <2>2, Widths
  <2>5. /\ pc'[t] \in InACall /\ call'[t].wait # 0
        /\ \A u \in AllTasks : u # t =>
              /\ pc'[u] = pc[u] /\ call'[u] = call[u] /\ left'[u] = left[u]
              /\ IsWaiting(u)' \/ u \in ToSet(pendingReady') => IsWaiting(u) \/ u \in ToSet(pendingReady)
    BY <1>1, <1>2, <1>3, <1>4, <1>5, <1>6 DEF d
  <2>6. UNCHANGED uxMissedTicks
    BY <1>1
  <2> QED BY <1>3, <1>4, <2>3, <2>4, <2>5, <2>6, SleepInTime
<1> QED BY <1>1, <1>7, <1>8 DEF PlaceOnEventList

(* prvUnlockQueue wakes those whom interrupts would have woken.            *)
LEMMA UnlockInTime ==
  ASSUME ListInv, QueueInv, TypeInv, InTime, NEW t \in Task, UnlockTx(t) \/ UnlockRx(t)
  PROVE  InTime'
<1>1. PICK from \in InACall, place \in InACall : At(t, from, place)
  BY DEF UnlockTx, UnlockRx, InACall
<1>2. /\ t \in AllTasks /\ pc[t] = from /\ IsCall(call[t]) /\ call[t].queue \in Queues
  BY <1>1, LoopFacts
<1>3. PICK l \in EventLists, n \in Nat : RemoveFromEventList(l, n)
  <2>1. \A lock \in Int : ToWake(lock) \in Nat
    BY DEF ToWake, Unmodified
  <2>2. xTxLock[call[t].queue] \in Int /\ xRxLock[call[t].queue] \in Int
    BY <1>2 DEF ListInv, Locks
  <2>3. <<call[t].queue, "send">> \in EventLists /\ <<call[t].queue, "receive">> \in EventLists
    BY <1>2, EventListsOf
  <2> QED BY <2>1, <2>2, <2>3 DEF UnlockTx, UnlockRx, UnlockSide
<1>4. OnlyWakes({})
  BY <1>3, RemoveFromEventListWakes DEF ListInv
<1>5. UNCHANGED <<wake, xTickCount, xNextTaskUnblockTime, uxMissedTicks, left, call>>
  BY DEF UnlockTx, UnlockRx, InCall, clock, history
<1>6. call'[t].wait # 0 /\ \A u \in AllTasks : u # t => call'[u] = call[u]
  BY <1>2, <1>5 DEF InTime, Timely
<1> QED BY <1>1, <1>4, <1>5, <1>6, LoopInTime

(* A call whose time is over has no real time left, by AllAges.            *)
LEMMA CallResumeAllInTime ==
  ASSUME ListInv, QueueInv, TypeInv, AllAges, InTime, NEW t \in Task, CallResumeAll(t)
  PROVE  InTime'
<1> DEFINE place == IF call[t].outcome = "timeout" THEN "run" ELSE "test"
<1>1. At(t, "resumeAll", place)
  BY DEF CallResumeAll
<1>2. "resumeAll" \in InACall /\ "test" \in InACall /\ "run" \notin InACall
  BY DEF InACall
<1>3. /\ t \in AllTasks /\ pc[t] = "resumeAll" /\ IsCall(call[t])
      /\ IsReady(t) \/ call[t].outcome = "wait"
  BY <1>1, <1>2, LoopFacts
<1>4. PICK yield : yield = (call[t].outcome = "wait")
  OBVIOUS
<1>5. ResumeAll(yield)
  BY <1>4 DEF CallResumeAll
<1>6. /\ OnlyWakes({})
      /\ UNCHANGED <<wake, xTickCount, xNextTaskUnblockTime, uxMissedTicks, left>>
  BY <1>5, ResumeAllInTime DEF ListInv
<1>7. DOMAIN call = AllTasks
  BY DEF QueueInv, Shapes
<1>8. CASE call[t].outcome = "timeout"
  <2>1. NoCall.kind = "none"
    BY DEF NoCall
  <2>2. call[t] # NoCall
    BY <1>3, <2>1 DEF IsCall
  <2>3. left[t] = 0 /\ IsReady(t) /\ place \notin InACall
    BY <1>2, <1>3, <1>8, <2>2 DEF AllAges, Ages
  <2>4. call' = [call EXCEPT ![t] = NoCall]
    BY <1>8 DEF CallResumeAll
  <2>5. \A u \in AllTasks : u # t => call'[u] = call[u]
    BY <1>7, <2>4
  <2> HIDE DEF place
  <2> QED BY <1>1, <1>2, <1>6, <2>3, <2>5, LoopInTime
<1>9. CASE call[t].outcome # "timeout"
  <2>1. UNCHANGED call /\ place \in InACall
    BY <1>2, <1>9 DEF CallResumeAll
  <2>2. call'[t].wait # 0 /\ \A u \in AllTasks : u # t => call'[u] = call[u]
    BY <1>2, <1>3, <2>1 DEF InTime, Timely
  <2> HIDE DEF place
  <2> QED BY <1>1, <1>2, <1>6, <2>1, <2>2, LoopInTime
<1> QED BY <1>8, <1>9

(* The calls of the interrupts.                                            *)
LEMMA QueueInterruptInTime ==
  ASSUME ListInv, TypeInv, InTime, QueueInterrupt
  PROVE  InTime'
<1>1. PICK q \in Queues :
        ReceiveFromISR(q) \/ \E i \in Items, p \in {"back", "front"} : SendFromISR(q, i, p)
  BY DEF QueueInterrupt
<1>2. UNCHANGED <<pc, wake, xTickCount, xNextTaskUnblockTime, uxMissedTicks, left, call>>
  BY <1>1 DEF ReceiveFromISR, SendFromISR, FromISRUnchanged, clock, scheduler, history
<1>3. PICK l, lock : l \in EventLists /\ WakeFromISR(l, lock)
  <2>1. <<q, "send">> \in EventLists /\ <<q, "receive">> \in EventLists
    BY QueueAssumption
  <2> QED BY <1>1, <2>1 DEF ReceiveFromISR, SendFromISR
<1>4. CASE RemoveFromEventList(l, 1)
  <2>1. OnlyWakes({})
    BY <1>3, <1>4, RemoveFromEventListWakes DEF ListInv
  <2> QED BY <1>2, <2>1, StillInTime DEF ListInv
<1>5. CASE UNCHANGED <<generic, eventItems>>
  <2>1. OnlyWakes({})
    BY <1>5, QuietOnlyWakes DEF generic, eventItems
  <2> QED BY <1>2, <2>1, StillInTime DEF ListInv
<1> QED BY <1>3, <1>4, <1>5 DEF WakeFromISR

-----------------------------------------------------------------------------
(* The invariant.                                                          *)
TimeInv == InTime /\ \A t \in Task : Periodic(t)

(* Nobody waits for anything at first.                                     *)
LEMMA TimeInitially == Init => TimeInv
<1> SUFFICES ASSUME Init PROVE TimeInv
  OBVIOUS
<1>1. /\ delayed = <<>> /\ overflowed = <<>> /\ pendingReady = <<>>
      /\ pc = [t \in AllTasks |-> "run"] /\ left = [t \in AllTasks |-> 0]
      /\ previous = [t \in AllTasks |-> 0] /\ since = [t \in AllTasks |-> 0]
      /\ xTickCount = 0 /\ uxMissedTicks = 0
  BY DEF Init, TaskInit
<1>2. Ascending(delayed, wake) /\ Ascending(overflowed, wake)
  BY <1>1 DEF Ascending
<1>3. \A t \in AllTasks : Timely(t)
  BY <1>1, GoodEmpty DEF Timely, IsDelayed, InACall
<1>4. \A t \in Task : Periodic(t)
  <2> SUFFICES ASSUME NEW t \in Task PROVE Periodic(t)
    OBVIOUS
  <2>1. previous[t] = 0 /\ since[t] = 0
    BY <1>1 DEF AllTasks
  <2>2. previous[t] + since[t] = xTickCount + uxMissedTicks + 0 * TickWidth
    BY <1>1, <2>1, TasksAssumption
  <2> QED BY <2>2 DEF Periodic
<1> QED BY <1>2, <1>3, <1>4 DEF TimeInv, InTime

(* Every step keeps the times.                                             *)
LEMMA TimeNext ==
  ASSUME QueueInv, ListInv, Patience, TypeInv, TypeInv', AllAges, TimeInv, [Next]_vars
  PROVE  TimeInv'
<1> USE DEF TimeInv
<1>1. DOMAIN pc = AllTasks /\ ListsInv
  BY DEF QueueInv, Shapes, ListInv
<1>2. CASE TaskNext /\ UNCHANGED queueVars
  <2>1. UNCHANGED call
    BY <1>2 DEF queueVars
  <2> QED BY <1>1, <1>2, <2>1, TaskNextInTime, TaskNextPeriodic
<1>3. ASSUME UNCHANGED <<xTickCount, uxMissedTicks, previous, since>>
      PROVE  \A t \in Task : Periodic(t)'
  BY <1>3 DEF Periodic
<1>4. CASE QueueInterrupt
  <2>1. UNCHANGED <<xTickCount, uxMissedTicks, previous, since>>
    BY <1>4 DEF QueueInterrupt, SendFromISR, ReceiveFromISR, FromISRUnchanged, clock, scheduler,
                history
  <2> QED BY <1>3, <1>4, <2>1, QueueInterruptInTime
<1>5. ASSUME NEW t \in Task, QueueStep(t) PROVE TimeInv'
  <2>1. UNCHANGED <<xTickCount, uxMissedTicks, previous, since>>
    <3>1. CASE (\E c \in Arguments(t) : Begin(t, c)) \/ Again(t)
      <4>1. TestUnchanged
        BY <3>1 DEF Begin, Again
      <4> QED BY <4>1 DEF TestUnchanged, clock, scheduler
    <3>2. CASE CallSuspendAll(t) \/ LockQueue(t) \/ Check(t) \/ Inherit(t) \/ UnlockTx(t) \/ UnlockRx(t)
      BY <3>2 DEF CallSuspendAll, LockQueue, Check, Inherit, UnlockTx, UnlockRx, InCall,
                  ListsUnchanged, clock, history
    <3>3. CASE Place(t)
      BY <3>3 DEF Place, InCall, PlaceOnEventList, AddToDelayed, clock, history
    <3>4. CASE CallResumeAll(t)
      BY <3>4 DEF CallResumeAll, ResumeAll, clock, history
    <3> QED BY <1>5, <3>1, <3>2, <3>3, <3>4 DEF QueueStep
  <2>2. ASSUME NEW c \in Arguments(t), Begin(t, c) PROVE InTime'
    <3>1. IsCall(c) /\ Test(t, c) /\ TestUnchanged /\ Executes(t) /\ uxSchedulerSuspended = 0
      BY <2>2 DEF Arguments, IsCall, Begin, UsesMutexProperly, CallsFunction
    <3> QED BY <3>1, TestInTime
  <2>3. ASSUME Again(t) PROVE InTime'
    <3>1. /\ t = pxCurrentTCB /\ pc[t] = "test" /\ Test(t, call[t]) /\ TestUnchanged /\ Executes(t)
      BY <2>3 DEF Again, Executes
    <3>2. pc[t] \in InACall /\ pc[t] \notin Suspending \cup {"run"}
      BY <3>1 DEF InACall, Suspending, LockedForRx
    <3>3. IsCall(call[t]) /\ uxSchedulerSuspended = 0
      BY <3>1, <3>2, NotSuspended DEF QueueInv, Calling
    <3> QED BY <3>1, <3>3, TestInTime
  <2>4. InTime'
    BY <1>5, <2>2, <2>3, QuietLoopInTime, PlaceInTime, UnlockInTime, CallResumeAllInTime DEF QueueStep
  <2> QED BY <1>3, <2>1, <2>4
<1>6. CASE UNCHANGED vars
  <2>1. UNCHANGED <<pc, delayed, overflowed, events, pendingReady, wake, xTickCount,
                    xNextTaskUnblockTime, uxMissedTicks, left, call, previous, since>>
    BY <1>6 DEF vars, taskVars, queueVars, generic, eventItems, clock, scheduler, history
  <2>2. InTime'
    BY <1>1, <2>1, QuietOnlyWakes, StillInTime
  <2> QED BY <1>3, <2>1, <2>2
<1> QED BY <1>2, <1>4, <1>5, <1>6 DEF Next

(* All of it together.                                                     *)
WaitingInv == QueueInv /\ ListInv /\ Patience /\ TypeInv /\ AllAges /\ TimeInv

(* It holds at first.                                                      *)
LEMMA WaitingInitially == Init => WaitingInv
<1>1. Init => AllAges
  BY DEF Init, TaskInit, AllAges, Ages, InACall, AllTasks
<1> QED BY <1>1, QueueInitially, ListsInitially, PatienceInitially, TypesInitially, TimeInitially
           DEF WaitingInv

(* Every step keeps it.                                                    *)
LEMMA WaitingNext == WaitingInv /\ [Next]_vars => WaitingInv'
<1> SUFFICES ASSUME WaitingInv, [Next]_vars PROVE WaitingInv'
  OBVIOUS
<1> USE DEF WaitingInv
<1>1. (QueueInv /\ ListInv /\ Patience /\ TypeInv)'
  BY QueueNext, ListsNext, NextRefines, TypesNext DEF Refines
<1> QED BY <1>1, AgesNext, TimeNext

(* NoEarlyWake: no task that has called a delay runs before the time it    *)
(* asked for, in ticks of real time.                                       *)
THEOREM DelaysNotShort == Spec => []NoEarlyWake
<1>1. WaitingInv => NoEarlyWake
  <2> SUFFICES ASSUME WaitingInv, NEW t \in AllTasks, IsReady(t), pc[t] = "run" PROVE left[t] = 0
    BY DEF NoEarlyWake
  <2>1. Apart(t) /\ Timely(t)
    BY DEF WaitingInv, ListInv, ListsInv, AllApart, TimeInv, InTime
  <2>2. pc[t] \notin InACall
    BY DEF InACall
  <2>3. ~IsDelayed(t)
    BY <2>1 DEF Apart, IsAway
  <2> QED BY <2>1, <2>2, <2>3 DEF Timely, IsDelayed
<1> QED BY <1>1, WaitingInitially, WaitingNext, PTL DEF Spec

(* When no tick is missed, what a task that sleeps has left is some time,  *)
(* whatever cycle of the tick count it wakes in.                           *)
LEMMA TimeLeft ==
  ASSUME WaitingInv, uxMissedTicks = 0, NEW t \in AllTasks, IsDelayed(t), pc[t] \notin InACall
  PROVE  left[t] > 0
<1>1. Timely(t) /\ (t \in ToSet(delayed) => t \notin ToSet(overflowed))
  BY DEF WaitingInv, ListInv, ListsInv, AllApart, Apart, TimeInv, InTime
<1>2. /\ xTickCount \in 0 .. MaxDelay /\ wake[t] \in 0 .. MaxDelay /\ MaxDelay \in Nat
      /\ TickWidth = MaxDelay + 1
  BY TimeTypes DEF WaitingInv
<1>3. CASE t \in ToSet(delayed)
  <2>1. wake[t] > xTickCount /\ left[t] = Remaining(wake[t] - xTickCount, 0)
    BY <1>1, <1>3 DEF Timely
  <2> QED BY <1>2, <2>1 DEF Remaining
<1>4. CASE t \notin ToSet(delayed) /\ t \in ToSet(overflowed)
  <2>1. left[t] = Remaining(wake[t] + TickWidth - xTickCount, 0)
    BY <1>1, <1>4 DEF Timely
  <2> QED BY <1>2, <2>1 DEF Remaining
<1> QED BY <1>3, <1>4 DEF IsDelayed

(* A task that sleeps in vTaskDelay or vTaskDelayUntil is woken in time,   *)
(* whatever other tasks do, calls with a limited wait included.            *)
DelaysNotLong ==
    uxMissedTicks = 0 => \A t \in AllTasks : IsDelayed(t) /\ pc[t] \notin InACall => left[t] > 0

(* DelaysNotLong, with limited waits in calls as well.                     *)
THEOREM DelaysNotLongHolds == Spec => []DelaysNotLong
<1>1. WaitingInv => DelaysNotLong
  BY TimeLeft DEF DelaysNotLong
<1> QED BY <1>1, WaitingInitially, WaitingNext, PTL DEF Spec

-----------------------------------------------------------------------------
(* NoLateWake, where no call of a queue has a limited wait.                *)
Untimed == \A t \in Task : WaitTimes[t] \subseteq {0, MaxDelay}

(* A task in a call waits for as long as it takes.                         *)
Unhurried(t) == pc[t] \in InACall => call[t].wait = MaxDelay /\ ~IsDelayed(t)

(* Nobody but the tasks of gone begins to wait for a time.                 *)
OnlyDelays(gone) == \A u \in AllTasks : IsDelayed(u)' => IsDelayed(u) \/ u \in gone

(* Lists that stay or lose tasks delay nobody.                             *)
LEMMA NoneDelays ==
  ASSUME ListsInv,
         \/ UNCHANGED <<delayed, overflowed>>
         \/ \E us : delayed' = Without(delayed, us) /\ overflowed' = Without(overflowed, us)
  PROVE  \A gone : OnlyDelays(gone)
<1>1. CASE UNCHANGED <<delayed, overflowed>>
  BY <1>1 DEF OnlyDelays, IsDelayed
<1>2. ASSUME NEW us, delayed' = Without(delayed, us), overflowed' = Without(overflowed, us)
      PROVE  \A gone : OnlyDelays(gone)
  <2>1. /\ ToSet(delayed') \subseteq ToSet(delayed) /\ ToSet(overflowed') \subseteq ToSet(overflowed)
    BY <1>2, GoodWithout DEF ListsInv, ListTypes
  <2> QED BY <2>1 DEF OnlyDelays, IsDelayed
<1> QED BY <1>1, <1>2

(* Of the scheduler's functions, the delays put tasks into the lists.      *)
LEMMA SchedulerDelays ==
  ASSUME ListsInv, TypeInv, InTime, TaskNext, NEW t \in Task, DOMAIN pc = AllTasks
  PROVE  IsDelayed(t)' => IsDelayed(t) \/ pc'[t] = "resume"
<1>1. t \in AllTasks
  BY DEF AllTasks
<1> SUFFICES ASSUME ~OnlyDelays({}) PROVE IsDelayed(t)' => IsDelayed(t) \/ pc'[t] = "resume"
  BY <1>1 DEF OnlyDelays
<1>2. /\ ~UNCHANGED <<delayed, overflowed>>
      /\ \A us : ~(delayed' = Without(delayed, us) /\ overflowed' = Without(overflowed, us))
  BY NoneDelays
<1>3. /\ ~UNCHANGED generic /\ \A us, new : ~MakeReady(us, new)
      /\ \A u : ~RemoveFromLists(u)
  BY <1>2 DEF generic, MakeReady, RemoveFromLists
<1>4. \A yield : ~ResumeAll(yield)
  BY <1>3 DEF ResumeAll
<1>5. ASSUME IncrementTick PROVE IsDelayed(t)' => IsDelayed(t)
  BY <1>1, <1>5, TickWakes DEF IsDelayed
<1>6. CASE Interrupt
  <2>1. \A u \in Task : ~ResumeFromISR(u)
    BY <1>3 DEF ResumeFromISR
  <2> QED BY <1>3, <1>5, <1>6, <2>1 DEF Interrupt, Tick
<1>7. CASE CatchUp
  BY <1>5, <1>7 DEF CatchUp
<1>8. ~Switch /\ ~IdleStep
  BY <1>2, <1>3, <1>4 DEF Switch, IdleStep, IdleYield, IdleBegin, IdleResume, IdleFree
<1>9. ASSUME NEW u \in Task, ApiCall(u)
      PROVE  IsDelayed(t)' => IsDelayed(t) \/ pc'[t] = "resume"
  <2>1. ~TaskSuspendAll(u) /\ ~TaskResumeAll(u) /\ ~DelayResume(u)
    BY <1>3, <1>4 DEF TaskSuspendAll, TaskResumeAll, DelayResume
  <2>2. \A v \in Task : /\ ~Create(u, v) /\ ~Delete(u, v) /\ ~Suspend(u, v) /\ ~Resume(u, v)
                        /\ \A p \in NewPriorities : ~PrioritySet(u, v, p)
    BY <1>2, <1>3 DEF Create, Delete, Suspend, Resume, PrioritySet
  <2>3. PICK d \in DelayTimes : Delay(u, d) \/ DelayUntil(u, d)
    BY <1>9, <2>1, <2>2 DEF ApiCall
  <2>4. IsReady(u) /\ pc' = [pc EXCEPT ![u] = "resume"] /\ (\E time : AddToDelayed(u, time))
    BY <1>3, <2>3, CallingFacts DEF Delay, DelayUntil
  <2>5. \/ /\ ToSet(delayed') = ToSet(delayed) \cup {u} /\ overflowed' = overflowed
        \/ /\ ToSet(overflowed') = ToSet(overflowed) \cup {u} /\ delayed' = delayed
    BY <2>4, AddToDelayedFacts DEF ListsInv
  <2> QED BY <1>1, <2>4, <2>5 DEF IsDelayed
<1> QED BY <1>6, <1>7, <1>8, <1>9 DEF TaskNext

(* Of the steps of a call, entering a waiting list does, if it is for a    *)
(* limited time.                                                           *)
LEMMA CallDelays ==
  ASSUME ListsInv, NEW t \in Task, QueueStep(t), ~(Place(t) /\ call[t].wait # MaxDelay)
  PROVE  OnlyDelays({})
<1> SUFFICES ASSUME ~OnlyDelays({}) PROVE FALSE
  OBVIOUS
<1>2. /\ ~UNCHANGED <<delayed, overflowed>>
      /\ \A us : ~(delayed' = Without(delayed, us) /\ overflowed' = Without(overflowed, us))
  BY NoneDelays
<1>3. ~UNCHANGED generic /\ \A us, new : ~MakeReady(us, new)
  BY <1>2 DEF generic, MakeReady
<1>4. /\ \A yield : ~ResumeAll(yield)
      /\ \A l, n : ~RemoveFromEventList(l, n)
  BY <1>3 DEF ResumeAll, RemoveFromEventList
<1>5. ~CallResumeAll(t)
  <2> SUFFICES ASSUME CallResumeAll(t) PROVE FALSE
    OBVIOUS
  <2>1. PICK yield : yield = (call[t].outcome = "wait")
    OBVIOUS
  <2>2. ResumeAll(yield)
    BY <2>1 DEF CallResumeAll
  <2> QED BY <1>4, <2>2
<1>6. \A c : ~Test(t, c)
  <2> SUFFICES ASSUME NEW c, Test(t, c) PROVE FALSE
    OBVIOUS
  <2>1. PICK us, new : MakeReady(us, new) \/ (\E l, n : RemoveFromEventList(l, n))
    <3>1. SendNow(t, c) \/ ReceiveNow(t, c)
      BY <1>3 DEF Test
    <3>2. CASE SendNow(t, c)
      <4>1. PICK new : new = prio'
        OBVIOUS
      <4> QED BY <3>2, <4>1 DEF SendNow
    <3>3. CASE ReceiveNow(t, c)
      BY <3>3 DEF ReceiveNow
    <3> QED BY <3>1, <3>2, <3>3
  <2> QED BY <1>3, <1>4, <2>1
<1>7. ~Place(t)
  BY <1>2 DEF Place, PlaceOnEventList
<1>8. ~UnlockTx(t) /\ ~UnlockRx(t)
  BY <1>4 DEF UnlockTx, UnlockRx, UnlockSide
<1>9. ~CallSuspendAll(t) /\ ~LockQueue(t) /\ ~Check(t) /\ ~Inherit(t)
  BY <1>2, <1>3 DEF CallSuspendAll, LockQueue, Check, Inherit, ListsUnchanged
<1> QED BY <1>5, <1>6, <1>7, <1>8, <1>9 DEF QueueStep, Begin, Again

(* No step gives a call a limit.                                           *)
LEMMA UnhurriedNext ==
  ASSUME Untimed, WaitingInv, \A t \in Task : Unhurried(t), [Next]_vars
  PROVE  \A t \in Task : Unhurried(t)'
<1> USE DEF WaitingInv
<1>1. /\ ListsInv /\ InTime /\ Shapes /\ DOMAIN pc = AllTasks /\ DOMAIN call = AllTasks
      /\ "run" \notin InACall /\ "resume" \notin InACall
  BY DEF ListInv, QueueInv, Shapes, TimeInv, InACall
<1>2. CASE TaskNext /\ UNCHANGED queueVars
  <2> SUFFICES ASSUME NEW t \in Task, pc'[t] \in InACall
               PROVE  call'[t].wait = MaxDelay /\ ~IsDelayed(t)'
    BY DEF Unhurried
  <2>1. pc'[t] = pc[t] /\ pc'[t] # "resume"
    BY <1>1, <1>2, SchedulerLeavesCalls
  <2>2. UNCHANGED call
    BY <1>2 DEF queueVars
  <2>3. IsDelayed(t)' => IsDelayed(t)
    BY <1>1, <1>2, <2>1, SchedulerDelays
  <2> QED BY <2>1, <2>2, <2>3 DEF Unhurried
<1>3. CASE QueueInterrupt
  <2>1. UNCHANGED <<pc, call>>
    BY <1>3 DEF QueueInterrupt, SendFromISR, ReceiveFromISR, FromISRUnchanged
  <2>2. OnlyDelays({})
    <3>1. UNCHANGED generic \/ \E us : MakeReady(us, prio)
      BY <1>3 DEF QueueInterrupt, SendFromISR, ReceiveFromISR, WakeFromISR, RemoveFromEventList
    <3>2. \/ UNCHANGED <<delayed, overflowed>>
          \/ \E us : delayed' = Without(delayed, us) /\ overflowed' = Without(overflowed, us)
      BY <3>1 DEF generic, MakeReady
    <3> QED BY <1>1, <3>2, NoneDelays
  <2> QED BY <2>1, <2>2 DEF Unhurried, OnlyDelays, AllTasks
<1>4. ASSUME NEW t \in Task, QueueStep(t)
      PROVE  \A u \in Task : Unhurried(u)'
  <2>1. Unhurried(t) /\ t \in AllTasks
    BY DEF AllTasks
  <2>2. OnlyDelays({})
    <3>1. ~(Place(t) /\ call[t].wait # MaxDelay)
      BY <2>1 DEF Place, At, Unhurried, InACall
    <3> QED BY <1>1, <1>4, <3>1, CallDelays
  <2>3. ASSUME NEW u \in Task, u # t PROVE Unhurried(u)'
    <3>1. pc'[u] = pc[u] /\ call'[u] = call[u] /\ u \in AllTasks
      <4>1. u \in DOMAIN pc /\ u \in DOMAIN call /\ u \in AllTasks
        BY <1>1 DEF AllTasks
      <4>2. CASE \E c : Test(t, c)
        BY <2>3, <4>1, <4>2 DEF Test, Return
      <4>3. CASE \/ CallSuspendAll(t) \/ LockQueue(t) \/ Inherit(t) \/ Place(t)
                 \/ UnlockTx(t) \/ UnlockRx(t)
        BY <2>3, <4>1, <4>3 DEF CallSuspendAll, LockQueue, Inherit, Place, UnlockTx, UnlockRx, At,
                                queueVars
      <4>4. CASE Check(t) \/ CallResumeAll(t)
        BY <2>3, <4>1, <4>4 DEF Check, CallResumeAll, At
      <4> QED BY <1>4, <4>1, <4>2, <4>3, <4>4 DEF QueueStep, Begin, Again
    <3> QED BY <2>2, <3>1 DEF Unhurried, OnlyDelays
  <2>4. Unhurried(t)'
    <3> SUFFICES ASSUME pc'[t] \in InACall PROVE call'[t].wait = MaxDelay /\ ~IsDelayed(t)'
      BY DEF Unhurried
    <3>1. ASSUME NEW c, Test(t, c), IsCall(c), c.wait \in {0, MaxDelay}, Executes(t),
                 uxSchedulerSuspended = 0
          PROVE  call'[t].wait = MaxDelay /\ ~IsDelayed(t)'
      <4>1. ~IsDelayed(t)
        <5>1. IsReady(t)
          BY <1>1, <3>1, Executing
        <5> QED BY <1>1, <2>1, <5>1 DEF ListsInv, AllApart, Apart, IsAway
      <4>2. /\ c.wait # 0 /\ call' = [call EXCEPT ![t] = [c EXCEPT !.entered = TRUE]]
        BY <1>1, <2>1, <3>1 DEF Test, Return
      <4>3. call'[t].wait = c.wait
        BY <1>1, <2>1, <3>1, <4>2 DEF IsCall
      <4> QED BY <2>1, <2>2, <3>1, <4>1, <4>2, <4>3 DEF OnlyDelays
    <3>2. ASSUME NEW c \in Arguments(t), Begin(t, c)
          PROVE  call'[t].wait = MaxDelay /\ ~IsDelayed(t)'
      <4>1. /\ IsCall(c) /\ Test(t, c) /\ Executes(t) /\ uxSchedulerSuspended = 0
        BY <3>2 DEF Arguments, IsCall, Begin, UsesMutexProperly, CallsFunction
      <4>2. c.wait \in {0, MaxDelay}
        BY DEF Arguments, Untimed
      <4> QED BY <3>1, <4>1, <4>2
    <3>3. ASSUME Again(t) PROVE call'[t].wait = MaxDelay /\ ~IsDelayed(t)'
      <4>1. t = pxCurrentTCB /\ pc[t] = "test" /\ Test(t, call[t]) /\ Executes(t)
        BY <3>3 DEF Again, Executes
      <4>2. pc[t] \in InACall /\ pc[t] \notin Suspending \cup {"run"}
        BY <4>1 DEF InACall, Suspending, LockedForRx
      <4>3. IsCall(call[t]) /\ uxSchedulerSuspended = 0
        BY <4>1, <4>2, NotSuspended DEF QueueInv, Calling
      <4> QED BY <2>1, <3>1, <4>1, <4>2, <4>3 DEF Unhurried
    <3>4. ASSUME \/ CallSuspendAll(t) \/ LockQueue(t) \/ Inherit(t) \/ Place(t)
                 \/ UnlockTx(t) \/ UnlockRx(t) \/ CallResumeAll(t) \/ Check(t)
          PROVE  call'[t].wait = MaxDelay /\ ~IsDelayed(t)'
      <4>1. pc[t] \in InACall /\ IsCall(call[t])
        <5>1. pc[t] \in InACall
          BY <3>4 DEF CallSuspendAll, LockQueue, Inherit, Place, UnlockTx, UnlockRx, CallResumeAll,
                      Check, At, InACall
        <5> QED BY <5>1 DEF QueueInv, Calling
      <4>2. call[t].wait = MaxDelay /\ ~IsDelayed(t)
        BY <2>1, <4>1 DEF Unhurried
      <4>3. call'[t].wait = call[t].wait
        <5>1. CASE Check(t)
          <6>1. \E o : call' = [call EXCEPT ![t].outcome = o, ![t].wait = call[t].wait]
            BY <4>2, <5>1 DEF Check
          <6>2. PICK o : call' = [call EXCEPT ![t].outcome = o, ![t].wait = call[t].wait]
            BY <6>1
          <6>3. call'[t] = [call[t] EXCEPT !.outcome = o, !.wait = call[t].wait]
            BY <1>1, <2>1, <6>2
          <6> QED BY <4>1, <6>3 DEF IsCall
        <5>2. CASE CallResumeAll(t)
          <6>1. call[t].outcome # "timeout"
            BY <1>1, <2>1, <5>2 DEF CallResumeAll, At
          <6> QED BY <5>2, <6>1 DEF CallResumeAll
        <5>3. CASE ~Check(t) /\ ~CallResumeAll(t)
          BY <3>4, <5>3 DEF CallSuspendAll, LockQueue, Inherit, Place, UnlockTx, UnlockRx, queueVars
        <5> QED BY <5>1, <5>2, <5>3
      <4> QED BY <2>1, <2>2, <4>2, <4>3 DEF OnlyDelays
    <3> QED BY <1>4, <3>2, <3>3, <3>4 DEF QueueStep
  <2> QED BY <2>3, <2>4
<1>5. CASE UNCHANGED vars
  <2>1. UNCHANGED <<pc, call, delayed, overflowed>>
    BY <1>5 DEF vars, taskVars, queueVars, generic
  <2> QED BY <2>1 DEF Unhurried, IsDelayed
<1> QED BY <1>2, <1>3, <1>4, <1>5 DEF Next

(* NoLateWake: no task sleeps past its time, in ticks of real time, if     *)
(* every call of a queue waits either not at all or without a limit.       *)
THEOREM NobodyOversleeps == Untimed => (Spec => []NoLateWake)
<1> SUFFICES ASSUME Untimed PROVE Spec => []NoLateWake
  OBVIOUS
<1> DEFINE Inv == WaitingInv /\ \A t \in Task : Unhurried(t)
<1>1. Init => Inv
  <2>1. Init => \A t \in Task : Unhurried(t)
    BY DEF Init, TaskInit, Unhurried, InACall, AllTasks
  <2> QED BY <2>1, WaitingInitially
<1>2. Inv /\ [Next]_vars => Inv'
  BY WaitingNext, UnhurriedNext
<1>3. Inv => NoLateWake
  <2> SUFFICES ASSUME Inv, uxMissedTicks = 0, NEW t \in AllTasks, IsDelayed(t) PROVE left[t] > 0
    BY DEF NoLateWake
  <2>1. pc[t] \notin InACall
    <3>1. CASE t \in Task
      BY <3>1 DEF Unhurried
    <3>2. CASE t = Idle
      <4>1. IsReady(Idle)
        BY TasksAssumption DEF WaitingInv, ListInv, ListsInv, IdleReady, IsReady, Priorities
      <4> QED BY <3>2, <4>1 DEF WaitingInv, ListInv, ListsInv, AllApart, Apart, IsAway
    <3> QED BY <3>1, <3>2 DEF AllTasks
  <2> QED BY <2>1, TimeLeft
<1> QED BY <1>1, <1>2, <1>3, PTL DEF Spec

-----------------------------------------------------------------------------
(* The order in which tasks wait for an event.                             *)

(* No priority changes while its task waits.                               *)
FixedPriorities == Mutexes = {} /\ \A t \in Task : "vTaskPrioritySet" \notin Calls[t]

(* The items of events follow the priorities, and the lists of events them.*)
InTurn ==
    /\ DOMAIN evalue = AllTasks
    /\ \A t \in AllTasks : evalue[t] = MaxPriorities - prio[t]
    /\ \A l \in EventLists : Ascending(events[l], evalue)

(* No mutex is held.                                                       *)
NoHolders == \A q \in Queues : pxMutexHolder[q] = Null

(* Tasks only leave the lists of those that wait for an event.             *)
OnlyLeave ==
    \A l \in EventLists : events'[l] = events[l] \/ \E us : events'[l] = Without(events[l], us)

(* Those that stay keep their order.                                       *)
LEMMA LeavingInTurn ==
  ASSUME ListTypes, InTurn, OnlyLeave, UNCHANGED <<prio, evalue>>
  PROVE  InTurn'
<1> SUFFICES ASSUME NEW l \in EventLists PROVE Ascending(events'[l], evalue)
  BY DEF InTurn
<1>1. Good(events[l]) /\ Ascending(events[l], evalue)
  BY DEF ListTypes, InTurn
<1>2. ASSUME NEW us, events'[l] = Without(events[l], us) PROVE Ascending(events'[l], evalue)
  BY <1>1, <1>2, AscendingWithout
<1> QED BY <1>1, <1>2 DEF OnlyLeave

(* xTaskRemoveFromEventList takes tasks from one list.                     *)
LEMMA RemoveFromEventListLeaves ==
  ASSUME ListTypes, NEW l \in EventLists, NEW n, RemoveFromEventList(l, n)
  PROVE  OnlyLeave
BY DEF RemoveFromEventList, OnlyLeave, ListTypes

(* The tick wakes tasks whose time is over.                                *)
LEMMA IncrementTickLeaves ==
  ASSUME IncrementTick
  PROVE  OnlyLeave
BY DEF IncrementTick, OnlyLeave

(* Every step of the scheduler, of those that are called.                  *)
LEMMA TaskNextInTurn ==
  ASSUME FixedPriorities, ListsInv, InTurn, TaskNext
  PROVE  InTurn'
<1>1. ASSUME UNCHANGED <<events, prio, evalue>> PROVE InTurn'
  BY <1>1 DEF InTurn, Ascending
<1>2. ASSUME OnlyLeave, UNCHANGED <<prio, evalue>> PROVE InTurn'
  BY <1>2, LeavingInTurn DEF ListsInv
<1>3. CASE Tick
  <2>1. OnlyLeave
    BY <1>3, IncrementTickLeaves DEF Tick, eventItems, OnlyLeave
  <2> QED BY <1>2, <1>3, <2>1 DEF Tick, priorities
<1>4. CASE CatchUp
  BY <1>2, <1>4, IncrementTickLeaves DEF CatchUp, priorities
<1>5. CASE \E u \in Task : ResumeFromISR(u)
  BY <1>1, <1>5 DEF ResumeFromISR, priorities
<1>6. CASE Switch
  BY <1>1, <1>6 DEF Switch, eventItems, priorities
<1>7. CASE IdleStep
  BY <1>1, <1>7 DEF IdleStep, IdleYield, IdleBegin, IdleResume, IdleFree, ResumeAll, eventItems,
                    priorities
<1>8. ASSUME NEW t \in Task, ApiCall(t) PROVE InTurn'
  <2>1. CASE TaskSuspendAll(t) \/ TaskResumeAll(t) \/ DelayResume(t)
    BY <1>1, <2>1 DEF TaskSuspendAll, TaskResumeAll, DelayResume, ResumeAll, eventItems, priorities
  <2>2. CASE \E d \in DelayTimes : Delay(t, d) \/ DelayUntil(t, d)
    BY <1>1, <2>2 DEF Delay, DelayUntil, eventItems, priorities
  <2>3. ASSUME NEW u \in Task, Create(t, u) PROVE InTurn'
    <3>1. /\ ~Exists(u) /\ UNCHANGED events
          /\ prio' = [prio EXCEPT ![u] = Priority[u]]
          /\ evalue' = [evalue EXCEPT ![u] = MaxPriorities - Priority[u]]
      BY <2>3 DEF Create, eventItems
    <3>2. \A v \in AllTasks : evalue'[v] = MaxPriorities - prio'[v]
      <4>1. DOMAIN prio = AllTasks
        BY DEF ListsInv, ListTypes
      <4> QED BY <3>1, <4>1 DEF InTurn
    <3>3. ASSUME NEW l \in EventLists PROVE Ascending(events'[l], evalue')
      <4>1. Good(events[l]) /\ Ascending(events[l], evalue)
        BY DEF ListsInv, ListTypes, InTurn
      <4>2. u \notin ToSet(events[l])
        BY <3>1 DEF ListsInv, AllApart, Apart, Exists, IsWaiting, AllTasks
      <4>3. \A i \in 1 .. Len(events[l]) : evalue'[events[l][i]] = evalue[events[l][i]]
        BY <3>1, <4>1, <4>2, GoodFacts
      <4> QED BY <3>1, <4>1, <4>3 DEF Ascending
    <3>4. DOMAIN evalue' = AllTasks
      BY <3>1 DEF InTurn
    <3> QED BY <3>2, <3>3, <3>4 DEF InTurn
  <2>4. ASSUME NEW u \in Task, Delete(t, u) \/ Suspend(t, u) PROVE InTurn'
    <3>1. OnlyLeave
      BY <2>4 DEF Delete, Suspend, RemoveFromLists, OnlyLeave
    <3> QED BY <1>2, <2>4, <3>1 DEF Delete, Suspend, priorities
  <2>5. CASE \E u \in Task : Resume(t, u)
    BY <1>1, <2>5 DEF Resume, eventItems, priorities
  <2>6. ~\E u \in Task, p \in NewPriorities : PrioritySet(t, u, p)
    BY DEF PrioritySet, CallsFunction, FixedPriorities
  <2> QED BY <1>8, <2>1, <2>2, <2>3, <2>4, <2>5, <2>6 DEF ApiCall
<1> QED BY <1>3, <1>4, <1>5, <1>6, <1>7, <1>8 DEF TaskNext, Interrupt

(* The test of a call wakes the first that waits.                          *)
LEMMA TestInTurn ==
  ASSUME FixedPriorities, ListsInv, InTurn, NEW t, NEW c, IsCall(c), Test(t, c)
  PROVE  InTurn'
<1>1. DOMAIN events = EventLists /\ ListTypes
  BY DEF ListsInv, ListTypes
<1>2. CASE SendNow(t, c)
  <2>1. ~Disinherits(t, c.queue)
    BY DEF FixedPriorities, Disinherits
  <2>2. UNCHANGED <<prio, evalue>>
    BY <1>2, <2>1 DEF SendNow
  <2>3. \E us : events' = [events EXCEPT ![<<c.queue, "receive">>] = Without(@, us)]
    BY <1>2 DEF SendNow
  <2>4. OnlyLeave
    BY <1>1, <2>3 DEF OnlyLeave
  <2> QED BY <1>1, <2>2, <2>4, LeavingInTurn
<1>3. CASE ReceiveNow(t, c)
  <2>1. PICK l \in EventLists : RemoveFromEventList(l, 1)
    BY <1>3, EventListsOf DEF ReceiveNow
  <2> QED BY <1>1, <1>3, <2>1, RemoveFromEventListLeaves, LeavingInTurn DEF ReceiveNow
<1>4. CASE UNCHANGED <<events, prio, evalue>>
  BY <1>4 DEF InTurn, Ascending
<1> QED BY <1>2, <1>3, <1>4 DEF Test, eventItems

(* A task enters a list behind those of at least its priority.             *)
LEMMA PlaceInTurn ==
  ASSUME ListInv, QueueInv, InTurn, NEW t \in Task, Place(t)
  PROVE  InTurn'
<1> DEFINE l == List(call[t])
<1>1. /\ At(t, "place", "unlockTx") /\ UNCHANGED <<prio, evalue>>
      /\ events' = [events EXCEPT ![l] = Insert(@, t, evalue)]
  BY DEF Place, PlaceOnEventList
<1>2. "place" \in InACall /\ "place" \notin {"unlockTx", "unlockRx", "resumeAll"}
  BY DEF InACall
<1>3. t \in AllTasks /\ IsReady(t) /\ IsCall(call[t])
  BY <1>1, <1>2, LoopFacts
<1>4. l \in EventLists /\ ListTypes /\ Apart(t)
  BY <1>3, EventListsOf DEF ListInv, ListsInv, AllApart
<1>5. Good(events[l]) /\ t \notin ToSet(events[l]) /\ DOMAIN events = EventLists
  BY <1>3, <1>4 DEF ListTypes, Apart
<1>6. \A u \in AllTasks : evalue[u] \in Int
  BY <1>4, TasksAssumption DEF InTurn, ListTypes, Priorities
<1>7. Ascending(Insert(events[l], t, evalue), evalue)
  BY <1>3, <1>4, <1>5, <1>6, AscendingInsert DEF InTurn
<1> HIDE DEF l
<1>8. \A m \in EventLists : Ascending(events'[m], evalue)
  BY <1>1, <1>4, <1>5, <1>7 DEF InTurn
<1> QED BY <1>1, <1>8 DEF InTurn

(* Without mutexes nobody holds one.                                       *)
LEMMA NoHoldersNext ==
  ASSUME FixedPriorities, QueueInv, NoHolders, [Next]_vars
  PROVE  NoHolders'
<1>1. DOMAIN pxMutexHolder = Queues /\ Mutexes = {}
  BY DEF QueueInv, Shapes, FixedPriorities
<1>2. ASSUME UNCHANGED pxMutexHolder PROVE NoHolders'
  BY <1>2 DEF NoHolders
<1>3. ASSUME NEW t, NEW c, Test(t, c) PROVE NoHolders'
  <2>1. CASE SendNow(t, c)
    BY <1>1, <2>1 DEF SendNow, NoHolders
  <2>2. CASE ReceiveNow(t, c)
    BY <1>1, <1>2, <2>2 DEF ReceiveNow
  <2> QED BY <1>2, <1>3, <2>1, <2>2 DEF Test
<1>4. CASE TaskNext /\ UNCHANGED queueVars
  BY <1>2, <1>4 DEF queueVars, queues
<1>5. CASE QueueInterrupt
  BY <1>2, <1>5 DEF QueueInterrupt, SendFromISR, ReceiveFromISR, FromISRUnchanged
<1>6. ASSUME NEW t \in Task, QueueStep(t) PROVE NoHolders'
  BY <1>2, <1>3, <1>6 DEF QueueStep, Begin, Again, CallSuspendAll, LockQueue, Check, Inherit, Place,
                          UnlockTx, UnlockRx, CallResumeAll, queueVars, queues
<1>7. CASE UNCHANGED vars
  BY <1>2, <1>7 DEF vars, queueVars, queues
<1> QED BY <1>4, <1>5, <1>6, <1>7 DEF Next

(* Every step.                                                             *)
LEMMA InTurnNext ==
  ASSUME FixedPriorities, QueueInv, ListInv, InTurn, NoHolders, [Next]_vars
  PROVE  InTurn'
<1>1. ListsInv /\ ListTypes
  BY DEF ListInv, ListsInv
<1>2. ASSUME UNCHANGED <<events, prio, evalue>> PROVE InTurn'
  BY <1>2 DEF InTurn, Ascending
<1>3. CASE TaskNext
  BY <1>1, <1>3, TaskNextInTurn
<1>4. CASE QueueInterrupt
  <2>1. PICK q \in Queues :
          ReceiveFromISR(q) \/ \E i \in Items, p \in {"back", "front"} : SendFromISR(q, i, p)
    BY <1>4 DEF QueueInterrupt
  <2>2. UNCHANGED <<prio, evalue>>
    BY <2>1 DEF ReceiveFromISR, SendFromISR, FromISRUnchanged, priorities
  <2>3. \E l \in EventLists : \E lock : WakeFromISR(l, lock)
    <3>1. <<q, "send">> \in EventLists /\ <<q, "receive">> \in EventLists
      BY QueueAssumption
    <3> QED BY <2>1, <3>1 DEF ReceiveFromISR, SendFromISR
  <2>4. PICK l \in EventLists : UNCHANGED events \/ RemoveFromEventList(l, 1)
    BY <2>3 DEF WakeFromISR, eventItems
  <2> QED BY <1>1, <1>2, <2>2, <2>4, RemoveFromEventListLeaves, LeavingInTurn
<1>5. ASSUME NEW t \in Task, QueueStep(t) PROVE InTurn'
  <2>1. ASSUME NEW c \in Arguments(t), Begin(t, c) PROVE InTurn'
    <3>1. IsCall(c) /\ Test(t, c)
      BY <2>1 DEF Arguments, IsCall, Begin, UsesMutexProperly
    <3> QED BY <1>1, <3>1, TestInTurn
  <2>2. CASE Again(t)
    <3>1. Test(t, call[t]) /\ pc[t] \in InACall
      BY <2>2 DEF Again, InACall
    <3>2. IsCall(call[t])
      BY <3>1 DEF QueueInv, Calling
    <3> QED BY <1>1, <3>1, <3>2, TestInTurn
  <2>3. CASE CallSuspendAll(t) \/ LockQueue(t) \/ Check(t)
    BY <1>2, <2>3 DEF CallSuspendAll, LockQueue, Check, ListsUnchanged, eventItems, priorities
  <2>4. ~Inherit(t)
    <3> SUFFICES ASSUME Inherit(t) PROVE FALSE
      OBVIOUS
    <3>1. pc[t] = "inherit" /\ pc[t] \in InACall
      BY DEF Inherit, At, InACall
    <3>2. call[t].queue \in Queues
      BY <3>1 DEF QueueInv, Calling, IsCall
    <3>3. pxMutexHolder[call[t].queue] # Null
      BY <3>1 DEF ListInv, Placing
    <3> QED BY <3>2, <3>3 DEF NoHolders
  <2>5. CASE Place(t)
    BY <2>5, PlaceInTurn
  <2>6. CASE UnlockTx(t) \/ UnlockRx(t)
    <3>1. pc[t] \in InACall
      BY <2>6 DEF UnlockTx, UnlockRx, At, InACall
    <3>2. IsCall(call[t])
      BY <3>1 DEF QueueInv, Calling
    <3>3. PICK l \in EventLists : \E n : RemoveFromEventList(l, n)
      BY <2>6, <3>2, EventListsOf DEF UnlockTx, UnlockRx, UnlockSide
    <3>4. UNCHANGED <<prio, evalue>>
      BY <2>6 DEF UnlockTx, UnlockRx
    <3> QED BY <1>1, <3>3, <3>4, RemoveFromEventListLeaves, LeavingInTurn
  <2>7. CASE CallResumeAll(t)
    <3>1. PICK yield : ResumeAll(yield)
      BY <2>7 DEF CallResumeAll
    <3> QED BY <1>2, <3>1 DEF ResumeAll, priorities
  <2> QED BY <1>5, <2>1, <2>2, <2>3, <2>4, <2>5, <2>6, <2>7 DEF QueueStep
<1>6. CASE UNCHANGED vars
  BY <1>2, <1>6 DEF vars, taskVars, eventItems, priorities
<1> QED BY <1>3, <1>4, <1>5, <1>6 DEF Next

(* HighestFirst: in each list of tasks that wait for an event they are in  *)
(* the order of their priorities, so that the highest is woken first, if   *)
(* no priority changes while its task waits.                               *)
THEOREM HighestIsFirst == FixedPriorities => (Spec => []HighestFirst)
<1> SUFFICES ASSUME FixedPriorities PROVE Spec => []HighestFirst
  OBVIOUS
<1> DEFINE Inv == QueueInv /\ ListInv /\ InTurn /\ NoHolders
<1>1. Init => Inv
  <2>1. Init => InTurn /\ NoHolders
    <3> SUFFICES ASSUME Init PROVE InTurn /\ NoHolders
      OBVIOUS
    <3>1. /\ \A l \in EventLists : events[l] = <<>>
          /\ prio = Priority /\ evalue = [t \in AllTasks |-> MaxPriorities - Priority[t]]
          /\ \A q \in Queues : pxMutexHolder[q] = Null
      BY DEF Init, TaskInit
    <3> QED BY <3>1 DEF InTurn, NoHolders, Ascending
  <2> QED BY <2>1, QueueInitially, ListsInitially
<1>2. Inv /\ [Next]_vars => Inv'
  BY QueueNext, ListsNext, InTurnNext, NoHoldersNext
<1>3. Inv => HighestFirst
  <2> SUFFICES ASSUME Inv, NEW l \in EventLists, NEW i \in DOMAIN events[l],
                      NEW j \in DOMAIN events[l], i < j
               PROVE  prio[events[l][i]] >= prio[events[l][j]]
    BY DEF HighestFirst
  <2>1. Good(events[l]) /\ DOMAIN events[l] = 1 .. Len(events[l])
    BY GoodFacts DEF ListInv, ListsInv, ListTypes
  <2>2. events[l][i] \in AllTasks /\ events[l][j] \in AllTasks
    BY <2>1, GoodFacts
  <2>3. evalue[events[l][i]] <= evalue[events[l][j]]
    BY <2>1 DEF InTurn, Ascending
  <2>4. /\ prio[events[l][i]] \in Int /\ prio[events[l][j]] \in Int /\ MaxPriorities \in Int
        /\ evalue[events[l][i]] = MaxPriorities - prio[events[l][i]]
        /\ evalue[events[l][j]] = MaxPriorities - prio[events[l][j]]
    BY <2>2, TasksAssumption DEF InTurn, ListInv, ListsInv, ListTypes, Priorities
  <2> QED BY <2>3, <2>4
<1> QED BY <1>1, <1>2, <1>3, PTL DEF Spec

-----------------------------------------------------------------------------
(* Messages, room and those that wait for them.                            *)

(* A list of tasks has as many as it is long.                              *)
LEMMA GoodSize ==
  ASSUME NEW s, Good(s)
  PROVE  IsFiniteSet(ToSet(s)) /\ Cardinality(ToSet(s)) = Len(s) /\ Len(s) \in Nat
<1>1. /\ Len(s) \in Nat /\ DOMAIN s = 1 .. Len(s) /\ s \in [1 .. Len(s) -> AllTasks]
      /\ \A i, j \in 1 .. Len(s) : s[i] = s[j] => i = j
  BY GoodFacts DEF Good
<1>2. /\ ToSet(s) = {s[i] : i \in 1 .. Len(s)}
      /\ s \in [1 .. Len(s) -> ToSet(s)]
  BY <1>1 DEF ToSet
<1>3. s \in Surjection(1 .. Len(s), ToSet(s)) /\ s \in Injection(1 .. Len(s), ToSet(s))
  BY <1>1, <1>2 DEF Surjection, Injection, IsInjective
<1>4. IsFiniteSet(1 .. Len(s)) /\ Cardinality(1 .. Len(s)) = Len(s)
  BY <1>1, FS_Interval
<1> QED BY <1>1, <1>3, <1>4, FS_Surjection

(* Some leave a set, others enter it.                                      *)
LEMMA Replacing ==
  ASSUME NEW A, NEW B, NEW lost, NEW gained, IsFiniteSet(A), IsFiniteSet(B), IsFiniteSet(lost),
         IsFiniteSet(gained), gained \cap A = {}, (A \ lost) \cup gained \subseteq B
  PROVE  /\ Cardinality(A) \in Nat /\ Cardinality(B) \in Nat
         /\ Cardinality(lost) \in Nat /\ Cardinality(gained) \in Nat
         /\ Cardinality(A) + Cardinality(gained) <= Cardinality(B) + Cardinality(lost)
<1> DEFINE kept == A \ lost
           both == A \cap lost
<1>1. /\ Cardinality(A) \in Nat /\ Cardinality(B) \in Nat
      /\ Cardinality(lost) \in Nat /\ Cardinality(gained) \in Nat
  BY FS_CardinalityType
<1>2. IsFiniteSet(kept) /\ IsFiniteSet(both)
  BY FS_Subset
<1>3. Cardinality(kept) \in Nat /\ Cardinality(both) \in Nat
  BY <1>2, FS_CardinalityType
<1>4. Cardinality(kept) = Cardinality(A) - Cardinality(both)
  BY FS_Difference
<1>5. Cardinality(both) <= Cardinality(lost)
  BY FS_Subset
<1>6. Cardinality(kept \cup gained) = Cardinality(kept) + Cardinality(gained)
  <2>1. kept \cap gained = {}
    OBVIOUS
  <2>2. Cardinality(kept \cap gained) = 0
    BY <2>1, FS_EmptySet
  <2>3. Cardinality(kept \cup gained)
           = Cardinality(kept) + Cardinality(gained) - Cardinality(kept \cap gained)
    BY <1>2, FS_Union
  <2> HIDE DEF kept
  <2> QED BY <1>1, <1>3, <2>2, <2>3
<1>7. Cardinality(kept \cup gained) <= Cardinality(B)
  BY FS_Subset
<1> HIDE DEF kept, both
<1> QED BY <1>1, <1>3, <1>4, <1>5, <1>6, <1>7

(* What those that wait in a list wait for, and the count of its lock.     *)
Avail(l) ==
    IF l[2] = "receive" THEN Len(messages[l[1]]) ELSE Length[l[1]] - Len(messages[l[1]])
Lock(l) == IF l[2] = "receive" THEN xTxLock[l[1]] ELSE xRxLock[l[1]]

(* Where a task is that has entered a list, or found that it need not.     *)
Turning == {"unlockTx", "unlockRx", "resumeAll", "test"}

(* Those that will test the queue before they wait again.                  *)
Woken(l) ==
    {t \in Task : /\ pc[t] \in Turning /\ List(call[t]) = l /\ t \notin ToSet(events[l])
                  /\ call[t].outcome # "timeout"}

Served(l) == events[l] # <<>> => Avail(l) <= Cardinality(Woken(l)) + Counted(Lock(l))

(* Who is in a list came there by its call.                                *)
Waiters ==
    \A l \in EventLists : \A t \in ToSet(events[l]) :
        t \in Task /\ pc[t] \in Turning /\ List(call[t]) = l /\ call[t].outcome = "wait"

(* A task that is about to wait has locked the queue.                      *)
LockedHere ==
    \A t \in Task : /\ pc[t] \in LockedForTx => xTxLock[call[t].queue] # Unlocked
                    /\ pc[t] \in LockedForRx => xRxLock[call[t].queue] # Unlocked

(* It found nothing, and what came since is counted.                       *)
NothingYet ==
    \A t \in Task : pc[t] \in {"inherit", "place"} =>
                       Avail(List(call[t])) <= Counted(Lock(List(call[t])))

ServedInv == Waiters /\ LockedHere /\ NothingYet /\ \A l \in EventLists : Served(l)

(* Lists are those of the two sides of a queue.                            *)
LEMMA ListParts ==
  ASSUME NEW l \in EventLists
  PROVE  l[1] \in Queues /\ l[2] \in {"send", "receive"} /\ l = <<l[1], l[2]>>
BY QueueAssumption

(* The list a call waits in.                                               *)
LEMMA CallParts ==
  ASSUME NEW c, IsCall(c)
  PROVE  /\ List(c) \in EventLists /\ List(c)[1] = c.queue /\ c.queue \in Queues
         /\ List(c)[2] = Side(c) /\ Side(c) = (IF c.kind = "send" THEN "send" ELSE "receive")
BY QueueAssumption DEF IsCall, List, Side

(* What the invariant counts with are numbers.                             *)
LEMMA Numbers ==
  ASSUME QueueInv, CallTypes, NEW l \in EventLists
  PROVE  /\ Avail(l) \in Int /\ Lock(l) \in Int /\ Lock(l) >= -1 /\ Counted(Lock(l)) \in Nat
<1>1. l[1] \in Queues
  BY ListParts
<1>2. Len(messages[l[1]]) \in Nat /\ Length[l[1]] \in Nat
  BY <1>1, QueueAssumption DEF QueueInv, Bounded
<1>3. xTxLock[l[1]] \in Unlocked .. MaxLock /\ xRxLock[l[1]] \in Unlocked .. MaxLock
  BY <1>1 DEF CallTypes
<1>4. \A k \in Unlocked .. MaxLock : k \in Int /\ k >= -1 /\ Counted(k) \in Nat
  BY LockBounds DEF Counted
<1> QED BY <1>2, <1>3, <1>4 DEF Avail, Lock

(* So they are after a step.                                               *)
LEMMA NumbersAfter ==
  ASSUME QueueInv', CallTypes', NEW l \in EventLists
  PROVE  Avail(l)' \in Int /\ Counted(Lock(l))' \in Nat
<1>1. l[1] \in Queues
  BY ListParts
<1>2. Len(messages'[l[1]]) \in Nat /\ Length[l[1]] \in Nat
  BY <1>1, QueueAssumption DEF QueueInv, Bounded
<1>3. xTxLock'[l[1]] \in Unlocked .. MaxLock /\ xRxLock'[l[1]] \in Unlocked .. MaxLock
  BY <1>1 DEF CallTypes
<1>4. \A k \in Unlocked .. MaxLock : Counted(k) \in Nat
  BY LockBounds DEF Counted
<1>5. Avail(l)' = (IF l[2] = "receive" THEN Len(messages'[l[1]]) ELSE Length[l[1]] - Len(messages'[l[1]]))
      /\ Counted(Lock(l))' = Counted(IF l[2] = "receive" THEN xTxLock'[l[1]] ELSE xRxLock'[l[1]])
  BY DEF Avail, Lock, Counted, Unlocked
<1> QED BY <1>2, <1>3, <1>4, <1>5

(* What has to be shown of a step for one list: who does not count among   *)
(* the woken any more, and who does.                                       *)
LEMMA Serving ==
  ASSUME QueueInv, CallTypes, QueueInv', CallTypes', NEW l \in EventLists, Served(l),
         NEW lost \in SUBSET Task, NEW gained \in SUBSET Task, gained \cap Woken(l) = {},
         (Woken(l) \ lost) \cup gained \subseteq Woken(l)',
         events'[l] # <<>> =>
            /\ events[l] # <<>>
            /\ Avail(l)' - Counted(Lock(l))' + Cardinality(lost)
                  <= Avail(l) - Counted(Lock(l)) + Cardinality(gained)
  PROVE  Served(l)'
<1>1. Woken(l) \subseteq Task /\ Woken(l)' \subseteq Task /\ IsFiniteSet(Task)
  BY TasksAssumption DEF Woken
<1>2. IsFiniteSet(Woken(l)) /\ IsFiniteSet(Woken(l)') /\ IsFiniteSet(lost) /\ IsFiniteSet(gained)
  BY <1>1, FS_Subset
<1>3. /\ Cardinality(Woken(l)) \in Nat /\ Cardinality(Woken(l)') \in Nat
      /\ Cardinality(lost) \in Nat /\ Cardinality(gained) \in Nat
      /\ Cardinality(Woken(l)) + Cardinality(gained) <= Cardinality(Woken(l)') + Cardinality(lost)
  BY <1>2, Replacing
<1>4. Avail(l) \in Int /\ Counted(Lock(l)) \in Int /\ Avail(l)' \in Int /\ Counted(Lock(l))' \in Int
  BY Numbers, NumbersAfter
<1> DEFINE a == Avail(l)
           k == Counted(Lock(l))
           b == Avail(l)'
           m == Counted(Lock(l))'
           w == Cardinality(Woken(l))
           v == Cardinality(Woken(l)')
<1>5. SUFFICES ASSUME events'[l] # <<>> PROVE b <= v + m
  BY DEF Served
<1>6. a <= w + k
  BY <1>5 DEF Served
<1> HIDE DEF a, k, b, m, w, v
<1>7. b - m + Cardinality(lost) <= a - k + Cardinality(gained)
  BY <1>5 DEF a, k, b, m
<1>8. a \in Int /\ k \in Int /\ b \in Int /\ m \in Int /\ w \in Int /\ v \in Int
      /\ w + Cardinality(gained) <= v + Cardinality(lost)
  BY <1>3, <1>4 DEF a, k, b, m, w, v
<1> QED BY <1>3, <1>6, <1>7, <1>8

(* Those that are taken from a list are woken: as many as are asked for,   *)
(* or all.                                                                 *)
LEMMA Waking ==
  ASSUME ListTypes, Waiters, NEW l \in EventLists, NEW n \in Nat
  PROVE  LET gained == ToSet(Waiting(l, n))
         IN  /\ gained \in SUBSET Task /\ gained \subseteq ToSet(events[l])
             /\ gained \cap Woken(l) = {}
             /\ Without(events[l], gained) # <<>> =>
                   events[l] # <<>> /\ Cardinality(gained) = n
<1> DEFINE s == events[l]
           gained == ToSet(Waiting(l, n))
           m == IF n > Len(s) THEN Len(s) ELSE n
<1>1. Good(s) /\ Good(Waiting(l, n)) /\ gained \subseteq ToSet(s)
  BY WaitingFacts DEF ListTypes
<1>2. gained \in SUBSET Task /\ gained \cap Woken(l) = {}
  BY <1>1 DEF Waiters, Woken
<1>3. Good(Without(s, gained)) /\ ToSet(Without(s, gained)) = ToSet(s) \ gained
  BY <1>1, GoodWithout
<1>4. Len(s) \in Nat /\ m \in 0 .. Len(s) /\ Waiting(l, n) = SubSeq(s, 1, m)
  BY <1>1, GoodFacts DEF Waiting
<1>5. Len(Waiting(l, n)) = m
  BY <1>1, <1>4, SubSeqProperties, Z3 DEF Good
<1>6. IsFiniteSet(gained) /\ Cardinality(gained) = m /\ IsFiniteSet(ToSet(s)) /\ Cardinality(ToSet(s)) = Len(s)
  BY <1>1, <1>5, GoodSize
<1>7. ASSUME Without(s, gained) # <<>> PROVE s # <<>> /\ Cardinality(gained) = n
  <2>1. ToSet(s) \ gained # {}
    BY <1>3, <1>7, GoodFacts
  <2>2. s # <<>>
    BY <1>1, <2>1, GoodFacts
  <2>3. Cardinality(gained) # Cardinality(ToSet(s))
    BY <1>1, <1>6, <2>1, FS_Subset
  <2> HIDE DEF s, gained
  <2> QED BY <1>4, <1>6, <2>2, <2>3
<1> HIDE DEF s
<1> QED BY <1>1, <1>2, <1>7 DEF s

(* A woken task, or one that waits, goes on with its call.                 *)
StaysWoken(u) ==
    pc[u] \in Turning /\ call[u].outcome # "timeout" =>
        /\ pc'[u] \in Turning /\ List(call'[u]) = List(call[u])
        /\ call'[u].outcome = call[u].outcome

(* Nobody has to be woken where there is nothing but what is counted.      *)
LEMMA CountedServes ==
  ASSUME QueueInv', CallTypes', NEW l \in EventLists, Avail(l)' <= Counted(Lock(l))'
  PROVE  Served(l)'
<1>1. Woken(l)' \subseteq Task
  BY DEF Woken
<1>2. Cardinality(Woken(l)') \in Nat
  BY <1>1, TasksAssumption, FS_Subset, FS_CardinalityType
<1>3. Avail(l)' \in Int /\ Counted(Lock(l))' \in Int
  BY NumbersAfter
<1>4. \A a, k \in Int, w \in Nat : a <= k => a <= w + k
  OBVIOUS
<1>5. Avail(l)' <= Cardinality(Woken(l)') + Counted(Lock(l))'
  BY <1>2, <1>3, <1>4
<1> QED BY <1>5 DEF Served

(* A step in which nobody begins to wait: what is spent and what is woken, *)
(* list by list.                                                           *)
LEMMA StepServes ==
  ASSUME QueueInv, CallTypes, QueueInv', CallTypes', ListTypes, Waiters,
         \A l \in EventLists : Served(l),
         NEW lost \in [EventLists -> SUBSET Task], NEW n \in [EventLists -> Nat],
         \A l \in EventLists :
            /\ \/ n[l] = 0 /\ events'[l] = events[l]
               \/ n[l] = 0 /\ \E us : events'[l] = Without(events[l], us)
               \/ events'[l] = Without(events[l], ToSet(Waiting(l, n[l])))
            /\ \A u \in Woken(l) \ lost[l] : StaysWoken(u)
            /\ \A u \in ToSet(events[l]) : StaysWoken(u)
            /\ \/ Avail(l)' <= Counted(Lock(l))'
               \/ Avail(l)' - Counted(Lock(l))' + Cardinality(lost[l])
                     <= Avail(l) - Counted(Lock(l)) + n[l]
  PROVE  Waiters' /\ \A l \in EventLists : Served(l)'
<1>1. ASSUME NEW l \in EventLists
      PROVE  Served(l)' /\ ToSet(events'[l]) \subseteq ToSet(events[l])
  <2>1. Good(events[l]) /\ n[l] \in Nat /\ lost[l] \in SUBSET Task
    BY DEF ListTypes
  <2>2. PICK gained \in SUBSET Task :
          /\ gained \subseteq ToSet(events[l]) /\ gained \cap Woken(l) = {}
          /\ ToSet(events'[l]) \subseteq ToSet(events[l]) \ gained
          /\ events'[l] # <<>> => events[l] # <<>> /\ Cardinality(gained) = n[l]
    <3>1. CASE n[l] = 0 /\ ToSet(events'[l]) \subseteq ToSet(events[l])
                        /\ (events'[l] # <<>> => events[l] # <<>>)
      <4>1. Cardinality({}) = 0
        BY FS_EmptySet
      <4> QED BY <3>1, <4>1
    <3>2. CASE events'[l] = Without(events[l], ToSet(Waiting(l, n[l])))
      <4> DEFINE g == ToSet(Waiting(l, n[l]))
      <4>1. /\ g \in SUBSET Task /\ g \subseteq ToSet(events[l]) /\ g \cap Woken(l) = {}
            /\ Without(events[l], g) # <<>> => events[l] # <<>> /\ Cardinality(g) = n[l]
        BY <2>1, Waking
      <4>2. ToSet(Without(events[l], g)) = ToSet(events[l]) \ g
        BY <2>1, GoodWithout
      <4> HIDE DEF g
      <4>3. events'[l] = Without(events[l], g)
        BY <3>2 DEF g
      <4> QED BY <4>1, <4>2, <4>3
    <3>3. ASSUME NEW us, n[l] = 0, events'[l] = Without(events[l], us)
          PROVE  ToSet(events'[l]) \subseteq ToSet(events[l]) /\ (events'[l] # <<>> => events[l] # <<>>)
      <4>1. Good(events'[l]) /\ ToSet(events'[l]) = ToSet(events[l]) \ us
        BY <2>1, <3>3, GoodWithout
      <4>2. (events'[l] # <<>> => ToSet(events'[l]) # {}) /\ (ToSet(events[l]) # {} => events[l] # <<>>)
        BY <2>1, <4>1, GoodFacts
      <4> QED BY <4>1, <4>2
    <3> QED BY <3>1, <3>2, <3>3
  <2>3. (Woken(l) \ lost[l]) \cup gained \subseteq Woken(l)'
    <3> SUFFICES ASSUME NEW u \in (Woken(l) \ lost[l]) \cup gained PROVE u \in Woken(l)'
      OBVIOUS
    <3>1. /\ u \in Task /\ pc[u] \in Turning /\ List(call[u]) = l /\ call[u].outcome # "timeout"
          /\ StaysWoken(u) /\ u \notin ToSet(events'[l])
      BY <2>2 DEF Waiters, Woken
    <3> QED BY <3>1 DEF StaysWoken, Woken, List, Side
  <2>4. ASSUME Avail(l)' - Counted(Lock(l))' + Cardinality(lost[l])
                  <= Avail(l) - Counted(Lock(l)) + n[l]
        PROVE  Served(l)'
    <3>1. events'[l] # <<>> =>
              /\ events[l] # <<>>
              /\ Avail(l)' - Counted(Lock(l))' + Cardinality(lost[l])
                    <= Avail(l) - Counted(Lock(l)) + Cardinality(gained)
      BY <2>2, <2>4
    <3> QED BY <2>1, <2>2, <2>3, <3>1, Serving
  <2>5. Served(l)'
    BY <2>4, CountedServes
  <2> QED BY <2>2, <2>5
<1>2. Waiters'
  <2> SUFFICES ASSUME NEW l \in EventLists, NEW u \in ToSet(events'[l])
               PROVE  /\ u \in Task /\ pc'[u] \in Turning /\ List(call'[u]) = l
                      /\ call'[u].outcome = "wait"
    BY DEF Waiters, List, Side
  <2>1. u \in ToSet(events[l])
    BY <1>1
  <2>2. u \in Task /\ pc[u] \in Turning /\ List(call[u]) = l /\ call[u].outcome = "wait"
    BY <2>1 DEF Waiters
  <2> QED BY <2>1, <2>2 DEF StaysWoken
<1> QED BY <1>1, <1>2

(* Steps that change no message and no count.                              *)
LEMMA QuietServes ==
  ASSUME QueueInv, CallTypes, QueueInv', CallTypes', ListTypes, Waiters,
         \A l \in EventLists : Served(l), OnlyLeave, \A u \in Task : StaysWoken(u),
         \A l \in EventLists : Avail(l)' = Avail(l) /\ Counted(Lock(l))' = Counted(Lock(l))
  PROVE  Waiters' /\ \A l \in EventLists : Served(l)'
<1> DEFINE lost == [l \in EventLists |-> {}]
           n == [l \in EventLists |-> 0]
<1>1. lost \in [EventLists -> SUBSET Task] /\ n \in [EventLists -> Nat]
  OBVIOUS
<1>2. \A l \in EventLists : lost[l] = {} /\ n[l] = 0 /\ Cardinality({}) = 0
  BY FS_EmptySet
<1> HIDE DEF lost, n
<1>3. ASSUME NEW l \in EventLists
      PROVE  /\ \/ n[l] = 0 /\ events'[l] = events[l]
                \/ n[l] = 0 /\ \E us : events'[l] = Without(events[l], us)
                \/ events'[l] = Without(events[l], ToSet(Waiting(l, n[l])))
             /\ \A u \in Woken(l) \ lost[l] : StaysWoken(u)
             /\ \A u \in ToSet(events[l]) : StaysWoken(u)
             /\ \/ Avail(l)' <= Counted(Lock(l))'
                \/ Avail(l)' - Counted(Lock(l))' + Cardinality(lost[l])
                      <= Avail(l) - Counted(Lock(l)) + n[l]
  <2>1. Avail(l) \in Int /\ Counted(Lock(l)) \in Int
    BY Numbers
  <2>2. Avail(l)' - Counted(Lock(l))' + Cardinality(lost[l])
                   <= Avail(l) - Counted(Lock(l)) + n[l]
    <3>1. Avail(l)' = Avail(l) /\ Counted(Lock(l))' = Counted(Lock(l)) /\ Cardinality(lost[l]) = 0 /\ n[l] = 0
      BY <1>2
    <3>2. \A a \in Int, k \in Int : a - k + 0 <= a - k + 0
      OBVIOUS
    <3> QED BY <2>1, <3>1, <3>2
  <2> QED BY <1>2, <2>2 DEF OnlyLeave, Waiters, Woken
<1> QED BY <1>1, <1>3, StepServes

(* Of the tasks in a call with the scheduler suspended there is only the   *)
(* running one.                                                            *)
LEMMA RunningServes ==
  ASSUME QueueInv', NEW t \in Task, t = pxCurrentTCB',
         pc'[t] \in LockedForTx => xTxLock'[call'[t].queue] # Unlocked,
         pc'[t] \in LockedForRx => xRxLock'[call'[t].queue] # Unlocked,
         pc'[t] \in {"inherit", "place"} =>
            Avail(List(call[t]))' <= Counted(Lock(List(call[t])))'
  PROVE  LockedHere' /\ NothingYet'
<1>1. \A u \in Task : pc'[u] \in Suspending => u = t
  BY DEF QueueInv, InSuspension, AllTasks
<1>2. LockedForTx \subseteq Suspending /\ LockedForRx \subseteq Suspending
      /\ {"inherit", "place"} \subseteq Suspending
  BY DEF LockedForTx, LockedForRx, Suspending
<1> QED BY <1>1, <1>2 DEF LockedHere, NothingYet

(* No task is created or deleted.                                          *)
TasksStay == \A t \in Task : "xTaskCreate" \notin Calls[t] /\ "vTaskDelete" \notin Calls[t]

(* The scheduler puts no task in a list of an event.                       *)
LEMMA TaskNextLeaves ==
  ASSUME TaskNext
  PROVE  OnlyLeave
<1>1. ASSUME UNCHANGED events PROVE OnlyLeave
  BY <1>1 DEF OnlyLeave
<1>2. CASE Interrupt
  <2>1. CASE Tick
    BY <1>1, <2>1, IncrementTickLeaves DEF Tick, eventItems
  <2>2. CASE \E u \in Task : ResumeFromISR(u)
    BY <1>1, <2>2 DEF ResumeFromISR
  <2> QED BY <1>2, <2>1, <2>2 DEF Interrupt
<1>3. CASE CatchUp
  BY <1>3, IncrementTickLeaves DEF CatchUp
<1>4. CASE Switch
  BY <1>1, <1>4 DEF Switch, eventItems
<1>5. CASE IdleStep
  BY <1>1, <1>5 DEF IdleStep, IdleYield, IdleBegin, IdleResume, IdleFree, ResumeAll, eventItems
<1>6. ASSUME NEW t \in Task, ApiCall(t) PROVE OnlyLeave
  <2>1. CASE TaskSuspendAll(t) \/ TaskResumeAll(t) \/ DelayResume(t)
    BY <1>1, <2>1 DEF TaskSuspendAll, TaskResumeAll, DelayResume, ResumeAll, eventItems
  <2>2. CASE \E d \in DelayTimes : Delay(t, d) \/ DelayUntil(t, d)
    BY <1>1, <2>2 DEF Delay, DelayUntil, eventItems
  <2>3. ASSUME NEW u \in Task, Delete(t, u) \/ Suspend(t, u) PROVE OnlyLeave
    BY <2>3 DEF Delete, Suspend, RemoveFromLists, OnlyLeave
  <2>4. CASE \E u \in Task : Create(t, u) \/ Resume(t, u)
    BY <1>1, <2>4 DEF Create, Resume, eventItems
  <2>5. CASE \E u \in Task, p \in NewPriorities : PrioritySet(t, u, p)
    BY <1>1, <2>5 DEF PrioritySet, eventItems
  <2> QED BY <1>6, <2>1, <2>2, <2>3, <2>4, <2>5 DEF ApiCall
<1> QED BY <1>2, <1>3, <1>4, <1>5, <1>6 DEF TaskNext

(* The scheduler.                                                          *)
LEMMA SchedulerServes ==
  ASSUME TasksStay, QueueInv, CallTypes, QueueInv', CallTypes', ListTypes, ServedInv,
         TaskNext, UNCHANGED queueVars
  PROVE  ServedInv'
<1>1. UNCHANGED <<messages, xRxLock, xTxLock, call>>
  BY DEF queueVars, queues
<1>2. \A u \in Task : pc'[u] = pc[u] \/ (pc[u] \notin InACall /\ pc'[u] \notin InACall)
  BY SchedulerLeavesCalls DEF QueueInv, TasksStay
<1>3. Turning \subseteq InACall /\ LockedForTx \subseteq InACall /\ LockedForRx \subseteq InACall
      /\ {"inherit", "place"} \subseteq InACall
  BY DEF Turning, InACall, LockedForTx, LockedForRx
<1>4. \A u \in Task : StaysWoken(u)
  BY <1>1, <1>2, <1>3 DEF StaysWoken
<1>5. \A l : Avail(l)' = Avail(l) /\ Lock(l)' = Lock(l) /\ Counted(Lock(l))' = Counted(Lock(l))
  BY <1>1 DEF Avail, Lock, Counted, Unlocked
<1>6. Waiters' /\ \A l \in EventLists : Served(l)'
  BY <1>4, <1>5, TaskNextLeaves, QuietServes DEF ServedInv
<1>7. LockedHere'
  BY <1>1, <1>2, <1>3 DEF ServedInv, LockedHere
<1>8. NothingYet'
  <2> SUFFICES ASSUME NEW u \in Task, pc'[u] \in {"inherit", "place"}
               PROVE  Avail(List(call[u]))' <= Counted(Lock(List(call[u])))'
    BY <1>1 DEF NothingYet
  <2>1. pc[u] \in {"inherit", "place"}
    BY <1>2, <1>3
  <2> QED BY <1>1, <2>1 DEF ServedInv, NothingYet, Avail, Lock, Counted, Unlocked, List, Side
<1> QED BY <1>6, <1>7, <1>8 DEF ServedInv

(* What is there for a call that is blocked: nothing.                      *)
LEMMA BlockedHasNothing ==
  ASSUME QueueInv, NEW c, IsCall(c)
  PROVE  /\ Blocked(c) => Avail(List(c)) = 0
         /\ ~Blocked(c) => Avail(List(c)) > 0
<1>1. /\ List(c)[1] = c.queue /\ c.queue \in Queues /\ List(c)[2] = Side(c)
      /\ Side(c) \in {"send", "receive"}
  BY CallParts
<1>2. Len(messages[c.queue]) \in Nat /\ Length[c.queue] \in Nat /\ Len(messages[c.queue]) <= Length[c.queue]
      /\ messages[c.queue] \in Seq(Items)
  BY <1>1, QueueAssumption DEF QueueInv, Bounded
<1>3. messages[c.queue] = <<>> <=> Len(messages[c.queue]) = 0
  BY <1>2
<1> QED BY <1>1, <1>2, <1>3 DEF Blocked, IsFull, IsEmpty, Avail

(* Suspending the scheduler, locking the queue, inheriting, the end.       *)
LEMMA QuietLoopServes ==
  ASSUME QueueInv, ListInv, CallTypes, QueueInv', CallTypes', ServedInv, NEW t \in Task,
         CallSuspendAll(t) \/ LockQueue(t) \/ Inherit(t) \/ CallResumeAll(t)
  PROVE  ServedInv'
<1>1. PICK from \in InACall, place \in InACall \cup {"run"} :
        /\ At(t, from, place)
        /\ \/ from = "suspend" /\ place = "lock"
           \/ from = "lock" /\ place = "check" /\ LockQueue(t)
           \/ from = "inherit" /\ place = "place"
           \/ /\ from = "resumeAll"
              /\ place = IF call[t].outcome = "timeout" THEN "run" ELSE "test"
  BY DEF CallSuspendAll, LockQueue, Inherit, CallResumeAll, InACall
<1>2. /\ UNCHANGED <<pxCurrentTCB, events, messages>>
      /\ \A u \in Task : u # t \/ call[t].outcome # "timeout" \/ from # "resumeAll" =>
            call'[u] = call[u]
      /\ LockQueue(t) \/ UNCHANGED <<xRxLock, xTxLock>>
  <2>1. CASE CallSuspendAll(t)
    BY <2>1 DEF CallSuspendAll, eventItems, queueVars, queues
  <2>3. CASE LockQueue(t)
    BY <2>3 DEF LockQueue, InCall, ListsUnchanged, eventItems
  <2>4. CASE Inherit(t)
    BY <2>4 DEF Inherit, InCall, eventItems, queueVars, queues
  <2>2. CASE CallResumeAll(t)
    <3>1. PICK yield : ResumeAll(yield)
      BY <2>2 DEF CallResumeAll
    <3>2. DOMAIN call = AllTasks /\ t \in AllTasks /\ from = "resumeAll"
      BY <1>1, <2>2 DEF QueueInv, Shapes, AllTasks, CallResumeAll, At
    <3> QED BY <2>2, <3>1, <3>2 DEF CallResumeAll, ResumeAll, queues, AllTasks
  <2> QED BY <2>1, <2>2, <2>3, <2>4
<1>3. /\ t = pxCurrentTCB /\ pc' = [pc EXCEPT ![t] = place] /\ pc[t] = from /\ pc'[t] = place
      /\ IsCall(call[t]) /\ call[t].queue \in Queues
  BY <1>1, LoopFacts
<1>4. LockQueue(t) =>
        /\ \A q \in Queues : \/ xRxLock'[q] = xRxLock[q]
                             \/ xRxLock[q] = Unlocked /\ xRxLock'[q] = Unmodified
        /\ \A q \in Queues : \/ xTxLock'[q] = xTxLock[q]
                             \/ xTxLock[q] = Unlocked /\ xTxLock'[q] = Unmodified
        /\ xRxLock'[call[t].queue] # Unlocked /\ xTxLock'[call[t].queue] # Unlocked
  BY <1>3 DEF LockQueue, QueueInv, Shapes, Unlocked, Unmodified
<1>5. ASSUME NEW l \in EventLists
      PROVE  Avail(l)' = Avail(l) /\ Counted(Lock(l))' = Counted(Lock(l))
  <2>1. l[1] \in Queues
    BY ListParts
  <2>2. Counted(Unlocked) = Counted(Unmodified)
    BY DEF Counted, Unlocked, Unmodified
  <2>3. Lock(l)' = Lock(l) \/ (Lock(l) = Unlocked /\ Lock(l)' = Unmodified)
    BY <1>2, <1>4, <2>1 DEF Lock
  <2>4. Counted(Lock(l))' = Counted(Lock(l)')
    BY DEF Counted, Unlocked
  <2> QED BY <1>2, <2>2, <2>3, <2>4 DEF Avail
<1>6. \A u \in Task : StaysWoken(u)
  <2> SUFFICES ASSUME NEW u \in Task PROVE StaysWoken(u)
    OBVIOUS
  <2>1. CASE u # t
    BY <1>2, <1>3, <2>1 DEF StaysWoken
  <2>2. CASE u = t /\ from # "resumeAll"
    BY <1>1, <1>3, <2>2 DEF StaysWoken, Turning
  <2>3. CASE u = t /\ from = "resumeAll"
    BY <1>1, <1>2, <1>3, <2>3 DEF StaysWoken, Turning
  <2> QED BY <2>1, <2>2, <2>3
<1>7. OnlyLeave
  BY <1>2 DEF OnlyLeave
<1>8. Waiters' /\ \A l \in EventLists : Served(l)'
  BY <1>5, <1>6, <1>7, QuietServes DEF ListInv, ListsInv, ServedInv
<1>9. /\ place \in LockedForTx => xTxLock'[call'[t].queue] # Unlocked
      /\ place \in LockedForRx => xRxLock'[call'[t].queue] # Unlocked
      /\ place \in {"inherit", "place"} =>
            Avail(List(call[t]))' <= Counted(Lock(List(call[t])))'
  <2>1. CASE from = "suspend" \/ from = "resumeAll"
    BY <1>1, <2>1 DEF LockedForTx, LockedForRx
  <2>2. CASE from = "lock"
    BY <1>1, <1>2, <1>4, <2>2
  <2>3. CASE from = "inherit" /\ place = "place"
    <3>1. call'[t] = call[t] /\ ~LockQueue(t) /\ UNCHANGED <<xRxLock, xTxLock>>
      BY <1>2, <1>3, <2>3 DEF LockQueue, At
    <3>2. Avail(List(call[t])) <= Counted(Lock(List(call[t])))
      BY <1>3, <2>3 DEF ServedInv, NothingYet
    <3>3. Avail(List(call[t]))' = Avail(List(call[t]))
          /\ Counted(Lock(List(call[t])))' = Counted(Lock(List(call[t])))
      BY <1>2, <3>1 DEF Avail, Lock, Counted, Unlocked, List, Side
    <3>4. "inherit" \in LockedForTx /\ "inherit" \in LockedForRx
      BY DEF LockedForTx, LockedForRx
    <3> QED BY <1>3, <2>3, <3>1, <3>2, <3>3, <3>4 DEF ServedInv, LockedHere
  <2> QED BY <1>1, <2>1, <2>2, <2>3
<1>10. LockedHere' /\ NothingYet'
  BY <1>2, <1>3, <1>9, RunningServes
<1> QED BY <1>8, <1>10 DEF ServedInv

(* The check of the time and of the queue.                                 *)
LEMMA CheckServes ==
  ASSUME QueueInv, ListInv, CallTypes, QueueInv', CallTypes', ServedInv, NEW t \in Task, Check(t)
  PROVE  ServedInv'
<1> DEFINE c == call[t]
           outcome == IF HasTimedOut(t) THEN "timeout" ELSE IF Blocked(c) THEN "wait" ELSE "retry"
           place == IF outcome # "wait" THEN "unlockTx"
                    ELSE IF c.queue \in Mutexes /\ Side(c) = "receive" THEN "inherit"
                    ELSE "place"
<1>1. /\ At(t, "check", place)
      /\ \E y : call' = [call EXCEPT ![t].outcome = outcome, ![t].wait = y]
      /\ UNCHANGED <<events, messages, pxCurrentTCB, xRxLock, xTxLock>>
  BY DEF Check, InCall, ListsUnchanged, eventItems, queues
<1>2. "check" \in InACall /\ "check" \notin Turning /\ "check" \in LockedForTx /\ "check" \in LockedForRx
  BY DEF InACall, Turning, LockedForTx, LockedForRx
<1>3. place \in {"inherit", "place"} => Blocked(c)
  OBVIOUS
<1> HIDE DEF place
<1>4. /\ t \in AllTasks /\ t = pxCurrentTCB /\ pc[t] = "check" /\ pc' = [pc EXCEPT ![t] = place]
      /\ pc'[t] = place /\ IsCall(c) /\ c.queue \in Queues
  BY <1>1, <1>2, LoopFacts
<1>5. /\ \A u \in Task \ {t} : call'[u] = call[u]
      /\ call'[t].queue = c.queue /\ List(call'[t]) = List(c)
  <2> HIDE DEF outcome
  <2>1. PICK y : call' = [call EXCEPT ![t].outcome = outcome, ![t].wait = y]
    BY <1>1
  <2>2. call'[t] = [call[t] EXCEPT !.outcome = outcome, !.wait = y]
    BY <1>4, <2>1 DEF QueueInv, Shapes
  <2>4. \A u \in Task \ {t} : call'[u] = call[u]
    BY <2>1 DEF QueueInv, Shapes, AllTasks
  <2>3. call'[t].queue = c.queue /\ call'[t].kind = c.kind
    BY <1>4, <2>2 DEF IsCall
  <2> QED BY <2>4, <2>3 DEF List, Side
<1> HIDE DEF outcome, c
<1>6. \A u \in Task : StaysWoken(u)
  BY <1>2, <1>4, <1>5 DEF StaysWoken
<1>7. \A l : Avail(l)' = Avail(l) /\ Counted(Lock(l))' = Counted(Lock(l))
  BY <1>1 DEF Avail, Lock, Counted, Unlocked
<1>8. OnlyLeave
  BY <1>1 DEF OnlyLeave
<1>9. Waiters' /\ \A l \in EventLists : Served(l)'
  BY <1>6, <1>7, <1>8, QuietServes DEF ListInv, ListsInv, ServedInv
<1>10. xTxLock'[call'[t].queue] # Unlocked /\ xRxLock'[call'[t].queue] # Unlocked
  BY <1>1, <1>2, <1>4, <1>5 DEF ServedInv, LockedHere, c
<1>11. place \in {"inherit", "place"} =>
          Avail(List(call[t]))' <= Counted(Lock(List(call[t])))'
  <2> SUFFICES ASSUME place \in {"inherit", "place"}
               PROVE  Avail(List(call[t]))' <= Counted(Lock(List(call[t])))'
    OBVIOUS
  <2>1. List(c) \in EventLists /\ Avail(List(c)) = 0
    BY <1>3, <1>4, CallParts, BlockedHasNothing
  <2>2. Counted(Lock(List(c))) \in Nat
    BY <2>1, Numbers
  <2>3. Avail(List(call[t]))' = Avail(List(c)) /\ Counted(Lock(List(call[t])))' = Counted(Lock(List(c)))
    BY <1>1, <1>5 DEF Avail, Lock, Counted, Unlocked, List, Side, c
  <2>4. \A k \in Nat : 0 <= k
    OBVIOUS
  <2> QED BY <2>1, <2>2, <2>3, <2>4
<1>12. LockedHere' /\ NothingYet'
  BY <1>1, <1>4, <1>10, <1>11, RunningServes
<1> QED BY <1>9, <1>12 DEF ServedInv

(* A task that enters a list has found nothing; what came since is counted.*)
LEMMA PlaceServes ==
  ASSUME QueueInv, ListInv, CallTypes, QueueInv', CallTypes', ServedInv, NEW t \in Task, Place(t)
  PROVE  ServedInv'
<1> DEFINE m == List(call[t])
<1>1. /\ At(t, "place", "unlockTx")
      /\ events' = [events EXCEPT ![m] = Insert(@, t, evalue)]
      /\ UNCHANGED <<messages, pxCurrentTCB, xRxLock, xTxLock, call>>
  BY DEF Place, PlaceOnEventList, InCall, queueVars, queues
<1>2. /\ "place" \in InACall /\ "place" \notin {"unlockTx", "unlockRx", "resumeAll"}
      /\ "place" \notin Turning /\ "unlockTx" \in Turning
      /\ "place" \in LockedForTx \cap LockedForRx
  BY DEF InACall, Turning, LockedForTx, LockedForRx
<1>3. /\ t \in AllTasks /\ t = pxCurrentTCB /\ pc[t] = "place" /\ pc' = [pc EXCEPT ![t] = "unlockTx"]
      /\ pc'[t] = "unlockTx" /\ IsReady(t) /\ IsCall(call[t])
  BY <1>1, <1>2, LoopFacts
<1>4. m \in EventLists /\ call[t].outcome = "wait"
  BY <1>3, CallParts DEF ListInv, Placing
<1> HIDE DEF m
<1>5. \A l \in EventLists : ToSet(events'[l]) = IF l = m THEN ToSet(events[l]) \cup {t} ELSE ToSet(events[l])
  <2>1. Good(events[m]) /\ t \notin ToSet(events[m]) /\ DOMAIN events = EventLists
    BY <1>3, <1>4 DEF ListInv, ListsInv, ListTypes, AllApart, Apart
  <2>2. ToSet(Insert(events[m], t, evalue)) = ToSet(events[m]) \cup {t}
    BY <1>3, <2>1, GoodInsert
  <2> QED BY <1>1, <2>1, <2>2
<1>6. \A u \in Task \ {t} : pc'[u] = pc[u] /\ call'[u] = call[u]
  BY <1>1, <1>3
<1>7. Waiters'
  <2> SUFFICES ASSUME NEW l \in EventLists, NEW u \in ToSet(events'[l])
               PROVE  /\ u \in Task /\ pc'[u] \in Turning /\ List(call'[u]) = l
                      /\ call'[u].outcome = "wait"
    BY DEF Waiters, List, Side
  <2>1. CASE u = t /\ l = m
    BY <1>1, <1>2, <1>3, <1>4, <2>1 DEF m
  <2>2. CASE u \in ToSet(events[l])
    <3>1. u \in Task /\ pc[u] \in Turning /\ List(call[u]) = l /\ call[u].outcome = "wait"
      BY <2>2 DEF ServedInv, Waiters
    <3> QED BY <1>2, <1>3, <1>6, <3>1
  <2> QED BY <1>5, <2>1, <2>2
<1>8. \A l : Avail(l)' = Avail(l) /\ Counted(Lock(l))' = Counted(Lock(l))
  BY <1>1 DEF Avail, Lock, Counted, Unlocked
<1>9. ASSUME NEW l \in EventLists PROVE Served(l)'
  <2>0. Avail(l) \in Int /\ Counted(Lock(l)) \in Int
    BY Numbers
  <2>1. CASE l = m
    <3>1. Avail(l)' <= Counted(Lock(l))'
      BY <1>3, <1>8, <2>1 DEF ServedInv, NothingYet, m
    <3> QED BY <3>1, CountedServes
  <2>2. CASE l # m
    <3>1. events'[l] = events[l]
      BY <1>1, <1>4, <2>2 DEF ListInv, ListsInv, ListTypes
    <3>2. Woken(l) \subseteq Woken(l)'
      <4> SUFFICES ASSUME NEW u \in Woken(l) PROVE u \in Woken(l)'
        OBVIOUS
      <4>1. u \in Task \ {t}
        BY <1>2, <1>3 DEF Woken
      <4> QED BY <1>6, <3>1, <4>1 DEF Woken, List, Side
    <3>3. Cardinality({}) = 0 /\ Served(l)
      BY FS_EmptySet DEF ServedInv
    <3>4. \A a, k \in Int : a - k + 0 <= a - k + 0
      OBVIOUS
    <3>5. Avail(l)' - Counted(Lock(l))' + Cardinality({}) <= Avail(l) - Counted(Lock(l)) + Cardinality({})
      BY <1>8, <2>0, <3>3, <3>4
    <3> QED BY <3>1, <3>2, <3>3, <3>5, Serving
  <2> QED BY <2>1, <2>2
<1>10. xTxLock'[call'[t].queue] # Unlocked /\ xRxLock'[call'[t].queue] # Unlocked
  BY <1>1, <1>2, <1>3 DEF ServedInv, LockedHere
<1>11. LockedHere' /\ NothingYet'
  BY <1>1, <1>3, <1>10, RunningServes
<1> QED BY <1>7, <1>9, <1>11 DEF ServedInv

(* prvUnlockQueue wakes a task for each message or room that was counted.  *)
LEMMA UnlockServes ==
  ASSUME QueueInv, ListInv, CallTypes, QueueInv', CallTypes', ServedInv, NEW t \in Task,
         UnlockTx(t) \/ UnlockRx(t)
  PROVE  ServedInv'
<1>0. PICK q : q = call[t].queue
  OBVIOUS
<1>1. PICK from \in {"unlockTx", "unlockRx"}, place \in {"unlockRx", "resumeAll"} :
        /\ At(t, from, place)
        /\ \/ from = "unlockTx" /\ place = "unlockRx" /\ UnlockTx(t)
           \/ from = "unlockRx" /\ place = "resumeAll" /\ UnlockRx(t)
  BY DEF UnlockTx, UnlockRx
<1>2. from \in InACall /\ from \in Turning /\ place \in Turning
  BY DEF InACall, Turning
<1>3. /\ t \in AllTasks /\ t = pxCurrentTCB /\ pc[t] = from /\ pc' = [pc EXCEPT ![t] = place]
      /\ pc'[t] = place /\ IsCall(call[t]) /\ q \in Queues
  BY <1>0, <1>1, <1>2, LoopFacts
<1>4. UNCHANGED <<pxCurrentTCB, messages, call>>
  BY DEF UnlockTx, UnlockRx, InCall
<1>5. PICK wl \in EventLists :
        /\ events' = [events EXCEPT ![wl] = Without(@, ToSet(Waiting(wl, ToWake(Lock(wl)))))]
        /\ Lock(wl)' = Unlocked
        /\ \A l \in EventLists \ {wl} : Lock(l)' = Lock(l)
  <2>1. CASE from = "unlockTx"
    <3>1. /\ UnlockSide(<<q, "receive">>, xTxLock[q])
          /\ xTxLock' = [xTxLock EXCEPT ![q] = Unlocked] /\ UNCHANGED xRxLock
      BY <1>0, <1>1, <2>1 DEF UnlockTx
    <3>2. <<q, "receive">> \in EventLists
      BY <1>3, QueueAssumption
    <3>3. Lock(<<q, "receive">>) = xTxLock[q] /\ Lock(<<q, "receive">>)' = Unlocked
      BY <1>3, <3>1 DEF Lock, QueueInv, Shapes
    <3>4. ASSUME NEW l \in EventLists \ {<<q, "receive">>} PROVE Lock(l)' = Lock(l)
      <4>1. l[1] \in Queues /\ (l[2] = "receive" => l[1] # q)
        BY ListParts
      <4> QED BY <3>1, <4>1 DEF Lock, QueueInv, Shapes
    <3> QED BY <3>1, <3>2, <3>3, <3>4 DEF UnlockSide, RemoveFromEventList
  <2>2. CASE from = "unlockRx"
    <3>1. /\ UnlockSide(<<q, "send">>, xRxLock[q])
          /\ xRxLock' = [xRxLock EXCEPT ![q] = Unlocked] /\ UNCHANGED xTxLock
      BY <1>0, <1>1, <2>2 DEF UnlockRx
    <3>2. <<q, "send">> \in EventLists
      BY <1>3, QueueAssumption
    <3>3. Lock(<<q, "send">>) = xRxLock[q] /\ Lock(<<q, "send">>)' = Unlocked
      BY <1>3, <3>1 DEF Lock, QueueInv, Shapes
    <3>4. ASSUME NEW l \in EventLists \ {<<q, "send">>} PROVE Lock(l)' = Lock(l)
      <4>1. l[1] \in Queues /\ (l[2] # "receive" => l[1] # q)
        BY ListParts
      <4> QED BY <3>1, <4>1 DEF Lock, QueueInv, Shapes
    <3> QED BY <3>1, <3>2, <3>3, <3>4 DEF UnlockSide, RemoveFromEventList
  <2> QED BY <2>1, <2>2
<1> DEFINE lost == [l \in EventLists |-> {}]
           n == [l \in EventLists |-> IF l = wl THEN ToWake(Lock(wl)) ELSE 0]
<1>6. \A k \in Int : k >= -1 => ToWake(k) \in Nat /\ ToWake(k) = Counted(k)
  BY DEF ToWake, Counted, Unlocked, Unmodified
<1>7. ToWake(Lock(wl)) \in Nat /\ ToWake(Lock(wl)) = Counted(Lock(wl))
  BY <1>6, Numbers
<1>8. lost \in [EventLists -> SUBSET Task] /\ n \in [EventLists -> Nat]
  BY <1>7
<1>9. \A l \in EventLists : lost[l] = {} /\ n[l] = IF l = wl THEN ToWake(Lock(wl)) ELSE 0
  OBVIOUS
<1> HIDE DEF lost, n
<1>10. \A u \in Task : StaysWoken(u)
  BY <1>2, <1>3, <1>4 DEF StaysWoken
<1>11. ASSUME NEW l \in EventLists
       PROVE  /\ \/ n[l] = 0 /\ events'[l] = events[l]
                 \/ n[l] = 0 /\ \E us : events'[l] = Without(events[l], us)
                 \/ events'[l] = Without(events[l], ToSet(Waiting(l, n[l])))
              /\ \A u \in Woken(l) \ lost[l] : StaysWoken(u)
              /\ \A u \in ToSet(events[l]) : StaysWoken(u)
              /\ \/ Avail(l)' <= Counted(Lock(l))'
                 \/ Avail(l)' - Counted(Lock(l))' + Cardinality(lost[l])
                       <= Avail(l) - Counted(Lock(l)) + n[l]
  <2>1. DOMAIN events = EventLists
    BY DEF ListInv, ListsInv, ListTypes
  <2>2. \/ n[l] = 0 /\ events'[l] = events[l]
        \/ events'[l] = Without(events[l], ToSet(Waiting(l, n[l])))
    BY <1>5, <1>9, <2>1
  <2>3. Avail(l)' - Counted(Lock(l))' + Cardinality(lost[l])
                    <= Avail(l) - Counted(Lock(l)) + n[l]
    <3>1. Avail(l) \in Int /\ Counted(Lock(l)) \in Int
      BY Numbers
    <3>2. Avail(l)' = Avail(l) /\ Counted(Lock(l))' = Counted(Lock(l)') /\ Counted(Unlocked) = 0
      BY <1>4 DEF Avail, Counted, Unlocked
    <3>3. Cardinality(lost[l]) = 0
      BY <1>9, FS_EmptySet
    <3>4. \A a, k \in Int : a - 0 + 0 <= (a - k) + k /\ (a - k) + 0 <= (a - k) + 0
      OBVIOUS
    <3> QED BY <1>5, <1>7, <1>9, <3>1, <3>2, <3>3, <3>4
  <2>4. \A u \in Woken(l) \cup ToSet(events[l]) : u \in Task
    BY DEF ServedInv, Waiters, Woken
  <2> QED BY <1>10, <2>2, <2>3, <2>4
<1>12. Waiters' /\ \A l \in EventLists : Served(l)'
  BY <1>8, <1>11, StepServes DEF ListInv, ListsInv, ServedInv
<1>13. /\ place \in LockedForTx => xTxLock'[call'[t].queue] # Unlocked
       /\ place \in LockedForRx => xRxLock'[call'[t].queue] # Unlocked
  <2>1. CASE from = "unlockTx" /\ place = "unlockRx" /\ UnlockTx(t)
    <3>1. "unlockTx" \in LockedForRx /\ "unlockRx" \notin LockedForTx
      BY DEF LockedForTx, LockedForRx
    <3> QED BY <1>3, <1>4, <2>1, <3>1 DEF ServedInv, LockedHere, UnlockTx
  <2>2. CASE place = "resumeAll"
    BY <2>2 DEF LockedForTx, LockedForRx
  <2> QED BY <1>1, <2>1, <2>2
<1>14. LockedHere' /\ NothingYet'
  BY <1>3, <1>4, <1>13, RunningServes
<1> QED BY <1>12, <1>14 DEF ServedInv

(* A message put, or taken.                                                *)
LEMMA PutSize ==
  ASSUME QueueInv, NEW q \in Queues, NEW i \in Items, NEW position
  PROVE  Len(Put(q, i, position)) = Len(messages[q]) + 1
<1>1. messages[q] \in Seq(Items)
  BY DEF QueueInv, Bounded
<1>2. Len(Append(messages[q], i)) = Len(messages[q]) + 1
  BY <1>1
<1>3. <<i>> \in Seq(Items) /\ Len(<<i>>) = 1
  OBVIOUS
<1>4. Len(<<i>> \o messages[q]) = 1 + Len(messages[q]) /\ Len(messages[q]) \in Nat
  BY <1>1, <1>3, ConcatProperties
<1>5. Len(<<i>> \o messages[q]) = Len(messages[q]) + 1
  BY <1>4
<1> QED BY <1>2, <1>5 DEF Put

(* A message less.                                                         *)
LEMMA TakeSize ==
  ASSUME QueueInv, NEW q \in Queues, ~IsEmpty(q)
  PROVE  Len(Tail(messages[q])) = Len(messages[q]) - 1
BY DEF QueueInv, Bounded, IsEmpty

(* It is there for a receiver, or its place for a sender.                  *)
LEMMA OneMore ==
  ASSUME QueueInv, NEW q \in Queues, NEW new, messages' = [messages EXCEPT ![q] = new],
         NEW d \in Int, Len(new) = Len(messages[q]) + d
  PROVE  \A l \in EventLists :
            Avail(l)' = IF l = <<q, "receive">> THEN Avail(l) + d
                        ELSE IF l = <<q, "send">> THEN Avail(l) - d
                        ELSE Avail(l)
<1> SUFFICES ASSUME NEW l \in EventLists
             PROVE  Avail(l)' = IF l = <<q, "receive">> THEN Avail(l) + d
                                ELSE IF l = <<q, "send">> THEN Avail(l) - d
                                ELSE Avail(l)
  OBVIOUS
<1>1. l[1] \in Queues /\ l[2] \in {"send", "receive"} /\ l = <<l[1], l[2]>>
  BY ListParts
<1>2. Len(messages[l[1]]) \in Nat /\ Length[l[1]] \in Nat
  BY <1>1, QueueAssumption DEF QueueInv, Bounded
<1>3. messages'[l[1]] = IF l[1] = q THEN new ELSE messages[l[1]]
  BY <1>1 DEF QueueInv, Shapes
<1>4. \A a, b \in Int : a - (b + d) = (a - b) - d
  OBVIOUS
<1>5. CASE l[1] = q /\ l[2] = "receive"
  BY <1>1, <1>3, <1>5 DEF Avail
<1>6. CASE l[1] = q /\ l[2] = "send"
  <2>1. l # <<q, "receive">> /\ l = <<q, "send">>
    BY <1>1, <1>6
  <2>2. Avail(l) = Length[q] - Len(messages[q]) /\ Avail(l)' = Length[q] - Len(new)
    BY <1>3, <1>6 DEF Avail
  <2>3. Len(new) = Len(messages[q]) + d /\ Len(messages[q]) \in Int /\ Length[q] \in Int
    BY <1>2, <1>6
  <2> QED BY <1>4, <2>1, <2>2, <2>3
<1>7. CASE l[1] # q
  BY <1>1, <1>3, <1>7 DEF Avail
<1> QED BY <1>1, <1>5, <1>6, <1>7

(* The test of a call, at its beginning or again.                          *)
LEMMA TestServes ==
  ASSUME QueueInv, ListInv, CallTypes, QueueInv', CallTypes', ServedInv, NEW t \in Task, NEW c,
         IsCall(c), Executes(t), uxSchedulerSuspended = 0, pc[t] \in {"run", "test"},
         pc[t] = "test" => call[t] = c, Test(t, c), TestUnchanged
  PROVE  ServedInv'
<1> DEFINE own == List(c)
<1>1. /\ own \in EventLists /\ c.queue \in Queues /\ own = <<c.queue, Side(c)>>
      /\ Side(c) = (IF c.kind = "send" THEN "send" ELSE "receive")
  BY CallParts DEF List
<1>2. /\ t = pxCurrentTCB /\ t \in AllTasks /\ IsReady(t)
      /\ pc[t] \notin LockedForRx \cup LockedForTx
  BY Executing DEF ListInv, AllTasks, LockedForRx, LockedForTx
<1>3. \A q \in Queues : xTxLock[q] = Unlocked /\ xRxLock[q] = Unlocked
  BY <1>2 DEF QueueInv, LockedInCall
<1>4. /\ \A u \in Task \ {t} : pc'[u] = pc[u] /\ call'[u] = call[u]
      /\ pc'[t] \in {"run", "suspend"} /\ UNCHANGED <<pxCurrentTCB, xRxLock, xTxLock>>
  <2>1. DOMAIN pc = AllTasks
    BY DEF QueueInv, Shapes
  <2>2. /\ \/ pc' = [pc EXCEPT ![t] = "run"]
           \/ pc' = [pc EXCEPT ![t] = "suspend"]
        /\ \A u \in Task \ {t} : call'[u] = call[u]
        /\ UNCHANGED <<pxCurrentTCB, xRxLock, xTxLock>>
    BY TestControl DEF QueueInv
  <2>3. PICK to \in {"run", "suspend"} : pc' = [pc EXCEPT ![t] = to]
    BY <2>2
  <2>4. pc'[t] = to
    BY <1>2, <2>1, <2>3
  <2>5. ASSUME NEW u \in Task \ {t} PROVE pc'[u] = pc[u]
    <3>1. u \in AllTasks /\ u # t
      BY DEF AllTasks
    <3> QED BY <2>1, <2>3, <3>1
  <2> QED BY <2>2, <2>4, <2>5
<1>5. \A l \in EventLists : Counted(Lock(l)) = 0 /\ Counted(Lock(l))' = 0
  <2> SUFFICES ASSUME NEW l \in EventLists
               PROVE  Counted(Lock(l)) = 0 /\ Counted(Lock(l))' = 0
    OBVIOUS
  <2>1. Lock(l) = Unlocked /\ Lock(l)' = Unlocked
    BY <1>3, <1>4, ListParts DEF Lock
  <2> QED BY <2>1 DEF Counted, Unlocked
<1>6. \A l \in EventLists : t \notin ToSet(events[l])
  BY <1>2 DEF ListInv, ListsInv, AllApart, Apart
<1>7. DOMAIN events = EventLists
  BY DEF ListInv, ListsInv, ListTypes
<1> HIDE DEF own
<1> DEFINE lost == [l \in EventLists |-> IF l = own THEN {t} ELSE {}]
<1>8. /\ lost \in [EventLists -> SUBSET Task]
      /\ \A l \in EventLists : /\ lost[l] = IF l = own THEN {t} ELSE {}
                               /\ Cardinality(lost[l]) = IF l = own THEN 1 ELSE 0
  BY FS_EmptySet, FS_Singleton
<1> HIDE DEF lost
<1>9. ASSUME NEW l \in EventLists
      PROVE  /\ \A u \in Woken(l) \ lost[l] : StaysWoken(u)
             /\ \A u \in ToSet(events[l]) : StaysWoken(u)
  <2>1. \A u \in Task \ {t} : StaysWoken(u)
    BY <1>4 DEF StaysWoken
  <2>2. t \in Woken(l) => l = own
    BY DEF Woken, Turning, own
  <2> QED BY <1>6, <1>8, <2>1, <2>2 DEF Woken, ServedInv, Waiters
<1>10. ASSUME NEW n \in [EventLists -> Nat],
              \A l \in EventLists :
                 /\ \/ n[l] = 0 /\ events'[l] = events[l]
                    \/ events'[l] = Without(events[l], ToSet(Waiting(l, n[l])))
                 /\ \/ Avail(l)' <= 0
                    \/ Avail(l)' + Cardinality(lost[l]) <= Avail(l) + n[l]
       PROVE  ServedInv'
  <2>1. ASSUME NEW l \in EventLists
        PROVE  \/ Avail(l)' <= Counted(Lock(l))'
               \/ Avail(l)' - Counted(Lock(l))' + Cardinality(lost[l])
                     <= Avail(l) - Counted(Lock(l)) + n[l]
    <3>1. Avail(l) \in Int /\ Avail(l)' \in Int
      BY Numbers, NumbersAfter
    <3>2. \A a \in Int : a - 0 = a
      OBVIOUS
    <3> QED BY <1>5, <1>10, <3>1, <3>2
  <2>2. Waiters' /\ \A l \in EventLists : Served(l)'
    BY <1>8, <1>9, <1>10, <2>1, StepServes DEF ListInv, ListsInv, ServedInv
  <2>3. LockedHere' /\ NothingYet'
    <3>1. pc'[t] \notin LockedForTx \cup LockedForRx \cup {"inherit", "place"}
      BY <1>4 DEF LockedForTx, LockedForRx
    <3> QED BY <1>2, <1>4, <3>1, RunningServes
  <2> QED BY <2>2, <2>3 DEF ServedInv
<1>11. CASE ~Blocked(c) /\ (IF c.kind = "send" THEN SendNow(t, c) ELSE ReceiveNow(t, c))
  <2>1. PICK wl \in EventLists :
          /\ events' = [events EXCEPT ![wl] = Without(@, ToSet(Waiting(wl, 1)))]
          /\ \A l \in EventLists :
                Avail(l)' = Avail(l) + (IF l = wl THEN 1 ELSE 0) - (IF l = own THEN 1 ELSE 0)
    <3>0. \A l \in EventLists : Avail(l) \in Int
      BY Numbers
    <3>1. <<c.queue, "send">> \in EventLists /\ <<c.queue, "receive">> \in EventLists
      BY EventListsOf
    <3>2. CASE c.kind = "send"
      <4> DEFINE wl == <<c.queue, "receive">>
      <4>0. PICK new : new = Put(c.queue, c.item, c.position)
        OBVIOUS
      <4>1. /\ events' = [events EXCEPT ![wl] = Without(@, ToSet(Waiting(wl, 1)))]
            /\ messages' = [messages EXCEPT ![c.queue] = new]
        BY <1>11, <3>2, <4>0 DEF SendNow
      <4>2. Len(new) = Len(messages[c.queue]) + 1 /\ 1 \in Int
        BY <1>1, <3>2, <4>0, PutSize DEF IsCall
      <4>3. own = <<c.queue, "send">> /\ own # wl
        BY <1>1, <3>2
      <4>4. ASSUME NEW l \in EventLists
            PROVE  Avail(l)' = Avail(l) + (IF l = wl THEN 1 ELSE 0) - (IF l = own THEN 1 ELSE 0)
        <5>1. Avail(l)' = IF l = wl THEN Avail(l) + 1 ELSE IF l = own THEN Avail(l) - 1 ELSE Avail(l)
          BY <1>1, <4>1, <4>2, <4>3, OneMore, ZenonT(30)
        <5>2. \A a \in Int : a + 1 - 0 = a + 1 /\ a + 0 - 1 = a - 1 /\ a + 0 - 0 = a
          OBVIOUS
        <5> QED BY <3>0, <4>3, <5>1, <5>2
      <4> QED BY <3>1, <4>1, <4>4
    <3>3. CASE c.kind = "peek"
      <4>1. /\ events' = [events EXCEPT ![own] = Without(@, ToSet(Waiting(own, 1)))]
            /\ messages' = messages
        BY <1>1, <1>11, <3>3 DEF ReceiveNow, RemoveFromEventList
      <4>2. \A l : Avail(l)' = Avail(l)
        BY <4>1 DEF Avail
      <4>3. \A a \in Int : a + 1 - 1 = a /\ a + 0 - 0 = a
        OBVIOUS
      <4> QED BY <1>1, <3>0, <4>1, <4>2, <4>3
    <3>4. CASE c.kind = "receive"
      <4> DEFINE wl == <<c.queue, "send">>
      <4>0. PICK new : new = Tail(messages[c.queue])
        OBVIOUS
      <4>1. /\ events' = [events EXCEPT ![wl] = Without(@, ToSet(Waiting(wl, 1)))]
            /\ messages' = [messages EXCEPT ![c.queue] = new]
        BY <1>11, <3>4, <4>0 DEF ReceiveNow, RemoveFromEventList
      <4>2. Len(new) = Len(messages[c.queue]) + (-1)
        <5>1. ~IsEmpty(c.queue)
          BY <1>1, <1>11, <3>4 DEF Blocked
        <5>2. Len(messages[c.queue]) \in Nat
          BY <1>1 DEF QueueInv, Bounded
        <5> QED BY <1>1, <4>0, <5>1, <5>2, TakeSize
      <4>3. own = <<c.queue, "receive">> /\ own # wl
        BY <1>1, <3>4
      <4>4. ASSUME NEW l \in EventLists
            PROVE  Avail(l)' = Avail(l) + (IF l = wl THEN 1 ELSE 0) - (IF l = own THEN 1 ELSE 0)
        <5>1. Avail(l)' = IF l = own THEN Avail(l) + (-1)
                          ELSE IF l = wl THEN Avail(l) - (-1) ELSE Avail(l)
          <6>1. -1 \in Int
            OBVIOUS
          <6> QED BY <1>1, <4>1, <4>2, <4>3, <6>1, OneMore, ZenonT(30)
        <5>2. \A a \in Int : a + 1 - 0 = a - (-1) /\ a + 0 - 1 = a + (-1) /\ a + 0 - 0 = a
          OBVIOUS
        <5> QED BY <3>0, <4>3, <5>1, <5>2
      <4> QED BY <3>1, <4>1, <4>4
    <3> QED BY <3>2, <3>3, <3>4 DEF IsCall
  <2> DEFINE n == [l \in EventLists |-> IF l = wl THEN 1 ELSE 0]
  <2>2. n \in [EventLists -> Nat] /\ \A l \in EventLists : n[l] = IF l = wl THEN 1 ELSE 0
    OBVIOUS
  <2> HIDE DEF n
  <2>3. ASSUME NEW l \in EventLists
        PROVE  /\ \/ n[l] = 0 /\ events'[l] = events[l]
                  \/ events'[l] = Without(events[l], ToSet(Waiting(l, n[l])))
               /\ Avail(l)' + Cardinality(lost[l]) <= Avail(l) + n[l]
    <3>1. \/ n[l] = 0 /\ events'[l] = events[l]
          \/ events'[l] = Without(events[l], ToSet(Waiting(l, n[l])))
      BY <1>7, <2>1, <2>2
    <3>2. Avail(l) \in Int
      BY Numbers
    <3>3. \A a, x, y \in Int : (a + x - y) + y <= a + x
      OBVIOUS
    <3>4. Avail(l)' = Avail(l) + n[l] - Cardinality(lost[l]) /\ n[l] \in Int /\ Cardinality(lost[l]) \in Int
      BY <1>8, <2>1, <2>2
    <3> QED BY <3>1, <3>2, <3>3, <3>4
  <2> QED BY <1>10, <2>2, <2>3
<1>12. CASE Blocked(c) /\ UNCHANGED <<eventItems, messages>>
  <2> DEFINE n == [l \in EventLists |-> 0]
  <2>1. n \in [EventLists -> Nat] /\ \A l \in EventLists : n[l] = 0
    OBVIOUS
  <2> HIDE DEF n
  <2>2. UNCHANGED <<events, messages>>
    BY <1>12 DEF eventItems
  <2>3. ASSUME NEW l \in EventLists
        PROVE  Avail(l)' <= 0 \/ Avail(l)' + Cardinality(lost[l]) <= Avail(l) + n[l]
    <3>1. Avail(l)' = Avail(l) /\ Avail(l) \in Int
      BY <2>2, Numbers DEF Avail
    <3>2. l = own => Avail(l) = 0
      BY <1>12, BlockedHasNothing DEF own
    <3>3. l # own => Cardinality(lost[l]) = 0
      BY <1>8
    <3> QED BY <2>1, <3>1, <3>2, <3>3
  <2> QED BY <1>10, <2>1, <2>2, <2>3
<1> QED BY <1>11, <1>12 DEF Test

(* Interrupts that send or receive wake one task, or count.                *)
LEMMA InterruptServes ==
  ASSUME QueueInv, ListInv, CallTypes, QueueInv', CallTypes', ServedInv, QueueInterrupt
  PROVE  ServedInv'
<1>1. PICK q \in Queues :
        ReceiveFromISR(q) \/ \E i \in Items, p \in {"back", "front"} : SendFromISR(q, i, p)
  BY DEF QueueInterrupt
<1>2. UNCHANGED <<pc, call>>
  BY <1>1 DEF ReceiveFromISR, SendFromISR, FromISRUnchanged
<1>3. PICK wl \in EventLists, ol \in EventLists :
        /\ wl # ol /\ WakeFromISR(wl, Lock(wl)) /\ Lock(wl)' = Count(Lock(wl))
        /\ \A l \in EventLists \ {wl} : Lock(l)' = Lock(l)
        /\ \A l \in EventLists : Avail(l)' = IF l = wl THEN Avail(l) + 1
                                             ELSE IF l = ol THEN Avail(l) - 1 ELSE Avail(l)
  <2> DEFINE r == <<q, "receive">>
             s == <<q, "send">>
  <2>0. r \in EventLists /\ s \in EventLists /\ r # s /\ -1 \in Int /\ 1 \in Int
    BY QueueAssumption
  <2>1. CASE ReceiveFromISR(q)
    <3>1. PICK new : new = Tail(messages[q])
      OBVIOUS
    <3>2. /\ ~IsEmpty(q) /\ messages' = [messages EXCEPT ![q] = new] /\ WakeFromISR(s, xRxLock[q])
          /\ xRxLock' = [xRxLock EXCEPT ![q] = Count(@)] /\ UNCHANGED xTxLock
      BY <2>1, <3>1 DEF ReceiveFromISR
    <3>3. Len(new) = Len(messages[q]) + (-1)
      <4>1. Len(messages[q]) \in Nat
        BY DEF QueueInv, Bounded
      <4> QED BY <3>1, <3>2, <4>1, TakeSize
    <3>4. \A l \in EventLists : Avail(l)' = IF l = s THEN Avail(l) + 1
                                            ELSE IF l = r THEN Avail(l) - 1 ELSE Avail(l)
      <4>1. \A l \in EventLists : Avail(l)' = IF l = r THEN Avail(l) + (-1)
                                              ELSE IF l = s THEN Avail(l) - (-1) ELSE Avail(l)
        BY <2>0, <3>2, <3>3, OneMore
      <4>2. \A l \in EventLists : Avail(l) \in Int
        BY Numbers
      <4>3. \A a \in Int : a + (-1) = a - 1 /\ a - (-1) = a + 1
        OBVIOUS
      <4> QED BY <2>0, <4>1, <4>2, <4>3
    <3>5. Lock(s) = xRxLock[q] /\ Lock(s)' = Count(Lock(s))
      BY <3>2 DEF Lock, QueueInv, Shapes
    <3>6. ASSUME NEW l \in EventLists \ {s} PROVE Lock(l)' = Lock(l)
      <4>1. l[1] \in Queues /\ (l[2] # "receive" => l[1] # q)
        BY ListParts
      <4> QED BY <3>2, <4>1 DEF Lock, QueueInv, Shapes
    <3> QED BY <2>0, <3>2, <3>4, <3>5, <3>6
  <2>2. ASSUME NEW i \in Items, NEW p, SendFromISR(q, i, p)
        PROVE  /\ WakeFromISR(r, Lock(r)) /\ Lock(r)' = Count(Lock(r))
               /\ \A l \in EventLists \ {r} : Lock(l)' = Lock(l)
               /\ \A l \in EventLists : Avail(l)' = IF l = r THEN Avail(l) + 1
                                                    ELSE IF l = s THEN Avail(l) - 1 ELSE Avail(l)
    <3>1. PICK new : new = Put(q, i, p)
      OBVIOUS
    <3>2. /\ messages' = [messages EXCEPT ![q] = new] /\ WakeFromISR(r, xTxLock[q])
          /\ xTxLock' = [xTxLock EXCEPT ![q] = Count(@)] /\ UNCHANGED xRxLock
      BY <2>2, <3>1 DEF SendFromISR
    <3>3. Len(new) = Len(messages[q]) + 1
      BY <3>1, PutSize
    <3>4. \A l \in EventLists : Avail(l)' = IF l = r THEN Avail(l) + 1
                                            ELSE IF l = s THEN Avail(l) - 1 ELSE Avail(l)
      BY <2>0, <3>2, <3>3, OneMore
    <3>5. Lock(r) = xTxLock[q] /\ Lock(r)' = Count(Lock(r))
      BY <3>2 DEF Lock, QueueInv, Shapes
    <3>6. ASSUME NEW l \in EventLists \ {r} PROVE Lock(l)' = Lock(l)
      <4>1. l[1] \in Queues /\ (l[2] = "receive" => l[1] # q)
        BY ListParts
      <4> QED BY <3>2, <4>1 DEF Lock, QueueInv, Shapes
    <3> QED BY <3>2, <3>4, <3>5, <3>6
  <2> HIDE DEF r, s
  <2> QED BY <1>1, <2>0, <2>1, <2>2
<1>4. \A k \in Int : k >= -1 =>
        /\ k = Unlocked => Counted(Count(k)) = Counted(k) /\ Counted(k) = 0
        /\ k # Unlocked => /\ Counted(k) = k /\ Count(k) = k + 1 /\ Count(k) # Unlocked
                           /\ Counted(Count(k)) = Counted(k) + 1
  BY DEF Counted, Count, Unlocked
<1>5. ASSUME NEW l \in EventLists
      PROVE  /\ Avail(l) \in Int /\ Counted(Lock(l)) \in Int /\ Counted(Lock(l))' = Counted(Lock(l)')
             /\ l # wl => Counted(Lock(l))' = Counted(Lock(l))
             /\ l = wl /\ Lock(l) = Unlocked => Counted(Lock(l))' = Counted(Lock(l))
             /\ l = wl /\ Lock(l) # Unlocked =>
                   Counted(Lock(l))' = Counted(Lock(l)) + 1 /\ Lock(l)' # Unlocked
  <2>1. Avail(l) \in Int /\ Lock(l) \in Int /\ Lock(l) >= -1 /\ Counted(Lock(l)) \in Int
    BY Numbers
  <2>2. Counted(Lock(l))' = Counted(Lock(l)')
    BY DEF Counted, Unlocked
  <2> QED BY <1>3, <1>4, <2>1, <2>2
<1> DEFINE lost == [l \in EventLists |-> {}]
           n == [l \in EventLists |-> IF l = wl /\ Lock(wl) = Unlocked THEN 1 ELSE 0]
<1>6. /\ lost \in [EventLists -> SUBSET Task] /\ n \in [EventLists -> Nat]
      /\ \A l \in EventLists : /\ lost[l] = {}
                               /\ n[l] = IF l = wl /\ Lock(wl) = Unlocked THEN 1 ELSE 0
  OBVIOUS
<1> HIDE DEF lost, n
<1>7. \A u \in Task : StaysWoken(u)
  BY <1>2 DEF StaysWoken
<1>8. ASSUME NEW l \in EventLists
      PROVE  /\ \/ n[l] = 0 /\ events'[l] = events[l]
                \/ n[l] = 0 /\ \E us : events'[l] = Without(events[l], us)
                \/ events'[l] = Without(events[l], ToSet(Waiting(l, n[l])))
             /\ \A u \in Woken(l) \ lost[l] : StaysWoken(u)
             /\ \A u \in ToSet(events[l]) : StaysWoken(u)
             /\ \/ Avail(l)' <= Counted(Lock(l))'
                \/ Avail(l)' - Counted(Lock(l))' + Cardinality(lost[l])
                      <= Avail(l) - Counted(Lock(l)) + n[l]
  <2>1. DOMAIN events = EventLists
    BY DEF ListInv, ListsInv, ListTypes
  <2>2. \/ n[l] = 0 /\ events'[l] = events[l]
        \/ events'[l] = Without(events[l], ToSet(Waiting(l, n[l])))
    BY <1>3, <1>6, <2>1 DEF WakeFromISR, RemoveFromEventList, eventItems
  <2>3. Avail(l)' - Counted(Lock(l))' + Cardinality(lost[l])
           <= Avail(l) - Counted(Lock(l)) + n[l]
    <3>1. Cardinality(lost[l]) = 0
      BY <1>6, FS_EmptySet
    <3>2. \A a, k \in Int : /\ (a + 1) - k + 0 <= a - k + 1
                            /\ (a + 1) - (k + 1) + 0 <= a - k + 0
                            /\ (a - 1) - k + 0 <= a - k + 0
                            /\ a - k + 0 <= a - k + 0
      OBVIOUS
    <3> QED BY <1>3, <1>5, <1>6, <3>1, <3>2
  <2>4. \A u \in Woken(l) \cup ToSet(events[l]) : u \in Task
    BY DEF ServedInv, Waiters, Woken
  <2> QED BY <1>7, <2>2, <2>3, <2>4
<1>9. Waiters' /\ \A l \in EventLists : Served(l)'
  BY <1>6, <1>8, StepServes DEF ListInv, ListsInv, ServedInv
<1>10. \A l \in EventLists : Lock(l) # Unlocked => Lock(l)' # Unlocked
  BY <1>3, <1>5
<1>11. ASSUME NEW u \in Task, pc[u] \in LockedForTx \cup LockedForRx
       PROVE  /\ IsCall(call[u]) /\ call[u].queue \in Queues /\ List(call[u]) \in EventLists
              /\ <<call[u].queue, "receive">> \in EventLists /\ <<call[u].queue, "send">> \in EventLists
  <2>1. pc[u] \in InACall
    BY <1>11 DEF LockedForTx, LockedForRx, InACall
  <2>2. IsCall(call[u])
    BY <2>1 DEF QueueInv, Calling
  <2> QED BY <2>2, CallParts, EventListsOf
<1>12. LockedHere'
  <2> SUFFICES ASSUME NEW u \in Task
               PROVE  /\ pc[u] \in LockedForTx => xTxLock'[call[u].queue] # Unlocked
                      /\ pc[u] \in LockedForRx => xRxLock'[call[u].queue] # Unlocked
    BY <1>2 DEF LockedHere
  <2>1. /\ pc[u] \in LockedForTx => xTxLock[call[u].queue] # Unlocked
        /\ pc[u] \in LockedForRx => xRxLock[call[u].queue] # Unlocked
    BY DEF ServedInv, LockedHere
  <2>2. \A k : /\ Lock(<<k, "receive">>) = xTxLock[k] /\ Lock(<<k, "receive">>)' = xTxLock'[k]
               /\ Lock(<<k, "send">>) = xRxLock[k] /\ Lock(<<k, "send">>)' = xRxLock'[k]
    BY DEF Lock
  <2>3. PICK k : k = call[u].queue
    OBVIOUS
  <2> QED BY <1>10, <1>11, <2>1, <2>2, <2>3
<1>13. NothingYet'
  <2> SUFFICES ASSUME NEW u \in Task, pc[u] \in {"inherit", "place"}, NEW l, l = List(call[u])
               PROVE  Avail(l)' <= Counted(Lock(l))'
    BY <1>2 DEF NothingYet, List, Side, Avail, Lock, Counted, Unlocked
  <2>1. pc[u] \in LockedForTx /\ pc[u] \in LockedForRx
    BY DEF LockedForTx, LockedForRx
  <2>2. /\ l \in EventLists /\ IsCall(call[u])
        /\ xTxLock[call[u].queue] # Unlocked /\ xRxLock[call[u].queue] # Unlocked
    BY <1>11, <2>1 DEF ServedInv, LockedHere
  <2>3. Lock(l) # Unlocked
    BY <2>2, CallParts DEF Lock
  <2>4. Avail(l) <= Counted(Lock(l))
    BY DEF ServedInv, NothingYet
  <2>5. \A a, k \in Int : a <= k => a + 1 <= k + 1 /\ a - 1 <= k
    OBVIOUS
  <2> QED BY <1>3, <1>5, <2>2, <2>3, <2>4, <2>5
<1> QED BY <1>9, <1>12, <1>13 DEF ServedInv

(* Every step.                                                             *)
LEMMA ServedNext ==
  ASSUME TasksStay, QueueInv, ListInv, CallTypes, QueueInv', CallTypes', ServedInv, [Next]_vars
  PROVE  ServedInv'
<1>1. CASE TaskNext /\ UNCHANGED queueVars
  BY <1>1, SchedulerServes DEF ListInv, ListsInv
<1>2. CASE QueueInterrupt
  BY <1>2, InterruptServes
<1>3. ASSUME NEW t \in Task, QueueStep(t) PROVE ServedInv'
  <2>1. ASSUME NEW c \in Arguments(t), Begin(t, c) PROVE ServedInv'
    <3>1. IsCall(c) /\ Test(t, c) /\ TestUnchanged /\ Executes(t) /\ uxSchedulerSuspended = 0
          /\ pc[t] = "run"
      BY <2>1 DEF Arguments, IsCall, Begin, UsesMutexProperly, CallsFunction
    <3> QED BY <3>1, TestServes
  <2>2. CASE Again(t)
    <3>1. /\ Test(t, call[t]) /\ TestUnchanged /\ Executes(t) /\ pc[t] = "test" /\ t = pxCurrentTCB
          /\ pc[t] \in InACall /\ pc[t] \notin Suspending \cup {"run"}
      BY <2>2 DEF Again, InACall, Executes, Suspending, LockedForRx
    <3>2. uxSchedulerSuspended = 0 /\ IsCall(call[t])
      BY <3>1, NotSuspended DEF QueueInv, Calling
    <3> QED BY <3>1, <3>2, TestServes
  <2> QED BY <1>3, <2>1, <2>2, QuietLoopServes, CheckServes, PlaceServes, UnlockServes DEF QueueStep
<1>4. CASE UNCHANGED vars
  <2>1. UNCHANGED <<pc, call, events, messages, xRxLock, xTxLock>>
    BY <1>4 DEF vars, taskVars, queueVars, queues, eventItems
  <2> QED BY <2>1 DEF ServedInv, Waiters, LockedHere, NothingYet, Served, Woken, Avail, Lock,
                      Counted, Unlocked, List, Side
<1> QED BY <1>1, <1>2, <1>3, <1>4 DEF Next

(* Nobody waits at first.                                                  *)
LEMMA ServedInitially == Init => ServedInv
<1> SUFFICES ASSUME Init PROVE ServedInv
  OBVIOUS
<1>1. \A l \in EventLists : events[l] = <<>> /\ ToSet(<<>>) = {}
  BY GoodEmpty DEF Init, TaskInit
<1>2. \A t \in Task : pc[t] \notin InACall
  BY DEF Init, TaskInit, AllTasks, InACall
<1>3. LockedForTx \subseteq InACall /\ LockedForRx \subseteq InACall /\ {"inherit", "place"} \subseteq InACall
  BY DEF LockedForTx, LockedForRx, InACall
<1> QED BY <1>1, <1>2, <1>3 DEF ServedInv, Waiters, LockedHere, NothingYet, Served

(* WokenForEach: nobody waits for a message, or for room, that is there    *)
(* and for which no other task was woken, whatever interrupts send and     *)
(* receive in between, if no task is deleted (one that was woken takes its *)
(* wake-up with it).                                                       *)
THEOREM EachMessageWakes == TasksStay => (Spec => []WokenForEach)
<1> SUFFICES ASSUME TasksStay PROVE Spec => []WokenForEach
  OBVIOUS
<1> DEFINE Inv == QueueInv /\ ListInv /\ Patience /\ TypeInv /\ ServedInv
<1>1. Init => Inv
  BY QueueInitially, ListsInitially, PatienceInitially, TypesInitially, ServedInitially
<1>2. Inv /\ [Next]_vars => Inv'
  <2> SUFFICES ASSUME Inv, [Next]_vars PROVE Inv'
    OBVIOUS
  <2>1. QueueInv' /\ ListInv' /\ TypeInv'
    BY QueueNext, ListsNext, TypesNext
  <2>2. Patience'
    BY NextRefines DEF Refines
  <2>3. ServedInv'
    BY <2>1, ServedNext DEF TypeInv
  <2> QED BY <2>1, <2>2, <2>3
<1>3. Inv => WokenForEach
  <2> SUFFICES ASSUME Inv, NEW q \in Queues, NEW side \in {"send", "receive"},
                      events[<<q, side>>] # <<>>
               PROVE  Avail(<<q, side>>) <= Cardinality(Retrying(q, side)) + Counted(Lock(<<q, side>>))
    BY DEF WokenForEach, Avail, Lock
  <2> DEFINE l == <<q, side>>
  <2>1. l \in EventLists
    BY QueueAssumption
  <2>2. Woken(l) \subseteq Retrying(q, side)
    <3> SUFFICES ASSUME NEW t \in Woken(l) PROVE t \in Retrying(q, side)
      OBVIOUS
    <3>1. t \in Task /\ pc[t] \in InACall /\ pc[t] \notin {"inherit", "place"}
      BY DEF Woken, Turning, InACall
    <3>2. call[t] # NoCall
      <4>1. call[t].kind \in {"send", "receive", "peek"}
        BY <3>1 DEF QueueInv, Calling, IsCall
      <4>2. NoCall.kind = "none"
        BY DEF NoCall
      <4> QED BY <4>1, <4>2
    <3> QED BY <3>1, <3>2 DEF Woken, Retrying
  <2>3. IsFiniteSet(Woken(l)) /\ IsFiniteSet(Retrying(q, side))
    BY TasksAssumption, FS_Subset DEF Woken, Retrying
  <2>4. /\ Cardinality(Woken(l)) \in Nat /\ Cardinality(Retrying(q, side)) \in Nat
        /\ Cardinality(Woken(l)) <= Cardinality(Retrying(q, side))
    BY <2>2, <2>3, FS_Subset, FS_CardinalityType
  <2>5. Avail(l) \in Int /\ Counted(Lock(l)) \in Int
    BY <2>1, Numbers DEF TypeInv
  <2>6. Avail(l) <= Cardinality(Woken(l)) + Counted(Lock(l))
    BY <2>1 DEF ServedInv, Served
  <2>7. \A a, k, w, v \in Int : a <= w + k /\ w <= v => a <= v + k
    OBVIOUS
  <2> HIDE DEF l
  <2>8. Avail(l) <= Cardinality(Retrying(q, side)) + Counted(Lock(l))
    BY <2>4, <2>5, <2>6, <2>7
  <2> QED BY <2>8 DEF l
<1> QED BY <1>1, <1>2, <1>3, PTL DEF Spec

-----------------------------------------------------------------------------
(* Mutexes and the priorities of those that hold them.                     *)

(* A call of a mutex that had to wait takes it; its holder makes none.     *)
MutexCalls ==
    \A t \in Task :
        /\ pc[t] \in InACall /\ call[t].queue \in Mutexes =>
              call[t].kind = "receive" /\ pxMutexHolder[call[t].queue] # t
        /\ pc[t] = "inherit" => call[t].queue \in Mutexes

(* What a call that comes to its test, first or again, is about.           *)
Proper(t, c) ==
    c.queue \in Mutexes => \/ c.kind = "send" /\ pxMutexHolder[c.queue] = t
                           \/ c.kind = "receive" /\ pxMutexHolder[c.queue] # t

LEMMA TestsAreProper ==
  /\ \A t \in Task : \A c \in Arguments(t) : Begin(t, c) => Proper(t, c)
  /\ \A t \in Task : MutexCalls /\ Again(t) => Proper(t, call[t])
<1>1. ASSUME NEW t \in Task, NEW c \in Arguments(t), Begin(t, c) PROVE Proper(t, c)
  BY <1>1 DEF Begin, UsesMutexProperly, Arguments, Proper
<1>2. ASSUME NEW t \in Task, MutexCalls, Again(t) PROVE Proper(t, call[t])
  BY <1>2 DEF MutexCalls, Again, InACall, Proper
<1> QED BY <1>1, <1>2

(* Who gives a mutex finds room, and who takes one finds it free.          *)
LEMMA MutexTests ==
  ASSUME QueueInv, NEW t \in Task, NEW c, IsCall(c), Proper(t, c), c.queue \in Mutexes
  PROVE  /\ Blocked(c) => c.kind = "receive" /\ pxMutexHolder[c.queue] # Null
         /\ ~Blocked(c) /\ c.kind # "send" => pxMutexHolder[c.queue] = Null
<1>1. Len(<<>>) = 0 /\ Length[c.queue] = 1 /\ t # Null
  BY QueueAssumption DEF AllTasks
<1>2. IsEmpty(c.queue) <=> pxMutexHolder[c.queue] # Null
  BY DEF QueueInv, HeldWhenTaken
<1>3. c.kind = "send" => ~Blocked(c)
  BY <1>1, <1>2 DEF Proper, Blocked, Side, IsFull, IsEmpty
<1>4. c.kind # "send" => (Blocked(c) <=> IsEmpty(c.queue))
  BY DEF Blocked, Side
<1> QED BY <1>2, <1>3, <1>4 DEF Proper

(* What a test does to the holders of mutexes.                             *)
LEMMA TestHolders ==
  ASSUME QueueInv, NEW t \in Task, NEW c, IsCall(c), Proper(t, c), Test(t, c)
  PROVE  /\ \A m \in Mutexes : m # c.queue => pxMutexHolder'[m] = pxMutexHolder[m]
         /\ c.queue \in Mutexes =>
              \/ SendNow(t, c) /\ pxMutexHolder[c.queue] = t /\ pxMutexHolder'[c.queue] = Null
              \/ ReceiveNow(t, c) /\ pxMutexHolder[c.queue] = Null /\ pxMutexHolder'[c.queue] = t
              \/ /\ UNCHANGED <<pxMutexHolder, prio, evalue, generic, eventItems>>
                 /\ pxMutexHolder[c.queue] # Null
<1>1. DOMAIN pxMutexHolder = Queues /\ Mutexes \subseteq Queues
  BY QueueAssumption DEF QueueInv, Shapes
<1>2. CASE SendNow(t, c) /\ ~Blocked(c) /\ c.kind = "send"
  <2>1. pxMutexHolder' = [pxMutexHolder EXCEPT ![c.queue] = Null]
    BY <1>2 DEF SendNow
  <2>2. c.queue \in Mutexes => pxMutexHolder[c.queue] = t
    BY <1>2 DEF Proper
  <2> QED BY <1>1, <1>2, <2>1, <2>2
<1>3. CASE ReceiveNow(t, c) /\ ~Blocked(c) /\ c.kind # "send"
  <2>1. pxMutexHolder' = IF c.queue \in Mutexes THEN [pxMutexHolder EXCEPT ![c.queue] = t]
                         ELSE pxMutexHolder
    BY <1>3 DEF ReceiveNow
  <2>2. c.queue \in Mutexes => pxMutexHolder[c.queue] = Null
    BY <1>3, MutexTests
  <2> QED BY <1>1, <1>3, <2>1, <2>2
<1>4. CASE Blocked(c) /\ UNCHANGED <<generic, eventItems, prio, evalue, pxMutexHolder>>
  BY <1>4, MutexTests
<1> QED BY <1>2, <1>3, <1>4 DEF Test

(* The places and the calls of the other tasks.                            *)
LEMMA TestPlaces ==
  ASSUME QueueInv, NEW t \in Task, NEW c, Test(t, c)
  PROVE  /\ \A u \in Task : u # t => pc'[u] = pc[u] /\ call'[u] = call[u]
         /\ \/ pc'[t] = "run"
            \/ pc'[t] = "suspend" /\ call'[t] = [c EXCEPT !.entered = TRUE] /\ Blocked(c)
               /\ UNCHANGED pxMutexHolder
<1>1. DOMAIN pc = AllTasks /\ DOMAIN call = AllTasks /\ Task \subseteq AllTasks
  BY DEF QueueInv, Shapes, AllTasks
<1> QED BY <1>1 DEF Test, Return

(* The calls of mutexes.                                                   *)
LEMMA MutexCallsTest ==
  ASSUME QueueInv, MutexCalls, NEW t \in Task, NEW c, IsCall(c), Proper(t, c), Test(t, c)
  PROVE  MutexCalls'
<1>0. Null \notin Task /\ "run" \notin InACall /\ "suspend" # "inherit" /\ "run" # "inherit"
  BY QueueAssumption DEF AllTasks, InACall
<1>1. ASSUME NEW u \in Task, u # t
      PROVE  /\ pc'[u] \in InACall /\ call'[u].queue \in Mutexes =>
                   call'[u].kind = "receive" /\ pxMutexHolder'[call'[u].queue] # u
             /\ pc'[u] = "inherit" => call'[u].queue \in Mutexes
  <2>1. pc'[u] = pc[u] /\ call'[u] = call[u]
    BY <1>1, TestPlaces
  <2>2. ASSUME NEW m \in Mutexes, pxMutexHolder[m] # u PROVE pxMutexHolder'[m] # u
    BY <1>0, <1>1, <2>2, TestHolders
  <2> QED BY <2>1, <2>2 DEF MutexCalls
<1>2. /\ pc'[t] \in InACall /\ call'[t].queue \in Mutexes =>
            call'[t].kind = "receive" /\ pxMutexHolder'[call'[t].queue] # t
      /\ pc'[t] = "inherit" => call'[t].queue \in Mutexes
  <2>1. CASE pc'[t] = "run"
    BY <1>0, <2>1
  <2>2. CASE /\ pc'[t] = "suspend" /\ call'[t] = [c EXCEPT !.entered = TRUE] /\ Blocked(c)
             /\ UNCHANGED pxMutexHolder
    <3>1. call'[t].queue = c.queue /\ call'[t].kind = c.kind
      BY <2>2 DEF IsCall
    <3>2. c.queue \in Mutexes => c.kind = "receive" /\ pxMutexHolder[c.queue] # t
      BY <2>2, MutexTests DEF Proper
    <3> QED BY <1>0, <2>2, <3>1, <3>2
  <2> QED BY <2>1, <2>2, TestPlaces
<1> QED BY <1>1, <1>2 DEF MutexCalls

(* What the loop does to the calls and the holders.                        *)
LEMMA LoopCalls ==
  ASSUME QueueInv, NEW t \in Task,
         \/ CallSuspendAll(t) \/ LockQueue(t) \/ Check(t) \/ Inherit(t) \/ Place(t)
         \/ UnlockTx(t) \/ UnlockRx(t) \/ CallResumeAll(t)
  PROVE  /\ UNCHANGED pxMutexHolder
         /\ \A u \in Task : u # t => pc'[u] = pc[u] /\ call'[u] = call[u]
         /\ pc[t] \in InACall /\ pc[t] # "test" /\ t = pxCurrentTCB
         /\ pc'[t] # "run" => call'[t].queue = call[t].queue /\ call'[t].kind = call[t].kind
         /\ pc'[t] = "inherit" => call[t].queue \in Mutexes
<1>1. DOMAIN pc = AllTasks /\ DOMAIN call = AllTasks /\ \A u \in Task : u \in AllTasks
  BY DEF QueueInv, Shapes, AllTasks
<1>2. ASSUME NEW from \in InACall \ {"test"}, NEW place, At(t, from, place), call' = call,
             UNCHANGED pxMutexHolder, place # "inherit"
      PROVE  /\ \A u \in Task : u # t => pc'[u] = pc[u] /\ call'[u] = call[u]
             /\ pc[t] \in InACall /\ pc[t] # "test" /\ t = pxCurrentTCB
             /\ pc'[t] # "run" => call'[t].queue = call[t].queue /\ call'[t].kind = call[t].kind
             /\ pc'[t] = "inherit" => call[t].queue \in Mutexes
  BY <1>1, <1>2 DEF At, Executes
<1>3. CASE CallSuspendAll(t) \/ LockQueue(t) \/ Inherit(t) \/ Place(t) \/ UnlockTx(t) \/ UnlockRx(t)
  <2>1. call' = call /\ UNCHANGED pxMutexHolder
    BY <1>3 DEF CallSuspendAll, LockQueue, Inherit, Place, UnlockTx, UnlockRx, queueVars, queues
  <2>2. \E from \in InACall \ {"test"} : \E place : At(t, from, place) /\ place # "inherit"
    BY <1>3 DEF CallSuspendAll, LockQueue, Inherit, Place, UnlockTx, UnlockRx, InACall
  <2> QED BY <1>2, <2>1, <2>2
<1>4. CASE Check(t)
  <2> DEFINE outcome == IF HasTimedOut(t) THEN "timeout" ELSE IF Blocked(call[t]) THEN "wait" ELSE "retry"
             wait == IF ~HasTimedOut(t) /\ call[t].wait # MaxDelay THEN call[t].wait - Elapsed(t)
                     ELSE call[t].wait
             next == IF outcome # "wait" THEN "unlockTx"
                     ELSE IF call[t].queue \in Mutexes /\ Side(call[t]) = "receive" THEN "inherit"
                     ELSE "place"
  <2>1. At(t, "check", next) /\ UNCHANGED pxMutexHolder
    BY <1>4 DEF Check, queues
  <2>2. call' = [call EXCEPT ![t].outcome = outcome, ![t].wait = wait]
    BY <1>4 DEF Check
  <2>3. next = "inherit" => call[t].queue \in Mutexes
    OBVIOUS
  <2> HIDE DEF outcome, wait, next
  <2>4. /\ pc[t] = "check" /\ t = pxCurrentTCB /\ pc'[t] = next
        /\ \A u \in Task : u # t => call'[u] = call[u] /\ pc'[u] = pc[u]
    BY <1>1, <2>1, <2>2 DEF At, Executes
  <2>5. IsCall(call[t])
    BY <2>4 DEF QueueInv, Calling, InACall
  <2>6. call'[t].queue = call[t].queue /\ call'[t].kind = call[t].kind
    BY <1>1, <2>2, <2>5 DEF IsCall
  <2> QED BY <2>1, <2>3, <2>4, <2>6 DEF InACall
<1>5. CASE CallResumeAll(t)
  <2> DEFINE next == IF call[t].outcome = "timeout" THEN "run" ELSE "test"
  <2>1. At(t, "resumeAll", next) /\ UNCHANGED pxMutexHolder
    BY <1>5 DEF CallResumeAll, queues
  <2>2. IF next = "run" THEN call' = [call EXCEPT ![t] = NoCall] ELSE call' = call
    BY <1>5 DEF CallResumeAll
  <2>3. next # "inherit"
    OBVIOUS
  <2> HIDE DEF next
  <2>4. /\ pc[t] = "resumeAll" /\ t = pxCurrentTCB /\ pc'[t] = next
        /\ \A u \in Task : u # t => call'[u] = call[u] /\ pc'[u] = pc[u]
    BY <1>1, <2>1, <2>2 DEF At, Executes
  <2>5. next # "run" => call'[t].queue = call[t].queue /\ call'[t].kind = call[t].kind
    BY <2>2
  <2> QED BY <2>1, <2>3, <2>4, <2>5 DEF InACall
<1> QED BY <1>3, <1>4, <1>5

LEMMA MutexCallsNext ==
  ASSUME QueueInv, MutexCalls, [Next]_vars
  PROVE  MutexCalls'
<1>0. "run" \notin InACall /\ "inherit" \in InACall
  BY DEF InACall
<1>1. CASE TaskNext /\ UNCHANGED queueVars
  <2>1. UNCHANGED <<call, pxMutexHolder>>
    BY <1>1 DEF queueVars, queues
  <2>2. \A u \in Task : pc'[u] \in InACall => pc'[u] = pc[u]
    BY <1>0, <1>1, SchedulerLeavesCalls DEF QueueInv
  <2> QED BY <1>0, <2>1, <2>2 DEF MutexCalls
<1>2. CASE QueueInterrupt
  BY <1>2 DEF QueueInterrupt, SendFromISR, ReceiveFromISR, FromISRUnchanged, MutexCalls
<1>3. ASSUME NEW t \in Task, QueueStep(t) PROVE MutexCalls'
  <2>1. ASSUME NEW c \in Arguments(t), Begin(t, c) PROVE MutexCalls'
    <3>1. IsCall(c) /\ Test(t, c) /\ Proper(t, c)
      BY <2>1, TestsAreProper DEF Arguments, IsCall, Begin, UsesMutexProperly
    <3> QED BY <3>1, MutexCallsTest
  <2>2. CASE Again(t)
    <3>1. Test(t, call[t]) /\ pc[t] \in InACall /\ Proper(t, call[t])
      BY <2>2, TestsAreProper DEF Again, InACall
    <3>2. IsCall(call[t])
      BY <3>1 DEF QueueInv, Calling
    <3> QED BY <3>1, <3>2, MutexCallsTest
  <2>3. CASE \/ CallSuspendAll(t) \/ LockQueue(t) \/ Check(t) \/ Inherit(t) \/ Place(t)
             \/ UnlockTx(t) \/ UnlockRx(t) \/ CallResumeAll(t)
    <3>1. /\ UNCHANGED pxMutexHolder
          /\ \A u \in Task : u # t => pc'[u] = pc[u] /\ call'[u] = call[u]
          /\ pc[t] \in InACall
          /\ pc'[t] # "run" => call'[t].queue = call[t].queue /\ call'[t].kind = call[t].kind
          /\ pc'[t] = "inherit" => call[t].queue \in Mutexes
      BY <2>3, LoopCalls
    <3> QED BY <1>0, <3>1 DEF MutexCalls
  <2> QED BY <1>3, <2>1, <2>2, <2>3 DEF QueueStep
<1>4. CASE UNCHANGED vars
  BY <1>4 DEF vars, taskVars, queueVars, queues, MutexCalls
<1> QED BY <1>1, <1>2, <1>3, <1>4 DEF Next

(* What the scheduler does to priorities: it creates tasks with their own, *)
(* and vTaskPrioritySet leaves an inherited one.                           *)
LEMMA TaskNextPriorities ==
  ASSUME ListTypes, TaskNext
  PROVE  \A u \in AllTasks : prio[u] = base[u] => prio'[u] = base'[u]
<1>1. ASSUME UNCHANGED <<prio, base>> PROVE \A u \in AllTasks : prio[u] = base[u] => prio'[u] = base'[u]
  BY <1>1
<1>2. CASE Interrupt \/ Switch \/ CatchUp \/ IdleStep
  BY <1>1, <1>2 DEF Interrupt, Tick, ResumeFromISR, Switch, CatchUp, IdleStep, IdleYield, IdleBegin,
                    IdleResume, IdleFree, ResumeAll, priorities
<1>3. ASSUME NEW t \in Task, ApiCall(t)
      PROVE  \A u \in AllTasks : prio[u] = base[u] => prio'[u] = base'[u]
  <2>1. CASE TaskSuspendAll(t) \/ TaskResumeAll(t) \/ DelayResume(t)
    BY <1>1, <2>1 DEF TaskSuspendAll, TaskResumeAll, DelayResume, ResumeAll, priorities
  <2>2. CASE \E d \in DelayTimes : Delay(t, d) \/ DelayUntil(t, d)
    BY <1>1, <2>2 DEF Delay, DelayUntil, priorities
  <2>3. CASE \E u \in Task : Delete(t, u) \/ Suspend(t, u) \/ Resume(t, u)
    BY <1>1, <2>3 DEF Delete, Suspend, Resume, priorities
  <2>4. ASSUME NEW v \in Task, Create(t, v)
        PROVE  \A u \in AllTasks : prio[u] = base[u] => prio'[u] = base'[u]
    BY <2>4 DEF Create, ListTypes
  <2>5. ASSUME NEW v \in Task, NEW new \in NewPriorities, PrioritySet(t, v, new)
        PROVE  \A u \in AllTasks : prio[u] = base[u] => prio'[u] = base'[u]
    <3>1. /\ prio' = [prio EXCEPT ![v] = IF base[v] = prio[v] THEN new ELSE prio[v]]
          /\ base' = [base EXCEPT ![v] = new]
      BY <2>5 DEF PrioritySet
    <3> QED BY <3>1 DEF ListTypes
  <2> QED BY <1>3, <2>1, <2>2, <2>3, <2>4, <2>5 DEF ApiCall
<1> QED BY <1>2, <1>3 DEF TaskNext

(* A test gives back what its caller has inherited, with the mutex.        *)
LEMMA GivenBackTest ==
  ASSUME QueueInv, ListTypes, PriorityGivenBack, NEW t \in Task, NEW c, IsCall(c), Proper(t, c),
         Test(t, c), TestUnchanged
  PROVE  PriorityGivenBack'
<1>1. /\ base' = base /\ DOMAIN prio = AllTasks /\ \A u \in Task : u \in AllTasks
      /\ Null \notin Task
  BY QueueAssumption DEF TestUnchanged, ListTypes, AllTasks
<1>2. ASSUME NEW u \in Task, NEW m \in Mutexes, pxMutexHolder[m] = u
      PROVE  pxMutexHolder'[m] = u \/ (SendNow(t, c) /\ u = t /\ m = c.queue)
  BY <1>1, <1>2, TestHolders
<1>3. CASE SendNow(t, c) /\ c.queue \in Mutexes
  <2>1. prio' = IF prio[t] # base[t] THEN [prio EXCEPT ![t] = base[t]] ELSE prio
    BY <1>3 DEF SendNow, Disinherits
  <2>2. prio'[t] = base[t] /\ \A u \in Task : u # t => prio'[u] = prio[u]
    BY <1>1, <2>1
  <2> QED BY <1>1, <1>2, <2>2 DEF PriorityGivenBack
<1>4. CASE prio' = prio /\ \A m \in Mutexes, u \in Task : pxMutexHolder[m] = u => pxMutexHolder'[m] = u
  BY <1>1, <1>4 DEF PriorityGivenBack
<1>5. CASE c.queue \notin Mutexes
  <2>1. prio' = prio
    BY <1>5 DEF Test, SendNow, ReceiveNow, Disinherits
  <2>2. \A m \in Mutexes : pxMutexHolder'[m] = pxMutexHolder[m]
    BY <1>5, TestHolders
  <2> QED BY <1>4, <2>1, <2>2
<1>6. CASE c.queue \in Mutexes /\ ~SendNow(t, c)
  <2>1. prio' = prio
    BY <1>6 DEF Test, ReceiveNow
  <2> QED BY <1>2, <1>4, <1>6, <2>1
<1> QED BY <1>3, <1>5, <1>6

(* Every step.                                                             *)
LEMMA GivenBackNext ==
  ASSUME QueueInv, ListInv, MutexCalls, PriorityGivenBack, [Next]_vars
  PROVE  PriorityGivenBack'
<1>0. ListTypes /\ DOMAIN prio = AllTasks /\ \A u \in Task : u \in AllTasks
  BY DEF ListInv, ListsInv, ListTypes, AllTasks
<1>1. CASE TaskNext /\ UNCHANGED queueVars
  <2>1. UNCHANGED pxMutexHolder
    BY <1>1 DEF queueVars, queues
  <2> QED BY <1>0, <1>1, <2>1, TaskNextPriorities DEF PriorityGivenBack
<1>2. CASE UNCHANGED <<prio, base, pxMutexHolder>>
  BY <1>2 DEF PriorityGivenBack
<1>3. CASE QueueInterrupt
  BY <1>2, <1>3 DEF QueueInterrupt, SendFromISR, ReceiveFromISR, FromISRUnchanged, priorities
<1>4. ASSUME NEW t \in Task, QueueStep(t) PROVE PriorityGivenBack'
  <2>1. ASSUME NEW c \in Arguments(t), Begin(t, c) PROVE PriorityGivenBack'
    <3>1. IsCall(c) /\ Test(t, c) /\ TestUnchanged /\ Proper(t, c)
      BY <2>1, TestsAreProper DEF Arguments, IsCall, Begin, UsesMutexProperly
    <3> QED BY <1>0, <3>1, GivenBackTest
  <2>2. CASE Again(t)
    <3>1. Test(t, call[t]) /\ TestUnchanged /\ pc[t] \in InACall /\ Proper(t, call[t])
      BY <2>2, TestsAreProper DEF Again, InACall
    <3>2. IsCall(call[t])
      BY <3>1 DEF QueueInv, Calling
    <3> QED BY <1>0, <3>1, <3>2, GivenBackTest
  <2>3. CASE CallSuspendAll(t) \/ LockQueue(t) \/ Check(t) \/ Place(t) \/ UnlockTx(t) \/ UnlockRx(t)
    BY <1>2, <2>3 DEF CallSuspendAll, LockQueue, Check, Place, UnlockTx, UnlockRx, InCall, priorities,
                      queueVars, queues
  <2>4. CASE Inherit(t)
    <3> DEFINE h == pxMutexHolder[call[t].queue]
    <3>1. call[t].queue \in Mutexes
      BY <2>4 DEF Inherit, At, MutexCalls
    <3>2. prio' = prio \/ \E p : prio' = [prio EXCEPT ![h] = p]
      BY <2>4 DEF Inherit
    <3>3. UNCHANGED <<base, pxMutexHolder>>
      BY <2>4 DEF Inherit, InCall, queueVars, queues
    <3>4. \A u \in Task : u # h => prio'[u] = prio[u]
      BY <1>0, <3>2
    <3> QED BY <3>1, <3>3, <3>4 DEF PriorityGivenBack
  <2>5. CASE CallResumeAll(t)
    BY <1>2, <2>5 DEF CallResumeAll, ResumeAll, priorities, queues
  <2> QED BY <1>4, <2>1, <2>2, <2>3, <2>4, <2>5 DEF QueueStep
<1>5. CASE UNCHANGED vars
  BY <1>2, <1>5 DEF vars, taskVars, priorities, queueVars, queues
<1> QED BY <1>1, <1>3, <1>4, <1>5 DEF Next

(* PriorityGivenBack: whoever holds no mutex has its own priority,         *)
(* whatever it had inherited, whoever waited and gave up, and whatever     *)
(* vTaskPrioritySet was called with in between.                            *)
THEOREM PrioritiesGivenBack == Spec => []PriorityGivenBack
<1> DEFINE Inv == QueueInv /\ ListInv /\ MutexCalls /\ PriorityGivenBack
<1>1. Init => Inv
  <2>1. Init => MutexCalls /\ PriorityGivenBack
    BY DEF Init, TaskInit, MutexCalls, PriorityGivenBack, InACall, AllTasks
  <2> QED BY <2>1, QueueInitially, ListsInitially
<1>2. Inv /\ [Next]_vars => Inv'
  BY QueueNext, ListsNext, MutexCallsNext, GivenBackNext
<1>3. Inv => PriorityGivenBack
  OBVIOUS
<1> QED BY <1>1, <1>2, <1>3, PTL DEF Spec

-----------------------------------------------------------------------------
(* The priority of who holds a mutex.                                      *)

(* There is one mutex, and a priority changes with it only; no task is     *)
(* suspended on its way to it.                                             *)
OneMutex ==
    /\ \A m, n \in Mutexes : m = n
    /\ \A t \in Task :
          Calls[t] \cap {"vTaskPrioritySet", "xTaskCreate", "vTaskDelete", "vTaskSuspend"} = {}

Takers(m) == events[<<m, "receive">>]

(* Who is about to wait for a mutex has left it its priority.              *)
Inheriting ==
    \A t \in Task : pc[t] = "place" /\ call[t].queue \in Mutexes =>
        /\ pxMutexHolder[call[t].queue] # Null
        /\ prio[t] <= prio[pxMutexHolder[call[t].queue]]

(* Who gets the processor before any task of a priority below that of u.   *)
Near(u) == prio[u] <= prio[pxCurrentTCB] \/ (pendSV /\ uxSchedulerSuspended = 0)

(* Task u was woken for mutex m, and nobody of a lower priority takes it   *)
(* before u, or a task that is no lower, comes to its test.                *)
Heir(u, m) ==
    /\ IsReady(u) /\ pc[u] = "test" /\ call[u].queue = m
    /\ \A t \in ToSet(Takers(m)) : prio[t] <= prio[u]
    /\ Near(u)

Handed ==
    \A m \in Mutexes : pxMutexHolder[m] = Null /\ Takers(m) # <<>> => \E u \in Task : Heir(u, m)

Values == DOMAIN evalue = AllTasks /\ \A t \in AllTasks : evalue[t] = MaxPriorities - prio[t]

Shares == Values /\ (\A m \in Mutexes : Ascending(Takers(m), evalue)) /\ HolderInherits /\ Handed

(* Priorities are numbers that can be compared.                            *)
LEMMA PriorityTypes ==
  ASSUME ListTypes
  PROVE  /\ \A t \in AllTasks : prio[t] \in Int /\ base[t] \in Int
         /\ MaxPriorities \in Int /\ pxCurrentTCB \in AllTasks
         /\ \A t \in Task : t \in AllTasks
         /\ \A m \in Mutexes : <<m, "receive">> \in EventLists /\ <<m, "send">> \in EventLists
                               /\ m \in Queues /\ Good(Takers(m))
BY TasksAssumption, QueueAssumption DEF ListTypes, Priorities, AllTasks, Takers

(* A step that leaves the mutex, the priorities and those that are woken   *)
(* for it.                                                                 *)
TakersLeave ==
    \A m \in Mutexes : Takers(m)' = Takers(m) \/ \E us : Takers(m)' = Without(Takers(m), us)

HeirsStay ==
    \A u \in Task :
        IsReady(u) /\ pc[u] = "test" /\ call[u].queue \in Mutexes /\ pxMutexHolder[call[u].queue] = Null
           => /\ IsReady(u)' /\ pc'[u] = "test" /\ call'[u].queue = call[u].queue
              /\ Near(u) => Near(u)'

LEMMA CalmShares ==
  ASSUME ListTypes, Shares, TakersLeave, HeirsStay, UNCHANGED <<prio, evalue>>,
         \A m \in Mutexes : pxMutexHolder'[m] = pxMutexHolder[m]
  PROVE  Shares'
<1>1. ASSUME NEW m \in Mutexes
      PROVE  /\ Ascending(Takers(m)', evalue)
             /\ \A t \in ToSet(Takers(m)') : t \in ToSet(Takers(m))
             /\ Takers(m)' # <<>> => Takers(m) # <<>>
  <2>1. Good(Takers(m)) /\ Ascending(Takers(m), evalue)
    BY PriorityTypes DEF Shares
  <2>2. ASSUME NEW us
        PROVE  /\ Ascending(Without(Takers(m), us), evalue)
               /\ \A t \in ToSet(Without(Takers(m), us)) : t \in ToSet(Takers(m))
               /\ Without(Takers(m), us) # <<>> => Takers(m) # <<>>
    <3>1. Ascending(Without(Takers(m), us), evalue)
      BY <2>1, AscendingWithout
    <3>2. Good(Without(Takers(m), us)) /\ ToSet(Without(Takers(m), us)) = ToSet(Takers(m)) \ us
      BY <2>1, GoodWithout
    <3>3. Without(Takers(m), us) # <<>> => ToSet(Without(Takers(m), us)) # {}
      BY <3>2, GoodFacts
    <3> QED BY <3>1, <3>2, <3>3, GoodEmpty
  <2> QED BY <2>1, <2>2 DEF TakersLeave
<1>2. Values' /\ \A m \in Mutexes : Ascending(Takers(m)', evalue')
  BY <1>1 DEF Shares, Values
<1>3. HolderInherits'
  BY <1>1 DEF Shares, HolderInherits, Takers
<1>4. Handed'
  <2> SUFFICES ASSUME NEW m \in Mutexes, pxMutexHolder'[m] = Null, Takers(m)' # <<>>
               PROVE  \E u \in Task : Heir(u, m)'
    BY DEF Handed
  <2>1. PICK u \in Task : Heir(u, m)
    BY <1>1 DEF Shares, Handed
  <2>2. /\ IsReady(u)' /\ pc'[u] = "test" /\ call'[u].queue = m /\ Near(u)'
    BY <2>1 DEF HeirsStay, Heir
  <2> QED BY <1>1, <2>1, <2>2 DEF Heir
<1> QED BY <1>2, <1>3, <1>4 DEF Shares

(* As long as the running task and the priorities stay.                    *)
LEMMA NearStays ==
  ASSUME NEW u, Near(u), UNCHANGED <<pxCurrentTCB, prio>>,
         ~pendSV \/ (pendSV' = TRUE /\ UNCHANGED uxSchedulerSuspended)
  PROVE  Near(u)'
BY DEF Near

(* Tasks that get ready put none off.                                      *)
LEMMA AddToReadyGrows ==
  ASSUME ListTypes, NEW us, Good(us), AddToReady(us, prio)
  PROVE  \A u \in AllTasks : IsReady(u) => IsReady(u)'
<1>1. prio \in [AllTasks -> Priorities]
  BY DEF ListTypes
<1>2. \A p \in Priorities : ToSet(ready'[p]) =
         (ToSet(ready[p]) \ ToSet(us)) \cup {t \in ToSet(us) : prio[t] = p}
  BY <1>1, AddToReadyFacts
<1> QED BY <1>1, <1>2 DEF IsReady

LEMMA RemoveFromEventListGrows ==
  ASSUME ListTypes, NEW l \in EventLists, NEW n \in Nat, RemoveFromEventList(l, n)
  PROVE  \A u \in AllTasks : IsReady(u) => IsReady(u)'
<1>1. Good(Waiting(l, n))
  BY WaitingFacts
<1>2. PICK us : us = Waiting(l, n)
  OBVIOUS
<1>3. AddToReady(us, prio) \/ UNCHANGED ready
  BY <1>2 DEF RemoveFromEventList, MakeReady, generic
<1> QED BY <1>1, <1>2, <1>3, AddToReadyGrows DEF IsReady

(* Steps of the scheduler.                                                 *)
LEMMA TaskNextKeepsPriorities ==
  ASSUME OneMutex, TaskNext
  PROVE  UNCHANGED <<prio, evalue>>
<1>1. CASE Interrupt \/ Switch \/ CatchUp \/ IdleStep
  BY <1>1 DEF Interrupt, Tick, ResumeFromISR, Switch, CatchUp, IdleStep, IdleYield, IdleBegin,
              IdleResume, IdleFree, ResumeAll, priorities
<1>2. ASSUME NEW t \in Task, ApiCall(t) PROVE UNCHANGED <<prio, evalue>>
  <2>1. CASE TaskSuspendAll(t) \/ TaskResumeAll(t) \/ DelayResume(t)
    BY <2>1 DEF TaskSuspendAll, TaskResumeAll, DelayResume, ResumeAll, priorities
  <2>2. CASE \E d \in DelayTimes : Delay(t, d) \/ DelayUntil(t, d)
    BY <2>2 DEF Delay, DelayUntil, priorities
  <2>3. CASE \E u \in Task : Resume(t, u)
    BY <2>3 DEF Resume, priorities
  <2>4. ~\E u \in Task : Create(t, u) \/ Delete(t, u) \/ Suspend(t, u)
    BY DEF OneMutex, Create, Delete, Suspend, CallsFunction
  <2>5. ~\E u \in Task, p \in NewPriorities : PrioritySet(t, u, p)
    BY DEF OneMutex, PrioritySet, CallsFunction
  <2> QED BY <1>2, <2>1, <2>2, <2>3, <2>4, <2>5 DEF ApiCall
<1> QED BY <1>1, <1>2 DEF TaskNext

(* The processor is given away by a switch only.                           *)
LEMMA TaskNextRuns ==
  ASSUME ListsInv, TaskNext
  PROVE  \/ Switch
         \/ /\ UNCHANGED pxCurrentTCB
            /\ ~pendSV \/ (pendSV' = TRUE /\ UNCHANGED uxSchedulerSuspended)
<1>1. CASE Interrupt
  BY <1>1 DEF Interrupt, Tick, ResumeFromISR, scheduler
<1>2. CASE CatchUp
  BY <1>2 DEF CatchUp, ListsInv, CatchingUp
<1>3. CASE IdleStep
  BY <1>3 DEF IdleStep, IdleYield, IdleBegin, IdleResume, IdleFree, ResumeAll, Executes
<1>4. ASSUME NEW t \in Task, ApiCall(t) PROVE UNCHANGED pxCurrentTCB /\ ~pendSV
  <2>1. CASE TaskSuspendAll(t) \/ TaskResumeAll(t) \/ DelayResume(t)
    BY <2>1 DEF TaskSuspendAll, TaskResumeAll, DelayResume, ResumeAll, Executes
  <2>2. CASE \E d \in DelayTimes : Delay(t, d) \/ DelayUntil(t, d)
    BY <2>2 DEF Delay, DelayUntil, CallsFunction, Executes
  <2>3. CASE \E u \in Task : Create(t, u) \/ Delete(t, u) \/ Suspend(t, u) \/ Resume(t, u)
    BY <2>3 DEF Create, Delete, Suspend, Resume, CallsFunction, Executes
  <2>4. CASE \E u \in Task, p \in NewPriorities : PrioritySet(t, u, p)
    BY <2>4 DEF PrioritySet, CallsFunction, Executes
  <2> QED BY <1>4, <2>1, <2>2, <2>3, <2>4 DEF ApiCall
<1> QED BY <1>1, <1>2, <1>3, <1>4 DEF TaskNext

(* Only a task that calls vTaskDelay or vTaskDelayUntil stops being ready. *)
LEMMA TaskNextKeepsReady ==
  ASSUME OneMutex, ListsInv, Top, uxSchedulerSuspended \in Nat, TaskNext
  PROVE  \A u \in Task : IsReady(u) /\ pc[u] # "run" => IsReady(u)'
<1>0. ListTypes /\ \A u \in Task : u \in AllTasks
  BY DEF ListsInv, AllTasks
<1>1. ASSUME NEW us, Good(us), MakeReady(us, prio) PROVE \A u \in Task : IsReady(u) => IsReady(u)'
  BY <1>0, <1>1, AddToReadyGrows DEF MakeReady
<1>2. ASSUME UNCHANGED ready PROVE \A u \in Task : IsReady(u) => IsReady(u)'
  BY <1>2 DEF IsReady
<1>3. ASSUME IncrementTick, UNCHANGED <<prio, base, pxCurrentTCB>>
      PROVE  \A u \in Task : IsReady(u) => IsReady(u)'
  <2>1. PICK due : Good(due) /\ AddToReady(due, prio)
    BY <1>0, <1>3, IncrementTickFacts DEF ListTypes
  <2> QED BY <1>0, <2>1, AddToReadyGrows
<1>4. ASSUME NEW u \in Task, MakeReady(<<u>>, prio) PROVE \A v \in Task : IsReady(v) => IsReady(v)'
  <2>1. Good(<<u>>)
    BY <1>0, GoodOne
  <2>2. PICK us : us = <<u>>
    OBVIOUS
  <2> QED BY <1>1, <1>4, <2>1, <2>2
<1>5. ASSUME NEW yield, ResumeAll(yield) PROVE \A u \in Task : IsReady(u) => IsReady(u)'
  <2>1. Good(pendingReady)
    BY <1>0 DEF ListTypes
  <2>2. PICK us : us = pendingReady
    OBVIOUS
  <2>3. MakeReady(us, prio) \/ UNCHANGED ready
    BY <1>5, <2>2 DEF ResumeAll, generic
  <2> QED BY <1>1, <1>2, <2>1, <2>2, <2>3
<1>6. CASE Interrupt
  BY <1>2, <1>3, <1>4, <1>6 DEF Interrupt, Tick, ResumeFromISR, generic, priorities
<1>7. CASE CatchUp
  BY <1>3, <1>7 DEF CatchUp, priorities
<1>8. CASE Switch
  <2>1. CASE uxSchedulerSuspended = 0
    BY <1>8, <2>1, SwitchTakesHighest
  <2>2. CASE UNCHANGED ready
    BY <1>2, <2>2
  <2> QED BY <1>8, <2>1, <2>2 DEF Switch
<1>9. CASE IdleStep
  BY <1>2, <1>5, <1>9 DEF IdleStep, IdleYield, IdleBegin, IdleResume, IdleFree, generic
<1>10. ASSUME NEW t \in Task, ApiCall(t) PROVE \A u \in Task : IsReady(u) /\ pc[u] # "run" => IsReady(u)'
  <2>1. CASE TaskSuspendAll(t) \/ TaskResumeAll(t) \/ DelayResume(t)
    BY <1>2, <1>5, <2>1 DEF TaskSuspendAll, TaskResumeAll, DelayResume, generic
  <2>2. ASSUME NEW d \in DelayTimes, Delay(t, d) \/ DelayUntil(t, d)
        PROVE  \A u \in Task : IsReady(u) /\ pc[u] # "run" => IsReady(u)'
    <3>1. pc[t] = "run"
      BY <2>2 DEF Delay, DelayUntil, CallsFunction
    <3>2. UNCHANGED ready \/ ready' = [p \in Priorities |-> Without(ready[p], {t})]
      BY <2>2 DEF Delay, DelayUntil, AddToDelayed, generic
    <3>3. \A p \in Priorities : ToSet(Without(ready[p], {t})) = ToSet(ready[p]) \ {t}
      BY <1>0, GoodWithout DEF ListTypes
    <3> QED BY <3>1, <3>2, <3>3 DEF IsReady
  <2>3. CASE \E u \in Task : Resume(t, u)
    BY <1>4, <2>3 DEF Resume
  <2>4. ~\E u \in Task : Create(t, u) \/ Delete(t, u) \/ Suspend(t, u)
    BY DEF OneMutex, Create, Delete, Suspend, CallsFunction
  <2>5. ~\E u \in Task, p \in NewPriorities : PrioritySet(t, u, p)
    BY DEF OneMutex, PrioritySet, CallsFunction
  <2> QED BY <1>10, <2>1, <2>2, <2>3, <2>4, <2>5 DEF ApiCall
<1> QED BY <1>6, <1>7, <1>8, <1>9, <1>10 DEF TaskNext

LEMMA TaskNextShares ==
  ASSUME OneMutex, QueueInv, ListsInv, Top, Inheriting, Shares, TaskNext, UNCHANGED queueVars
  PROVE  Inheriting' /\ Shares'
<1>1. UNCHANGED <<prio, evalue, pxMutexHolder, call>>
  BY TaskNextKeepsPriorities DEF queueVars, queues
<1>2. ListTypes /\ uxSchedulerSuspended \in Nat /\ \A u \in Task : u \in AllTasks
  BY DEF ListsInv, QueueInv, Shapes, AllTasks
<1>3. \A u \in Task : pc'[u] = pc[u] \/ (pc[u] \notin InACall /\ pc'[u] \notin InACall)
  BY SchedulerLeavesCalls DEF QueueInv, OneMutex
<1>4. "place" \in InACall /\ "test" \in InACall /\ "test" # "run"
  BY DEF InACall
<1>5. Inheriting'
  BY <1>1, <1>3, <1>4 DEF Inheriting
<1>6. TakersLeave
  BY <1>2, PriorityTypes, TaskNextLeaves DEF OnlyLeave, TakersLeave, Takers
<1>7. ASSUME NEW u \in Task, IsReady(u), Near(u) PROVE Near(u)'
  <2>1. CASE Switch
    <3>1. CASE uxSchedulerSuspended = 0
      <4>1. prio[u] <= prio[pxCurrentTCB']
        BY <1>2, <1>7, <2>1, <3>1, SwitchTakesHighest
      <4> QED BY <1>1, <4>1 DEF Near
    <3>2. CASE uxSchedulerSuspended > 0 /\ UNCHANGED pxCurrentTCB
      BY <1>1, <1>2, <1>7, <3>2 DEF Near
    <3> QED BY <2>1, <3>1, <3>2 DEF Switch
  <2>2. CASE /\ UNCHANGED pxCurrentTCB
             /\ ~pendSV \/ (pendSV' = TRUE /\ UNCHANGED uxSchedulerSuspended)
    BY <1>1, <1>7, <2>2, NearStays
  <2> QED BY <2>1, <2>2, TaskNextRuns
<1>8. HeirsStay
  BY <1>1, <1>2, <1>3, <1>4, <1>7, TaskNextKeepsReady DEF HeirsStay
<1> QED BY <1>1, <1>2, <1>5, <1>6, <1>8, CalmShares

(* Interrupts send to other queues and wake tasks, and have the running    *)
(* task switched.                                                          *)
LEMMA InterruptShares ==
  ASSUME ListsInv, Inheriting, Shares, QueueInterrupt
  PROVE  Inheriting' /\ Shares'
<1>1. PICK q \in Queues :
        ReceiveFromISR(q) \/ \E i \in Items, p \in {"back", "front"} : SendFromISR(q, i, p)
  BY DEF QueueInterrupt
<1>2. UNCHANGED <<prio, evalue, pxMutexHolder, call, pc, pxCurrentTCB, uxSchedulerSuspended>>
  BY <1>1 DEF ReceiveFromISR, SendFromISR, FromISRUnchanged, priorities, scheduler
<1>3. \E l \in EventLists : \E lock : WakeFromISR(l, lock)
  <2>1. <<q, "send">> \in EventLists /\ <<q, "receive">> \in EventLists
    BY QueueAssumption
  <2> QED BY <1>1, <2>1 DEF ReceiveFromISR, SendFromISR
<1>4. /\ ~pendSV \/ pendSV' = TRUE
      /\ \E l \in EventLists : RemoveFromEventList(l, 1) \/ UNCHANGED <<generic, eventItems>>
  BY <1>3 DEF WakeFromISR
<1>5. ListTypes /\ 1 \in Nat /\ \A u \in Task : u \in AllTasks
  BY DEF ListsInv, AllTasks
<1>6. OnlyLeave /\ \A u \in AllTasks : IsReady(u) => IsReady(u)'
  <2>1. CASE UNCHANGED <<generic, eventItems>>
    BY <2>1 DEF OnlyLeave, IsReady, generic, eventItems
  <2> QED BY <1>4, <1>5, <2>1, RemoveFromEventListLeaves, RemoveFromEventListGrows
<1>7. TakersLeave
  BY <1>5, <1>6, PriorityTypes DEF OnlyLeave, TakersLeave, Takers
<1>8. HeirsStay
  BY <1>2, <1>4, <1>5, <1>6, NearStays DEF HeirsStay
<1>9. Inheriting'
  BY <1>2 DEF Inheriting
<1> QED BY <1>2, <1>5, <1>7, <1>8, <1>9, CalmShares

(* The first of a list in order has the least value, and is woken first.   *)
LEMMA FirstIsLeast ==
  ASSUME NEW s, Good(s), s # <<>>, NEW value, Ascending(s, value), \A x \in ToSet(s) : value[x] \in Int
  PROVE  \E u \in ToSet(SubSeq(s, 1, IF 1 > Len(s) THEN Len(s) ELSE 1)) :
            u \in ToSet(s) /\ \A x \in ToSet(s) : value[u] <= value[x]
<1>1. /\ Len(s) \in Nat /\ Len(s) # 0
      /\ \A i \in 1 .. Len(s) : s[i] \in ToSet(s)
      /\ \A x \in ToSet(s) : \E i \in 1 .. Len(s) : x = s[i]
  <2>1. s \in Seq(AllTasks)
    BY DEF Good
  <2>2. Len(s) # 0
    BY <2>1, EmptySeq
  <2> QED BY <2>2, GoodFacts
<1> DEFINE a == SubSeq(s, 1, 1)
<1>2. 1 \in 0 .. Len(s) /\ 1 \in 1 .. Len(s) /\ (IF 1 > Len(s) THEN Len(s) ELSE 1) = 1
  BY <1>1
<1>3. Good(a) /\ Len(a) = 1 /\ \A i \in 1 .. 1 : a[i] = s[i]
  BY <1>2, GoodSplit, AscendingSplit
<1>4. s[1] \in ToSet(a)
  <2>1. 1 \in 1 .. 1 /\ 1 \in 1 .. Len(a)
    BY <1>3
  <2> HIDE DEF a
  <2> QED BY <1>3, <2>1, GoodFacts
<1>5. \A x \in ToSet(s) : value[s[1]] <= value[x]
  <2> SUFFICES ASSUME NEW i \in 1 .. Len(s) PROVE value[s[1]] <= value[s[i]]
    BY <1>1
  <2>1. value[s[1]] \in Int
    BY <1>1, <1>2
  <2>2. i = 1 \/ 1 < i
    BY <1>1
  <2> QED BY <1>2, <2>1, <2>2 DEF Ascending
<1> QED BY <1>1, <1>2, <1>4, <1>5

(* A mutex that is given: its first waiter is woken.                       *)
LEMMA GiveShares ==
  ASSUME OneMutex, QueueInv, ListsInv, Waiters, Shares, uxSchedulerSuspended = 0,
         UNCHANGED <<base, pxCurrentTCB, uxSchedulerSuspended>>,
         NEW t \in Task, t = pxCurrentTCB, IsReady(t), NEW c, IsCall(c), c.queue \in Mutexes,
         SendNow(t, c), pxMutexHolder'[c.queue] = Null,
         \A u \in Task : u # t => pc'[u] = pc[u] /\ call'[u] = call[u]
  PROVE  Shares'
<1> DEFINE m     == c.queue
           l     == <<m, "receive">>
           woken == Waiting(l, 1)
           self  == IF Disinherits(t, m) THEN <<t>> ELSE <<>>
<1>0. /\ ListTypes /\ AllApart /\ \A n \in Mutexes : n = m
      /\ \A u \in Task : u \in AllTasks
  BY DEF ListsInv, OneMutex, AllTasks
<1>1. /\ \A u \in AllTasks : prio[u] \in Int /\ base[u] \in Int
      /\ MaxPriorities \in Int /\ m \in Mutexes /\ l \in EventLists
      /\ Good(Takers(m)) /\ DOMAIN events = EventLists
  BY <1>0, PriorityTypes DEF ListTypes
<1>2. /\ prio' = IF Disinherits(t, m) THEN [prio EXCEPT ![t] = base[t]] ELSE prio
      /\ evalue' = IF Disinherits(t, m) THEN [evalue EXCEPT ![t] = MaxPriorities - base[t]] ELSE evalue
      /\ MakeReady(self \o woken, prio')
      /\ events' = [events EXCEPT ![l] = Without(@, ToSet(woken))]
      /\ pendSV' = \E u \in ToSet(woken) : prio'[u] >= prio'[t]
  BY DEF SendNow, Yield
<1> HIDE DEF m, woken
<1>3. /\ DOMAIN evalue' = AllTasks
      /\ \A u \in AllTasks : u # t => prio'[u] = prio[u] /\ evalue'[u] = evalue[u]
      /\ \A u \in AllTasks : evalue'[u] = MaxPriorities - prio'[u] /\ prio'[u] \in Int
      /\ prio' \in [AllTasks -> Priorities]
  <2>1. /\ DOMAIN evalue = AllTasks /\ \A u \in AllTasks : evalue[u] = MaxPriorities - prio[u]
        /\ prio \in [AllTasks -> Priorities] /\ base \in [AllTasks -> Priorities]
    BY <1>0 DEF Shares, Values, ListTypes
  <2>2. CASE Disinherits(t, m)
    BY <1>0, <1>1, <1>2, <2>1, <2>2
  <2>3. CASE ~Disinherits(t, m)
    BY <1>0, <1>1, <1>2, <2>1, <2>3
  <2> QED BY <2>2, <2>3
<1>4. /\ Good(woken) /\ ToSet(woken) \subseteq ToSet(events[l])
      /\ \A u \in ToSet(events[l]) : /\ u \in Task /\ u # t /\ ~IsReady(u) /\ pc[u] \in Turning
                                     /\ call[u].queue = m
  <2>1. Good(woken) /\ \A u \in ToSet(woken) : u \in ToSet(events[l])
    BY <1>0, <1>1, WaitingFacts DEF woken
  <2>2. \A u \in ToSet(events[l]) : u \in Task /\ pc[u] \in Turning /\ List(call[u]) = l
    BY <1>1 DEF Waiters
  <2>3. \A u \in ToSet(events[l]) : call[u].queue = m
    BY <2>2 DEF List
  <2>4. \A u \in ToSet(events[l]) : u \in AllTasks /\ ~IsReady(u)
    BY <1>0, <1>1, <2>2, WaitingApart
  <2> QED BY <2>1, <2>2, <2>3, <2>4
<1>5. ASSUME NEW u \in ToSet(events[l]) PROVE pc[u] = "test"
  <2>1. pc[u] \in Turning /\ u \in AllTasks /\ uxSchedulerSuspended # 1
    BY <1>0, <1>4
  <2>2. pc[u] \notin Suspending
    BY <2>1 DEF QueueInv, InSuspension
  <2> QED BY <2>1, <2>2 DEF Turning, Suspending, LockedForRx
<1>6. Good(self) /\ \A u \in ToSet(self) : u = t
  BY <1>0, GoodOne, GoodEmpty
<1> HIDE DEF self
<1>7. Good(self \o woken) /\ ToSet(self \o woken) = ToSet(self) \cup ToSet(woken)
  BY <1>4, <1>6, GoodConcat
<1>8. \A u \in ToSet(woken) : IsReady(u)'
  <2>1. PICK us : us = self \o woken
    OBVIOUS
  <2>2. Good(us) /\ AddToReady(us, prio') /\ ToSet(us) = ToSet(self) \cup ToSet(woken)
    BY <1>2, <1>7, <2>1 DEF MakeReady
  <2>3. \A p \in Priorities : ToSet(ready'[p]) =
           (ToSet(ready[p]) \ ToSet(us)) \cup {u \in ToSet(us) : prio'[u] = p}
    BY <1>0, <1>3, <2>2, AddToReadyNewFacts
  <2>4. \A u \in ToSet(woken) : u \in AllTasks
    BY <1>0, <1>4
  <2> QED BY <1>3, <2>2, <2>3, <2>4 DEF IsReady
<1>9. Takers(m) = events[l] /\ Takers(m)' = Without(events[l], ToSet(woken))
  BY <1>1, <1>2 DEF Takers
<1>10. /\ Good(Takers(m)') /\ ToSet(Takers(m)') = ToSet(events[l]) \ ToSet(woken)
       /\ Ascending(Takers(m)', evalue) /\ Ascending(events[l], evalue)
  BY <1>1, <1>9, GoodWithout, AscendingWithout DEF Shares
<1>11. Ascending(Takers(m)', evalue')
  <2>1. \A i \in 1 .. Len(Takers(m)') : Takers(m)'[i] \in ToSet(events[l])
    BY <1>10, GoodFacts
  <2>2. \A i \in 1 .. Len(Takers(m)') : evalue'[Takers(m)'[i]] = evalue[Takers(m)'[i]]
    BY <1>0, <1>3, <1>4, <2>1
  <2> QED BY <1>10, <2>2 DEF Ascending
<1>12. Values' /\ \A n \in Mutexes : Ascending(Takers(n)', evalue')
  BY <1>0, <1>3, <1>11 DEF Values
<1>13. HolderInherits'
  BY <1>0 DEF HolderInherits, m
<1>14. ASSUME Takers(m)' # <<>> PROVE \E u \in Task : Heir(u, m)'
  <2>1. events[l] # <<>>
    <3>1. ToSet(Takers(m)') # {}
      BY <1>10, <1>14, GoodFacts
    <3> QED BY <1>10, <3>1, GoodEmpty
  <2>2. \A x \in ToSet(events[l]) : evalue[x] \in Int /\ x \in AllTasks
    BY <1>0, <1>1, <1>4 DEF Shares, Values
  <2>3. woken = SubSeq(events[l], 1, IF 1 > Len(events[l]) THEN Len(events[l]) ELSE 1)
    BY DEF woken, Waiting
  <2>4. Good(events[l]) /\ Ascending(events[l], evalue)
    BY <1>1, <1>9, <1>10
  <2>5. PICK u \in ToSet(woken) : u \in ToSet(events[l]) /\ \A x \in ToSet(events[l]) : evalue[u] <= evalue[x]
    BY ONLY <2>1, <2>2, <2>3, <2>4, FirstIsLeast
  <2>6. u \in Task /\ u # t /\ pc[u] = "test" /\ call[u].queue = m /\ u \in AllTasks
    BY <1>0, <1>4, <1>5, <2>5
  <2>8. IsReady(u)' /\ pc'[u] = "test" /\ call'[u].queue = m
    BY <1>8, <2>5, <2>6
  <2>9. \A x \in ToSet(Takers(m)') : prio'[x] <= prio'[u]
    <3> SUFFICES ASSUME NEW x \in ToSet(Takers(m)') PROVE prio'[x] <= prio'[u]
      OBVIOUS
    <3>1. x \in ToSet(events[l]) /\ x \in AllTasks /\ x # t
      BY <1>0, <1>4, <1>10
    <3>2. evalue[u] <= evalue[x] /\ evalue[u] = MaxPriorities - prio[u] /\ evalue[x] = MaxPriorities - prio[x]
      BY <2>5, <2>6, <3>1 DEF Shares, Values
    <3>3. prio[x] <= prio[u]
      BY <1>1, <2>6, <3>1, <3>2
    <3> QED BY <1>3, <2>6, <3>1, <3>3
  <2>10. Near(u)'
    <3>1. prio'[u] \in Int /\ prio'[t] \in Int
      BY <1>0, <1>3, <2>6
    <3>2. prio'[u] <= prio'[t] \/ (pendSV' /\ uxSchedulerSuspended' = 0)
      BY <1>2, <2>5, <3>1
    <3> QED BY <3>2 DEF Near
  <2> QED BY <2>6, <2>8, <2>9, <2>10 DEF Heir
<1>15. Handed'
  BY <1>0, <1>14 DEF Handed
<1> QED BY <1>12, <1>13, <1>15 DEF Shares

(* A mutex that is taken, by its heir or by a task that is no lower.       *)
LEMMA TakeShares ==
  ASSUME OneMutex, ListsInv, Shares, ~pendSV, NEW t \in Task, t = pxCurrentTCB,
         NEW c, IsCall(c), c.queue \in Mutexes, c.kind # "peek",
         ReceiveNow(t, c), pxMutexHolder[c.queue] = Null, pxMutexHolder'[c.queue] = t
  PROVE  Shares'
<1> DEFINE m == c.queue
<1>0. /\ ListTypes /\ \A n \in Mutexes : n = m
      /\ \A u \in Task : u \in AllTasks
  BY DEF ListsInv, OneMutex, AllTasks
<1>1. /\ \A u \in AllTasks : prio[u] \in Int
      /\ m \in Mutexes /\ <<m, "send">> \in EventLists /\ <<m, "receive">> \in EventLists
      /\ Good(Takers(m)) /\ t # Null
  BY <1>0, PriorityTypes, QueueAssumption
<1>2. RemoveFromEventList(<<m, "send">>, 1) /\ UNCHANGED <<prio, evalue>>
  BY DEF ReceiveNow
<1>3. Takers(m)' = Takers(m)
  BY <1>1, <1>2 DEF RemoveFromEventList, Takers
<1>4. Values' /\ \A n \in Mutexes : Ascending(Takers(n)', evalue')
  BY <1>0, <1>2, <1>3 DEF Shares, Values
<1>5. HolderInherits'
  <2> SUFFICES ASSUME NEW x \in ToSet(Takers(m)) PROVE prio[t] >= prio[x]
    BY <1>0, <1>2, <1>3 DEF HolderInherits, Takers
  <2>1. Takers(m) # <<>> /\ x \in AllTasks
    BY <1>1, GoodEmpty, GoodFacts
  <2>2. PICK u \in Task : Heir(u, m)
    BY <1>1, <2>1 DEF Shares, Handed
  <2>3. prio[x] <= prio[u] /\ prio[u] <= prio[t]
    BY <2>2 DEF Heir, Near
  <2> QED BY <1>0, <1>1, <2>1, <2>3
<1>6. Handed'
  BY <1>0, <1>1 DEF Handed
<1> QED BY <1>4, <1>5, <1>6 DEF Shares

(* The test at the head of the loop.                                       *)
LEMMA TestShares ==
  ASSUME OneMutex, QueueInv, ListInv, Waiters, Shares, NEW t \in Task, NEW c, IsCall(c),
         Proper(t, c), Test(t, c), TestUnchanged, Executes(t), uxSchedulerSuspended = 0,
         pc[t] # "test" \/ c = call[t]
  PROVE  Inheriting' /\ Shares'
<1>0. /\ ListsInv /\ ListTypes /\ AllApart /\ IdleReady /\ pendingReady = <<>>
      /\ \A u \in Task : u \in AllTasks /\ \A m, n \in Mutexes : m = n
  BY DEF ListInv, ListsInv, NonePending, OneMutex, AllTasks
<1>1. /\ IsReady(t) /\ t = pxCurrentTCB /\ ~pendSV
      /\ UNCHANGED <<pxCurrentTCB, base, uxSchedulerSuspended, pendingReady>>
  BY <1>0, Executing DEF TestUnchanged, scheduler, Test, eventItems
<1>2. /\ \A u \in Task : u # t => pc'[u] = pc[u] /\ call'[u] = call[u]
      /\ pc'[t] = "run" \/ pc'[t] = "suspend"
  BY TestPlaces
<1>3. Inheriting'
  <2>1. ASSUME NEW u \in Task PROVE pc[u] # "place"
    <3>1. "place" \in Suspending /\ uxSchedulerSuspended # 1
      BY DEF Suspending, LockedForRx
    <3> QED BY <1>0, <3>1 DEF QueueInv, InSuspension
  <2> QED BY <1>2, <2>1 DEF Inheriting
<1>4. CASE c.queue \notin Mutexes
  <2>1. \A m \in Mutexes : pxMutexHolder'[m] = pxMutexHolder[m]
    BY <1>4, TestHolders
  <2>2. UNCHANGED <<prio, evalue>>
    BY <1>4 DEF Test, SendNow, ReceiveNow, Disinherits
  <2>3. TakersLeave
    <3>1. \E l \in EventLists : \E us :
            UNCHANGED events \/ events' = [events EXCEPT ![l] = Without(@, us)]
      <4>1. <<c.queue, "send">> \in EventLists /\ <<c.queue, "receive">> \in EventLists
        BY EventListsOf
      <4>2. CASE SendNow(t, c)
        BY <4>1, <4>2 DEF SendNow
      <4>3. CASE ReceiveNow(t, c)
        BY <4>1, <4>3 DEF ReceiveNow, RemoveFromEventList
      <4>4. CASE UNCHANGED eventItems
        BY <4>1, <4>4 DEF eventItems
      <4> QED BY <4>2, <4>3, <4>4 DEF Test
    <3>2. DOMAIN events = EventLists
      BY <1>0 DEF ListTypes
    <3> QED BY <1>0, <3>1, <3>2, PriorityTypes DEF TakersLeave, Takers
  <2>4. \A u \in Task : IsReady(u) => IsReady(u)'
    <3>1. (\E us : Readies(us)) => \A u \in Task : IsReady(u) => IsReady(u)'
      BY <1>0, ReadiesApart
    <3>2. CASE SendNow(t, c)
      BY <1>0, <1>1, <3>1, <3>2, SendNowLists
    <3>3. CASE ReceiveNow(t, c)
      BY <1>0, <1>1, <3>1, <3>3, ReceiveNowLists
    <3>4. CASE UNCHANGED generic
      BY <3>4 DEF generic, IsReady
    <3> QED BY <3>2, <3>3, <3>4 DEF Test
  <2>5. HeirsStay
    BY <1>1, <1>2, <1>4, <2>2, <2>4, NearStays DEF HeirsStay
  <2> QED BY <1>0, <1>3, <2>1, <2>2, <2>3, <2>5, CalmShares
<1>5. CASE c.queue \in Mutexes /\ SendNow(t, c) /\ pxMutexHolder'[c.queue] = Null
  BY <1>0, <1>1, <1>2, <1>3, <1>5, GiveShares
<1>6. CASE /\ c.queue \in Mutexes /\ ReceiveNow(t, c)
           /\ pxMutexHolder[c.queue] = Null /\ pxMutexHolder'[c.queue] = t
  BY <1>0, <1>1, <1>3, <1>6, TakeShares DEF IsCall
<1>7. CASE /\ c.queue \in Mutexes /\ pxMutexHolder[c.queue] # Null
           /\ UNCHANGED <<pxMutexHolder, prio, evalue, generic, eventItems>>
  <2>1. TakersLeave /\ HeirsStay
    BY <1>0, <1>7 DEF TakersLeave, Takers, eventItems, HeirsStay
  <2> QED BY <1>0, <1>3, <1>7, <2>1, CalmShares
<1> QED BY <1>4, <1>5, <1>6, <1>7, TestHolders

(* Who comes to wait for a mutex has passed by vTaskPriorityInherit.       *)
LEMMA LoopInheriting ==
  ASSUME QueueInv, MutexCalls, NEW t \in Task,
         \/ CallSuspendAll(t) \/ LockQueue(t) \/ Check(t) \/ Place(t)
         \/ UnlockTx(t) \/ UnlockRx(t) \/ CallResumeAll(t)
  PROVE  Inheriting'
<1>0. /\ \A u \in Task : u \in AllTasks /\ DOMAIN pc = AllTasks
      /\ "place" \in Suspending
  BY DEF QueueInv, Shapes, AllTasks, Suspending, LockedForRx
<1>1. /\ \A u \in Task : u # t => pc'[u] = pc[u] /\ call'[u] = call[u]
      /\ t = pxCurrentTCB /\ pc[t] \in InACall
      /\ pc'[t] # "run" => call'[t].queue = call[t].queue /\ call'[t].kind = call[t].kind
  BY LoopCalls
<1>2. ASSUME NEW u \in Task, u # t PROVE pc'[u] # "place"
  BY <1>0, <1>1, <1>2 DEF QueueInv, InSuspension
<1>3. ASSUME pc'[t] = "place", call'[t].queue \in Mutexes PROVE FALSE
  <2>1. Check(t)
    BY <1>0, <1>3 DEF CallSuspendAll, LockQueue, Place, UnlockTx, UnlockRx, CallResumeAll, At
  <2>2. call[t].queue \in Mutexes /\ call[t].kind = "receive"
    BY <1>1, <1>3 DEF MutexCalls
  <2>3. Side(call[t]) = "receive"
    BY <2>2 DEF Side
  <2> QED BY <1>0, <1>3, <2>1, <2>2, <2>3 DEF Check, At
<1> QED BY <1>2, <1>3 DEF Inheriting

(* The steps of the loop that leave the mutex and its waiters.             *)
LEMMA LoopShares ==
  ASSUME QueueInv, ListInv, Shares, NEW t \in Task,
         \/ CallSuspendAll(t) \/ LockQueue(t) \/ Check(t)
         \/ UnlockTx(t) \/ UnlockRx(t) \/ CallResumeAll(t)
  PROVE  Shares'
<1>0. /\ ListTypes /\ \A u \in Task : u \in AllTasks
  BY DEF ListInv, ListsInv, AllTasks
<1>1. /\ \A u \in Task : u # t => pc'[u] = pc[u] /\ call'[u] = call[u]
      /\ t = pxCurrentTCB /\ pc[t] # "test" /\ pc[t] \in InACall /\ UNCHANGED pxMutexHolder
  BY LoopCalls
<1>2. UNCHANGED <<pxCurrentTCB, prio, evalue>> /\ ~pendSV
  BY DEF CallSuspendAll, LockQueue, Check, UnlockTx, UnlockRx, CallResumeAll, ResumeAll, InCall,
         priorities, At, Executes
<1>3. OnlyLeave /\ \A u \in Task : IsReady(u) => IsReady(u)'
  <2>1. CASE CallSuspendAll(t) \/ LockQueue(t) \/ Check(t)
    BY <2>1 DEF CallSuspendAll, LockQueue, Check, ListsUnchanged, generic, eventItems, OnlyLeave, IsReady
  <2>2. CASE UnlockTx(t) \/ UnlockRx(t)
    <3>1. IsCall(call[t])
      BY <1>1 DEF QueueInv, Calling
    <3>2. PICK l \in EventLists, q \in Queues : \/ RemoveFromEventList(l, ToWake(xTxLock[q]))
                                                 \/ RemoveFromEventList(l, ToWake(xRxLock[q]))
      BY <2>2, <3>1, EventListsOf DEF UnlockTx, UnlockRx, UnlockSide, IsCall
    <3>3. ToWake(xTxLock[q]) \in Nat /\ ToWake(xRxLock[q]) \in Nat
      BY DEF ListInv, Locks, ToWake, Unmodified
    <3> QED BY <1>0, <3>2, <3>3, RemoveFromEventListLeaves, RemoveFromEventListGrows
  <2>3. CASE CallResumeAll(t)
    <3>1. PICK yield : ResumeAll(yield)
      BY <2>3 DEF CallResumeAll
    <3>2. Good(pendingReady)
      BY <1>0 DEF ListTypes
    <3>3. PICK us : us = pendingReady
      OBVIOUS
    <3>4. UNCHANGED events /\ (AddToReady(us, prio) \/ UNCHANGED ready)
      BY <3>1, <3>3 DEF ResumeAll, MakeReady, generic
    <3> QED BY <1>0, <3>2, <3>3, <3>4, AddToReadyGrows DEF OnlyLeave, IsReady
  <2> QED BY <2>1, <2>2, <2>3
<1>4. TakersLeave
  BY <1>0, <1>3, PriorityTypes DEF OnlyLeave, TakersLeave, Takers
<1>5. HeirsStay
  BY <1>1, <1>2, <1>3, NearStays DEF HeirsStay
<1> QED BY <1>0, <1>1, <1>2, <1>4, <1>5, CalmShares

(* vTaskPriorityInherit: the holder gets the priority of who waits.        *)
LEMMA InheritShares ==
  ASSUME OneMutex, QueueInv, ListInv, Waiters, MutexCalls, Shares, NEW t \in Task, Inherit(t)
  PROVE  Inheriting' /\ Shares'
<1>m. PICK m : m = call[t].queue
  OBVIOUS
<1> DEFINE h == pxMutexHolder[m]
<1>0. /\ ListTypes /\ \A n \in Mutexes : n = m
      /\ \A u \in Task : u \in AllTasks /\ DOMAIN pc = AllTasks
      /\ "inherit" \in InACall /\ "place" \in Suspending /\ Turning \subseteq InACall
  <2>1. pc[t] = "inherit" /\ m \in Mutexes
    BY <1>m DEF Inherit, At, MutexCalls
  <2>2. \A n \in Mutexes : n = m
    BY <2>1 DEF OneMutex
  <2>3. ListTypes /\ \A u \in Task : u \in AllTasks /\ DOMAIN pc = AllTasks
    BY DEF ListInv, ListsInv, QueueInv, Shapes, AllTasks
  <2>4. "inherit" \in InACall /\ "place" \in Suspending /\ Turning \subseteq InACall
    BY DEF InACall, Suspending, LockedForRx, Turning
  <2> QED BY <2>2, <2>3, <2>4
<1>1. /\ pc[t] = "inherit" /\ t = pxCurrentTCB /\ pc' = [pc EXCEPT ![t] = "place"]
      /\ UNCHANGED <<events, pxMutexHolder, call>>
      /\ \/ prio[h] >= prio[t] /\ UNCHANGED <<prio, evalue>>
         \/ /\ prio[h] < prio[t]
            /\ prio' = [prio EXCEPT ![h] = prio[t]]
            /\ evalue' = [evalue EXCEPT ![h] = MaxPriorities - prio[t]]
  BY <1>m DEF Inherit, At, Executes, eventItems, queueVars, queues
<1>2. m \in Mutexes /\ m \in Queues /\ h \in Task /\ h # Null /\ h # t
  BY <1>m, <1>0, <1>1, QueueAssumption DEF MutexCalls, ListInv, Placing, Holders
<1>3. /\ \A u \in AllTasks : prio[u] \in Int
      /\ MaxPriorities \in Int /\ <<m, "receive">> \in EventLists /\ Good(Takers(m))
  BY <1>0, <1>2, PriorityTypes
<1>4. \A u \in ToSet(Takers(m)) : u \in Task /\ u # h
  <2> SUFFICES ASSUME NEW u \in ToSet(Takers(m)) PROVE u \in Task /\ u # h
    OBVIOUS
  <2>1. u \in Task /\ pc[u] \in Turning /\ List(call[u]) = <<m, "receive">>
    BY <1>3 DEF Waiters, Takers
  <2>2. call[u].queue = m
    BY <2>1 DEF List
  <2> QED BY <1>0, <1>2, <2>1, <2>2 DEF MutexCalls
<1> HIDE DEF h
<1>5. /\ \A u \in AllTasks : u # h => prio'[u] = prio[u] /\ evalue'[u] = evalue[u]
      /\ prio[h] <= prio'[h] /\ prio[t] <= prio'[h] /\ prio'[h] \in Int
      /\ DOMAIN evalue' = AllTasks /\ \A u \in AllTasks : evalue'[u] = MaxPriorities - prio'[u]
  <2>1. /\ DOMAIN evalue = AllTasks /\ DOMAIN prio = AllTasks /\ h \in AllTasks /\ t \in AllTasks
        /\ \A u \in AllTasks : evalue[u] = MaxPriorities - prio[u]
    BY <1>0, <1>2 DEF Shares, Values, ListTypes
  <2>2. CASE prio[h] >= prio[t] /\ UNCHANGED <<prio, evalue>>
    BY <1>3, <2>1, <2>2
  <2>3. CASE /\ prio[h] < prio[t]
             /\ prio' = [prio EXCEPT ![h] = prio[t]]
             /\ evalue' = [evalue EXCEPT ![h] = MaxPriorities - prio[t]]
    BY <1>3, <2>1, <2>3
  <2> QED BY <1>1, <2>2, <2>3
<1>6. Inheriting'
  <2>1. \A u \in Task : u # t => pc'[u] # "place"
    BY <1>0, <1>1 DEF QueueInv, InSuspension
  <2>2. prio'[t] <= prio'[h]
    BY <1>0, <1>2, <1>5
  <2> QED BY <1>m, <1>1, <1>2, <2>1, <2>2 DEF Inheriting, h
<1>7. Takers(m)' = Takers(m)
  BY <1>1 DEF Takers
<1>8. Ascending(Takers(m)', evalue')
  <2>1. \A i \in 1 .. Len(Takers(m)) : evalue'[Takers(m)[i]] = evalue[Takers(m)[i]]
    BY <1>0, <1>3, <1>4, <1>5, GoodFacts
  <2> QED BY <1>2, <1>7, <2>1 DEF Shares, Ascending
<1>9. Values' /\ \A n \in Mutexes : Ascending(Takers(n)', evalue')
  BY <1>0, <1>5, <1>8 DEF Values
<1>10. HolderInherits'
  <2> SUFFICES ASSUME NEW u \in ToSet(Takers(m)) PROVE prio'[h] >= prio'[u]
    BY <1>0, <1>1 DEF HolderInherits, Takers, h
  <2>1. prio[h] >= prio[u]
    BY <1>2 DEF Shares, HolderInherits, Takers, h
  <2>2. prio'[u] = prio[u] /\ prio[u] \in Int /\ prio[h] \in Int
    BY <1>0, <1>2, <1>3, <1>4, <1>5
  <2> QED BY <1>5, <2>1, <2>2
<1>11. Handed'
  BY <1>0, <1>1, <1>2 DEF Handed, h
<1> QED BY <1>6, <1>9, <1>10, <1>11 DEF Shares

(* vTaskPlaceOnEventList                                                   *)
LEMMA PlaceShares ==
  ASSUME OneMutex, QueueInv, ListInv, MutexCalls, Inheriting, Shares, NEW t \in Task, Place(t)
  PROVE  Shares'
<1>q. PICK q : q = call[t].queue
  OBVIOUS
<1> DEFINE l == List(call[t])
<1>0. /\ ListTypes /\ AllApart /\ \A m, n \in Mutexes : m = n
      /\ \A u \in Task : u \in AllTasks
  BY DEF ListInv, ListsInv, OneMutex, AllTasks
<1>1. /\ At(t, "place", "unlockTx") /\ UNCHANGED <<prio, evalue, pxCurrentTCB, pxMutexHolder, call>>
      /\ events' = [events EXCEPT ![l] = Insert(@, t, evalue)]
      /\ ready' = [p \in Priorities |-> Without(ready[p], {t})]
  BY DEF Place, PlaceOnEventList, AddToDelayed, InCall, queueVars, queues
<1>2. "place" \in InACall /\ "place" \notin {"unlockTx", "unlockRx", "resumeAll"}
  BY DEF InACall
<1>3. /\ t \in AllTasks /\ IsReady(t) /\ IsCall(call[t]) /\ ~pendSV
      /\ pc[t] = "place" /\ pc' = [pc EXCEPT ![t] = "unlockTx"]
  BY <1>1, <1>2, LoopFacts
<1>4. l \in EventLists /\ Good(events[l]) /\ t \notin ToSet(events[l]) /\ DOMAIN events = EventLists
  BY <1>0, <1>3, EventListsOf DEF ListTypes, AllApart, Apart
<1>5. CASE q \notin Mutexes
  <2>1. \A m \in Mutexes : Takers(m)' = Takers(m)
    <3> SUFFICES ASSUME NEW m \in Mutexes PROVE events'[<<m, "receive">>] = events[<<m, "receive">>]
      BY DEF Takers
    <3>1. l # <<m, "receive">>
      BY <1>q, <1>5 DEF List
    <3> QED BY <1>0, <1>1, <3>1, PriorityTypes
  <2>2. \A u \in Task : u # t => pc'[u] = pc[u] /\ (IsReady(u) => IsReady(u)')
    <3>1. \A p \in Priorities : ToSet(Without(ready[p], {t})) = ToSet(ready[p]) \ {t}
      BY <1>0, GoodWithout DEF ListTypes
    <3>2. \A p \in Priorities : ToSet(ready'[p]) = ToSet(ready[p]) \ {t}
      BY <1>1, <3>1
    <3>3. \A u \in Task : u # t => pc'[u] = pc[u]
      BY <1>0, <1>3 DEF QueueInv, Shapes
    <3> QED BY <3>2, <3>3 DEF IsReady
  <2>3. TakersLeave /\ HeirsStay
    BY <1>1, <1>3, <2>1, <2>2, NearStays DEF TakersLeave, HeirsStay
  <2> QED BY <1>0, <1>1, <2>3, CalmShares
<1>6. CASE q \in Mutexes
  <2> DEFINE h == pxMutexHolder[q]
  <2>1. l = <<q, "receive">> /\ h # Null /\ prio[t] <= prio[h]
    BY <1>q, <1>2, <1>3, <1>6 DEF MutexCalls, Inheriting, List, Side
  <2> HIDE DEF h, l
  <2>2. Takers(q) = events[l] /\ Takers(q)' = Insert(events[l], t, evalue)
    BY <1>1, <1>4, <2>1 DEF Takers
  <2>3. Ascending(Takers(q)', evalue)
    <3>1. \A u \in AllTasks : evalue[u] \in Int
      BY <1>0, PriorityTypes DEF Shares, Values
    <3>2. Ascending(events[l], evalue)
      BY <1>6, <2>2 DEF Shares
    <3>3. Ascending(Insert(events[l], t, evalue), evalue)
      BY <1>3, <1>4, <3>1, <3>2, AscendingInsert
    <3> QED BY <2>2, <3>3
  <2>4. Values' /\ \A n \in Mutexes : Ascending(Takers(n)', evalue')
    BY <1>0, <1>1, <1>6, <2>3 DEF Shares, Values
  <2>5. HolderInherits'
    <3>1. ToSet(Insert(events[l], t, evalue)) = ToSet(events[l]) \cup {t}
      BY <1>3, <1>4, GoodInsert
    <3>2. \A u \in ToSet(events[l]) : prio[h] >= prio[u]
      BY <1>6, <2>1 DEF Shares, HolderInherits, h
    <3>3. prio[h] >= prio[t]
      <4>1. h \in Task /\ prio[h] \in Int /\ prio[t] \in Int
        BY <1>0, <1>3, <1>6, <2>1, QueueAssumption, PriorityTypes DEF h, ListInv, Holders
      <4> QED BY <2>1, <4>1
    <3>4. \A u \in ToSet(Takers(q)') : prio'[h] >= prio'[u]
      BY <1>1, <2>2, <3>1, <3>2, <3>3
    <3> QED BY <1>0, <1>1, <1>6, <3>4 DEF HolderInherits, Takers, h
  <2>6. Handed'
    BY <1>0, <1>1, <1>6, <2>1 DEF Handed, h
  <2> QED BY <2>4, <2>5, <2>6 DEF Shares
<1> QED BY <1>5, <1>6

(* Every step.                                                             *)
LEMMA SharesNext ==
  ASSUME OneMutex, QueueInv, ListInv, Top, Waiters, MutexCalls, Inheriting, Shares, [Next]_vars
  PROVE  Inheriting' /\ Shares'
<1>0. ListsInv
  BY DEF ListInv
<1>1. CASE TaskNext /\ UNCHANGED queueVars
  BY <1>0, <1>1, TaskNextShares
<1>2. CASE QueueInterrupt
  BY <1>0, <1>2, InterruptShares
<1>3. ASSUME NEW t \in Task, QueueStep(t) PROVE Inheriting' /\ Shares'
  <2>1. ASSUME NEW c \in Arguments(t), Begin(t, c) PROVE Inheriting' /\ Shares'
    <3>1. IsCall(c) /\ Test(t, c) /\ TestUnchanged /\ Executes(t) /\ uxSchedulerSuspended = 0
          /\ pc[t] # "test" /\ Proper(t, c)
      BY <2>1, TestsAreProper DEF Arguments, IsCall, Begin, UsesMutexProperly, CallsFunction
    <3> QED BY <3>1, TestShares
  <2>2. CASE Again(t)
    <3>1. /\ Test(t, call[t]) /\ TestUnchanged /\ Executes(t) /\ t = pxCurrentTCB
          /\ pc[t] \in InACall /\ pc[t] \notin Suspending \cup {"run"} /\ Proper(t, call[t])
      BY <2>2, TestsAreProper DEF Again, InACall, Executes, Suspending, LockedForRx
    <3>2. uxSchedulerSuspended = 0 /\ IsCall(call[t])
      BY <3>1, NotSuspended DEF QueueInv, Calling
    <3> QED BY <3>1, <3>2, TestShares
  <2>3. CASE \/ CallSuspendAll(t) \/ LockQueue(t) \/ Check(t)
             \/ UnlockTx(t) \/ UnlockRx(t) \/ CallResumeAll(t)
    BY <2>3, LoopInheriting, LoopShares
  <2>4. CASE Inherit(t)
    BY <2>4, InheritShares
  <2>5. CASE Place(t)
    BY <2>5, LoopInheriting, PlaceShares
  <2> QED BY <1>3, <2>1, <2>2, <2>3, <2>4, <2>5 DEF QueueStep
<1>4. CASE UNCHANGED vars
  <2>1. UNCHANGED <<pc, pxCurrentTCB, ready, events, prio, evalue, pendSV, uxSchedulerSuspended,
                    pxMutexHolder, call>>
    BY <1>4 DEF vars, taskVars, generic, eventItems, priorities, scheduler, queueVars, queues
  <2> QED BY <2>1 DEF Inheriting, Shares, Values, Ascending, HolderInherits, Handed, Heir, Near,
                      Takers, IsReady
<1> QED BY <1>1, <1>2, <1>3, <1>4 DEF Next

(* Nobody holds a mutex or waits for one at first.                         *)
LEMMA SharesInitially == Init => Inheriting /\ Shares
<1> SUFFICES ASSUME Init PROVE Inheriting /\ Shares
  OBVIOUS
<1>1. /\ \A m \in Mutexes : Takers(m) = <<>> /\ pxMutexHolder[m] = Null
      /\ \A t \in Task : pc[t] = "run"
      /\ prio = Priority /\ evalue = [t \in AllTasks |-> MaxPriorities - Priority[t]]
  BY QueueAssumption DEF Init, TaskInit, Takers, AllTasks
<1>2. Len(<<>>) = 0
  OBVIOUS
<1> QED BY <1>1, <1>2 DEF Inheriting, Shares, Values, Ascending, HolderInherits, Handed

(* Inheritance: a mutex has a holder when it is taken, who runs at no      *)
(* lower priority than any task that waits for it - also one that waited   *)
(* before the mutex changed hands - and whoever holds none has its own     *)
(* priority back; for one mutex, any tasks and waits, and whatever other   *)
(* queues and interrupts do.  (With two mutexes the second conjunct does   *)
(* not hold: giving the one back takes away what was inherited by the      *)
(* other.)                                                                 *)
THEOREM InheritanceHolds == OneMutex => (Spec => []Inheritance)
<1> SUFFICES ASSUME OneMutex PROVE Spec => []Inheritance
  OBVIOUS
<1> DEFINE Inv == /\ QueueInv /\ ListInv /\ Patience /\ TypeInv /\ ServedInv /\ HighestInv
                  /\ MutexCalls /\ PriorityGivenBack /\ Inheriting /\ Shares
<1>0. TasksStay
  BY DEF OneMutex, TasksStay
<1>1. Init => Inv
  <2>1. Init => MutexCalls /\ PriorityGivenBack
    BY DEF Init, TaskInit, MutexCalls, PriorityGivenBack, InACall, AllTasks
  <2> QED BY <2>1, QueueInitially, ListsInitially, PatienceInitially, TypesInitially,
             ServedInitially, HighestInitially, SharesInitially
<1>2. Inv /\ [Next]_vars => Inv'
  <2> SUFFICES ASSUME Inv, [Next]_vars PROVE Inv'
    OBVIOUS
  <2>1. QueueInv' /\ ListInv' /\ TypeInv'
    BY QueueNext, ListsNext, TypesNext
  <2>2. Patience'
    BY NextRefines DEF Refines
  <2>3. ServedInv'
    BY <1>0, <2>1, ServedNext DEF TypeInv
  <2>4. HighestInv' /\ MutexCalls' /\ PriorityGivenBack'
    BY HighestNext, MutexCallsNext, GivenBackNext
  <2>5. Inheriting' /\ Shares'
    BY SharesNext DEF HighestInv, ServedInv
  <2> QED BY <2>1, <2>2, <2>3, <2>4, <2>5
<1>3. Inv => Inheritance
  BY DEF QueueInv, Shares, Inheritance
<1> QED BY <1>1, <1>2, <1>3, PTL DEF Spec

===============================================================================
