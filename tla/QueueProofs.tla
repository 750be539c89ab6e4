---------------------------- MODULE QueueProofs ----------------------------
(***************************************************************************)
(* Who has the scheduler suspended, who has a queue locked, and that      *)
(* calls do what queues promise, for any number of tasks, queues and calls.*)
(***************************************************************************)
EXTENDS Queue, TLAPS, SequenceTheorems

(* Where a task has the scheduler suspended: in a delay, in the idle       *)
(* task's check, and in a call of a queue.                                 *)
LockedForRx == {"check", "inherit", "place", "unlockTx", "unlockRx"}
LockedForTx == {"check", "inherit", "place", "unlockTx"}
Suspending  == LockedForRx \cup {"resume", "lock", "resumeAll"}

(* The arguments and variables of a call, but for the numbers.             *)
IsCall(c) ==
    /\ c = [kind |-> c.kind, queue |-> c.queue, item |-> c.item, position |-> c.position,
            wait |-> c.wait, entered |-> c.entered, outcome |-> c.outcome]
    /\ c.kind \in {"send", "receive", "peek"} /\ c.queue \in Queues
    /\ c.kind = "send" => c.item \in Items /\ c.position \in {"back", "front"}
    /\ c.queue \in Mutexes => c.kind # "peek"

-----------------------------------------------------------------------------
(* The invariant.                                                          *)

Shapes == /\ DOMAIN pc = AllTasks /\ uxSchedulerSuspended \in Nat
          /\ DOMAIN call = AllTasks
          /\ DOMAIN xRxLock = Queues /\ DOMAIN xTxLock = Queues
          /\ DOMAIN messages = Queues /\ DOMAIN pxMutexHolder = Queues

(* Only the running task is in a stretch with the scheduler suspended, and *)
(* has suspended it once.                                                  *)
InSuspension ==
    \A t \in AllTasks : pc[t] \in Suspending => t = pxCurrentTCB /\ uxSchedulerSuspended = 1

(* The scheduler is suspended by the running task, in such a stretch or by *)
(* a call of its own.                                                      *)
SuspendedByRunning ==
    uxSchedulerSuspended # 0 =>
        \/ pxCurrentTCB \in AllTasks /\ pc[pxCurrentTCB] \in Suspending
        \/ pxCurrentTCB \in Task /\ pc[pxCurrentTCB] = "run"

Calling == \A t \in Task : pc[t] \in InACall => IsCall(call[t])

(* A queue is locked by the running task, on its way through a call of it. *)
LockedInCall ==
    \A q \in Queues :
        /\ xRxLock[q] # Unlocked => /\ pxCurrentTCB \in Task /\ pc[pxCurrentTCB] \in LockedForRx
                                    /\ call[pxCurrentTCB].queue = q
        /\ xTxLock[q] # Unlocked => /\ pxCurrentTCB \in Task /\ pc[pxCurrentTCB] \in LockedForTx
                                    /\ call[pxCurrentTCB].queue = q

QueueInv ==
    /\ Shapes /\ InSuspension /\ SuspendedByRunning /\ Calling /\ LockedInCall
    /\ Bounded /\ HeldWhenTaken

-----------------------------------------------------------------------------
LEMMA QueueInitially == Init => QueueInv
<1> SUFFICES ASSUME Init PROVE QueueInv
  OBVIOUS
<1>1. pc = [t \in AllTasks |-> "run"] /\ uxSchedulerSuspended = 0
  BY DEF Init, TaskInit
<1>2. Shapes /\ InSuspension /\ SuspendedByRunning /\ Calling
  <2>1. Shapes
    <3>1. DOMAIN pc = AllTasks /\ uxSchedulerSuspended \in Nat
      BY <1>1
    <3>2. /\ DOMAIN call = AllTasks /\ DOMAIN xRxLock = Queues /\ DOMAIN xTxLock = Queues
          /\ DOMAIN messages = Queues /\ DOMAIN pxMutexHolder = Queues
      BY DEF Init
    <3> QED BY <3>1, <3>2 DEF Shapes
  <2>2. \A t \in AllTasks : pc[t] \notin Suspending \cup InACall
    BY <1>1 DEF Suspending, LockedForRx, InACall
  <2> QED BY <1>1, <2>1, <2>2 DEF InSuspension, SuspendedByRunning, Calling, AllTasks
<1>3. LockedInCall
  BY DEF Init, LockedInCall
<1>4. Bounded /\ HeldWhenTaken
  <2> DEFINE item == CHOOSE i \in Items : TRUE
  <2>1. item \in Items
    BY QueueAssumption
  <2> HIDE DEF item
  <2>2. <<item>> \in Seq(Items) /\ Len(<<item>>) = 1 /\ <<item>> # <<>>
        /\ <<>> \in Seq(Items) /\ Len(<<>>) = 0
    BY <2>1
  <2>3. messages = [q \in Queues |-> IF q \in Mutexes THEN <<item>> ELSE <<>>]
        /\ pxMutexHolder = [q \in Queues |-> Null]
    BY DEF Init, item
  <2>4. Bounded
    BY <2>2, <2>3, QueueAssumption DEF Bounded
  <2>5. HeldWhenTaken
    BY <2>2, <2>3, QueueAssumption DEF HeldWhenTaken, IsEmpty
  <2> QED BY <2>4, <2>5
<1> QED BY <1>2, <1>3, <1>4 DEF QueueInv

-----------------------------------------------------------------------------
(* Steps of the scheduler.                                                 *)

(* What they change of what the invariant is about: nothing, or the        *)
(* running task while nobody has the scheduler suspended, or the place of  *)
(* the running task, on its way into or out of a stretch.                  *)
Enters ==
    /\ uxSchedulerSuspended = 0 /\ uxSchedulerSuspended' = 1
    /\ pc[pxCurrentTCB] = "run" /\ pc' = [pc EXCEPT ![pxCurrentTCB] = "resume"]
Leaves ==
    /\ uxSchedulerSuspended' = 0
    /\ pc[pxCurrentTCB] = "resume"
    /\ \E place \in {"run", "free"} : pc' = [pc EXCEPT ![pxCurrentTCB] = place]
Nests ==
    /\ pxCurrentTCB \in Task /\ pc[pxCurrentTCB] = "run" /\ UNCHANGED pc
    /\ \/ uxSchedulerSuspended' = uxSchedulerSuspended + 1
       \/ uxSchedulerSuspended > 0 /\ uxSchedulerSuspended' = uxSchedulerSuspended - 1

SchedulerStep ==
    \/ UNCHANGED <<pc, uxSchedulerSuspended, pxCurrentTCB>>
    \/ /\ uxSchedulerSuspended = 0 /\ UNCHANGED uxSchedulerSuspended
       /\ \/ UNCHANGED pc
          \/ /\ UNCHANGED pxCurrentTCB
             /\ \E t \in AllTasks : pc' = [pc EXCEPT ![t] = "run"]
    \/ /\ pxCurrentTCB \in AllTasks /\ UNCHANGED pxCurrentTCB
       /\ Enters \/ Leaves \/ Nests

LEMMA TaskNextFacts ==
  ASSUME Shapes, InSuspension, SuspendedByRunning, TaskNext
  PROVE  SchedulerStep
<1> USE DEF AllTasks, SchedulerStep, Enters, Leaves, Nests
<1>1. CASE Interrupt
  BY <1>1 DEF Interrupt, Tick, ResumeFromISR, scheduler
<1>2. CASE Switch
  BY <1>2 DEF Switch
<1>3. CASE CatchUp
  BY <1>3 DEF CatchUp
<1>4. CASE IdleStep
  <2>1. CASE IdleYield
    BY <2>1 DEF IdleYield, scheduler
  <2>2. CASE IdleBegin
    <3>1. pxCurrentTCB = Idle /\ pc[Idle] = "run" /\ Idle \notin Task
      BY <2>2, TasksAssumption DEF IdleBegin, Executes
    <3>2. uxSchedulerSuspended = 0
      BY <3>1 DEF SuspendedByRunning, Suspending, LockedForRx
    <3> QED BY <2>2, <3>1, <3>2 DEF IdleBegin, SuspendAll
  <2>3. CASE IdleResume
    <3>1. pxCurrentTCB = Idle /\ pc[Idle] = "resume" /\ pc' = [pc EXCEPT ![Idle] = "free"]
      BY <2>3 DEF IdleResume, Executes
    <3>2. uxSchedulerSuspended = 1
      BY <3>1 DEF InSuspension, Suspending
    <3>3. uxSchedulerSuspended' = uxSchedulerSuspended - 1 /\ UNCHANGED pxCurrentTCB
      BY <2>3 DEF IdleResume, ResumeAll
    <3> QED BY <3>1, <3>2, <3>3
  <2>4. CASE IdleFree
    <3>1. pxCurrentTCB = Idle /\ pc[Idle] = "free" /\ pc' = [pc EXCEPT ![Idle] = "run"]
          /\ UNCHANGED <<uxSchedulerSuspended, pxCurrentTCB>>
      BY <2>4 DEF IdleFree, Executes, scheduler
    <3>2. uxSchedulerSuspended = 0
      BY <3>1, TasksAssumption DEF SuspendedByRunning, Suspending, LockedForRx
    <3> QED BY <3>1, <3>2
  <2> QED BY <1>4, <2>1, <2>2, <2>3, <2>4 DEF IdleStep
<1>5. ASSUME NEW t \in Task, ApiCall(t) PROVE SchedulerStep
  <2>0. t \in AllTasks /\ t # Idle
    BY TasksAssumption
  <2>1. CASE TaskSuspendAll(t)
    BY <2>0, <2>1 DEF TaskSuspendAll, Executes, SuspendAll
  <2>2. CASE TaskResumeAll(t)
    BY <2>0, <2>2 DEF TaskResumeAll, Executes, ResumeAll
  <2>3. CASE DelayResume(t)
    <3>1. pxCurrentTCB = t /\ pc[t] = "resume" /\ pc' = [pc EXCEPT ![t] = "run"]
      BY <2>3 DEF DelayResume, Executes
    <3>2. uxSchedulerSuspended = 1
      BY <2>0, <3>1 DEF InSuspension, Suspending
    <3>3. uxSchedulerSuspended' = uxSchedulerSuspended - 1 /\ UNCHANGED pxCurrentTCB
      BY <2>3 DEF DelayResume, ResumeAll
    <3> QED BY <2>0, <3>1, <3>2, <3>3
  <2>4. CASE \E d \in DelayTimes : Delay(t, d) \/ DelayUntil(t, d)
    BY <2>0, <2>4 DEF Delay, DelayUntil, CallsFunction, Executes, SuspendAll
  <2>5. CASE \E u \in Task : Create(t, u)
    BY <2>0, <2>5 DEF Create, CallsFunction, scheduler
  <2>6. CASE \E u \in Task : Delete(t, u) \/ Suspend(t, u) \/ Resume(t, u)
    BY <2>6 DEF Delete, Suspend, Resume, scheduler
  <2>7. CASE \E u \in Task, p \in NewPriorities : PrioritySet(t, u, p)
    BY <2>7 DEF PrioritySet, scheduler
  <2> QED BY <1>5, <2>1, <2>2, <2>3, <2>4, <2>5, <2>6, <2>7 DEF ApiCall
<1> QED BY <1>1, <1>2, <1>3, <1>4, <1>5 DEF TaskNext

(* A step of the scheduler alone keeps the invariant.                      *)
LEMMA SchedulerKeeps ==
  ASSUME QueueInv, SchedulerStep, UNCHANGED queueVars
  PROVE  QueueInv'
<1> USE DEF QueueInv, SchedulerStep, Enters, Leaves, Nests
<1>1. UNCHANGED <<messages, pxMutexHolder, xRxLock, xTxLock, call>>
  BY DEF queueVars, queues
<1>2. \A t \in AllTasks : pc'[t] # pc[t] => pc'[t] \in {"run", "free", "resume"}
  BY DEF Shapes
<1>3. Shapes'
  BY <1>1 DEF Shapes
<1>4. Calling' /\ Bounded' /\ HeldWhenTaken'
  <2>1. Calling'
    BY <1>1, <1>2 DEF Calling, IsCall, InACall, LockedForRx, AllTasks
  <2>2. Bounded' /\ HeldWhenTaken'
    BY <1>1 DEF Bounded, HeldWhenTaken, IsEmpty
  <2> QED BY <2>1, <2>2
<1>5. InSuspension'
  BY DEF Shapes, InSuspension, SuspendedByRunning, Suspending, LockedForRx
<1>6. SuspendedByRunning'
  BY DEF Shapes, SuspendedByRunning, Suspending, LockedForRx
<1>7. LockedInCall'
  <2> SUFFICES ASSUME NEW q \in Queues, xRxLock[q] # Unlocked \/ xTxLock[q] # Unlocked
               PROVE  pxCurrentTCB' = pxCurrentTCB /\ pc'[pxCurrentTCB] = pc[pxCurrentTCB]
    BY <1>1 DEF LockedInCall
  <2>1. pxCurrentTCB \in Task /\ pc[pxCurrentTCB] \in LockedForRx
    BY DEF LockedInCall, LockedForTx, LockedForRx
  <2>2. uxSchedulerSuspended = 1
    BY <2>1 DEF InSuspension, Suspending, AllTasks
  <2> QED BY <2>1, <2>2 DEF LockedForRx
<1> QED BY <1>3, <1>4, <1>5, <1>6, <1>7

-----------------------------------------------------------------------------
(* Steps of calls.                                                         *)

(* Code runs in a task that is not in a stretch only while nobody has the  *)
(* scheduler suspended, or the task itself.                                *)
LEMMA NotSuspended ==
  ASSUME QueueInv, NEW t \in Task, t = pxCurrentTCB, pc[t] \notin Suspending \cup {"run"}
  PROVE  /\ uxSchedulerSuspended = 0
         /\ \A u \in AllTasks : pc[u] \notin Suspending
         /\ \A q \in Queues : xRxLock[q] = Unlocked /\ xTxLock[q] = Unlocked
BY DEF QueueInv, SuspendedByRunning, InSuspension, LockedInCall, LockedForRx, LockedForTx, Suspending

(* The variables of a call may change.                                     *)
LEMMA EnteredIsCall ==
  ASSUME NEW c, IsCall(c), NEW x
  PROVE  IsCall([c EXCEPT !.entered = x])
<1> DEFINE d == [kind |-> c.kind, queue |-> c.queue, item |-> c.item, position |-> c.position,
                 wait |-> c.wait, entered |-> x, outcome |-> c.outcome]
<1>1. [c EXCEPT !.entered = x] = d
  BY DEF IsCall
<1>2. IsCall(d)
  BY DEF IsCall
<1> QED BY <1>1, <1>2

LEMMA CheckedIsCall ==
  ASSUME NEW c, IsCall(c), NEW x, NEW y
  PROVE  IsCall([c EXCEPT !.outcome = x, !.wait = y])
<1> DEFINE d == [kind |-> c.kind, queue |-> c.queue, item |-> c.item, position |-> c.position,
                 wait |-> y, entered |-> c.entered, outcome |-> x]
<1> DEFINE e == [kind |-> c.kind, queue |-> c.queue, item |-> c.item, position |-> c.position,
                 wait |-> c.wait, entered |-> c.entered, outcome |-> x]
<1>1. [c EXCEPT !.outcome = x] = e
  BY DEF IsCall
<1>2. [e EXCEPT !.wait = y] = d
  OBVIOUS
<1>3. [c EXCEPT !.outcome = x, !.wait = y] = [[c EXCEPT !.outcome = x] EXCEPT !.wait = y]
  OBVIOUS
<1>4. IsCall(d)
  BY DEF IsCall
<1> HIDE DEF d, e
<1> QED BY <1>1, <1>2, <1>3, <1>4

(* The test at the head of the loop: the call ends, or goes on to suspend  *)
(* the scheduler.                                                          *)
LEMMA TestControl ==
  ASSUME Shapes, NEW t \in Task, NEW c, IsCall(c), Test(t, c), TestUnchanged
  PROVE  /\ \/ pc' = [pc EXCEPT ![t] = "run"]
            \/ pc' = [pc EXCEPT ![t] = "suspend"] /\ IsCall(call'[t])
         /\ DOMAIN call' = AllTasks /\ \A u \in Task \ {t} : call'[u] = call[u]
         /\ UNCHANGED <<uxSchedulerSuspended, pxCurrentTCB, xRxLock, xTxLock>>
<1>1. UNCHANGED <<uxSchedulerSuspended, pxCurrentTCB, xRxLock, xTxLock>>
  BY DEF TestUnchanged, scheduler
<1>2. CASE Return(t)
  BY <1>1, <1>2 DEF Return, Shapes
<1>3. CASE /\ call' = [call EXCEPT ![t] = [c EXCEPT !.entered = TRUE]]
           /\ pc' = [pc EXCEPT ![t] = "suspend"]
  <2>1. call'[t] = [c EXCEPT !.entered = TRUE]
    BY <1>3 DEF Shapes, AllTasks
  <2>2. IsCall([c EXCEPT !.entered = TRUE])
    BY EnteredIsCall
  <2> QED BY <1>1, <1>3, <2>1, <2>2 DEF Shapes
<1> QED BY <1>2, <1>3 DEF Test

(* It changes the messages only if there are some, or room.                *)
LEMMA TestMessages ==
  ASSUME Shapes, Bounded, HeldWhenTaken, NEW t \in Task, NEW c, IsCall(c), Test(t, c)
  PROVE  /\ Bounded' /\ HeldWhenTaken'
         /\ DOMAIN messages' = Queues /\ DOMAIN pxMutexHolder' = Queues
<1> DEFINE q == c.queue
<1>1. q \in Queues /\ messages[q] \in Seq(Items) /\ Len(messages[q]) <= Length[q]
      /\ Len(messages[q]) \in Nat /\ Length[q] \in Nat \ {0} /\ (q \in Mutexes => Length[q] = 1)
  BY QueueAssumption DEF IsCall, Bounded
<1>2. Null \notin Task
  BY QueueAssumption DEF AllTasks
<1>3. CASE UNCHANGED <<messages, pxMutexHolder>>
  BY <1>3 DEF Shapes, Bounded, HeldWhenTaken, IsEmpty
<1>4. CASE ~Blocked(c) /\ c.kind = "send" /\ SendNow(t, c)
  <2>1. Len(messages[q]) # Length[q] /\ c.item \in Items
    BY <1>4 DEF Blocked, Side, IsFull, IsCall
  <2> DEFINE new == Put(q, c.item, c.position)
  <2>2. new \in Seq(Items) /\ Len(new) = Len(messages[q]) + 1
    <3>1. Append(messages[q], c.item) \in Seq(Items) /\ Len(Append(messages[q], c.item)) = Len(messages[q]) + 1
      BY <1>1, <2>1
    <3>2. <<c.item>> \in Seq(Items) /\ Len(<<c.item>>) = 1
      BY <2>1
    <3>3. <<c.item>> \o messages[q] \in Seq(Items) /\ Len(<<c.item>> \o messages[q]) = 1 + Len(messages[q])
      BY <1>1, <3>2, ConcatProperties
    <3> QED BY <1>1, <3>1, <3>3 DEF Put
  <2>3. /\ messages' = [messages EXCEPT ![q] = new]
        /\ pxMutexHolder' = [pxMutexHolder EXCEPT ![q] = Null]
    BY <1>4 DEF SendNow
  <2> HIDE DEF new
  <2>4. Bounded'
    BY <1>1, <2>1, <2>2, <2>3 DEF Bounded, Shapes
  <2>5. new # <<>>
    BY <1>1, <2>2
  <2>6. HeldWhenTaken'
    BY <1>1, <2>3, <2>5, QueueAssumption DEF HeldWhenTaken, IsEmpty, Shapes
  <2> QED BY <2>3, <2>4, <2>6 DEF Shapes
<1>5. CASE ~Blocked(c) /\ c.kind # "send" /\ ReceiveNow(t, c)
  <2>1. messages[q] # <<>>
    BY <1>5 DEF Blocked, Side, IsEmpty
  <2>2. CASE c.kind = "peek"
    <3>1. UNCHANGED <<messages, pxMutexHolder>>
      BY <1>5, <2>2 DEF ReceiveNow, IsCall
    <3> QED BY <1>3, <3>1
  <2>3. CASE c.kind # "peek"
    <3>1. /\ messages' = [messages EXCEPT ![q] = Tail(messages[q])]
          /\ pxMutexHolder' = IF q \in Mutexes THEN [pxMutexHolder EXCEPT ![q] = t] ELSE pxMutexHolder
      BY <1>5, <2>3 DEF ReceiveNow
    <3>2. Tail(messages[q]) \in Seq(Items) /\ Len(Tail(messages[q])) = Len(messages[q]) - 1
      BY <1>1, <2>1, HeadTailProperties
    <3>3. Bounded'
      BY <1>1, <3>1, <3>2 DEF Bounded, Shapes
    <3>4. q \in Mutexes => Tail(messages[q]) = <<>>
      <4> SUFFICES ASSUME q \in Mutexes PROVE Tail(messages[q]) = <<>>
        OBVIOUS
      <4>1. Len(messages[q]) # 0
        BY <1>1, <2>1
      <4>2. Len(messages[q]) = 1
        <5>1. Length[q] = 1 /\ Len(messages[q]) \in Nat /\ Len(messages[q]) <= Length[q]
          BY <1>1
        <5> HIDE DEF q
        <5>2. \A n \in Nat : n <= 1 /\ n # 0 => n = 1
          OBVIOUS
        <5> QED BY <4>1, <5>1, <5>2
      <4>3. Len(Tail(messages[q])) = 0
        BY <3>2, <4>2
      <4> QED BY <3>2, <4>3, EmptySeq
    <3>5. HeldWhenTaken'
      BY <1>1, <1>2, <3>1, <3>4, QueueAssumption DEF HeldWhenTaken, IsEmpty, Shapes
    <3> QED BY <3>1, <3>3, <3>5 DEF Shapes
  <2> QED BY <2>2, <2>3
<1> QED BY <1>3, <1>4, <1>5 DEF Test

(* What a step of a call has to show.                                      *)
LEMMA StepInCall ==
  ASSUME QueueInv, NEW t \in Task, NEW place, pxCurrentTCB = t, pxCurrentTCB' = t,
         pc' = [pc EXCEPT ![t] = place],
         uxSchedulerSuspended' = IF place \in Suspending THEN 1 ELSE 0,
         DOMAIN call' = AllTasks, \A u \in Task \ {t} : call'[u] = call[u],
         place \in InACall => IsCall(call'[t]),
         DOMAIN xRxLock' = Queues, DOMAIN xTxLock' = Queues,
         \A q \in Queues :
            /\ xRxLock'[q] # Unlocked => place \in LockedForRx /\ call'[t].queue = q
            /\ xTxLock'[q] # Unlocked => place \in LockedForTx /\ call'[t].queue = q,
         DOMAIN messages' = Queues, DOMAIN pxMutexHolder' = Queues, Bounded', HeldWhenTaken'
  PROVE  QueueInv'
<1> USE DEF QueueInv
<1>1. t \in AllTasks /\ DOMAIN pc' = AllTasks /\ pc'[t] = place
      /\ \A u \in AllTasks \ {t} : pc'[u] = pc[u]
  BY DEF Shapes, AllTasks
<1>2. Shapes'
  BY <1>1 DEF Shapes
<1>3. InSuspension'
  BY <1>1 DEF InSuspension
<1>4. SuspendedByRunning'
  BY <1>1 DEF SuspendedByRunning
<1>5. Calling'
  BY <1>1, ZenonT(30) DEF Calling, IsCall, AllTasks
<1>6. LockedInCall'
  BY <1>1 DEF LockedInCall
<1> QED BY <1>2, <1>3, <1>4, <1>5, <1>6

LEMMA BeginOrAgainKeeps ==
  ASSUME QueueInv, NEW t \in Task, NEW c, IsCall(c), Test(t, c), TestUnchanged,
         pxCurrentTCB = t, uxSchedulerSuspended = 0, pc[t] \notin Suspending
  PROVE  QueueInv'
<1> USE DEF QueueInv
<1>1. \A q \in Queues : xRxLock[q] = Unlocked /\ xTxLock[q] = Unlocked
  BY DEF LockedInCall, LockedForRx, LockedForTx, Suspending
<1>2. /\ \/ pc' = [pc EXCEPT ![t] = "run"]
         \/ pc' = [pc EXCEPT ![t] = "suspend"] /\ IsCall(call'[t])
      /\ DOMAIN call' = AllTasks /\ \A u \in Task \ {t} : call'[u] = call[u]
      /\ UNCHANGED <<uxSchedulerSuspended, pxCurrentTCB, xRxLock, xTxLock>>
  BY TestControl
<1>3. /\ Bounded' /\ HeldWhenTaken'
      /\ DOMAIN messages' = Queues /\ DOMAIN pxMutexHolder' = Queues
  BY TestMessages
<1>4. DOMAIN xRxLock' = Queues /\ DOMAIN xTxLock' = Queues
      /\ \A q \in Queues : xRxLock'[q] = Unlocked /\ xTxLock'[q] = Unlocked
  BY <1>1, <1>2 DEF Shapes
<1>5. PICK place \in {"run", "suspend"} :
        pc' = [pc EXCEPT ![t] = place] /\ (place = "suspend" => IsCall(call'[t]))
  BY <1>2
<1>6. place \notin Suspending /\ (place \in InACall => IsCall(call'[t]))
  BY <1>5 DEF Suspending, InACall, LockedForRx
<1>7. pxCurrentTCB' = t /\ uxSchedulerSuspended' = IF place \in Suspending THEN 1 ELSE 0
  BY <1>2, <1>6
<1> HIDE DEF QueueInv
<1> QED BY <1>2, <1>3, <1>4, <1>5, <1>6, <1>7, StepInCall

LEMMA BeginKeeps ==
  ASSUME QueueInv, NEW t \in Task, NEW c \in Arguments(t), Begin(t, c)
  PROVE  QueueInv'
<1>1. pxCurrentTCB = t /\ uxSchedulerSuspended = 0 /\ pc[t] = "run"
  BY DEF Begin, CallsFunction, Executes
<1>2. IsCall(c)
  BY DEF Arguments, IsCall, Begin, UsesMutexProperly
<1>3. pc[t] \notin Suspending
  BY <1>1 DEF Suspending, LockedForRx
<1>4. Test(t, c) /\ TestUnchanged
  BY DEF Begin
<1> QED BY <1>1, <1>2, <1>3, <1>4, BeginOrAgainKeeps

LEMMA AgainKeeps ==
  ASSUME QueueInv, NEW t \in Task, Again(t)
  PROVE  QueueInv'
<1>1. pxCurrentTCB = t /\ pc[t] = "test"
  BY DEF Again, Executes
<1>2. pc[t] \notin Suspending \cup {"run"} /\ pc[t] \in InACall
  BY <1>1 DEF Suspending, LockedForRx, InACall
<1>3. uxSchedulerSuspended = 0 /\ IsCall(call[t])
  BY <1>1, <1>2, NotSuspended DEF QueueInv, Calling
<1>4. Test(t, call[t]) /\ TestUnchanged
  BY DEF Again
<1> QED BY <1>1, <1>2, <1>3, <1>4, BeginOrAgainKeeps
(* A step that keeps the messages keeps what is said of them.              *)
LEMMA MessagesKept ==
  ASSUME QueueInv, UNCHANGED <<messages, pxMutexHolder>>
  PROVE  /\ Bounded' /\ HeldWhenTaken'
         /\ DOMAIN messages' = Queues /\ DOMAIN pxMutexHolder' = Queues
BY DEF QueueInv, Shapes, Bounded, HeldWhenTaken, IsEmpty

(* The rest of a call, but for its last step: the place it comes from and  *)
(* goes to, with the queue locked or not.                                  *)
LEMMA LoopKeeps ==
  ASSUME QueueInv, NEW t \in Task, NEW from \in InACall, NEW place \in Suspending \cap InACall,
         At(t, from, place),
         \/ from \in Suspending /\ UNCHANGED uxSchedulerSuspended
         \/ from \notin Suspending /\ SuspendAll,
         UNCHANGED <<pxCurrentTCB, messages, pxMutexHolder>>,
         DOMAIN call' = AllTasks, \A u \in Task \ {t} : call'[u] = call[u],
         IsCall(call[t]) => IsCall(call'[t]) /\ call'[t].queue = call[t].queue,
         DOMAIN xRxLock' = Queues, DOMAIN xTxLock' = Queues,
         \A q \in Queues :
            /\ xRxLock'[q] # Unlocked /\ (from \in LockedForRx => xRxLock[q] # Unlocked)
                 => place \in LockedForRx /\ (from \in LockedForRx \/ call[t].queue = q)
            /\ xTxLock'[q] # Unlocked /\ (from \in LockedForTx => xTxLock[q] # Unlocked)
                 => place \in LockedForTx /\ (from \in LockedForTx \/ call[t].queue = q),
         \A q \in Queues :
            /\ from \in LockedForRx /\ xRxLock'[q] # Unlocked => xRxLock[q] # Unlocked
            /\ from \in LockedForTx /\ xTxLock'[q] # Unlocked => xTxLock[q] # Unlocked
  PROVE  QueueInv'
<1>1. pxCurrentTCB = t /\ pxCurrentTCB' = t /\ pc[t] = from /\ pc' = [pc EXCEPT ![t] = place]
  BY DEF At, Executes
<1>2. uxSchedulerSuspended' = IF place \in Suspending THEN 1 ELSE 0
  <2>1. CASE from \in Suspending
    BY <1>1, <2>1 DEF QueueInv, InSuspension, AllTasks
  <2>2. CASE from \notin Suspending
    <3>1. from # "run"
      BY DEF InACall, LockedForRx
    <3>2. uxSchedulerSuspended = 0
      BY <1>1, <2>2, <3>1, NotSuspended
    <3> QED BY <2>2, <3>2 DEF SuspendAll
  <2> QED BY <2>1, <2>2
<1>3. IsCall(call[t]) /\ IsCall(call'[t]) /\ call'[t].queue = call[t].queue
  BY <1>1 DEF QueueInv, Calling
<1>4. \A q \in Queues :
        /\ xRxLock'[q] # Unlocked => place \in LockedForRx /\ call'[t].queue = q
        /\ xTxLock'[q] # Unlocked => place \in LockedForTx /\ call'[t].queue = q
  BY <1>1, <1>3 DEF QueueInv, LockedInCall
<1>5. /\ Bounded' /\ HeldWhenTaken'
      /\ DOMAIN messages' = Queues /\ DOMAIN pxMutexHolder' = Queues
  BY MessagesKept
<1> QED BY <1>1, <1>2, <1>3, <1>4, <1>5, StepInCall

LEMMA CallSuspendAllKeeps ==
  ASSUME QueueInv, NEW t \in Task, CallSuspendAll(t)
  PROVE  QueueInv'
<1>1. At(t, "suspend", "lock") /\ SuspendAll /\ UNCHANGED <<pxCurrentTCB, queueVars>>
  BY DEF CallSuspendAll
<1>2. UNCHANGED <<messages, pxMutexHolder, xRxLock, xTxLock, call>>
  BY <1>1 DEF queueVars, queues
<1>3. "suspend" \in InACall \ Suspending /\ "lock" \in Suspending \cap InACall
      /\ "suspend" \notin LockedForRx \cup LockedForTx /\ "suspend" # "run"
  BY DEF InACall, Suspending, LockedForRx, LockedForTx
<1>4. pxCurrentTCB = t /\ pc[t] = "suspend"
  BY <1>1 DEF At, Executes
<1>5. \A q \in Queues : xRxLock[q] = Unlocked /\ xTxLock[q] = Unlocked
  BY <1>3, <1>4, NotSuspended
<1>6. DOMAIN call' = AllTasks /\ DOMAIN xRxLock' = Queues /\ DOMAIN xTxLock' = Queues
  BY <1>2 DEF QueueInv, Shapes
<1> QED BY <1>1, <1>2, <1>3, <1>5, <1>6, LoopKeeps

LEMMA LockQueueKeeps ==
  ASSUME QueueInv, NEW t \in Task, LockQueue(t)
  PROVE  QueueInv'
<1>1. At(t, "lock", "check") /\ InCall /\ UNCHANGED <<messages, pxMutexHolder, call>>
  BY DEF LockQueue
<1>2. UNCHANGED <<pxCurrentTCB, uxSchedulerSuspended>>
  BY <1>1 DEF InCall
<1>3. "lock" \in InACall \cap Suspending /\ "check" \in Suspending \cap InACall
      /\ "lock" \notin LockedForRx \cup LockedForTx /\ "check" \in LockedForRx \cap LockedForTx
  BY DEF InACall, Suspending, LockedForRx, LockedForTx
<1>4. pxCurrentTCB = t /\ pc[t] = "lock"
  BY <1>1 DEF At, Executes
<1>5. \A q \in Queues : xRxLock[q] = Unlocked /\ xTxLock[q] = Unlocked
  BY <1>3, <1>4 DEF QueueInv, LockedInCall
<1>6. DOMAIN call' = AllTasks /\ DOMAIN xRxLock' = Queues /\ DOMAIN xTxLock' = Queues
  BY <1>1 DEF QueueInv, Shapes, LockQueue
<1>7. \A q \in Queues \ {call[t].queue} : xRxLock'[q] = xRxLock[q] /\ xTxLock'[q] = xTxLock[q]
  BY DEF QueueInv, Shapes, LockQueue
<1> QED BY <1>1, <1>2, <1>3, <1>5, <1>6, <1>7, LoopKeeps

LEMMA CheckKeeps ==
  ASSUME QueueInv, NEW t \in Task, Check(t)
  PROVE  QueueInv'
<1>1. \E place \in {"unlockTx", "inherit", "place"} : At(t, "check", place)
  BY DEF Check
<1>2. PICK place \in {"unlockTx", "inherit", "place"} : At(t, "check", place)
  BY <1>1
<1>3. InCall /\ UNCHANGED queues
  BY DEF Check
<1>4. UNCHANGED <<pxCurrentTCB, uxSchedulerSuspended, messages, pxMutexHolder, xRxLock, xTxLock>>
  BY <1>3 DEF InCall, queues
<1>5. "check" \in InACall \cap Suspending /\ place \in Suspending \cap InACall
      /\ "check" \in LockedForRx \cap LockedForTx /\ place \in LockedForRx \cap LockedForTx
  BY DEF InACall, Suspending, LockedForRx, LockedForTx
<1>6. \E x, y : call' = [call EXCEPT ![t].outcome = x, ![t].wait = y]
  BY DEF Check
<1>7. PICK x, y : call' = [call EXCEPT ![t].outcome = x, ![t].wait = y]
  BY <1>6
<1>8. DOMAIN call' = AllTasks /\ \A u \in Task \ {t} : call'[u] = call[u]
  BY <1>7 DEF QueueInv, Shapes, AllTasks
<1>9. call'[t] = [call[t] EXCEPT !.outcome = x, !.wait = y]
  BY <1>7 DEF QueueInv, Shapes, AllTasks
<1>10. IsCall(call[t]) => IsCall(call'[t]) /\ call'[t].queue = call[t].queue
  <2> SUFFICES ASSUME IsCall(call[t]) PROVE IsCall(call'[t]) /\ call'[t].queue = call[t].queue
    OBVIOUS
  <2>1. IsCall(call'[t])
    <3>1. \A c : IsCall(c) => IsCall([c EXCEPT !.outcome = x, !.wait = y])
      BY CheckedIsCall
    <3>2. IsCall([call[t] EXCEPT !.outcome = x, !.wait = y])
      BY <3>1
    <3> QED BY <1>9, <3>2
  <2>2. call'[t].queue = call[t].queue
    BY <1>9 DEF IsCall
  <2> QED BY <2>1, <2>2
<1>11. DOMAIN xRxLock' = Queues /\ DOMAIN xTxLock' = Queues
  BY <1>4 DEF QueueInv, Shapes
<1> QED BY <1>2, <1>4, <1>5, <1>8, <1>10, <1>11, LoopKeeps
LEMMA InheritOrPlaceKeeps ==
  ASSUME QueueInv, NEW t \in Task, Inherit(t) \/ Place(t)
  PROVE  QueueInv'
<1>1. PICK from \in {"inherit", "place"}, place \in {"place", "unlockTx"} : At(t, from, place)
  BY DEF Inherit, Place
<1>2. InCall /\ UNCHANGED queueVars
  BY DEF Inherit, Place
<1>3. UNCHANGED <<pxCurrentTCB, uxSchedulerSuspended, messages, pxMutexHolder, xRxLock,
                  xTxLock, call>>
  BY <1>2 DEF InCall, queueVars, queues
<1>4. from \in InACall \cap Suspending /\ place \in Suspending \cap InACall
      /\ from \in LockedForRx \cap LockedForTx /\ place \in LockedForRx \cap LockedForTx
  BY DEF InACall, Suspending, LockedForRx, LockedForTx
<1>5. DOMAIN call' = AllTasks /\ DOMAIN xRxLock' = Queues /\ DOMAIN xTxLock' = Queues
  BY <1>3 DEF QueueInv, Shapes
<1> QED BY <1>1, <1>3, <1>4, <1>5, LoopKeeps

LEMMA UnlockTxKeeps ==
  ASSUME QueueInv, NEW t \in Task, UnlockTx(t)
  PROVE  QueueInv'
<1>1. At(t, "unlockTx", "unlockRx") /\ InCall
      /\ UNCHANGED <<messages, pxMutexHolder, xRxLock, call>>
  BY DEF UnlockTx
<1>2. UNCHANGED <<pxCurrentTCB, uxSchedulerSuspended>>
  BY <1>1 DEF InCall
<1>3. "unlockTx" \in InACall \cap Suspending /\ "unlockRx" \in Suspending \cap InACall
      /\ "unlockTx" \in LockedForRx \cap LockedForTx /\ "unlockRx" \in LockedForRx
  BY DEF InACall, Suspending, LockedForRx, LockedForTx
<1>4. pxCurrentTCB = t /\ pc[t] = "unlockTx"
  BY <1>1 DEF At, Executes
<1>5. DOMAIN call' = AllTasks /\ DOMAIN xRxLock' = Queues /\ DOMAIN xTxLock' = Queues
  BY <1>1 DEF QueueInv, Shapes, UnlockTx
<1>6. \A q \in Queues : xTxLock'[q] = Unlocked
  BY <1>4 DEF QueueInv, Shapes, LockedInCall, UnlockTx
<1> QED BY <1>1, <1>2, <1>3, <1>5, <1>6, LoopKeeps

LEMMA UnlockRxKeeps ==
  ASSUME QueueInv, NEW t \in Task, UnlockRx(t)
  PROVE  QueueInv'
<1>1. At(t, "unlockRx", "resumeAll") /\ InCall
      /\ UNCHANGED <<messages, pxMutexHolder, xTxLock, call>>
  BY DEF UnlockRx
<1>2. UNCHANGED <<pxCurrentTCB, uxSchedulerSuspended>>
  BY <1>1 DEF InCall
<1>3. "unlockRx" \in InACall \cap Suspending /\ "resumeAll" \in Suspending \cap InACall
      /\ "unlockRx" \in LockedForRx \ LockedForTx
  BY DEF InACall, Suspending, LockedForRx, LockedForTx
<1>4. pxCurrentTCB = t /\ pc[t] = "unlockRx"
  BY <1>1 DEF At, Executes
<1>5. DOMAIN call' = AllTasks /\ DOMAIN xRxLock' = Queues /\ DOMAIN xTxLock' = Queues
  BY <1>1 DEF QueueInv, Shapes, UnlockRx
<1>6. \A q \in Queues : xRxLock'[q] = Unlocked
  BY <1>4 DEF QueueInv, Shapes, LockedInCall, UnlockRx
<1>7. \A q \in Queues : xTxLock'[q] = Unlocked
  BY <1>1, <1>3, <1>4 DEF QueueInv, LockedInCall
<1> QED BY <1>1, <1>2, <1>3, <1>5, <1>6, <1>7, LoopKeeps

LEMMA CallResumeAllKeeps ==
  ASSUME QueueInv, NEW t \in Task, CallResumeAll(t)
  PROVE  QueueInv'
<1>1. PICK place \in {"run", "test"} : At(t, "resumeAll", place)
                                       /\ (call[t].outcome # "timeout" <=> place = "test")
  BY DEF CallResumeAll
<1>2. pxCurrentTCB = t /\ pc[t] = "resumeAll" /\ pc' = [pc EXCEPT ![t] = place]
  BY <1>1 DEF At, Executes
<1>3. uxSchedulerSuspended' = uxSchedulerSuspended - 1 /\ UNCHANGED <<pxCurrentTCB, queues>>
  BY DEF CallResumeAll, ResumeAll
<1>4. UNCHANGED <<messages, pxMutexHolder, xRxLock, xTxLock>>
  BY <1>3 DEF queues
<1>5. "resumeAll" \in InACall \cap Suspending /\ "resumeAll" \notin LockedForRx \cup LockedForTx
      /\ place \notin Suspending /\ (place \in InACall <=> place = "test")
  BY DEF InACall, Suspending, LockedForRx, LockedForTx
<1>6. uxSchedulerSuspended = 1 /\ IsCall(call[t])
  BY <1>2, <1>5 DEF QueueInv, InSuspension, Calling, AllTasks
<1>7. /\ DOMAIN call' = AllTasks /\ \A u \in Task \ {t} : call'[u] = call[u]
      /\ place \in InACall => call'[t] = call[t]
  <2>1. CASE call[t].outcome = "timeout"
    <3>1. call' = [call EXCEPT ![t] = NoCall]
      BY <2>1 DEF CallResumeAll
    <3> QED BY <1>1, <1>5, <2>1, <3>1 DEF QueueInv, Shapes
  <2>2. CASE call[t].outcome # "timeout"
    <3>1. call' = call
      BY <2>2 DEF CallResumeAll
    <3> QED BY <3>1 DEF QueueInv, Shapes
  <2> QED BY <2>1, <2>2
<1>8. \A q \in Queues : xRxLock'[q] = Unlocked /\ xTxLock'[q] = Unlocked
  BY <1>2, <1>4, <1>5 DEF QueueInv, LockedInCall
<1>9. /\ Bounded' /\ HeldWhenTaken'
      /\ DOMAIN messages' = Queues /\ DOMAIN pxMutexHolder' = Queues
  BY <1>4, MessagesKept
<1>10. DOMAIN xRxLock' = Queues /\ DOMAIN xTxLock' = Queues
  BY <1>4 DEF QueueInv, Shapes
<1>11. place \in InACall => IsCall(call'[t])
  BY <1>6, <1>7
<1>12. pxCurrentTCB' = t /\ uxSchedulerSuspended' = IF place \in Suspending THEN 1 ELSE 0
  BY <1>2, <1>3, <1>5, <1>6
<1> QED BY <1>2, <1>7, <1>8, <1>9, <1>10, <1>11, <1>12, StepInCall
-----------------------------------------------------------------------------
(* Interrupt handlers: they count on a lock only while the queue is        *)
(* locked, and do not touch mutexes.                                       *)

LEMMA CountFacts == Count(Unlocked) = Unlocked
BY DEF Count

LEMMA PutFacts ==
  ASSUME Bounded, NEW q \in Queues, NEW i \in Items, NEW position, ~IsFull(q)
  PROVE  Put(q, i, position) \in Seq(Items) /\ Len(Put(q, i, position)) <= Length[q]
<1>1. /\ messages[q] \in Seq(Items) /\ Len(messages[q]) \in Nat /\ Len(messages[q]) <= Length[q]
      /\ Len(messages[q]) # Length[q] /\ Length[q] \in Nat
  BY QueueAssumption DEF Bounded, IsFull
<1>2. Append(messages[q], i) \in Seq(Items) /\ Len(Append(messages[q], i)) = Len(messages[q]) + 1
  BY <1>1
<1>3. <<i>> \in Seq(Items) /\ Len(<<i>>) = 1
  OBVIOUS
<1>4. <<i>> \o messages[q] \in Seq(Items) /\ Len(<<i>> \o messages[q]) = 1 + Len(messages[q])
  BY <1>1, <1>3, ConcatProperties
<1> QED BY <1>1, <1>2, <1>4 DEF Put

LEMMA InterruptKeeps ==
  ASSUME QueueInv, QueueInterrupt
  PROVE  QueueInv'
<1> USE DEF QueueInv
<1>1. \E q \in Queues, new \in Seq(Items) :
         /\ messages' = [messages EXCEPT ![q] = new] /\ q \notin Mutexes
         /\ Len(new) <= Length[q]
         /\ \/ xTxLock' = [xTxLock EXCEPT ![q] = Count(xTxLock[q])] /\ UNCHANGED xRxLock
            \/ xRxLock' = [xRxLock EXCEPT ![q] = Count(xRxLock[q])] /\ UNCHANGED xTxLock
         /\ FromISRUnchanged
  <2>1. ASSUME NEW q \in Queues, NEW i \in Items, NEW p, SendFromISR(q, i, p)
        PROVE  /\ messages' = [messages EXCEPT ![q] = Put(q, i, p)] /\ q \notin Mutexes
               /\ Put(q, i, p) \in Seq(Items) /\ Len(Put(q, i, p)) <= Length[q]
               /\ xTxLock' = [xTxLock EXCEPT ![q] = Count(xTxLock[q])] /\ UNCHANGED xRxLock
               /\ FromISRUnchanged
    <3>1. q \in IsrSends /\ ~IsFull(q)
      BY <2>1 DEF SendFromISR
    <3>2. Put(q, i, p) \in Seq(Items) /\ Len(Put(q, i, p)) <= Length[q]
      BY <3>1, PutFacts
    <3> QED BY <2>1, <3>1, <3>2, QueueAssumption DEF SendFromISR
  <2>2. ASSUME NEW q \in Queues, ReceiveFromISR(q)
        PROVE  /\ messages' = [messages EXCEPT ![q] = Tail(messages[q])] /\ q \notin Mutexes
               /\ Tail(messages[q]) \in Seq(Items) /\ Len(Tail(messages[q])) <= Length[q]
               /\ xRxLock' = [xRxLock EXCEPT ![q] = Count(xRxLock[q])] /\ UNCHANGED xTxLock
               /\ FromISRUnchanged
    <3>1. q \in IsrReceives /\ messages[q] # <<>>
      BY <2>2 DEF ReceiveFromISR, IsEmpty
    <3>2. messages[q] \in Seq(Items) /\ Len(messages[q]) <= Length[q]
          /\ Len(messages[q]) \in Nat /\ Length[q] \in Nat
      BY QueueAssumption DEF Bounded
    <3>3. Tail(messages[q]) \in Seq(Items) /\ Len(Tail(messages[q])) = Len(messages[q]) - 1
      BY <3>1, <3>2, HeadTailProperties
    <3>4. Len(Tail(messages[q])) <= Length[q]
      BY <3>2, <3>3
    <3> QED BY <2>2, <3>1, <3>3, <3>4, QueueAssumption DEF ReceiveFromISR
  <2>3. ASSUME NEW q \in Queues, ReceiveFromISR(q) \/ \E i \in Items, p \in {"back", "front"} : SendFromISR(q, i, p)
        PROVE  \E new \in Seq(Items) :
                 /\ messages' = [messages EXCEPT ![q] = new] /\ q \notin Mutexes
                 /\ Len(new) <= Length[q]
                 /\ \/ xTxLock' = [xTxLock EXCEPT ![q] = Count(xTxLock[q])] /\ UNCHANGED xRxLock
                    \/ xRxLock' = [xRxLock EXCEPT ![q] = Count(xRxLock[q])] /\ UNCHANGED xTxLock
                 /\ FromISRUnchanged
    BY <2>1, <2>2, <2>3
  <2> QED BY <2>3 DEF QueueInterrupt
<1>2. PICK q \in Queues, new \in Seq(Items) :
         /\ messages' = [messages EXCEPT ![q] = new] /\ q \notin Mutexes
         /\ Len(new) <= Length[q]
         /\ \/ xTxLock' = [xTxLock EXCEPT ![q] = Count(xTxLock[q])] /\ UNCHANGED xRxLock
            \/ xRxLock' = [xRxLock EXCEPT ![q] = Count(xRxLock[q])] /\ UNCHANGED xTxLock
         /\ FromISRUnchanged
  BY <1>1
<1>3. UNCHANGED <<pc, pxCurrentTCB, uxSchedulerSuspended, pxMutexHolder, call>>
  BY <1>2 DEF FromISRUnchanged, scheduler
<1>4. /\ DOMAIN messages' = Queues /\ DOMAIN xRxLock' = Queues /\ DOMAIN xTxLock' = Queues
      /\ \A p \in Queues : /\ xRxLock[p] = Unlocked => xRxLock'[p] = Unlocked
                           /\ xTxLock[p] = Unlocked => xTxLock'[p] = Unlocked
  BY <1>2, CountFacts DEF Shapes
<1>5. Shapes' /\ InSuspension' /\ SuspendedByRunning' /\ Calling'
  BY <1>3, <1>4 DEF Shapes, InSuspension, SuspendedByRunning, Calling, IsCall
<1>6. LockedInCall'
  BY <1>3, <1>4 DEF LockedInCall
<1>7. Bounded'
  BY <1>2 DEF Bounded, Shapes
<1>8. HeldWhenTaken'
  BY <1>2, <1>3, QueueAssumption DEF HeldWhenTaken, IsEmpty, Shapes
<1> QED BY <1>5, <1>6, <1>7, <1>8

-----------------------------------------------------------------------------
LEMMA QueueNext == QueueInv /\ [Next]_vars => QueueInv'
<1> SUFFICES ASSUME QueueInv, [Next]_vars PROVE QueueInv'
  OBVIOUS
<1>1. CASE TaskNext /\ UNCHANGED queueVars
  BY <1>1, TaskNextFacts, SchedulerKeeps DEF QueueInv
<1>2. CASE QueueInterrupt
  BY <1>2, InterruptKeeps
<1>3. ASSUME NEW t \in Task, QueueStep(t) PROVE QueueInv'
  <2>1. ASSUME NEW c \in Arguments(t), Begin(t, c) PROVE QueueInv'
    BY <2>1, BeginKeeps
  <2>2. CASE Again(t)
    BY <2>2, AgainKeeps
  <2>3. CASE CallSuspendAll(t)
    BY <2>3, CallSuspendAllKeeps
  <2>4. CASE LockQueue(t)
    BY <2>4, LockQueueKeeps
  <2>5. CASE Check(t)
    BY <2>5, CheckKeeps
  <2>6. CASE Inherit(t) \/ Place(t)
    BY <2>6, InheritOrPlaceKeeps
  <2>7. CASE UnlockTx(t)
    BY <2>7, UnlockTxKeeps
  <2>8. CASE UnlockRx(t)
    BY <2>8, UnlockRxKeeps
  <2>9. CASE CallResumeAll(t)
    BY <2>9, CallResumeAllKeeps
  <2> QED BY <1>3, <2>1, <2>2, <2>3, <2>4, <2>5, <2>6, <2>7, <2>8, <2>9 DEF QueueStep
<1>4. CASE UNCHANGED vars
  <2>1. UNCHANGED <<pc, uxSchedulerSuspended, pxCurrentTCB>> /\ UNCHANGED queueVars
    BY <1>4 DEF vars, taskVars, scheduler
  <2> QED BY <2>1, SchedulerKeeps DEF SchedulerStep
<1> QED BY <1>1, <1>2, <1>3, <1>4 DEF Next

(* The invariant holds of every behaviour of queues and scheduler.         *)
THEOREM QueueInvariant == Spec => []QueueInv
<1>1. Init => QueueInv
  BY QueueInitially
<1>2. QueueInv /\ [Next]_vars => QueueInv'
  BY QueueNext
<1> QED BY <1>1, <1>2, PTL DEF Spec

(* prvLockQueue and prvUnlockQueue: a queue is locked only while the       *)
(* running task, in a call of that queue, has suspended the scheduler      *)
(* once; no two tasks lock it, whatever interrupts do in between.          *)
THEOREM LockedBySuspenderHolds == Spec => []LockedBySuspender
<1>1. QueueInv => LockedBySuspender
  <2> SUFFICES ASSUME QueueInv, NEW q \in Queues,
                      xRxLock[q] # Unlocked \/ xTxLock[q] # Unlocked
               PROVE  /\ uxSchedulerSuspended = 1
                      /\ call[pxCurrentTCB] # NoCall /\ call[pxCurrentTCB].queue = q
    BY DEF LockedBySuspender
  <2> DEFINE t == pxCurrentTCB
  <2>1. t \in Task /\ pc[t] \in LockedForRx /\ call[t].queue = q
    BY DEF QueueInv, LockedInCall, LockedForRx, LockedForTx
  <2>2. uxSchedulerSuspended = 1
    BY <2>1 DEF QueueInv, InSuspension, Suspending, AllTasks
  <2>3. IsCall(call[t])
    BY <2>1 DEF QueueInv, Calling, InACall, LockedForRx
  <2>4. call[t] # NoCall
    <3>1. call[t].kind \in {"send", "receive", "peek"}
      BY <2>3 DEF IsCall
    <3>2. NoCall.kind = "none"
      BY DEF NoCall
    <3> QED BY <3>1, <3>2
  <2> QED BY <2>1, <2>2, <2>4
<1> QED BY <1>1, QueueInvariant, PTL

(* prvCopyDataToQueue: a queue holds no more messages than it was created  *)
(* for, whoever sends, from a task or an interrupt.                        *)
THEOREM QueuesBounded == Spec => []Bounded
<1>1. QueueInv => Bounded
  BY DEF QueueInv
<1> QED BY <1>1, QueueInvariant, PTL

(* xQueueGenericSend and xQueueGenericReceive of a mutex: it is taken just *)
(* when it has a holder, whose priority another task may then raise.       *)
THEOREM MutexesHeld == Spec => []HeldWhenTaken
<1>1. QueueInv => HeldWhenTaken
  BY DEF QueueInv
<1> QED BY <1>1, QueueInvariant, PTL

-----------------------------------------------------------------------------
(* The queues of queue.c implement BlockingQueue, for any tasks, queues,   *)
(* calls and interrupts.                                                   *)

(* What the mapping needs besides QueueInv: time is counted in numbers, a  *)
(* call that gives up was not to wait for as long as it takes, and a mutex *)
(* never has to be waited for to be given.                                 *)
Patience ==
    /\ xTickCount \in Nat
    /\ DOMAIN timeOut = AllTasks /\ \A t \in Task : timeOut[t].entering \in Nat
    /\ \A t \in Task : pc[t] \in InACall =>
          /\ call[t].wait \in Ticks
          /\ call[t].outcome = "timeout" => call[t].wait # MaxDelay
          /\ call[t].kind = "send" => call[t].queue \notin Mutexes

LEMMA PatienceInitially == Init => Patience
<1> SUFFICES ASSUME Init PROVE Patience
  OBVIOUS
<1>1. xTickCount = 0 /\ pc = [t \in AllTasks |-> "run"]
  BY DEF Init, TaskInit
<1>2. timeOut = [t \in AllTasks |-> NoTime] /\ NoTime.entering = 0
  BY DEF Init, NoTime
<1>3. "run" \notin InACall
  BY DEF InACall
<1> QED BY <1>1, <1>2, <1>3 DEF Patience, AllTasks

-----------------------------------------------------------------------------
(* Steps of the scheduler.                                                 *)

LEMMA TickInNat ==
  ASSUME xTickCount \in Nat, IncrementTick
  PROVE  xTickCount' \in Nat
<1>1. xTickCount' = (xTickCount + 1) % TickWidth
  BY DEF IncrementTick
<1>2. TickWidth \in Nat \ {0}
  BY TasksAssumption
<1> QED BY <1>1, <1>2

(* The tick count is changed by the tick and by nothing else.              *)
LEMMA SchedulerCounts ==
  ASSUME xTickCount \in Nat, TaskNext
  PROVE  xTickCount' \in Nat
<1>1. CASE Interrupt
  BY <1>1, TickInNat DEF Interrupt, Tick, ResumeFromISR, clock
<1>2. CASE Switch
  BY <1>2 DEF Switch, clock
<1>3. CASE CatchUp
  BY <1>3, TickInNat DEF CatchUp
<1>4. CASE IdleStep
  BY <1>4 DEF IdleStep, IdleYield, IdleBegin, IdleResume, IdleFree, ResumeAll, clock
<1>5. ASSUME NEW t \in Task, ApiCall(t) PROVE xTickCount' \in Nat
  <2>1. CASE TaskSuspendAll(t) \/ TaskResumeAll(t) \/ DelayResume(t)
    BY <2>1 DEF TaskSuspendAll, TaskResumeAll, DelayResume, ResumeAll, clock
  <2>2. CASE \E d \in DelayTimes : Delay(t, d) \/ DelayUntil(t, d)
    BY <2>2 DEF Delay, DelayUntil, AddToDelayed, clock
  <2>3. CASE \E u \in Task : Create(t, u) \/ Delete(t, u) \/ Suspend(t, u) \/ Resume(t, u)
    BY <2>3 DEF Create, Delete, Suspend, Resume, clock
  <2>4. CASE \E u \in Task, p \in NewPriorities : PrioritySet(t, u, p)
    BY <2>4 DEF PrioritySet, clock
  <2> QED BY <1>5, <2>1, <2>2, <2>3, <2>4 DEF ApiCall
<1> QED BY <1>1, <1>2, <1>3, <1>4, <1>5 DEF TaskNext

(* A task gets into a call, and out of one, by steps of the call only,     *)
(* unless it is deleted and created again.                                 *)
LEMMA SchedulerLeavesCalls ==
  ASSUME Shapes, TaskNext, NEW t \in Task
  PROVE  \/ pc'[t] = pc[t]
         \/ pc[t] \notin InACall /\ pc'[t] \notin InACall
         \/ pc'[t] = "run" /\ \E u \in Task : "xTaskCreate" \in Calls[u]
<1> USE DEF Shapes, AllTasks
<1>1. CASE Interrupt
  BY <1>1 DEF Interrupt, Tick, ResumeFromISR
<1>2. CASE Switch
  BY <1>2 DEF Switch
<1>3. CASE CatchUp
  BY <1>3 DEF CatchUp
<1>4. CASE IdleStep
  BY <1>4, TasksAssumption DEF IdleStep, IdleYield, IdleBegin, IdleResume, IdleFree
<1>5. ASSUME NEW u \in Task, ApiCall(u)
      PROVE  \/ pc'[t] = pc[t]
             \/ pc[t] \notin InACall /\ pc'[t] \notin InACall
             \/ pc'[t] = "run" /\ \E v \in Task : "xTaskCreate" \in Calls[v]
  <2>1. CASE TaskSuspendAll(u) \/ TaskResumeAll(u) \/ DelayResume(u)
    BY <2>1 DEF TaskSuspendAll, TaskResumeAll, DelayResume, InACall
  <2>2. CASE \E d \in DelayTimes : Delay(u, d) \/ DelayUntil(u, d)
    BY <2>2 DEF Delay, DelayUntil, CallsFunction, InACall
  <2>3. CASE \E v \in Task : Create(u, v)
    BY <2>3 DEF Create, CallsFunction
  <2>4. CASE \E v \in Task : Delete(u, v) \/ Suspend(u, v) \/ Resume(u, v)
    BY <2>4 DEF Delete, Suspend, Resume
  <2>5. CASE \E v \in Task, p \in NewPriorities : PrioritySet(u, v, p)
    BY <2>5 DEF PrioritySet
  <2> QED BY <1>5, <2>1, <2>2, <2>3, <2>4, <2>5 DEF ApiCall
<1> QED BY <1>1, <1>2, <1>3, <1>4, <1>5 DEF TaskNext

-----------------------------------------------------------------------------
(* Steps of calls.                                                         *)

LEMMA ElapsedBounds ==
  ASSUME Patience, NEW t \in Task
  PROVE  Elapsed(t) \in Ticks
<1>1. xTickCount \in Nat /\ timeOut[t].entering \in Nat /\ TickWidth \in Nat \ {0}
  BY TasksAssumption DEF Patience
<1> QED BY <1>1 DEF Elapsed, Ticks

(* The check of the time keeps the request: a limit is counted down but    *)
(* never to none, and never becomes "no limit".                            *)
LEMMA CheckKeepsRequest ==
  ASSUME QueueInv, Patience, NEW t \in Task, Check(t)
  PROVE  /\ Request(call'[t]) = Request(call[t])
         /\ call'[t].wait \in Ticks
         /\ call'[t].outcome = "timeout" => call'[t].wait # MaxDelay
<1> DEFINE c == call[t]
<1>1. IsCall(c) /\ c.wait \in Ticks /\ TickWidth \in Nat \ {0, 1}
  BY TasksAssumption DEF QueueInv, Calling, Patience, Check, At, InACall
<1>2. t \in DOMAIN call
  BY DEF QueueInv, Shapes, AllTasks
<1> DEFINE outcome == IF HasTimedOut(t) THEN "timeout" ELSE IF Blocked(c) THEN "wait" ELSE "retry"
           wait == IF ~HasTimedOut(t) /\ c.wait # MaxDelay THEN c.wait - Elapsed(t) ELSE c.wait
<1>3. /\ call' = [call EXCEPT ![t].outcome = outcome, ![t].wait = wait]
      /\ outcome = "timeout" => HasTimedOut(t)
  BY DEF Check
<1>6. HasTimedOut(t) => c.wait # MaxDelay
  BY DEF HasTimedOut
<1> HIDE DEF outcome
<1>4. call'[t].outcome = outcome /\ call'[t].wait = wait
      /\ call'[t].kind = c.kind /\ call'[t].queue = c.queue /\ call'[t].item = c.item
      /\ call'[t].position = c.position
  BY <1>1, <1>2, <1>3 DEF IsCall
<1>5. wait \in Ticks /\ (wait = MaxDelay <=> c.wait = MaxDelay)
  <2>1. CASE ~HasTimedOut(t) /\ c.wait # MaxDelay
    <3>1. ~(Elapsed(t) >= c.wait) /\ Elapsed(t) \in Ticks
      BY <2>1, ElapsedBounds DEF HasTimedOut
    <3>2. wait = c.wait - Elapsed(t)
      BY <1>3, <2>1
    <3> QED BY <1>1, <2>1, <3>1, <3>2 DEF Ticks, MaxDelay
  <2>2. CASE HasTimedOut(t) \/ c.wait = MaxDelay
    BY <1>1, <1>3, <2>2
  <2> QED BY <2>1, <2>2
<1> QED BY <1>3, <1>4, <1>5, <1>6 DEF Request

(* The test at the head of the loop: the call has its effect and returns,  *)
(* returns without one for it was to wait no longer, or waits.             *)
LEMMA TestRefines ==
  ASSUME QueueInv, NEW t \in Task, NEW c, IsCall(c), Test(t, c),
         c.kind = "send" /\ c.queue \in Mutexes => pxMutexHolder[c.queue] = t
  PROVE  /\ \/ pc'[t] = "run" /\ BQ!Effect(t, Request(c))
            \/ pc'[t] = "run" /\ c.wait = 0 /\ UNCHANGED <<messages, pxMutexHolder>>
            \/ /\ pc'[t] = "suspend" /\ Request(call'[t]) = Request(c)
               /\ call'[t].wait = c.wait /\ call'[t].outcome = c.outcome
               /\ ~BQ!CanHappen(Request(c)) /\ UNCHANGED <<messages, pxMutexHolder>>
         /\ \A u \in Task \ {t} : pc'[u] = pc[u] /\ call'[u] = call[u]
<1> DEFINE q == c.queue
<1>1. t \in DOMAIN pc /\ t \in DOMAIN call
  BY DEF QueueInv, Shapes, AllTasks
<1>2. q \in Queues /\ messages[q] \in Seq(Items) /\ Len(messages[q]) <= Length[q]
      /\ Len(messages[q]) \in Nat /\ Length[q] \in Nat
  BY QueueAssumption DEF QueueInv, Bounded, IsCall
<1>3. /\ IsFull(q) <=> ~BQ!HasRoom(q)
      /\ IsEmpty(q) <=> ~BQ!HasMessage(q)
  <2>1. messages[q] = <<>> <=> ~(Len(messages[q]) > 0)
    BY <1>2, EmptySeq
  <2> QED BY <1>2, <2>1 DEF IsFull, IsEmpty, BQ!HasRoom, BQ!HasMessage
<1>4. Request(c).kind = c.kind /\ Request(c).queue = q /\ Request(c).item = c.item
      /\ Request(c).position = c.position
  BY DEF Request
<1>5. Blocked(c) <=> ~BQ!CanHappen(Request(c))
  BY <1>3, <1>4 DEF Blocked, Side, BQ!CanHappen, IsCall
<1>6. CASE ~Blocked(c)
  <2>1. Return(t)
    BY <1>6 DEF Test
  <2>2. pc'[t] = "run" /\ \A u \in Task \ {t} : pc'[u] = pc[u] /\ call'[u] = call[u]
    BY <1>1, <2>1 DEF Return, QueueInv, Shapes, AllTasks
  <2>3. CASE c.kind = "send"
    <3>1. SendNow(t, c)
      BY <1>6, <2>3 DEF Test
    <3>2. messages' = [messages EXCEPT ![q] = Put(q, c.item, c.position)]
          /\ pxMutexHolder' = [pxMutexHolder EXCEPT ![q] = Null]
      BY <3>1 DEF SendNow
    <3>3. BQ!Put(q, c.item, c.position)
      BY <1>3, <1>6, <2>3, <3>2 DEF BQ!Put, Put, Blocked, Side, IsCall
    <3> QED BY <1>4, <2>2, <2>3, <3>2, <3>3 DEF BQ!Effect
  <2>4. CASE c.kind \in {"receive", "peek"}
    <3>1. ReceiveNow(t, c) /\ BQ!HasMessage(q)
      BY <1>3, <1>6, <2>4 DEF Test, Blocked, Side
    <3> QED BY <1>4, <2>2, <2>4, <3>1 DEF BQ!Effect, BQ!Take, ReceiveNow, IsCall
  <2> QED BY <2>3, <2>4 DEF IsCall
<1>7. CASE Blocked(c)
  <2>1. CASE c.wait = 0 /\ Return(t)
    BY <1>1, <1>7, <2>1 DEF Test, Return, QueueInv, Shapes, AllTasks
  <2>2. CASE /\ call' = [call EXCEPT ![t] = [c EXCEPT !.entered = TRUE]]
             /\ pc' = [pc EXCEPT ![t] = "suspend"]
    <3>1. call'[t] = [c EXCEPT !.entered = TRUE] /\ pc'[t] = "suspend"
          /\ \A u \in Task \ {t} : pc'[u] = pc[u] /\ call'[u] = call[u]
      BY <1>1, <2>2 DEF QueueInv, Shapes, AllTasks
    <3>2. /\ call'[t].kind = c.kind /\ call'[t].queue = q /\ call'[t].item = c.item
          /\ call'[t].position = c.position /\ call'[t].wait = c.wait
          /\ call'[t].outcome = c.outcome
      BY <3>1 DEF IsCall
    <3>3. Request(call'[t]) = Request(c)
      BY <3>2 DEF Request
    <3>4. UNCHANGED <<messages, pxMutexHolder>>
      BY <1>7 DEF Test
    <3> QED BY <1>5, <1>7, <3>1, <3>2, <3>3, <3>4
  <2> QED BY <1>7, <2>1, <2>2 DEF Test
<1> QED BY <1>6, <1>7

-----------------------------------------------------------------------------
(* Each step keeps Patience, and is a step of BlockingQueue or none.       *)

Refines == Patience' /\ (BQ!Next \/ UNCHANGED <<messages, pxMutexHolder, Pending>>)

LEMMA RequestIsNoCall == ASSUME NEW c, IsCall(c) PROVE Request(c) # BQ!NoCall
<1>1. Request(c).kind \in {"send", "receive", "peek"}
  BY DEF Request, IsCall
<1>2. BQ!NoCall.kind = "none"
  BY DEF BQ!NoCall
<1> QED BY <1>1, <1>2

LEMMA PendingOfOne ==
  ASSUME NEW t \in Task, \A u \in Task \ {t} : pc'[u] = pc[u] /\ call'[u] = call[u]
  PROVE  Pending' = [Pending EXCEPT ![t] =
                        IF pc'[t] \in InACall THEN Request(call'[t]) ELSE BQ!NoCall]
BY DEF Pending, Request, NoCall, BQ!NoCall

(* A step of one call keeps Patience if it keeps it for that call.         *)
LEMMA PatienceOfOne ==
  ASSUME Patience, NEW t \in Task,
         \A u \in Task \ {t} : pc'[u] = pc[u] /\ call'[u] = call[u],
         xTickCount' \in Nat,
         timeOut' = timeOut \/ timeOut' = [timeOut EXCEPT ![t] = Now]
                            \/ timeOut' = [timeOut EXCEPT ![t] = NoTime],
         pc'[t] \in InACall =>
            /\ call'[t].wait \in Ticks
            /\ call'[t].outcome = "timeout" => call'[t].wait # MaxDelay
            /\ call'[t].kind = "send" => call'[t].queue \notin Mutexes
  PROVE  Patience'
<1>1. Now.entering \in Nat /\ NoTime.entering \in Nat
  BY DEF Patience, Now, NoTime
<1>2. DOMAIN timeOut' = AllTasks /\ \A u \in Task : timeOut'[u].entering \in Nat
  BY <1>1 DEF Patience, AllTasks
<1>3. \A u \in Task : pc'[u] \in InACall =>
          /\ call'[u].wait \in Ticks
          /\ call'[u].outcome = "timeout" => call'[u].wait # MaxDelay
          /\ call'[u].kind = "send" => call'[u].queue \notin Mutexes
  BY DEF Patience
<1> QED BY <1>2, <1>3 DEF Patience, Ticks, MaxDelay

LEMMA SchedulerRefines ==
  ASSUME QueueInv, Patience, TaskNext, UNCHANGED queueVars
  PROVE  Refines
<1>1. UNCHANGED <<messages, pxMutexHolder, call, timeOut>>
  BY DEF queueVars, queues
<1>2. xTickCount' \in Nat
  BY SchedulerCounts DEF Patience
<1>3. \A t \in Task : \/ pc'[t] = pc[t]
                      \/ pc[t] \notin InACall /\ pc'[t] \notin InACall
                      \/ pc'[t] = "run" /\ \E u \in Task : "xTaskCreate" \in Calls[u]
  BY SchedulerLeavesCalls DEF QueueInv
<1>4. Patience'
  BY <1>1, <1>2, <1>3 DEF Patience, Ticks, MaxDelay, InACall
<1>5. CASE \A t \in Task : pc'[t] \in InACall <=> pc[t] \in InACall
  BY <1>1, <1>4, <1>5 DEF Refines, Pending, Request
<1>6. CASE \E t \in Task : ~(pc'[t] \in InACall <=> pc[t] \in InACall)
  <2>1. PICK t \in Task : ~(pc'[t] \in InACall <=> pc[t] \in InACall)
    BY <1>6
  <2>2. pc'[t] = "run" /\ pc[t] \in InACall /\ \E u \in Task : "xTaskCreate" \in Calls[u]
    BY <1>3, <2>1 DEF InACall
  <2>3. \A u \in Task \ {t} : pc'[u] = pc[u]
    <3>1. SchedulerStep /\ DOMAIN pc = AllTasks /\ t \in AllTasks
      BY TaskNextFacts DEF QueueInv, Shapes, AllTasks
    <3>2. pc'[t] # pc[t] /\ pc[t] \notin {"run", "resume"}
      BY <2>2 DEF InACall
    <3>3. ~Enters /\ ~Leaves
      BY <3>1, <3>2 DEF Enters, Leaves
    <3>4. PICK v \in AllTasks : pc' = [pc EXCEPT ![v] = "run"]
      BY <3>1, <3>2, <3>3 DEF SchedulerStep, Nests
    <3> QED BY <3>1, <3>2, <3>4
  <2>4. Pending' = [Pending EXCEPT ![t] = BQ!NoCall]
    BY <1>1, <2>2, <2>3, PendingOfOne DEF InACall
  <2>5. Pending[t] # BQ!NoCall
    BY <2>2, RequestIsNoCall DEF Pending, QueueInv, Calling
  <2>6. BQ!GiveUp(t)
    BY <1>1, <2>2, <2>4, <2>5 DEF BQ!GiveUp
  <2> QED BY <1>4, <2>6 DEF Refines, BQ!Next
<1> QED BY <1>5, <1>6

(* The steps of the loop that leave messages and calls as they are.        *)
LEMMA LoopRefines ==
  ASSUME QueueInv, Patience, NEW t \in Task, NEW from \in InACall, NEW place \in InACall,
         At(t, from, place), xTickCount' \in Nat, \A u \in Task \ {t} : call'[u] = call[u],
         timeOut' = timeOut \/ timeOut' = [timeOut EXCEPT ![t] = Now],
         Request(call'[t]) = Request(call[t]), call'[t].wait \in Ticks,
         call'[t].outcome = "timeout" => call'[t].wait # MaxDelay,
         UNCHANGED <<messages, pxMutexHolder>>
  PROVE  Refines
<1>1. pc[t] = from /\ pc' = [pc EXCEPT ![t] = place] /\ t \in DOMAIN pc
  BY DEF At, Executes, QueueInv, Shapes, AllTasks
<1>2. \A u \in Task \ {t} : pc'[u] = pc[u] /\ call'[u] = call[u]
  BY <1>1
<1>3. call'[t].kind = call[t].kind /\ call'[t].queue = call[t].queue
  BY DEF Request
<1>4. Patience'
  BY <1>1, <1>2, <1>3, PatienceOfOne DEF Patience
<1>5. \A u \in Task : /\ pc'[u] \in InACall <=> pc[u] \in InACall
                      /\ Request(call'[u]) = Request(call[u])
  BY <1>1, <1>2 DEF Request
<1>6. UNCHANGED Pending
  BY <1>5 DEF Pending
<1> QED BY <1>4, <1>6 DEF Refines

LEMMA LoopStepsRefine ==
  ASSUME QueueInv, Patience, NEW t \in Task,
         \/ CallSuspendAll(t) \/ LockQueue(t) \/ Inherit(t) \/ Place(t)
         \/ UnlockTx(t) \/ UnlockRx(t)
  PROVE  Refines
<1>1. PICK from \in InACall, place \in InACall : At(t, from, place)
  BY DEF CallSuspendAll, LockQueue, Inherit, Place, UnlockTx, UnlockRx, InACall
<1>2. UNCHANGED <<messages, pxMutexHolder, call, timeOut>>
  BY DEF CallSuspendAll, LockQueue, Inherit, Place, UnlockTx, UnlockRx, queueVars, queues
<1>3. UNCHANGED xTickCount
  BY DEF CallSuspendAll, LockQueue, Inherit, Place, UnlockTx, UnlockRx, ListsUnchanged, clock,
         PlaceOnEventList, AddToDelayed
<1>4. /\ call[t].wait \in Ticks
      /\ call[t].outcome = "timeout" => call[t].wait # MaxDelay
  BY <1>1 DEF At, Patience
<1> QED BY <1>1, <1>2, <1>3, <1>4, LoopRefines DEF Patience

LEMMA CheckRefines ==
  ASSUME QueueInv, Patience, NEW t \in Task, Check(t)
  PROVE  Refines
<1>1. PICK place \in {"unlockTx", "inherit", "place"} : At(t, "check", place)
  BY DEF Check
<1>2. "check" \in InACall /\ place \in InACall
  BY DEF InACall
<1>3. UNCHANGED <<messages, pxMutexHolder, xTickCount>>
  BY DEF Check, queues, ListsUnchanged, clock
<1>4. timeOut' = timeOut \/ timeOut' = [timeOut EXCEPT ![t] = Now]
  BY DEF Check
<1>5. \A u \in Task \ {t} : call'[u] = call[u]
  BY DEF Check, QueueInv, Shapes, AllTasks
<1>6. /\ Request(call'[t]) = Request(call[t])
      /\ call'[t].wait \in Ticks
      /\ call'[t].outcome = "timeout" => call'[t].wait # MaxDelay
  BY CheckKeepsRequest
<1> QED BY <1>1, <1>2, <1>3, <1>4, <1>5, <1>6, LoopRefines DEF Patience

(* A call that gives up, for its time is over, was not to wait for as long *)
(* as it takes.                                                            *)
LEMMA ResumeAllRefines ==
  ASSUME QueueInv, Patience, NEW t \in Task, CallResumeAll(t)
  PROVE  Refines
<1>1. UNCHANGED <<messages, pxMutexHolder, xTickCount>>
  BY DEF CallResumeAll, queues, ResumeAll, clock
<1>2. pc[t] = "resumeAll" /\ pc[t] \in InACall
  BY DEF CallResumeAll, At, InACall
<1>3. CASE call[t].outcome = "timeout"
  <2>1. /\ pc' = [pc EXCEPT ![t] = "run"] /\ call' = [call EXCEPT ![t] = NoCall]
        /\ timeOut' = [timeOut EXCEPT ![t] = NoTime]
    BY <1>3 DEF CallResumeAll, At
  <2>2. /\ pc'[t] = "run" /\ "run" \notin InACall
        /\ \A u \in Task \ {t} : pc'[u] = pc[u] /\ call'[u] = call[u]
    BY <2>1 DEF InACall, QueueInv, Shapes, AllTasks
  <2>3. Patience'
    BY <1>1, <2>1, <2>2, PatienceOfOne DEF Patience
  <2>4. Pending' = [Pending EXCEPT ![t] = BQ!NoCall]
    BY <2>2, PendingOfOne
  <2>5. Pending[t] # BQ!NoCall /\ ~Pending[t].patient
    BY <1>2, <1>3, RequestIsNoCall DEF Pending, Request, QueueInv, Calling, Patience
  <2>6. BQ!GiveUp(t)
    BY <1>1, <2>4, <2>5 DEF BQ!GiveUp
  <2> QED BY <2>3, <2>6 DEF Refines, BQ!Next
<1>4. CASE call[t].outcome # "timeout"
  <2>1. At(t, "resumeAll", "test") /\ UNCHANGED <<call, timeOut>>
    BY <1>4 DEF CallResumeAll
  <2>2. "resumeAll" \in InACall /\ "test" \in InACall
    BY DEF InACall
  <2>3. /\ call[t].wait \in Ticks
        /\ call[t].outcome = "timeout" => call[t].wait # MaxDelay
    BY <1>2 DEF Patience
  <2> QED BY <1>1, <2>1, <2>2, <2>3, LoopRefines DEF Patience
<1> QED BY <1>3, <1>4

-----------------------------------------------------------------------------
(* The head of the loop.                                                   *)

LEMMA TestKeepsPatience ==
  ASSUME QueueInv, Patience, NEW t \in Task, NEW c, IsCall(c), Test(t, c), TestUnchanged,
         c.wait \in Ticks, c.outcome = "timeout" => c.wait # MaxDelay,
         c.kind = "send" /\ c.queue \in Mutexes => pxMutexHolder[c.queue] = t
  PROVE  Patience'
<1>1. /\ \A u \in Task \ {t} : pc'[u] = pc[u] /\ call'[u] = call[u]
      /\ \/ pc'[t] = "run"
         \/ /\ Request(call'[t]) = Request(c) /\ ~BQ!CanHappen(Request(c))
            /\ call'[t].wait = c.wait /\ call'[t].outcome = c.outcome
  BY TestRefines
<1>2. xTickCount' \in Nat
  BY DEF TestUnchanged, clock, Patience
<1>3. timeOut' = timeOut \/ timeOut' = [timeOut EXCEPT ![t] = Now]
                         \/ timeOut' = [timeOut EXCEPT ![t] = NoTime]
  BY DEF Test, Return
<1>4. c.kind = "send" /\ c.queue \in Mutexes => BQ!CanHappen(Request(c))
  <2> SUFFICES ASSUME c.kind = "send", c.queue \in Mutexes PROVE BQ!HasRoom(c.queue)
    BY DEF BQ!CanHappen, Request
  <2>1. messages[c.queue] = <<>> /\ Length[c.queue] = 1
    BY QueueAssumption DEF QueueInv, HeldWhenTaken, IsEmpty, AllTasks
  <2> QED BY <2>1 DEF BQ!HasRoom
<1>5. Request(call'[t]) = Request(c) => call'[t].kind = c.kind /\ call'[t].queue = c.queue
  BY DEF Request
<1> QED BY <1>1, <1>2, <1>3, <1>4, <1>5, PatienceOfOne DEF InACall

LEMMA BeginRefines ==
  ASSUME QueueInv, Patience, NEW t \in Task, NEW c \in Arguments(t), Begin(t, c)
  PROVE  Refines
<1>1. /\ IsCall(c) /\ Test(t, c) /\ TestUnchanged
      /\ c.kind = "send" /\ c.queue \in Mutexes => pxMutexHolder[c.queue] = t
  BY DEF Arguments, IsCall, Begin, UsesMutexProperly
<1>2. c.wait \in Ticks /\ c.outcome # "timeout"
  BY QueueAssumption DEF Arguments
<1>3. Patience'
  BY <1>1, <1>2, TestKeepsPatience
<1>4. Pending[t] = BQ!NoCall /\ pc[t] \notin InACall
  BY DEF Begin, CallsFunction, Pending, InACall, NoCall, BQ!NoCall
<1>5. Request(c) \in BQ!QueueCalls
  BY DEF Arguments, Request, BQ!QueueCalls
<1>6. \A u \in Task \ {t} : pc'[u] = pc[u] /\ call'[u] = call[u]
  BY <1>1, TestRefines
<1>7. pc'[t] \notin InACall => UNCHANGED Pending
  BY <1>4, <1>6 DEF Pending, Request
<1>8. CASE pc'[t] = "run" /\ BQ!Effect(t, Request(c))
  BY <1>3, <1>4, <1>5, <1>7, <1>8 DEF Refines, BQ!Next, BQ!Call, InACall
<1>9. CASE pc'[t] = "run" /\ UNCHANGED <<messages, pxMutexHolder>>
  BY <1>3, <1>7, <1>9 DEF Refines, InACall
<1>10. CASE /\ pc'[t] = "suspend" /\ Request(call'[t]) = Request(c)
            /\ ~BQ!CanHappen(Request(c)) /\ UNCHANGED <<messages, pxMutexHolder>>
  <2>1. Pending' = [Pending EXCEPT ![t] = Request(c)]
    BY <1>6, <1>10, PendingOfOne DEF InACall
  <2> QED BY <1>3, <1>4, <1>5, <1>10, <2>1 DEF Refines, BQ!Next, BQ!Wait
<1> QED BY <1>1, <1>8, <1>9, <1>10, TestRefines

LEMMA AgainRefines ==
  ASSUME QueueInv, Patience, NEW t \in Task, Again(t)
  PROVE  Refines
<1> DEFINE c == call[t]
<1>1. pc[t] = "test" /\ pc[t] \in InACall /\ Test(t, c) /\ TestUnchanged
  BY DEF Again, InACall
<1>2. /\ IsCall(c) /\ c.wait \in Ticks
      /\ c.outcome = "timeout" => c.wait # MaxDelay
      /\ c.kind = "send" => c.queue \notin Mutexes
  BY <1>1 DEF QueueInv, Calling, Patience
<1> HIDE DEF c
<1>3. Patience'
  BY <1>1, <1>2, TestKeepsPatience
<1>4. \A u \in Task \ {t} : pc'[u] = pc[u] /\ call'[u] = call[u]
  BY <1>1, <1>2, TestRefines
<1>5. Pending[t] = Request(c) /\ Pending[t] # BQ!NoCall
  BY <1>1, <1>2, RequestIsNoCall DEF Pending, c
<1>6. pc'[t] = "run" => Pending' = [Pending EXCEPT ![t] = BQ!NoCall]
  BY <1>4, PendingOfOne DEF InACall
<1>7. CASE pc'[t] = "run" /\ BQ!Effect(t, Request(c))
  BY <1>3, <1>5, <1>6, <1>7 DEF Refines, BQ!Next, BQ!Complete
<1>8. CASE pc'[t] = "run" /\ c.wait = 0 /\ UNCHANGED <<messages, pxMutexHolder>>
  <2>1. MaxDelay # 0
    BY TasksAssumption DEF MaxDelay
  <2>2. ~Pending[t].patient
    <3>1. ~Request(c).patient
      BY <1>8, <2>1 DEF Request
    <3> QED BY <1>5, <3>1
  <2>3. BQ!GiveUp(t)
    BY <1>5, <1>6, <1>8, <2>2 DEF BQ!GiveUp
  <2> QED BY <1>3, <2>3 DEF Refines, BQ!Next
<1>9. CASE /\ pc'[t] = "suspend" /\ Request(call'[t]) = Request(c)
           /\ UNCHANGED <<messages, pxMutexHolder>>
  <2>1. UNCHANGED Pending
    BY <1>1, <1>4, <1>5, <1>9 DEF Pending, InACall, Request
  <2> QED BY <1>3, <1>9, <2>1 DEF Refines
<1> QED BY <1>1, <1>2, <1>7, <1>8, <1>9, TestRefines

-----------------------------------------------------------------------------
(* Interrupt handlers put and take at one moment, locked or not.           *)
LEMMA InterruptRefines ==
  ASSUME QueueInv, Patience, QueueInterrupt
  PROVE  Refines
<1>1. PICK q \in Queues :
        \/ ReceiveFromISR(q)
        \/ \E i \in Items, p \in {"back", "front"} : SendFromISR(q, i, p)
  BY DEF QueueInterrupt
<1>2. messages[q] \in Seq(Items) /\ Len(messages[q]) <= Length[q]
      /\ Len(messages[q]) \in Nat /\ Length[q] \in Nat
  BY QueueAssumption DEF QueueInv, Bounded
<1>3. UNCHANGED <<pc, xTickCount, pxMutexHolder, call, timeOut>>
  BY <1>1 DEF ReceiveFromISR, SendFromISR, FromISRUnchanged, clock
<1>4. Patience' /\ UNCHANGED Pending
  BY <1>3 DEF Patience, Pending, Request, Ticks, MaxDelay
<1>5. CASE ReceiveFromISR(q)
  <2>1. q \notin Mutexes /\ messages[q] # <<>> /\ messages' = [messages EXCEPT ![q] = Tail(@)]
    BY <1>5, QueueAssumption DEF ReceiveFromISR, IsEmpty
  <2>2. Len(messages[q]) > 0
    BY <1>2, <2>1, EmptySeq
  <2>3. BQ!Interrupt(q)
    BY <1>3, <1>4, <2>1, <2>2 DEF BQ!Interrupt, BQ!Take, BQ!HasMessage
  <2> QED BY <1>4, <2>3 DEF Refines, BQ!Next
<1>6. ASSUME NEW i \in Items, NEW p \in {"back", "front"}, SendFromISR(q, i, p) PROVE Refines
  <2>1. q \notin Mutexes /\ ~IsFull(q) /\ messages' = [messages EXCEPT ![q] = Put(q, i, p)]
    BY <1>6, QueueAssumption DEF SendFromISR
  <2>2. Len(messages[q]) < Length[q]
    BY <1>2, <2>1 DEF IsFull
  <2>3. BQ!Put(q, i, p)
    BY <2>1, <2>2 DEF BQ!Put, BQ!HasRoom, Put
  <2>4. BQ!Interrupt(q)
    BY <1>3, <1>4, <2>1, <2>3 DEF BQ!Interrupt
  <2> QED BY <1>4, <2>4 DEF Refines, BQ!Next
<1> QED BY <1>1, <1>5, <1>6

-----------------------------------------------------------------------------
LEMMA InitRefines == Init => BQ!Init
<1> SUFFICES ASSUME Init PROVE BQ!Init
  OBVIOUS
<1> DEFINE item == CHOOSE i \in Items : TRUE
<1>1. item \in Items
  BY QueueAssumption
<1> HIDE DEF item
<1>2. messages = [q \in Queues |-> IF q \in Mutexes THEN <<item>> ELSE <<>>]
      /\ pxMutexHolder = [q \in Queues |-> Null] /\ pc = [t \in AllTasks |-> "run"]
  BY DEF Init, TaskInit, item
<1>3. messages \in [Queues -> {<<>>} \cup {<<i>> : i \in Items}]
  BY <1>1, <1>2
<1>4. \A q \in Queues : Len(messages[q]) > 0 <=> q \in Mutexes
  <2>1. Len(<<item>>) = 1 /\ Len(<<>>) = 0
    OBVIOUS
  <2> QED BY <1>2, <2>1
<1>5. Pending = [t \in Task |-> BQ!NoCall]
  BY <1>2 DEF Pending, InACall, NoCall, BQ!NoCall, AllTasks
<1> QED BY <1>2, <1>3, <1>4, <1>5 DEF BQ!Init, BQ!HasMessage

LEMMA NextRefines == QueueInv /\ Patience /\ [Next]_vars => Refines
<1> SUFFICES ASSUME QueueInv, Patience, [Next]_vars PROVE Refines
  OBVIOUS
<1>1. CASE TaskNext /\ UNCHANGED queueVars
  BY <1>1, SchedulerRefines
<1>2. CASE QueueInterrupt
  BY <1>2, InterruptRefines
<1>3. ASSUME NEW t \in Task, QueueStep(t) PROVE Refines
  <2>1. ASSUME NEW c \in Arguments(t), Begin(t, c) PROVE Refines
    BY <2>1, BeginRefines
  <2>2. CASE Again(t)
    BY <2>2, AgainRefines
  <2>3. CASE \/ CallSuspendAll(t) \/ LockQueue(t) \/ Inherit(t) \/ Place(t)
             \/ UnlockTx(t) \/ UnlockRx(t)
    BY <2>3, LoopStepsRefine
  <2>4. CASE Check(t)
    BY <2>4, CheckRefines
  <2>5. CASE CallResumeAll(t)
    BY <2>5, ResumeAllRefines
  <2> QED BY <1>3, <2>1, <2>2, <2>3, <2>4, <2>5 DEF QueueStep
<1>4. CASE UNCHANGED vars
  <2>1. UNCHANGED <<pc, xTickCount, timeOut, call, messages, pxMutexHolder>>
    BY <1>4 DEF vars, taskVars, clock, queueVars, queues
  <2> QED BY <2>1 DEF Refines, Patience, Pending, Request, Ticks, MaxDelay
<1> QED BY <1>1, <1>2, <1>3, <1>4 DEF Next

(* xQueueGenericSend, xQueueGenericReceive and the functions for           *)
(* interrupts, with their locks, retries and time-outs, do what a queue    *)
(* promises: each call has its effect once, at one moment, or gives up,    *)
(* which no call does that was to wait for portMAX_DELAY.                  *)
THEOREM QueueRefinement == Spec => ImplementsBlockingQueue
<1>1. Init => QueueInv /\ Patience /\ BQ!Init
  BY QueueInitially, PatienceInitially, InitRefines
<1>2. QueueInv /\ Patience /\ [Next]_vars => QueueInv' /\ Patience' /\ [BQ!Next]_(BQ!vars)
  BY QueueNext, NextRefines DEF Refines, BQ!vars
<1> QED BY <1>1, <1>2, PTL DEF Spec, ImplementsBlockingQueue, BQ!Spec
=============================================================================
