----------------------------- MODULE SEFMProofs -----------------------------
(***************************************************************************)
(* Theorems about the servant runtime, for every set of tables and every   *)
(* clock that satisfies the assumptions of SEFM: first the processor, then *)
(* the rounds, the events and the flags of the R-Servant, and what follows *)
(* from the whole inductive invariant.                                     *)
(***************************************************************************)
EXTENDS SEFMInv, TLAPS, FiniteSetTheorems, NaturalsInduction,
        WellFoundedInduction

USE DEF clockVars, schedVars, jobVars, listVars, readyVars, matchVars, vars

-----------------------------------------------------------------------------
(* Operators.                                                              *)

(* A new event is an event.                                                *)
LEMMA NewEventType ==
  ASSUME NEW s \in Servants, NEW d \in Servants, NEW last,
         NEW nextPeriod \in Nat, NEW time \in Nat, NEW level \in Nat
  PROVE  NewEvent(s, d, last, nextPeriod, time, level) \in Event
BY DEF NewEvent, Event

(* The outputs of a servant are servants, and finitely many.               *)
LEMMA OutputsType ==
  ASSUME NEW s \in Servants
  PROVE  /\ Outputs(s) \subseteq Servants /\ IsFiniteSet(Outputs(s))
         /\ \A d \in Outputs(s) : <<s, d>> \in Relations
<1>1. Outputs(s) \subseteq Servants
  BY TablesAssumption DEF Outputs
<1>2. IsFiniteSet(Outputs(s))
  BY <1>1, TablesAssumption, FS_Subset
<1>3. ASSUME NEW d \in Outputs(s) PROVE <<s, d>> \in Relations
  <2>1. PICK r \in Relations : r[1] = s /\ r[2] = d
    BY DEF Outputs
  <2>2. r = <<r[1], r[2]>>
    BY TablesAssumption
  <2> QED BY <2>1, <2>2
<1> QED BY <1>1, <1>2, <1>3

(* The place of an output among a servant's outputs is a number.           *)
LEMMA RankType ==
  ASSUME NEW s \in Servants, NEW d
  PROVE  Rank(s, d) \in Nat
<1>1. IsFiniteSet({x \in Outputs(s) : x < d})
  BY OutputsType, FS_Subset
<1> QED BY <1>1, FS_CardinalityType DEF Rank

(* vEventCreateAll adds events to the list and counts them.                *)
LEMMA CreateAllType ==
  ASSUME TypeOK, NEW s \in Servants, NEW next \in [Outputs(s) -> Nat],
         NEW time \in Nat, NEW live, CreateAll(s, next, time, live)
  PROVE  eventList' \in SUBSET Event /\ serial' \in Nat
<1> DEFINE E(d) == NewEvent(s, d, IsLast(s, d), next[d], time, serial + Rank(s, d))
           new  == {E(d) : d \in Outputs(s)}
           free == HeapEvents - 1 - Cardinality(live)
           kept == {e \in new : e.xLevel - serial < free}
<1>1. \A d \in Outputs(s) : E(d) \in Event
  BY OutputsType, RankType, NewEventType DEF TypeOK
<1>2. IsFiniteSet(new)
  <2> HIDE DEF E
  <2> DEFINE g == [d \in Outputs(s) |-> E(d)]
  <2>1. g \in Surjection(Outputs(s), new)
    BY DEF Surjection
  <2> HIDE DEF g, new
  <2> QED BY <2>1, OutputsType, FS_Surjection
<1>3. Cardinality(kept) \in Nat
  BY <1>2, FS_Subset, FS_CardinalityType
<1>4. eventList' = eventList \cup kept /\ serial' = serial + Cardinality(kept)
  BY DEF CreateAll, Create
<1> QED
  <2> HIDE DEF E, free
  <2> QED BY <1>1, <1>3, <1>4 DEF TypeOK

-----------------------------------------------------------------------------
(* Type correctness.  TypeOK is not inductive by itself: what the          *)
(* R-Servant matches must be an event.                                     *)

SchedType ==
  /\ sem \in [Servants \cup {R} -> {0, 1}]
  /\ blocked \in SUBSET (Servants \cup {R})
  /\ current \in Servants \cup {R, Idle}
  /\ suspended \in BOOLEAN /\ placing \in BOOLEAN /\ yieldDue \in BOOLEAN

(* The next task is one that does not wait.                                *)
LEMMA SwitchType ==
  ASSUME NEW W, SwitchContext(W)
  PROVE  current' \in (Servants \cup {R, Idle}) \ W
BY DEF SwitchContext, Highest

(* The operations of the kernel keep the types of its variables.           *)
LEMMA GiveType ==
  ASSUME SchedType, NEW S, Give(S) PROVE SchedType'
<1>1. current' \in Servants \cup {R, Idle} /\ yieldDue' \in BOOLEAN
  BY SwitchType DEF Give, Preempt, SchedType
<1>2. sem' \in [Servants \cup {R} -> {0, 1}]
  BY DEF Give, SchedType
<1> QED BY <1>1, <1>2 DEF Give, SchedType

LEMMA TakeType ==
  ASSUME SchedType, NEW t \in Servants \cup {R}, Take(t) PROVE SchedType'
BY DEF Take, SchedType

LEMMA SuspendType ==
  ASSUME SchedType, NEW t, SuspendAll(t) PROVE SchedType'
BY DEF SuspendAll, SchedType

LEMMA ResumeType ==
  ASSUME SchedType, TypeOK, NEW yield, NEW W, ResumeAll(yield, W)
  PROVE  /\ current' \in Servants \cup {R, Idle}
         /\ suspended' \in BOOLEAN /\ yieldDue' \in BOOLEAN
         /\ now' \in Nat /\ missed' \in Nat
<1>1. now \in Nat /\ missed \in Nat /\ current \in Servants \cup {R, Idle}
  BY DEF TypeOK
<1>2. now' \in Nat /\ missed' \in Nat
  BY <1>1 DEF ResumeAll
<1>3. current' \in Servants \cup {R, Idle}
  BY <1>1, SwitchType DEF ResumeAll
<1> QED BY <1>2, <1>3 DEF ResumeAll

(* A task that waits for its semaphore, in its two steps.                  *)
LEMMA WaitType ==
  ASSUME TypeOK, NEW t \in Servants \cup {R},
         ((WaitBegin(t) \/ WaitTest(t)) /\ UNCHANGED clockVars) \/ WaitEnd(t)
  PROVE  SchedType' /\ now' \in Nat /\ missed' \in Nat /\ isInit' \in BOOLEAN
<1>1. SchedType
  BY DEF TypeOK, SchedType
<1>2. CASE (WaitBegin(t) \/ WaitTest(t)) /\ UNCHANGED clockVars
  BY <1>1, <1>2, SuspendType DEF WaitBegin, WaitTest, SchedType, TypeOK
<1>3. CASE WaitEnd(t)
  <2>1. ResumeAll(placing, blocked')
    BY <1>3 DEF WaitEnd
  <2> QED BY <1>1, <1>3, <2>1, ResumeType DEF WaitEnd, SchedType, TypeOK
<1> QED BY <1>2, <1>3

(* The initial state has its types.                                        *)
LEMMA TypeInit == Init => TypeInv
<1> SUFFICES ASSUME Init PROVE TypeInv
  OBVIOUS
<1>1. current \in Servants \cup {R, Idle}
  BY DEF Init, Highest
<1>2. moved \in Event \cup {None}
  BY DEF Init
<1>3. sem \in [Servants \cup {R} -> {0, 1}] /\ pc \in [Servants -> {"first", "take", "exec", "let"}]
  BY DEF Init
<1> QED BY <1>1, <1>2, <1>3 DEF Init, TypeOK, TypeInv, MovedIsEvent

(* Every step keeps them.                                                  *)
LEMMA TypeStep == TypeOK /\ MovedIsEvent /\ [Next]_vars => TypeOK'
<1> SUFFICES ASSUME TypeOK, MovedIsEvent, [Next]_vars PROVE TypeOK'
  OBVIOUS
<1>t. SchedType
  BY DEF TypeOK, SchedType
<1>1. ASSUME NEW s \in Servants, SensorFirst(s) PROVE TypeOK'
  BY <1>1, <1>t, TakeType DEF SensorFirst, TypeOK, SchedType
<1>2. ASSUME NEW s \in Servants, SensorReceive(s) PROVE TypeOK'
  BY <1>2, <1>t, TakeType DEF SensorReceive, ReceiveAll, Receive, TypeOK, SchedType
<1>3. ASSUME NEW s \in Servants, SensorExec(s) PROVE TypeOK'
  <2> DEFINE next == (count[s] + 1) * Period[TaskOf[s]]
             f == [d \in Outputs(s) |-> next]
  <2>1. s \in Sensors /\ pc[s] = "exec" /\ HeapEnd(s)
        /\ count' = [count EXCEPT ![s] = @ + 1]
        /\ deadline' = [deadline EXCEPT ![s] = next]
        /\ CreateAll(s, f, now + Let[s], Live)
        /\ start' = [start EXCEPT ![s] = now]
        /\ pc' = [pc EXCEPT ![s] = "let"]
        /\ UNCHANGED <<held, readyVars, matchVars>>
    BY <1>3 DEF SensorExec
  <2>2. next \in Nat /\ now + Let[s] \in Nat /\ count[s] + 1 \in Nat
    <3>1. now \in Nat /\ Let[s] \in Nat /\ count[s] \in Nat
      BY <2>1, TablesAssumption DEF TypeOK
    <3>2. Period[TaskOf[s]] \in Nat
      BY TablesAssumption
    <3> QED BY <3>1, <3>2
  <2>3. f \in [Outputs(s) -> Nat]
    BY <2>2
  <2>4. eventList' \in SUBSET Event /\ serial' \in Nat
    <3> HIDE DEF f
    <3> QED BY <2>1, <2>2, <2>3, CreateAllType
  <2>5. ResumeAll(FALSE, blocked) /\ UNCHANGED <<sem, blocked, placing, isInit>>
    BY <2>1 DEF HeapEnd
  <2>6. /\ current' \in Servants \cup {R, Idle}
        /\ suspended' \in BOOLEAN /\ yieldDue' \in BOOLEAN
        /\ now' \in Nat /\ missed' \in Nat
    BY <1>t, <2>5, ResumeType
  <2> HIDE DEF f, next
  <2>7. /\ count' \in [Sensors -> Nat] /\ deadline' \in [Servants -> Nat]
        /\ start' \in [Servants -> Nat] /\ pc' \in [Servants -> {"first", "take", "exec", "let"}]
    BY <2>1, <2>2 DEF TypeOK
  <2> QED BY <2>1, <2>4, <2>5, <2>6, <2>7 DEF TypeOK
<1>4. ASSUME NEW s \in Servants, ServantReceive(s) PROVE TypeOK'
  <2>1. PICK got \in SUBSET Visible(s) :
          ReceiveAll(s, got) /\ held' = [held EXCEPT ![s] = got]
    BY <1>4 DEF ServantReceive
  <2>2. got \in SUBSET Event
    BY <2>1 DEF Visible, TypeOK
  <2>3. SchedType'
    BY <1>4, <1>t, TakeType DEF ServantReceive
  <2>4. readyList' \in SUBSET Event /\ held' \in [Servants -> SUBSET Event]
    BY <2>1, <2>2 DEF ReceiveAll, Receive, TypeOK
  <2> QED BY <1>4, <2>1, <2>3, <2>4 DEF ServantReceive, ReceiveAll, TypeOK, SchedType
<1>5. ASSUME NEW s \in Servants, ServantExec(s) PROVE TypeOK'
  <2>1. PICK data \in [Outputs(s) -> held[s]], first \in Outputs(s) :
          /\ deadline' = [deadline EXCEPT ![s] = data[first].xSlackTime]
          /\ CreateAll(s, [d \in Outputs(s) |-> data[d].xSlackTime],
                       now + Let[s], Live \ held[s])
    BY <1>5 DEF ServantExec
  <2> DEFINE f == [d \in Outputs(s) |-> data[d].xSlackTime]
  <2>2. f \in [Outputs(s) -> Nat] /\ data[first].xSlackTime \in Nat
    BY DEF TypeOK, Event
  <2>3. now + Let[s] \in Nat
    BY TablesAssumption DEF TypeOK
  <2>4. eventList' \in SUBSET Event /\ serial' \in Nat
    <3>1. CreateAll(s, f, now + Let[s], Live \ held[s])
      BY <2>1
    <3> HIDE DEF f
    <3> QED BY <3>1, <2>2, <2>3, CreateAllType
  <2>5. ResumeAll(FALSE, blocked) /\ UNCHANGED <<sem, blocked, placing, isInit>>
    BY <1>5 DEF ServantExec, HeapEnd
  <2>6. /\ current' \in Servants \cup {R, Idle}
        /\ suspended' \in BOOLEAN /\ yieldDue' \in BOOLEAN
        /\ now' \in Nat /\ missed' \in Nat
    BY <1>t, <2>5, ResumeType
  <2>7. /\ deadline' \in [Servants -> Nat] /\ start' \in [Servants -> Nat]
        /\ pc' \in [Servants -> {"first", "take", "exec", "let"}]
        /\ held' \in [Servants -> SUBSET Event]
        /\ UNCHANGED <<count, readyVars, matchVars>>
    BY <1>5, <2>1, <2>2 DEF ServantExec, TypeOK
  <2> QED BY <2>4, <2>5, <2>6, <2>7 DEF TypeOK
<1>6. ASSUME NEW s \in Servants, HeapBegin(s) PROVE TypeOK'
  BY <1>6, <1>t, SuspendType DEF HeapBegin, TypeOK, SchedType
<1>7. ASSUME NEW s \in Servants, Finish(s) PROVE TypeOK'
  BY <1>7, <1>t, GiveType DEF Finish, TypeOK, SchedType
<1>8. ASSUME NEW s \in Servants, WaitForTrigger(s) PROVE TypeOK'
  BY <1>8, WaitType DEF WaitForTrigger, TypeOK, SchedType
<1>9. CASE RTake
  BY <1>9, <1>t, TakeType DEF RTake, TypeOK, SchedType
<1>10. CASE RWait
  BY <1>10, WaitType DEF RWait, TypeOK, SchedType
<1>11. CASE RTransit
  BY <1>11 DEF RTransit, Transit, TypeOK
<1>12. CASE RMatch
  <2>1. moved \in Event
    BY <1>12 DEF RMatch, MovedIsEvent
  <2>2. dangling' \in SUBSET Event /\ flag' \in [Relations -> {1, 2}] /\ rpc' \in {"fire", "transit"}
    BY <1>12, <2>1 DEF RMatch, TypeOK
  <2> QED BY <1>12, <2>2 DEF RMatch, TypeOK
<1>13. CASE RFire
  BY <1>13, <1>t, GiveType DEF RFire, TypeOK, SchedType
<1>14. CASE IdleYield
  BY <1>14, SwitchType DEF IdleYield, TypeOK
<1>15. CASE Tick
  <2>1. SchedType'
    BY <1>15, <1>t, GiveType DEF Tick, TickHook
  <2> QED BY <1>15, <2>1 DEF Tick, TickHook, TypeOK, SchedType
<1>16. CASE UNCHANGED vars
  BY <1>16 DEF TypeOK
<1>17. ASSUME NEW s \in Servants, DelayLET(s) PROVE TypeOK'
  BY <1>17 DEF DelayLET, TypeOK
<1> QED
  BY <1>1, <1>2, <1>3, <1>4, <1>5, <1>6, <1>7, <1>8, <1>9, <1>10, <1>11, <1>12,
     <1>13, <1>14, <1>15, <1>16, <1>17 DEF Next, Job, RServant

(* What the R-Servant matches stays an event until it triggers.            *)
LEMMA MovedStep == TypeInv /\ [Next]_vars => MovedIsEvent'
<1> SUFFICES ASSUME TypeInv, [Next]_vars PROVE MovedIsEvent'
  OBVIOUS
<1>1. CASE RTransit
  BY <1>1 DEF RTransit, Transit, IsHead, TypeInv, TypeOK, MovedIsEvent
<1>2. CASE RMatch
  BY <1>2 DEF RMatch, TypeInv, MovedIsEvent
<1>3. CASE RTake \/ RFire
  BY <1>3 DEF RTake, RFire, MovedIsEvent
<1>4. ASSUME UNCHANGED <<rpc, moved>> PROVE MovedIsEvent'
  BY <1>4 DEF TypeInv, MovedIsEvent
<1>5. ASSUME NEW s \in Servants, Job(s) PROVE UNCHANGED <<rpc, moved>>
  BY <1>5 DEF Job, SensorFirst, SensorReceive, SensorExec, ServantReceive,
     ServantExec, HeapBegin, DelayLET, Finish, WaitForTrigger
<1>6. CASE RWait \/ IdleYield \/ Tick \/ UNCHANGED vars
  BY <1>6, <1>4 DEF RWait, IdleYield, Tick
<1> QED BY <1>1, <1>2, <1>3, <1>4, <1>5, <1>6 DEF Next, RServant

(* Every variable keeps its type.  In particular the R-Servant never looks *)
(* at the relations of a NULL event (servant.c:495-531).                   *)
THEOREM TypeCorrect == Spec => []TypeOK
<1>1. TypeInv /\ [Next]_vars => TypeInv'
  BY TypeStep, MovedStep DEF TypeInv
<1>2. TypeInv => TypeOK
  BY DEF TypeInv
<1> QED BY TypeInit, <1>1, <1>2, PTL DEF Spec

-----------------------------------------------------------------------------
(* The processor.                                                          *)

(* A switch away from the servants means that all of them wait.            *)
LEMMA SwitchFacts ==
  ASSUME NEW W, SwitchContext(W), R \notin W \/ Idle \notin W
  PROVE  /\ current' \in (Servants \cup {R, Idle}) \ W
         /\ current' \in {R, Idle} => Servants \subseteq W
         /\ current' = Idle => R \in W
<1> DEFINE ready == (Servants \cup {R, Idle}) \ W
<1>1. current' \in ready /\ \A u \in ready : Prio(u) <= Prio(current')
  BY DEF SwitchContext, Highest
<1>2. /\ Prio(Idle) = 0 /\ Prio(R) = 1
      /\ \A s \in Servants : Prio(s) \in Nat /\ Prio(s) >= 2
  BY TablesAssumption DEF Prio
<1>3. current' \in {R, Idle} => Servants \subseteq W
  BY <1>1, <1>2
<1>4. current' = Idle => R \in W
  BY <1>1, <1>2
<1> QED BY <1>1, <1>3, <1>4

(* Servants are above the R-Servant, and that above the idle task.         *)
LEMMA PrioFacts ==
  /\ Prio(Idle) = 0 /\ Prio(R) = 1
  /\ \A s \in Servants : Prio(s) \in Nat /\ Prio(s) >= 2
BY TablesAssumption DEF Prio

(* What giving the semaphores of S does to the processor.                  *)
LEMMA GiveFacts ==
  ASSUME TypeOK, NEW S, Give(S)
  PROVE  LET yield == \E t \in Woken(S) : Prio(t) >= Prio(current)
         IN  /\ sem' = [t \in Servants \cup {R} |-> IF t \in S THEN 1 ELSE sem[t]]
             /\ blocked' = blocked \ Woken(S)
             /\ UNCHANGED <<suspended, placing>>
             /\ yield /\ ~suspended => SwitchContext(blocked') /\ yieldDue' = yieldDue
             /\ ~yield => current' = current /\ yieldDue' = yieldDue
<1> DEFINE yield == \E t \in Woken(S) : Prio(t) >= Prio(current)
<1>1. sem' = [t \in Servants \cup {R} |-> IF t \in S THEN 1 ELSE sem[t]]
      /\ blocked' = blocked \ Woken(S) /\ UNCHANGED <<suspended, placing>>
  BY DEF Give, TypeOK
<1>2. /\ IF yield /\ ~suspended
         THEN SwitchContext(blocked \ Woken(S)) ELSE UNCHANGED current
      /\ yieldDue' = (yieldDue \/ (yield /\ suspended))
  BY DEF Give, Preempt
<1> HIDE DEF yield
<1>4. yield /\ ~suspended => SwitchContext(blocked') /\ yieldDue' = yieldDue
  <2> SUFFICES ASSUME yield, ~suspended PROVE SwitchContext(blocked') /\ yieldDue' = yieldDue
    OBVIOUS
  <2>1. SwitchContext(blocked \ Woken(S)) /\ yieldDue' = yieldDue
    BY <1>2 DEF TypeOK
  <2> QED BY <1>1, <2>1
<1>5. ~yield => current' = current /\ yieldDue' = yieldDue
  BY <1>2 DEF TypeOK
<1> QED BY <1>1, <1>4, <1>5 DEF yield

(* Servants that wait for a semaphore that is given are all woken.         *)
LEMMA ServantsWoken ==
  ASSUME Waiting, NEW S \in SUBSET Servants
  PROVE  Woken(S) = S \cap blocked
BY DEF Waiting, Woken

(* Initially every semaphore is empty and nothing has begun.               *)
LEMMA SchedInit == Init => SchedInv
BY TablesAssumption, ClockAssumption
   DEF Init, SchedInv, Startup, Starting, Suspension, Waiting, Taken, OneAtATime,
       Triggered, SwitchContext, Highest, Prio

(* A task that waits for its semaphore.                                    *)
LEMMA WaitSched ==
  ASSUME TypeInv, SchedInv, NEW t \in Servants \cup {R},
         t \in Servants => pc[t] \in {"first", "take"},
         t = R => rpc = "take",
         ((WaitBegin(t) \/ WaitTest(t)) /\ UNCHANGED clockVars) \/ WaitEnd(t),
         UNCHANGED <<pc, rpc, deadline>>
  PROVE  SchedInv'
<1> USE TablesAssumption DEF TypeInv, TypeOK
<1> USE DEF SchedInv, Startup, Starting, Suspension, Waiting, Taken, OneAtATime, Triggered
<1>1. CASE (WaitBegin(t) \/ WaitTest(t)) /\ UNCHANGED clockVars
  BY <1>1 DEF WaitBegin, WaitTest, SuspendAll, Running
<1>2. CASE WaitEnd(t) /\ ~placing
  BY <1>2 DEF WaitEnd, ResumeAll
<1>3. CASE WaitEnd(t) /\ placing
  <2>1. /\ current = t /\ suspended /\ ~suspended' /\ ~yieldDue' /\ ~placing'
        /\ blocked' = blocked \cup {t} /\ SwitchContext(blocked')
        /\ now' = now + missed /\ missed' = 0 /\ UNCHANGED <<sem, isInit>>
    BY <1>3 DEF WaitEnd, ResumeAll
  <2>2. Idle \notin blocked'
    BY <2>1
  <2>3. /\ current' \in (Servants \cup {R, Idle}) \ blocked'
        /\ current' \in {R, Idle} => Servants \subseteq blocked'
    BY <2>1, <2>2, SwitchFacts
  <2>4. Startup'
    BY <2>1
  <2>5. Starting'
    BY <2>1
  <2>6. Suspension'
    BY <2>1
  <2>7. Waiting'
    <3>1. current' \notin blocked' /\ ~placing'
      BY <2>1, <2>3
    <3>2. R \in blocked' => rpc' = "take"
      BY <2>1
    <3>3. \A s \in Servants \cap blocked' : sem'[s] = 0 /\ pc'[s] \in {"first", "take"}
      BY <1>3, <2>1
    <3> QED BY <3>1, <3>2, <3>3
  <2>8. OneAtATime'
    <3>1. rpc = "take"
      BY <2>1
    <3>2. \A s \in Servants : pc[s] \in {"first", "take"} /\ ~(pc[s] = "take" /\ sem[s] = 1)
      BY <1>3, <2>1
    <3>3. current' = R => Servants \subseteq blocked'
      BY <2>3
    <3> QED BY <2>1, <3>1, <3>2, <3>3
  <2>9. Taken'
    BY <2>1
  <2> QED BY <2>4, <2>5, <2>6, <2>7, <2>8, <2>9
<1> QED BY <1>1, <1>2, <1>3 DEF WaitEnd

(* The tick hook before and at the first tick it reacts to, ...            *)
LEMMA TickStartup ==
  ASSUME TypeInv, SchedInv, Tick, isInit
  PROVE  SchedInv'
<1> USE TablesAssumption DEF TypeInv, TypeOK
<1> USE DEF SchedInv, Startup, Starting, Suspension, Waiting, Taken, OneAtATime, Triggered
<1>1. now + missed \notin SlowTicks
  BY StartupAssumption, ClockAssumption
<1>2. current = Idle /\ ~suspended
  BY <1>1 DEF Tick, CodeIsWaiting, Running
<1>3. now' = now + 1 /\ missed' = 0 /\ UNCHANGED <<pc, rpc, deadline>>
  BY <1>2 DEF Tick
<1>4. ~HookDue(now')
  BY <1>3, ClockAssumption DEF HookDue
<1> DEFINE S == IF now' = FirstTick THEN Sensors ELSE {}
<1>5. Give(S) /\ isInit' = (now' # FirstTick)
  <2> DEFINE T == (IF isInit /\ now' = FirstTick THEN Sensors ELSE {})
                    \cup (IF HookDue(now') THEN {R} ELSE {})
  <2>1. Give(T) /\ isInit' = (isInit /\ now' # FirstTick)
    BY DEF Tick, TickHook
  <2>2. T = S
    BY <1>4
  <2> HIDE DEF T, S
  <2> QED BY <2>1, <2>2
<1>6. S \subseteq Servants
  OBVIOUS
<1> HIDE DEF S
<1>6a. Woken(S) = S \cap blocked
  BY <1>6, ServantsWoken
<1>7. /\ sem' = [t \in Servants \cup {R} |-> IF t \in S THEN 1 ELSE sem[t]]
      /\ blocked' = blocked \ S /\ ~suspended' /\ ~yieldDue' /\ ~placing'
      /\ current' = Idle \/ SwitchContext(blocked')
  BY <1>2, <1>5, <1>6a, GiveFacts
<1>7a. S \cap blocked # {} => SwitchContext(blocked')
  <2>1. \A t \in S \cap blocked : Prio(t) >= Prio(current)
    BY <1>2, <1>6, PrioFacts
  <2> QED BY <1>2, <1>5, <1>6a, <2>1, GiveFacts
<1>8. /\ current' \in (Servants \cup {R, Idle}) \ blocked'
      /\ current' \in {R, Idle} => Servants \subseteq blocked' \/ current' = Idle
  <2>1. Idle \notin blocked'
    BY <1>7
  <2> QED BY <1>7, <2>1, SwitchFacts
<1>9. now' # FirstTick => S = {}
  BY DEF S
<1>10. now' = FirstTick => S = Sensors
  BY DEF S
<1>11. Startup'
  BY <1>3, <1>5, <1>7, <1>9, ClockAssumption
<1>12. Starting'
  BY <1>3, <1>5, <1>7, <1>10
<1>13. Suspension'
  BY <1>3, <1>7
<1>14. Waiting'
  BY <1>3, <1>7, <1>8
<1>15. OneAtATime'
  <2>1. \A s \in Servants : pc[s] \in {"first", "take"} /\ rpc = "take"
    OBVIOUS
  <2>2. \A s \in S : pc[s] = "first"
    BY <1>9, <1>10
  <2> QED BY <1>3, <1>7, <1>8, <2>1, <2>2
<1>16. Taken'
  BY <1>3, <1>7
<1> QED BY <1>11, <1>12, <1>13, <1>14, <1>15, <1>16

(* ... and later: it only wakes the R-Servant, when nothing else runs.     *)
LEMMA TickSched ==
  ASSUME TypeInv, SchedInv, Tick, ~isInit
  PROVE  SchedInv'
<1> USE TablesAssumption DEF TypeInv, TypeOK
<1> USE DEF SchedInv, Startup, Starting, Suspension, Waiting, Taken, OneAtATime, Triggered
<1> DEFINE S == IF HookDue(now') THEN {R} ELSE {}
<1>1. Give(S) /\ ~isInit' /\ UNCHANGED <<pc, rpc, deadline>>
      /\ (missed' # 0 => suspended)
  <2> DEFINE T == (IF isInit /\ now' = FirstTick THEN Sensors ELSE {})
                    \cup (IF HookDue(now') THEN {R} ELSE {})
  <2>1. Give(T) /\ isInit' = (isInit /\ now' # FirstTick)
    BY DEF Tick, TickHook
  <2>2. T = S
    OBVIOUS
  <2> HIDE DEF T, S
  <2>3. missed' # 0 => suspended
    BY DEF Tick
  <2> QED BY <2>1, <2>2, <2>3 DEF Tick
<1>2. S \subseteq {R}
  OBVIOUS
<1> HIDE DEF S
<1>3. /\ sem' = [t \in Servants \cup {R} |-> IF t \in S THEN 1 ELSE sem[t]]
      /\ blocked' = blocked \ Woken(S) /\ UNCHANGED <<suspended, placing>>
      /\ Woken(S) \subseteq {R} \cap blocked
  BY <1>1, <1>2 DEF Give, Woken
<1>4. CASE current = Idle
  <2>1. ~suspended /\ ~yieldDue' /\ (current' = Idle \/ SwitchContext(blocked'))
    BY <1>1, <1>3, <1>4, GiveFacts
  <2>2. current' = Idle \/ (current' = R => Servants \subseteq blocked')
    <3>1. Idle \notin blocked'
      BY <1>3
    <3> QED BY <2>1, <3>1, SwitchFacts
  <2>3. current' \notin blocked'
    <3>1. Idle \notin blocked'
      BY <1>3
    <3> QED BY <2>1, <3>1, SwitchFacts
  <2>4. \A s \in Servants : pc[s] \in {"first", "take"} /\ ~Triggered(s)
    BY <1>4
  <2>5. rpc = "take"
    BY <1>4
  <2> QED BY <1>1, <1>2, <1>3, <1>4, <2>1, <2>2, <2>3, <2>4, <2>5
<1>5. CASE current # Idle
  <2>1. ~\E t \in Woken(S) : Prio(t) >= Prio(current)
    <3>1. current \in Servants \/ current = R
      BY <1>5
    <3>2. current = R => R \notin blocked
      OBVIOUS
    <3>3. current \in Servants => ~(Prio(R) >= Prio(current))
      BY PrioFacts
    <3> QED BY <1>3, <3>1, <3>2, <3>3
  <2>2. current' = current /\ yieldDue' = yieldDue
    BY <1>1, <2>1, GiveFacts
  <2> QED BY <1>1, <1>2, <1>3, <1>5, <2>2
<1> QED BY <1>4, <1>5

(* The R-Servant triggers a servant, which preempts it at once.            *)
LEMMA FireSched ==
  ASSUME TypeInv, SchedInv, RFire
  PROVE  SchedInv' /\ sem[moved.dst] = 0 /\ pc[moved.dst] = "take"
<1> USE TablesAssumption DEF TypeInv, TypeOK
<1> USE DEF SchedInv, Startup, Starting, Suspension, Waiting, Taken, OneAtATime, Triggered
<1> DEFINE d == moved.dst
<1>1. d \in Servants
  BY DEF RFire, MovedIsEvent, Event
<1>2. /\ current = R /\ ~suspended /\ Servants \subseteq blocked /\ R \notin blocked
      /\ Give({d}) /\ rpc' = "take" /\ UNCHANGED <<clockVars, jobVars>> /\ ~isInit
  BY DEF RFire, Running
<1> HIDE DEF d
<1>3. sem[d] = 0 /\ pc[d] = "take"
  <2>1. d \in blocked
    BY <1>1, <1>2
  <2>2. sem[d] = 0 /\ pc[d] \in {"first", "take"}
    BY <1>1, <2>1
  <2>3. pc[d] # "first"
    BY <1>1, <1>2, <2>2
  <2> QED BY <2>2, <2>3
<1>3a. Woken({d}) = {d} \cap blocked
  BY <1>1, ServantsWoken
<1>4. /\ sem' = [t \in Servants \cup {R} |-> IF t = d THEN 1 ELSE sem[t]]
      /\ blocked' = blocked \ {d} /\ ~suspended' /\ ~placing'
  <2>1. /\ sem' = [t \in Servants \cup {R} |-> IF t \in {d} THEN 1 ELSE sem[t]]
        /\ blocked' = blocked \ Woken({d}) /\ suspended' = suspended /\ placing' = placing
    BY <1>2, GiveFacts
  <2>2. ~placing
    BY <1>2
  <2>3. blocked \ Woken({d}) = blocked \ {d}
    BY <1>3a
  <2>4. ~suspended' /\ ~placing'
    BY <1>2, <2>1, <2>2
  <2> QED BY ONLY <2>1, <2>3, <2>4
<1>5. SwitchContext(blocked') /\ ~yieldDue'
  <2>1. Prio(d) >= Prio(R)
    BY <1>1, PrioFacts
  <2>2. \E t \in Woken({d}) : Prio(t) >= Prio(current)
    BY <1>1, <1>2, <1>3a, <2>1
  <2> QED BY <1>2, <2>2, GiveFacts
<1>6. current' = d
  <2>1. Idle \notin blocked'
    BY <1>4
  <2>2. d \notin blocked' /\ Servants \ {d} \subseteq blocked'
    BY <1>2, <1>4
  <2> QED BY <1>1, <1>5, <2>1, <2>2, SwitchFacts
<1>7. \A s \in Servants : pc[s] \in {"first", "take"} /\ (s # d => sem'[s] = 0)
  BY <1>2, <1>4
<1>8. SchedInv'
  BY <1>1, <1>2, <1>3, <1>4, <1>5, <1>6, <1>7
<1> QED BY <1>3, <1>8 DEF d

(* Every step preserves the invariant of the processor.                    *)
LEMMA SchedStep == TypeInv /\ SchedInv /\ [Next]_vars => SchedInv'
<1> SUFFICES ASSUME TypeInv, SchedInv, [Next]_vars PROVE SchedInv'
  OBVIOUS
<1> USE TablesAssumption DEF TypeInv, TypeOK, MovedIsEvent
<1> USE DEF SchedInv, Startup, Starting, Suspension, Waiting, Taken, OneAtATime, Triggered
<1>1. ASSUME NEW s \in Servants, SensorFirst(s) PROVE SchedInv'
  BY <1>1 DEF SensorFirst, Take, Running
<1>2. ASSUME NEW s \in Servants, SensorReceive(s) PROVE SchedInv'
  BY <1>2 DEF SensorReceive, Take, Running
<1>3. ASSUME NEW s \in Servants, SensorExec(s) PROVE SchedInv'
  BY <1>3 DEF SensorExec, HeapEnd, ResumeAll
<1>4. ASSUME NEW s \in Servants, ServantReceive(s) PROVE SchedInv'
  BY <1>4 DEF ServantReceive, Take, Running
<1>5. ASSUME NEW s \in Servants, ServantExec(s) PROVE SchedInv'
  BY <1>5 DEF ServantExec, HeapEnd, ResumeAll
<1>6. ASSUME NEW s \in Servants, HeapBegin(s) PROVE SchedInv'
  BY <1>6 DEF HeapBegin, SuspendAll, Running
<1>7. ASSUME NEW s \in Servants, Finish(s) PROVE SchedInv'
  <2>1. /\ current = s /\ ~suspended /\ pc[s] = "let" /\ Give({R})
        /\ pc' = [pc EXCEPT ![s] = "take"]
        /\ UNCHANGED <<now, missed, isInit, deadline, rpc>>
    BY <1>7 DEF Finish, Running
  <2>2. ~\E t \in Woken({R}) : Prio(t) >= Prio(current)
    BY <2>1, PrioFacts DEF Woken
  <2>3. /\ sem' = [t \in Servants \cup {R} |-> IF t \in {R} THEN 1 ELSE sem[t]]
        /\ blocked' \subseteq blocked /\ blocked \ {R} \subseteq blocked'
        /\ UNCHANGED <<current, suspended, placing, yieldDue>>
    BY <2>1, <2>2, GiveFacts DEF Woken
  <2>4. sem'[s] = 0 /\ ~isInit
    BY <2>1, <2>3
  <2>5. Startup' /\ Suspension'
    BY <2>1, <2>3, <2>4
  <2>6. Starting' /\ Waiting' /\ Taken'
    BY <2>1, <2>3, <2>4
  <2>7. OneAtATime'
    BY <2>1, <2>3, <2>4
  <2> QED BY <2>5, <2>6, <2>7
<1>8. ASSUME NEW s \in Servants, WaitForTrigger(s) PROVE SchedInv'
  <2>1. pc[s] \in {"first", "take"} /\ UNCHANGED <<pc, rpc, deadline>>
        /\ (((WaitBegin(s) \/ WaitTest(s)) /\ UNCHANGED clockVars) \/ WaitEnd(s))
    BY <1>8 DEF WaitForTrigger
  <2> QED BY <2>1, WaitSched
<1>9. CASE RTake
  BY <1>9 DEF RTake, Take, Running
<1>10. CASE RWait
  <2>1. rpc = "take" /\ UNCHANGED <<pc, rpc, deadline>>
        /\ (((WaitBegin(R) \/ WaitTest(R)) /\ UNCHANGED clockVars) \/ WaitEnd(R))
    BY <1>10 DEF RWait
  <2> QED BY <2>1, WaitSched
<1>11. CASE RTransit
  BY <1>11 DEF RTransit
<1>12. CASE RMatch
  BY <1>12 DEF RMatch
<1>13. CASE RFire
  BY <1>13, FireSched
<1>14. CASE IdleYield
  BY <1>14, SwitchFacts DEF IdleYield, Running
<1>15. CASE Tick
  BY <1>15, TickStartup, TickSched
<1>16. CASE UNCHANGED vars
  BY <1>16
<1>17. ASSUME NEW s \in Servants, DelayLET(s) PROVE SchedInv'
  BY <1>17 DEF DelayLET
<1> QED
  BY <1>1, <1>2, <1>3, <1>4, <1>5, <1>6, <1>7, <1>8, <1>9, <1>10, <1>11, <1>12,
     <1>13, <1>14, <1>15, <1>16, <1>17 DEF Next, Job, RServant

(* A job, once begun, keeps the processor until its LET is over, and the   *)
(* R-Servant is not disturbed between its take and its trigger: no two     *)
(* jobs overlap (servant.c:172-184, 471-560).                              *)
THEOREM NoPreemption == Spec => []RunToCompletion
<1>1. TypeInv /\ SchedInv /\ [Next]_vars => (TypeInv /\ SchedInv)'
  BY TypeStep, MovedStep, SchedStep DEF TypeInv
<1>2. Init => TypeInv /\ SchedInv
  BY TypeInit, SchedInit
<1>3. SchedInv => RunToCompletion
  BY DEF SchedInv, OneAtATime, RunToCompletion
<1> QED BY <1>1, <1>2, <1>3, PTL DEF Spec

-----------------------------------------------------------------------------
(* The tables.                                                             *)

(* Every servant has the sensor of its task.                               *)
LEMMA SensorFacts ==
  /\ \A s \in Servants : SensorOf(s) \in Sensors /\ SensorOf(s) \in Servants
                         /\ TaskOf[SensorOf(s)] = TaskOf[s]
  /\ \A x \in Sensors : x \in Servants /\ SensorOf(x) = x
  /\ \A x \in Sensors, s \in Servants : s \in Member(x) <=> SensorOf(s) = x
<1>1. ASSUME NEW s \in Servants
      PROVE  SensorOf(s) \in Sensors /\ TaskOf[SensorOf(s)] = TaskOf[s]
  <2>1. \E x \in Sensors : TaskOf[x] = TaskOf[s]
    BY TopologyAssumption
  <2> QED BY <2>1 DEF SensorOf
<1>2. Sensors \subseteq Servants
  BY TablesAssumption
<1>3. \A x, y \in Sensors : TaskOf[x] = TaskOf[y] => x = y
  BY TopologyAssumption
<1>4. \A x \in Sensors : SensorOf(x) = x
  BY <1>1, <1>2, <1>3
<1>5. \A x \in Sensors, s \in Servants : s \in Member(x) <=> SensorOf(s) = x
  BY <1>1, <1>2, <1>3 DEF Member
<1> QED BY <1>1, <1>2, <1>4, <1>5

(* A relation joins servants of one task; it leads back to the sensor, or  *)
(* to another servant, which is not the sensor.                            *)
LEMMA RelationFacts ==
  ASSUME NEW r \in Relations
  PROVE  /\ r[1] \in Servants /\ r[2] \in Servants /\ r = <<r[1], r[2]>>
         /\ SensorOf(r[1]) = SensorOf(r[2])
         /\ r[1] \in Inputs(r[2]) /\ r[2] \in Outputs(r[1])
         /\ IsLast(r[1], r[2]) => r[2] = SensorOf(r[1])
         /\ ~IsLast(r[1], r[2]) => r[2] \notin Sensors /\ r[1] # r[2]
<1>1. r[1] \in Servants /\ r[2] \in Servants /\ r = <<r[1], r[2]>>
  BY TablesAssumption
<1>2. TaskOf[r[1]] = TaskOf[r[2]] /\ (IsLast(r[1], r[2]) <=> r[2] \in Sensors)
  BY TopologyAssumption
<1>3. SensorOf(r[1]) = SensorOf(r[2])
  BY <1>2 DEF SensorOf
<1>4. r[1] \in Inputs(r[2]) /\ r[2] \in Outputs(r[1])
  BY DEF Inputs, Outputs
<1>5. IsLast(r[1], r[2]) => r[2] = SensorOf(r[1])
  BY <1>2, <1>3, SensorFacts
<1>6. ~IsLast(r[1], r[2]) => r[1] # r[2]
  <2>1. r[1] \in Nat
    BY <1>1, TablesAssumption
  <2>2. r[1] <= r[1]
    BY <2>1
  <2> QED BY <2>2 DEF IsLast
<1> QED BY <1>1, <1>2, <1>3, <1>4, <1>5, <1>6

(* Every servant has inputs and outputs, each on a relation.               *)
LEMMA InputFacts ==
  /\ \A d \in Servants : Inputs(d) # {} /\ Outputs(d) # {}
  /\ \A d \in Servants : \A s \in Inputs(d) : <<s, d>> \in Relations
<1>1. \A d \in Servants : Inputs(d) # {} /\ Outputs(d) # {}
  BY TopologyAssumption
<1>2. ASSUME NEW d \in Servants, NEW s \in Inputs(d) PROVE <<s, d>> \in Relations
  <2>1. PICK r \in Relations : r[2] = d /\ r[1] = s
    BY DEF Inputs
  <2> QED BY <2>1, RelationFacts
<1> QED BY <1>1, <1>2

(* There are finitely many relations.                                      *)
LEMMA RelationsFinite == IsFiniteSet(Relations)
<1>1. IsFiniteSet(Servants \X Servants)
  BY TablesAssumption, FS_Product
<1> QED BY <1>1, TablesAssumption, FS_Subset

-----------------------------------------------------------------------------
(* Events.                                                                 *)

(* The events in use, and the relations they are on.                       *)
LEMMA EventFacts ==
  ASSUME TypeInv, Stamped
  PROVE  /\ eventList \subseteq Live /\ readyList \subseteq Live
         /\ \A s \in Servants : held[s] \subseteq Live
         /\ \A e \in Live :
              /\ e \in Event /\ e.src \in Servants /\ e.dst \in Servants
              /\ <<e.src, e.dst>> \in Relations
              /\ e.src \in Inputs(e.dst)
              /\ SensorOf(e.src) = SensorOf(e.dst)
              /\ e \in On(e.src, e.dst)
<1>1. eventList \subseteq Live /\ readyList \subseteq Live
      /\ \A s \in Servants : held[s] \subseteq Live
  BY DEF Live
<1>2. Live \subseteq Event
  BY DEF Live, TypeInv, TypeOK
<1>3. ASSUME NEW e \in Live
      PROVE  /\ <<e.src, e.dst>> \in Relations /\ e.src \in Inputs(e.dst)
             /\ SensorOf(e.src) = SensorOf(e.dst) /\ e \in On(e.src, e.dst)
  <2>1. <<e.src, e.dst>> \in Relations
    BY DEF Stamped
  <2> QED BY <2>1, RelationFacts DEF On
<1>4. \A e \in Event : e.src \in Servants /\ e.dst \in Servants
  BY DEF Event
<1> QED BY <1>1, <1>2, <1>3, <1>4

(* A relation has at most one event.                                       *)
LEMMA OneEvent ==
  ASSUME TypeInv, EventInv, NEW e \in Live, NEW f \in Live,
         e.src = f.src, e.dst = f.dst
  PROVE  e = f
<1> DEFINE r == <<e.src, e.dst>>
<1>1. r \in Relations /\ e \in On(r[1], r[2]) /\ f \in On(r[1], r[2])
  BY EventFacts DEF On, EventInv
<1> HIDE DEF r
<1> QED BY <1>1 DEF EventInv, EventPerRelation

(* The heap has a block for every event of a servant that has none of its  *)
(* own in use.                                                             *)
LEMMA HeapSuffices ==
  ASSUME TypeInv, EventInv, NEW s \in Servants, NEW L \in SUBSET Live,
         \A e \in L : e.src # s
  PROVE  /\ Cardinality(L) \in Nat
         /\ \A d \in Outputs(s) : Rank(s, d) < HeapEvents - 1 - Cardinality(L)
<1> DEFINE A == {r \in Relations : r[1] # s}
           f == [e \in L |-> <<e.src, e.dst>>]
<1>1. IsFiniteSet(A) /\ Cardinality(A) \in Nat /\ Cardinality(Relations) \in Nat
  BY RelationsFinite, FS_Subset, FS_CardinalityType
<1>2. IsFiniteSet(L) /\ Cardinality(L) <= Cardinality(A)
  <2>1. f \in [L -> A]
    BY EventFacts DEF EventInv
  <2>2. \A e, g \in L : f[e] = f[g] => e = g
    BY OneEvent
  <2>3. f \in Injection(L, A)
    BY <2>1, <2>2 DEF Injection, IsInjective
  <2> HIDE DEF f, A
  <2> QED BY <1>1, <2>3, FS_Injection
<1>3. Cardinality(L) \in Nat
  BY <1>2, FS_CardinalityType
<1>4. ASSUME NEW d \in Outputs(s)
      PROVE  Rank(s, d) < HeapEvents - 1 - Cardinality(L)
  <2> DEFINE P == {x \in Outputs(s) : x < d}
             B == {r \in Relations : r[1] = s /\ r[2] \in P}
             g == [x \in P |-> <<s, x>>]
  <2>1. IsFiniteSet(B)
    BY RelationsFinite, FS_Subset
  <2>2. Cardinality(P) <= Cardinality(B)
    <3>1. g \in [P -> B]
      BY OutputsType
    <3>2. g \in Injection(P, B)
      BY <3>1 DEF Injection, IsInjective
    <3> HIDE DEF g, P, B
    <3> QED BY <2>1, <3>2, FS_Injection
  <2>3. IsFiniteSet(A \cup B) /\ Cardinality(A \cup B) = Cardinality(A) + Cardinality(B)
    <3>1. A \cap B = {}
      OBVIOUS
    <3>2. Cardinality(A \cap B) = 0
      BY <3>1, FS_EmptySet
    <3>3. Cardinality(B) \in Nat
      BY <2>1, FS_CardinalityType
    <3> HIDE DEF A, B
    <3> QED BY <1>1, <2>1, <3>2, <3>3, FS_Union
  <2>4. Cardinality(A \cup B) < Cardinality(Relations)
    <3>1. <<s, d>> \in Relations /\ <<s, d>> \notin A \cup B
      <4>1. d \in Nat
        BY OutputsType, TablesAssumption
      <4>2. d \notin P
        BY <4>1
      <4> QED BY <4>2, OutputsType
    <3>2. A \cup B \subseteq Relations
      OBVIOUS
    <3>3. Cardinality(A \cup B) \in Nat
      BY <2>3, FS_CardinalityType
    <3> HIDE DEF A, B
    <3> QED BY <1>1, <3>1, <3>2, <3>3, RelationsFinite, FS_Subset
  <2>5. Rank(s, d) = Cardinality(P) /\ Rank(s, d) \in Nat
    BY RankType DEF Rank
  <2>6. Cardinality(A) \in Nat /\ Cardinality(B) \in Nat
    BY <1>1, <2>1, FS_CardinalityType
  <2> HIDE DEF A, B, P
  <2> QED BY <1>1, <1>2, <1>3, <2>2, <2>3, <2>4, <2>5, <2>6, HeapAssumption
<1> QED BY <1>3, <1>4

-----------------------------------------------------------------------------
(* Steps of the R-Servant, and steps that leave events alone.              *)

RestInv == RoundInv /\ EventInv /\ MatchInv

(* No job begins or ends, and events only move.                            *)
LEMMA SameEvents ==
  ASSUME TypeInv, RestInv, UNCHANGED <<count, deadline, held>>, Live' = Live,
         \A s \in Servants : pc'[s] = "exec" <=> pc[s] = "exec",
         now' \in Nat, now' >= now
  PROVE  RoundInv' /\ Stamped' /\ HeldInputs' /\ EventPerRelation'
<1> USE DEF RestInv
<1>1. RoundInv'
  <2>1. Deadlines' /\ RanClosed'
    BY DEF RoundInv, Deadlines, RanClosed, Ran
  <2>2. now \in Nat /\ \A x \in Sensors : x \in Servants /\ deadline[x] \in Nat
    BY SensorFacts DEF TypeInv, TypeOK
  <2>3. RoundDone'
    BY <2>2 DEF RoundInv, RoundDone, Ran
  <2> QED BY <2>1, <2>3 DEF RoundInv
<1>2. Stamped'
  BY DEF EventInv, Stamped
<1>3. HeldInputs'
  BY DEF EventInv, HeldInputs
<1>4. \A s, d : On(s, d)' = On(s, d)
  BY DEF On
<1>5. EventPerRelation'
  BY <1>4, RelationFacts DEF EventInv, EventPerRelation, Marked, Ran
<1> QED BY <1>1, <1>2, <1>3, <1>5

(* No event moves, no job begins or ends and nobody is triggered.          *)
LEMMA QuietStep ==
  ASSUME TypeInv, RestInv,
         UNCHANGED <<count, deadline, held, eventList, readyList, listSet,
                     flag, moved, dangling>>,
         \A s \in Servants : pc'[s] = "exec" <=> pc[s] = "exec",
         now' \in Nat, now' >= now,
         \A s \in Servants : Triggered(s)' <=> Triggered(s),
         rpc' = rpc \/ (rpc = "take" /\ rpc' = "transit")
  PROVE  RestInv'
<1> USE DEF RestInv
<1>1. Live' = Live
  BY DEF Live
<1>2. RoundInv' /\ Stamped' /\ HeldInputs' /\ EventPerRelation'
  BY <1>1, SameEvents
<1>3. NoArrivedTwice'
  BY DEF EventInv, NoArrivedTwice
<1>4. Placed'
  BY DEF EventInv, Placed, TypeInv, TypeOK, Event
<1>5. FlagReady'
  BY <1>1 DEF MatchInv, FlagReady, On
<1>6. ReadyFlag'
  BY DEF MatchInv, ReadyFlag, TypeInv, TypeOK, Event
<1>7. TriggerComplete'
  BY <1>1 DEF MatchInv, TriggerComplete, On
<1>8. Matching'
  BY DEF MatchInv, Matching
<1> QED BY <1>2, <1>3, <1>4, <1>5, <1>6, <1>7, <1>8 DEF EventInv, MatchInv

(* While the R-Servant runs nobody is triggered.                           *)
LEMMA NobodyTriggered ==
  ASSUME SchedInv, current = R
  PROVE  \A s \in Servants : ~Triggered(s)
BY TablesAssumption DEF SchedInv, OneAtATime

(* The first event moves to the ready list, or the R-Servant waits.        *)
LEMMA TransitStep ==
  ASSUME TypeInv, SchedInv, RestInv, RTransit
  PROVE  RestInv'
<1> USE DEF RestInv
<1>1. current = R /\ rpc = "transit" /\ UNCHANGED <<now, schedVars, jobVars, flag, dangling>>
  BY DEF RTransit, Running
<1>2. \A s \in Servants : ~Triggered(s)' /\ ~Triggered(s)
  BY <1>1, NobodyTriggered DEF Triggered
<1>3. NoArrivedTwice'
  BY <1>1 DEF EventInv, NoArrivedTwice
<1>4. TriggerComplete'
  BY <1>2 DEF TriggerComplete
<1>5. CASE /\ NothingDue /\ moved' = None /\ listSet' = FALSE
           /\ rpc' = "take" /\ UNCHANGED <<eventList, readyList>>
  <2>1. Live' = Live
    BY <1>1, <1>5 DEF Live
  <2>2. Placed'
    BY <1>1, <1>5 DEF EventInv, Placed
  <2>3. FlagReady' /\ Matching'
    BY <1>1, <1>5, <2>1 DEF MatchInv, FlagReady, Matching, On
  <2>4. ReadyFlag'
    BY <1>1, <1>5, <1>2 DEF MatchInv, ReadyFlag, Triggered
  <2>5. RoundInv' /\ Stamped' /\ HeldInputs' /\ EventPerRelation'
    BY <1>1, <2>1, SameEvents DEF TypeInv, TypeOK
  <2> QED BY <1>3, <1>4, <2>2, <2>3, <2>4, <2>5 DEF EventInv, MatchInv
<1>6. ASSUME NEW e \in eventList, Transit(e), moved' = e, listSet' = TRUE, rpc' = "match"
      PROVE  RestInv'
  <2>1. /\ eventList' = eventList \ {e} /\ readyList' = readyList \cup {e}
        /\ e.xTime <= now
    BY <1>6 DEF Transit
  <2>2. Live' = Live
    BY <1>1, <2>1 DEF Live
  <2>3. e \notin readyList /\ \A s \in Servants : e \notin held[s]
    BY DEF EventInv, Placed
  <2>4. Placed'
    BY <1>1, <2>1, <2>3 DEF EventInv, Placed
  <2>5. FlagReady'
    BY <1>1, <1>6, <2>1, <2>2, <2>3 DEF MatchInv, FlagReady, On
  <2>6. ReadyFlag'
    <3> SUFFICES ASSUME NEW f \in readyList, f # e PROVE flag[<<f.src, f.dst>>] = 2
      BY <1>1, <1>6, <2>1 DEF ReadyFlag
    <3>1. f.dst \in Servants
      BY EventFacts DEF EventInv
    <3> QED BY <1>1, <1>2, <3>1 DEF MatchInv, ReadyFlag
  <2>7. Matching'
    BY <1>6, <2>1 DEF Matching
  <2>8. RoundInv' /\ Stamped' /\ HeldInputs' /\ EventPerRelation'
    BY <1>1, <2>2, SameEvents DEF TypeInv, TypeOK
  <2> QED BY <1>3, <1>4, <2>4, <2>5, <2>6, <2>7, <2>8 DEF EventInv, MatchInv
<1> QED BY <1>5, <1>6 DEF RTransit

(* The event that is matched is the only one on its relation, so the       *)
(* relation's flag is 1; and if all others have 2 the servant's inputs are *)
(* complete.                                                               *)
LEMMA MatchStep ==
  ASSUME TypeInv, SchedInv, RestInv, RMatch
  PROVE  RestInv'
<1> USE DEF RestInv
<1> DEFINE r == <<moved.src, moved.dst>>
<1>1. /\ current = R /\ rpc = "match"
      /\ UNCHANGED <<now, schedVars, jobVars, eventList, readyList, listSet, moved>>
  BY DEF RMatch, Running
<1>2. \A s \in Servants : ~Triggered(s)' /\ ~Triggered(s)
  BY <1>1, NobodyTriggered DEF Triggered
<1>3. moved \in readyList /\ moved \in Live /\ listSet
  BY <1>1, EventFacts DEF MatchInv, Matching, EventInv
<1>4. r \in Relations /\ moved \in On(moved.src, moved.dst)
  BY <1>3, EventFacts DEF EventInv
<1>5. flag[r] = 1
  <2> SUFFICES ASSUME flag[r] = 2 PROVE FALSE
    BY <1>4 DEF TypeInv, TypeOK
  <2>1. PICK f \in readyList \cap On(moved.src, moved.dst) : moved # f
    BY <1>1, <1>4 DEF MatchInv, FlagReady
  <2>2. f \in Live /\ f.src = moved.src /\ f.dst = moved.dst
    BY <2>1 DEF On
  <2> QED BY <1>3, <2>1, <2>2, OneEvent
<1>6. flag' = [flag EXCEPT ![r] = 2] /\ UNCHANGED dangling
  BY <1>5 DEF RMatch
<1>7. rpc' = IF {q \in Relations : q[2] = moved.dst /\ q # r /\ flag[q] = 1} = {}
             THEN "fire" ELSE "transit"
  BY DEF RMatch
<1>8. Live' = Live
  BY <1>1 DEF Live
<1> HIDE DEF r
<1>9. RoundInv' /\ Stamped' /\ HeldInputs' /\ EventPerRelation'
  BY <1>1, <1>8, SameEvents DEF TypeInv, TypeOK
<1>10. Placed' /\ NoArrivedTwice'
  BY <1>1, <1>6 DEF EventInv, Placed, NoArrivedTwice
<1>11. FlagReady'
  <2> SUFFICES ASSUME NEW q \in Relations, flag'[q] = 2
               PROVE  \E e \in readyList \cap On(q[1], q[2]) : TRUE
    BY <1>1, <1>7, <1>8 DEF FlagReady, On
  <2>1. CASE q = r
    BY <1>3, <1>4, <2>1 DEF r
  <2>2. CASE q # r
    BY <1>4, <1>6, <2>2 DEF MatchInv, FlagReady, TypeInv, TypeOK
  <2> QED BY <2>1, <2>2
<1>12. ReadyFlag'
  <2> SUFFICES ASSUME NEW e \in readyList PROVE flag'[<<e.src, e.dst>>] = 2
    BY <1>1 DEF ReadyFlag
  <2>1. <<e.src, e.dst>> \in Relations /\ e.dst \in Servants
    BY EventFacts DEF EventInv
  <2>2. flag[<<e.src, e.dst>>] = 2 \/ moved = e
    BY <1>2, <2>1 DEF MatchInv, ReadyFlag
  <2> QED BY <1>4, <1>6, <2>1, <2>2 DEF r, TypeInv, TypeOK
<1>13. TriggerComplete'
  BY <1>2 DEF TriggerComplete
<1>14. Matching'
  <2>1. ASSUME rpc' = "fire", NEW s \in Inputs(moved.dst)
        PROVE  flag'[<<s, moved.dst>>] = 2
    <3> DEFINE q == <<s, moved.dst>>
    <3>1. q \in Relations
      BY <1>3, InputFacts, EventFacts DEF EventInv
    <3>2. q = r \/ flag[q] # 1
      BY <1>7, <2>1, <3>1
    <3> HIDE DEF q
    <3> QED BY <1>4, <1>6, <3>1, <3>2 DEF q, TypeInv, TypeOK
  <2> QED BY <1>1, <1>3, <2>1 DEF Matching
<1> QED BY <1>9, <1>10, <1>11, <1>12, <1>13, <1>14 DEF EventInv, MatchInv

(* The servant that is triggered finds an event on each of its relations:  *)
(* their flags say so, and are reset.                                      *)
LEMMA FireStep ==
  ASSUME TypeInv, SchedInv, RestInv, RFire
  PROVE  RestInv'
<1> USE DEF RestInv
<1> DEFINE d == moved.dst
<1>1. /\ current = R /\ rpc = "fire" /\ rpc' = "take" /\ Give({d})
      /\ flag' = [q \in Relations |-> IF q[2] = d THEN 1 ELSE flag[q]]
      /\ UNCHANGED <<now, jobVars, eventList, readyList, listSet, moved, dangling>>
  BY DEF RFire, Running
<1>2. moved \in readyList /\ moved \in Live /\ listSet /\ d \in Servants
  BY <1>1, EventFacts DEF MatchInv, Matching, EventInv
<1>3. \A s \in Servants : ~Triggered(s)
  BY <1>1, NobodyTriggered
<1>4. sem' = [t \in Servants \cup {R} |-> IF t \in {d} THEN 1 ELSE sem[t]]
  BY <1>1, GiveFacts DEF TypeInv
<1>5. pc[d] = "take"
  BY FireSched
<1>6. \A s \in Inputs(d) : <<s, d>> \in Relations /\ flag[<<s, d>>] = 2
  BY <1>1, <1>2, InputFacts DEF MatchInv, Matching
<1> HIDE DEF d
<1>7. \A s \in Servants : Triggered(s)' <=> s = d
  BY <1>1, <1>2, <1>3, <1>4, <1>5 DEF Triggered
<1>8. Live' = Live
  BY <1>1 DEF Live
<1>9. RoundInv' /\ Stamped' /\ HeldInputs' /\ EventPerRelation'
  BY <1>1, <1>8, SameEvents DEF TypeInv, TypeOK
<1>10. Placed' /\ NoArrivedTwice'
  BY <1>1 DEF EventInv, Placed, NoArrivedTwice
<1>11. FlagReady'
  BY <1>1, <1>8 DEF MatchInv, FlagReady, On
<1>12. ReadyFlag'
  <2> SUFFICES ASSUME NEW e \in readyList
               PROVE  flag'[<<e.src, e.dst>>] = 2 \/ e.dst = d
    BY <1>1, <1>2, <1>7, EventFacts DEF ReadyFlag, EventInv
  <2>1. <<e.src, e.dst>> \in Relations /\ e.dst \in Servants
    BY EventFacts DEF EventInv
  <2>2. flag[<<e.src, e.dst>>] = 2
    BY <1>1, <1>3, <2>1 DEF MatchInv, ReadyFlag
  <2> QED BY <1>1, <2>1, <2>2
<1>13. TriggerComplete'
  <2> SUFFICES ASSUME NEW s \in Inputs(d)
               PROVE  flag'[<<s, d>>] = 1 /\ readyList \cap On(s, d) # {}
    BY <1>1, <1>2, <1>7, <1>8 DEF TriggerComplete, On
  <2> DEFINE q == <<s, d>>
  <2>1. q \in Relations /\ flag[q] = 2 /\ q[1] = s /\ q[2] = d
    BY <1>6
  <2> HIDE DEF q
  <2>2. readyList \cap On(q[1], q[2]) # {}
    BY <2>1 DEF MatchInv, FlagReady
  <2>3. flag'[q] = 1
    BY <1>1, <2>1
  <2> QED BY <2>1, <2>2, <2>3 DEF q
<1>14. Matching'
  BY <1>1 DEF Matching
<1> QED BY <1>9, <1>10, <1>11, <1>12, <1>13, <1>14 DEF EventInv, MatchInv

-----------------------------------------------------------------------------
(* Jobs.                                                                   *)

(* A sensor begins its first job: its task has not run.                    *)
LEMMA SensorFirstStep ==
  ASSUME TypeInv, SchedInv, RestInv, NEW x \in Servants, SensorFirst(x)
  PROVE  RestInv'
<1> USE DEF RestInv
<1>1. /\ x \in Sensors /\ pc[x] = "first" /\ pc' = [pc EXCEPT ![x] = "exec"]
      /\ sem' = [sem EXCEPT ![x] = 0]
      /\ UNCHANGED <<now, count, deadline, start, held, eventList, serial,
                     readyVars, matchVars>>
  BY DEF SensorFirst, Take
<1>2. deadline[x] = 0
  BY <1>1 DEF SchedInv, Starting
<1>3. Live' = Live /\ \A s, d : On(s, d)' = On(s, d)
  BY <1>1 DEF Live, On
<1>4. RoundInv'
  <2>1. Deadlines' /\ RanClosed'
    BY <1>1 DEF RoundInv, Deadlines, RanClosed, Ran
  <2>2. RoundDone'
    BY <1>1, <1>2 DEF RoundInv, RoundDone, Ran, TypeInv, TypeOK
  <2> QED BY <2>1, <2>2 DEF RoundInv
<1>5. Stamped' /\ HeldInputs' /\ NoArrivedTwice' /\ Placed'
  BY <1>1, <1>3 DEF EventInv, Stamped, HeldInputs, NoArrivedTwice, Placed, TypeInv, TypeOK
<1>6. EventPerRelation'
  <2> SUFFICES ASSUME NEW r \in Relations
               PROVE  Marked(r[1], r[2])' <=> Marked(r[1], r[2])
    BY <1>3 DEF EventInv, EventPerRelation
  <2>1. IsLast(r[1], r[2]) /\ r[2] = x => ~Ran(r[1])
    BY <1>2, RelationFacts DEF Ran
  <2> QED BY <1>1, <2>1 DEF Marked, Ran, TypeInv, TypeOK
<1>7. \A s \in Servants : Triggered(s)' <=> Triggered(s)
  BY <1>1 DEF Triggered, TypeInv, TypeOK
<1>8. MatchInv'
  <2>1. FlagReady' /\ Matching'
    BY <1>1, <1>3 DEF MatchInv, FlagReady, Matching
  <2>2. ReadyFlag'
    <3> SUFFICES ASSUME NEW e \in readyList, e.dst \in Servants, ~Triggered(e.dst)
                 PROVE  flag[<<e.src, e.dst>>] = 2 \/ (rpc = "match" /\ moved = e)
      BY <1>1, <1>7, EventFacts DEF ReadyFlag, EventInv
    <3> QED BY DEF MatchInv, ReadyFlag
  <2>3. TriggerComplete'
    BY <1>1, <1>3, <1>7 DEF MatchInv, TriggerComplete
  <2> QED BY <2>1, <2>2, <2>3 DEF MatchInv
<1> QED BY <1>4, <1>5, <1>6, <1>8 DEF EventInv

(* A servant that is triggered receives all events sent to it, one from    *)
(* each source.                                                            *)
LEMMA ReceivesAll ==
  ASSUME TypeInv, RestInv, NEW s \in Servants, Triggered(s),
         NEW got, ReceiveAll(s, got)
  PROVE  /\ readyList' = readyList \ got /\ listSet' = listSet
         /\ got \subseteq readyList
         /\ \A e \in Live : e \in got <=> e.dst = s
         /\ \A u \in Inputs(s) : \E e \in got : e.src = u
<1> USE DEF RestInv
<1>1. /\ got \subseteq Visible(s)
      /\ {e.src : e \in got} = {e.src : e \in Visible(s)}
      /\ readyList' = readyList \ got /\ listSet' = listSet
  BY DEF ReceiveAll, Receive
<1>2. listSet /\ \A u \in Inputs(s) : readyList \cap On(u, s) # {}
  BY DEF MatchInv, TriggerComplete
<1>3. Visible(s) = {e \in readyList : e.dst = s /\ e.src \in Inputs(s)}
  BY <1>2 DEF Visible
<1>4. \A u \in Inputs(s) : \E e \in got : e.src = u
  <2> SUFFICES ASSUME NEW u \in Inputs(s) PROVE \E e \in got : e.src = u
    OBVIOUS
  <2>1. PICK e \in readyList : e.src = u /\ e.dst = s
    BY <1>2 DEF On
  <2>2. u \in {f.src : f \in Visible(s)}
    BY <1>3, <2>1
  <2> QED BY <1>1, <2>2
<1>5. ASSUME NEW e \in Live, e.dst = s PROVE e \in got
  <2>1. e.src \in Inputs(s)
    BY <1>5, EventFacts DEF EventInv
  <2>2. PICK f \in got : f.src = e.src
    BY <1>4, <2>1
  <2>3. f \in Live /\ f.dst = s
    BY <1>1, <1>3, EventFacts DEF EventInv
  <2> QED BY <1>5, <2>2, <2>3, OneEvent
<1> QED BY <1>1, <1>3, <1>4, <1>5

(* What a reception leaves of the flags: those of other servants.          *)
LEMMA ReceiveMatch ==
  ASSUME TypeInv, SchedInv, RestInv, NEW s \in Servants, Triggered(s),
         current = s, NEW got, ReceiveAll(s, got),
         pc' = [pc EXCEPT ![s] = "exec"], sem' = [sem EXCEPT ![s] = 0],
         UNCHANGED <<eventList, matchVars>>,
         \A e \in Live : e.dst # s => e \in Live'
  PROVE  MatchInv'
<1> USE DEF RestInv
<1>1. /\ readyList' = readyList \ got /\ listSet' = listSet
      /\ got \subseteq readyList
      /\ \A e \in Live : e \in got <=> e.dst = s
  BY ReceivesAll
<1>2. rpc = "take"
  BY TablesAssumption DEF SchedInv, OneAtATime
<1>3. \A u \in Servants : Triggered(u)' <=> Triggered(u) /\ u # s
  BY DEF Triggered, TypeInv, TypeOK
<1>4. \A e \in readyList : e \in Live /\ e.dst \in Servants /\ e.src \in Servants
  BY EventFacts DEF EventInv
<1>5. \A u, d : d # s => readyList \cap On(u, d) \subseteq readyList' \cap On(u, d)'
  BY <1>1, <1>4 DEF On
<1>6. FlagReady'
  <2> SUFFICES ASSUME NEW r \in Relations, flag[r] = 2
               PROVE  readyList' \cap On(r[1], r[2])' # {}
    BY <1>2 DEF FlagReady
  <2>1. readyList \cap On(r[1], r[2]) # {}
    BY DEF MatchInv, FlagReady
  <2>2. r[2] # s
    <3> SUFFICES ASSUME r[2] = s PROVE FALSE
      OBVIOUS
    <3>1. r[1] \in Inputs(s) /\ r = <<r[1], s>>
      BY RelationFacts
    <3>2. flag[<<r[1], s>>] = 1
      BY <3>1 DEF MatchInv, TriggerComplete
    <3> QED BY <3>1, <3>2
  <2> QED BY <1>5, <2>1, <2>2
<1>7. ReadyFlag'
  <2> SUFFICES ASSUME NEW e \in readyList, e.dst # s, ~Triggered(e.dst)
               PROVE  flag[<<e.src, e.dst>>] = 2
    BY <1>1, <1>3, <1>4 DEF ReadyFlag
  <2> QED BY <1>2 DEF MatchInv, ReadyFlag
<1>8. TriggerComplete'
  BY <1>1, <1>3, <1>5 DEF MatchInv, TriggerComplete
<1>9. Matching'
  BY <1>2 DEF Matching
<1> QED BY <1>6, <1>7, <1>8, <1>9 DEF MatchInv

(* Where an event in use is, before and after a step.                      *)
LEMMA InLive ==
  \A e : e \in Live <=> \/ e \in eventList \cup readyList
                        \/ \E s \in Servants : e \in held[s]
BY DEF Live

LEMMA InLivePrimed ==
  \A e : e \in Live' <=> \/ e \in eventList' \cup readyList'
                         \/ \E s \in Servants : e \in held'[s]
BY DEF Live

(* A sensor that receives ends the round: its last servants have run, and  *)
(* so have all servants they depend on.                                    *)
LEMMA SensorReceiveStep ==
  ASSUME TypeInv, SchedInv, RestInv, NEW x \in Servants, SensorReceive(x)
  PROVE  RestInv'
<1> USE DEF RestInv
<1>1. PICK got \in SUBSET Visible(x) : ReceiveAll(x, got)
  BY DEF SensorReceive
<1>2. /\ x \in Sensors /\ pc[x] = "take" /\ pc' = [pc EXCEPT ![x] = "exec"]
      /\ current = x /\ sem[x] = 1 /\ sem' = [sem EXCEPT ![x] = 0]
      /\ UNCHANGED <<now, count, deadline, start, held, listVars, matchVars>>
  BY DEF SensorReceive, Take, Running
<1>3. Triggered(x)
  BY <1>2 DEF Triggered
<1>4. /\ readyList' = readyList \ got /\ listSet' = listSet
      /\ got \subseteq readyList
      /\ \A e \in Live : e \in got <=> e.dst = x
      /\ \A u \in Inputs(x) : \E e \in got : e.src = u
  BY <1>1, <1>3, ReceivesAll
<1>5. \A e \in got : e \notin eventList /\ \A s \in Servants : e \notin held[s]
  BY <1>4 DEF EventInv, Placed
<1>6. \A e : e \in Live' <=> e \in Live /\ e \notin got
  BY <1>2, <1>4, <1>5, InLive, InLivePrimed
<1>7. \A u, d : On(u, d)' = IF d = x THEN {} ELSE On(u, d)
  BY <1>4, <1>6 DEF On
<1>8. Stamped' /\ HeldInputs' /\ NoArrivedTwice' /\ Placed'
  BY <1>2, <1>4, <1>6 DEF EventInv, Stamped, HeldInputs, NoArrivedTwice, Placed, TypeInv, TypeOK
<1>9. EventPerRelation'
  <2> SUFFICES ASSUME NEW r \in Relations
               PROVE  /\ \A e, f \in On(r[1], r[2])' : e = f
                      /\ On(r[1], r[2])' # {} <=> Marked(r[1], r[2])'
    BY DEF EventPerRelation
  <2>1. CASE r[2] = x
    <3>1. IsLast(r[1], r[2])
      BY <1>2, <2>1, RelationFacts
    <3> QED BY <1>2, <1>7, <2>1, <3>1 DEF Marked, TypeInv, TypeOK
  <2>2. CASE r[2] # x
    <3>1. Marked(r[1], r[2])' <=> Marked(r[1], r[2])
      BY <1>2, <2>2 DEF Marked, Ran, TypeInv, TypeOK
    <3> QED BY <1>7, <2>2, <3>1 DEF EventInv, EventPerRelation
  <2> QED BY <2>1, <2>2
<1>10. RoundDone'
  <2>1. ASSUME deadline[x] # 0 PROVE \A s \in Member(x) : Ran(s)
    <3> DEFINE S == {s \in Member(x) : Ran(s)}
    <3>1. x \in S
      BY <1>2, <2>1, SensorFacts DEF Ran
    <3>2. Inputs(x) \subseteq S
      <4> SUFFICES ASSUME NEW u \in Inputs(x) PROVE u \in Member(x) /\ Ran(u)
        OBVIOUS
      <4> DEFINE r == <<u, x>>
      <4>1. r \in Relations /\ r[1] = u /\ r[2] = x
        BY InputFacts
      <4> HIDE DEF r
      <4>2. On(u, x) # {}
        <5>1. PICK e \in got : e.src = u
          BY <1>4
        <5>2. e \in Live /\ e.dst = x
          BY <1>4, EventFacts DEF EventInv
        <5> QED BY <5>1, <5>2 DEF On
      <4>3. Marked(u, x)
        BY <4>1, <4>2 DEF EventInv, EventPerRelation
      <4>4. Ran(u)
        BY <4>3 DEF Marked
      <4>5. u \in Member(x)
        BY <1>2, <4>1, RelationFacts, SensorFacts
      <4> QED BY <4>4, <4>5
    <3>3. ClosedUnderInputs(S)
      <4> SUFFICES ASSUME NEW r \in Relations, r[2] \in S, ~IsLast(r[1], r[2])
                   PROVE  r[1] \in Member(x) /\ Ran(r[1])
        BY DEF ClosedUnderInputs
      <4>1. Ran(r[1])
        BY DEF RoundInv, RanClosed
      <4>2. r[2] \in Member(x) /\ r[2] \in Servants /\ SensorOf(r[1]) = SensorOf(r[2])
            /\ r[1] \in Servants
        BY RelationFacts
      <4>3. r[1] \in Member(x)
        BY <1>2, <4>2, SensorFacts
      <4> QED BY <4>1, <4>3
    <3>4. S \in SUBSET Member(x)
      OBVIOUS
    <3>5. TaskIsRound(x)
      BY <1>2, TopologyAssumption
    <3> HIDE DEF S
    <3>6. S = Member(x)
      BY <3>1, <3>2, <3>3, <3>4, <3>5 DEF TaskIsRound
    <3> QED BY <3>6 DEF S
  <2>2. now >= deadline[x]
    <3>1. PICK u \in Inputs(x) : TRUE
      BY InputFacts
    <3>2. PICK e \in got : e.src = u
      BY <1>4
    <3>3. e \in Live /\ e.dst = x /\ e.xTime <= now
      BY <1>4, EventFacts DEF EventInv, Placed
    <3>4. IsLast(e.src, e.dst) /\ SensorOf(e.src) = x
      <4> DEFINE r == <<e.src, e.dst>>
      <4>1. r \in Relations /\ r[1] = e.src /\ r[2] = x
        BY <3>3, EventFacts DEF EventInv
      <4> HIDE DEF r
      <4> QED BY <1>2, <3>3, <4>1, RelationFacts, SensorFacts
    <3>5. e.xTime = deadline[x]
      BY <3>3, <3>4 DEF EventInv, Stamped
    <3>6. e.xTime \in Nat /\ now \in Nat
      BY <3>3, EventFacts DEF EventInv, Event, TypeInv, TypeOK
    <3> QED BY <3>3, <3>5, <3>6
  <2> QED BY <1>2, <2>1, <2>2 DEF RoundInv, RoundDone, Ran, TypeInv, TypeOK
<1>11. Deadlines' /\ RanClosed'
  BY <1>2 DEF RoundInv, Deadlines, RanClosed, Ran
<1>12. MatchInv'
  <2>1. \A e \in Live : e.dst # x => e \in Live'
    BY <1>4, <1>6
  <2> QED BY <1>1, <1>2, <1>3, <2>1, ReceiveMatch
<1> QED BY <1>8, <1>9, <1>10, <1>11, <1>12 DEF EventInv, RoundInv

(* A servant that receives moves the events of its inputs to its hands.    *)
LEMMA ServantReceiveStep ==
  ASSUME TypeInv, SchedInv, RestInv, NEW s \in Servants, ServantReceive(s)
  PROVE  RestInv'
<1> USE DEF RestInv
<1>1. PICK got \in SUBSET Visible(s) :
        ReceiveAll(s, got) /\ held' = [held EXCEPT ![s] = got]
  BY DEF ServantReceive
<1>2. /\ s \notin Sensors /\ pc[s] = "take" /\ pc' = [pc EXCEPT ![s] = "exec"]
      /\ current = s /\ sem[s] = 1 /\ sem' = [sem EXCEPT ![s] = 0]
      /\ UNCHANGED <<now, count, deadline, start, listVars, matchVars>>
  BY DEF ServantReceive, Take, Running
<1>3. Triggered(s)
  BY <1>2 DEF Triggered
<1>4. /\ readyList' = readyList \ got /\ listSet' = listSet
      /\ got \subseteq readyList
      /\ \A e \in Live : e \in got <=> e.dst = s
      /\ \A u \in Inputs(s) : \E e \in got : e.src = u
  BY <1>1, <1>3, ReceivesAll
<1>5. held[s] = {} /\ held'[s] = got
      /\ \A u \in Servants : u # s => held'[u] = held[u]
  BY <1>1, <1>2 DEF EventInv, HeldInputs, TypeInv, TypeOK
<1>6. Live' = Live
  <2>1. \A e : e \in Live' <=> e \in Live
    BY <1>2, <1>4, <1>5, InLive, InLivePrimed
  <2> QED BY <2>1
<1>7. \A u, d : On(u, d)' = On(u, d)
  BY <1>6 DEF On
<1>8. RoundInv'
  BY <1>2 DEF RoundInv, Deadlines, RanClosed, RoundDone, Ran, TypeInv, TypeOK
<1>9. EventPerRelation'
  <2> SUFFICES ASSUME NEW r \in Relations
               PROVE  Marked(r[1], r[2])' <=> Marked(r[1], r[2])
    BY <1>7 DEF EventInv, EventPerRelation
  <2>1. IsLast(r[1], r[2]) => r[2] # s
    BY <1>2, SensorFacts, RelationFacts
  <2> QED BY <1>2, <2>1 DEF Marked, Ran, TypeInv, TypeOK
<1>10. Stamped' /\ NoArrivedTwice'
  BY <1>2, <1>6 DEF EventInv, Stamped, NoArrivedTwice
<1>11. HeldInputs'
  BY <1>2, <1>4, <1>5 DEF EventInv, HeldInputs, TypeInv, TypeOK
<1>12. Placed'
  <2>1. \A e \in got : e \in Live /\ e.dst = s /\ e \notin eventList /\ e.xTime <= now
    BY <1>4, EventFacts DEF EventInv, Placed
  <2>2. \A u \in Servants : held'[u] \cap (eventList' \cup readyList') = {}
    BY <1>2, <1>4, <1>5, <2>1 DEF EventInv, Placed
  <2>3. \A u \in Servants : \A e \in held'[u] : e.xTime <= now' /\ e.dst = u
    BY <1>2, <1>5, <2>1 DEF EventInv, Placed
  <2> QED BY <1>2, <1>4, <2>2, <2>3 DEF EventInv, Placed
<1>13. MatchInv'
  BY <1>1, <1>2, <1>3, <1>6, ReceiveMatch
<1> QED BY <1>8, <1>9, <1>10, <1>11, <1>12, <1>13 DEF EventInv

(* A job that is about to create its events has none in use, and those     *)
(* sent to it are the ones it holds.                                       *)
LEMMA BeforeCreate ==
  ASSUME TypeInv, SchedInv, RestInv, NEW s \in Servants, pc[s] = "exec"
  PROVE  /\ \A e \in Live : e.src # s
         /\ \A e \in Live : e.dst = s <=> e \in held[s]
         /\ s \in Sensors => held[s] = {}
         /\ s \notin Sensors => /\ ~Ran(s) /\ deadline[SensorOf(s)] # 0
                                /\ held[s] # {} /\ \A u \in Inputs(s) : Ran(u)
<1> USE DEF RestInv
<1>1. ASSUME NEW e \in Live
      PROVE  <<e.src, e.dst>> \in Relations /\ Marked(e.src, e.dst)
  <2> DEFINE r == <<e.src, e.dst>>
  <2>1. r \in Relations /\ e \in On(r[1], r[2])
    BY EventFacts DEF EventInv
  <2> HIDE DEF r
  <2>2. Marked(r[1], r[2])
    BY <2>1 DEF EventInv, EventPerRelation
  <2> QED BY <2>1, <2>2 DEF r
<1>2. \A e \in Live : /\ IsLast(e.src, e.dst) => e.dst = SensorOf(e.src)
                      /\ ~IsLast(e.src, e.dst) => e.dst \notin Sensors
                      /\ SensorOf(e.dst) = SensorOf(e.src)
                      /\ e.dst \in Servants /\ e.src \in Servants
  <2> SUFFICES ASSUME NEW e \in Live
               PROVE  /\ IsLast(e.src, e.dst) => e.dst = SensorOf(e.src)
                      /\ ~IsLast(e.src, e.dst) => e.dst \notin Sensors
                      /\ SensorOf(e.dst) = SensorOf(e.src)
                      /\ e.dst \in Servants /\ e.src \in Servants
    OBVIOUS
  <2> DEFINE r == <<e.src, e.dst>>
  <2>1. r \in Relations /\ r[1] = e.src /\ r[2] = e.dst
    BY <1>1
  <2> HIDE DEF r
  <2> QED BY <2>1, RelationFacts
<1>3. CASE s \in Sensors
  <2>1. held[s] = {}
    BY <1>3 DEF EventInv, HeldInputs
  <2>2. ASSUME NEW e \in Live, e.dst = s PROVE FALSE
    BY <1>1, <1>2, <1>3, <2>2 DEF Marked
  <2>3. ASSUME NEW e \in Live, e.src = s PROVE FALSE
    <3>1. SensorOf(s) = s
      BY <1>3, SensorFacts
    <3>2. Ran(s) /\ ~IsLast(e.src, e.dst) /\ ~Ran(e.dst)
      BY <1>1, <1>2, <2>3, <3>1 DEF Marked
    <3>3. deadline[s] # 0
      BY <3>2 DEF Ran
    <3>4. e.dst \in Member(s)
      BY <1>2, <1>3, <2>3, <3>1, SensorFacts
    <3> QED BY <1>3, <3>2, <3>3, <3>4 DEF RoundInv, RoundDone
  <2> QED BY <1>3, <2>1, <2>2, <2>3
<1>4. CASE s \notin Sensors
  <2>1. Inputs(s) \subseteq {e.src : e \in held[s]}
    BY <1>4 DEF EventInv, HeldInputs
  <2>2. \A e \in held[s] : e \in Live /\ e.dst = s
    BY EventFacts DEF EventInv, Placed
  <2>3. ASSUME NEW e \in Live, e.dst = s PROVE e \in held[s]
    <3>1. e.src \in Inputs(s)
      BY <2>3, EventFacts DEF EventInv
    <3>2. PICK f \in held[s] : f.src = e.src
      BY <2>1, <3>1
    <3> QED BY <2>2, <2>3, <3>2, OneEvent
  <2>4. ASSUME NEW e \in held[s]
        PROVE  Ran(e.src) /\ ~Ran(s) /\ deadline[SensorOf(s)] # 0
    <3>1. e \in Live /\ e.dst = s /\ ~IsLast(e.src, s)
      BY <1>2, <1>4, <2>2, SensorFacts
    <3>2. Ran(e.src) /\ ~Ran(s)
      BY <1>1, <3>1 DEF Marked
    <3>3. SensorOf(e.src) = SensorOf(s)
      BY <1>2, <3>1
    <3> QED BY <3>2, <3>3 DEF Ran
  <2>5. \A u \in Inputs(s) : Ran(u)
    BY <2>1, <2>4
  <2>6. held[s] # {}
    BY <2>1, InputFacts
  <2>7. ASSUME NEW e \in Live, e.src = s PROVE FALSE
    BY <1>1, <2>4, <2>6, <2>7 DEF Marked
  <2> QED BY <1>4, <2>2, <2>3, <2>4, <2>5, <2>6, <2>7
<1> QED BY <1>3, <1>4

(* All events are created: one for each output.                            *)
LEMMA CreatesAll ==
  ASSUME TypeInv, SchedInv, RestInv, NEW s \in Servants, pc[s] = "exec",
         NEW next \in [Outputs(s) -> Nat], NEW time \in Nat,
         NEW live \in SUBSET Live, CreateAll(s, next, time, live)
  PROVE  \E new \in SUBSET Event :
           /\ eventList' = eventList \cup new
           /\ \A e \in new : /\ e.src = s /\ e.dst \in Outputs(s)
                             /\ e.xSlackTime = next[e.dst]
                             /\ IsLast(s, e.dst) => e.xTime = e.xSlackTime
                             /\ ~IsLast(s, e.dst) => e.xTime = time
           /\ \A d \in Outputs(s) : \E e \in new : e.dst = d
           /\ \A e, f \in new : e.dst = f.dst => e = f
<1> USE DEF RestInv
<1> DEFINE E(d) == NewEvent(s, d, IsLast(s, d), next[d], time, serial + Rank(s, d))
           new  == {E(d) : d \in Outputs(s)}
           free == HeapEvents - 1 - Cardinality(live)
           kept == {e \in new : e.xLevel - serial < free}
<1>1. \A d \in Outputs(s) :
        /\ E(d) \in Event /\ E(d).src = s /\ E(d).dst = d
        /\ E(d).xSlackTime = next[d] /\ E(d).xLevel = serial + Rank(s, d)
        /\ E(d).xTime = IF IsLast(s, d) THEN next[d] ELSE time
  <2>1. \A d \in Outputs(s) : E(d) \in Event
    BY OutputsType, RankType, NewEventType DEF TypeInv, TypeOK
  <2> QED BY <2>1 DEF NewEvent
<1>2. eventList' = eventList \cup kept
  BY DEF CreateAll, Create
<1>3. kept = new
  <2>1. \A e \in live : e.src # s
    BY BeforeCreate
  <2>2. \A d \in Outputs(s) : Rank(s, d) \in Nat /\ Rank(s, d) < free
    BY <2>1, HeapSuffices, RankType
  <2>3. serial \in Nat
    BY DEF TypeInv, TypeOK
  <2> HIDE DEF E, free
  <2>4. \A d \in Outputs(s) : E(d).xLevel - serial < free
    BY <1>1, <2>2, <2>3
  <2> QED BY <2>4
<1> HIDE DEF E, free, kept
<1>4. new \in SUBSET Event
  BY <1>1
<1>5. \A e \in new : /\ e.src = s /\ e.dst \in Outputs(s)
                     /\ e.xSlackTime = next[e.dst]
                     /\ IsLast(s, e.dst) => e.xTime = e.xSlackTime
                     /\ ~IsLast(s, e.dst) => e.xTime = time
  BY <1>1
<1>6. \A d \in Outputs(s) : \E e \in new : e.dst = d
  BY <1>1
<1>7. \A e, f \in new : e.dst = f.dst => e = f
  BY <1>1
<1> HIDE DEF new
<1> QED BY <1>2, <1>3, <1>4, <1>5, <1>6, <1>7

(* What the end of a job does to the events, besides their deadlines: its  *)
(* inputs are gone and there is one event for each output.                 *)
LEMMA CreateStep ==
  ASSUME TypeInv, SchedInv, RestInv, NEW s \in Servants, pc[s] = "exec",
         current = s, NEW new \in SUBSET Event,
         \A e \in new : e.src = s /\ e.dst \in Outputs(s),
         \A d \in Outputs(s) : \E e \in new : e.dst = d,
         \A e, f \in new : e.dst = f.dst => e = f,
         eventList' = eventList \cup new,
         held' = [held EXCEPT ![s] = {}], pc' = [pc EXCEPT ![s] = "let"],
         UNCHANGED <<sem, readyVars, matchVars>>,
         now' \in Nat, now' >= now,
         \A r \in Relations :
           Marked(r[1], r[2])' <=> r[1] = s \/ (r[2] # s /\ Marked(r[1], r[2]))
  PROVE  /\ \A e \in Live' : e \in new \/ (e \in Live /\ e.src # s /\ e.dst # s)
         /\ (Placed /\ HeldInputs /\ EventPerRelation /\ NoArrivedTwice)'
         /\ MatchInv'
<1> USE DEF RestInv
<1>1. /\ \A e \in Live : e.src # s
      /\ \A e \in Live : e.dst = s <=> e \in held[s]
  BY BeforeCreate
<1>2. held'[s] = {} /\ \A u \in Servants : u # s => held'[u] = held[u]
  BY DEF TypeInv, TypeOK
<1>3. /\ \A e \in eventList \cup readyList : e \in Live
      /\ \A u \in Servants : \A e \in held[u] : e \in Live /\ e.dst = u
      /\ \A e \in Live : e \in Event
  BY EventFacts DEF EventInv, Placed
<1>4. \A e \in eventList \cup readyList : e.dst # s
  BY <1>1, <1>3 DEF EventInv, Placed
<1>5. \A e : e \in Live' <=> e \in new \/ (e \in Live /\ e.dst # s)
  <2>1. \A e : e \in Live' => e \in new \/ (e \in Live /\ e.dst # s)
    BY <1>2, <1>3, <1>4, InLivePrimed
  <2>2. \A e : e \in new => e \in Live'
    BY InLivePrimed
  <2>3. \A e : e \in Live /\ e.dst # s => e \in Live'
    BY <1>2, <1>3, InLive, InLivePrimed
  <2> QED BY <2>1, <2>2, <2>3
<1>6. \A e \in new : e \notin Live
  BY <1>1
<1>7. EventPerRelation'
  <2> SUFFICES ASSUME NEW r \in Relations
               PROVE  /\ \A e, f \in On(r[1], r[2])' : e = f
                      /\ On(r[1], r[2])' # {} <=> Marked(r[1], r[2])'
    BY DEF EventPerRelation
  <2>1. CASE r[1] = s
    <3>1. r[2] \in Outputs(s)
      BY <2>1, RelationFacts
    <3>2. \A e : e \in On(r[1], r[2])' <=> e \in new /\ e.dst = r[2]
      BY <1>1, <1>5, <2>1 DEF On
    <3> QED BY <2>1, <3>1, <3>2
  <2>2. CASE r[1] # s /\ r[2] = s
    <3>1. \A e : e \notin On(r[1], r[2])'
      BY <1>5, <2>2 DEF On
    <3> QED BY <2>2, <3>1
  <2>3. CASE r[1] # s /\ r[2] # s
    <3>1. \A e : e \in On(r[1], r[2])' <=> e \in On(r[1], r[2])
      BY <1>5, <2>3 DEF On
    <3> QED BY <2>3, <3>1 DEF EventInv, EventPerRelation
  <2> QED BY <2>1, <2>2, <2>3
<1>8. Placed'
  <2>1. eventList' \cap readyList' = {}
    BY <1>3, <1>6 DEF EventInv, Placed
  <2>2. \A u \in Servants : held'[u] \cap (eventList' \cup readyList') = {}
    BY <1>2, <1>3, <1>6 DEF EventInv, Placed
  <2>3. now \in Nat /\ \A e \in Live : e.xTime \in Nat
    BY <1>3 DEF TypeInv, TypeOK, Event
  <2>4. \A e \in readyList' : e.xTime <= now'
    BY <1>3, <2>3 DEF EventInv, Placed
  <2>5. \A u \in Servants : \A e \in held'[u] : e.xTime <= now' /\ e.dst = u
    BY <1>2, <1>3, <2>3 DEF EventInv, Placed
  <2> QED BY <2>1, <2>2, <2>4, <2>5 DEF Placed
<1>9. HeldInputs'
  BY <1>2 DEF EventInv, HeldInputs, TypeInv, TypeOK
<1>10. NoArrivedTwice'
  BY DEF EventInv, NoArrivedTwice
<1>11. rpc = "take" /\ \A u \in Servants : ~Triggered(u)
  BY TablesAssumption DEF SchedInv, OneAtATime, Triggered
<1>12. \A u \in Servants : ~Triggered(u)'
  BY <1>11 DEF Triggered, TypeInv, TypeOK
<1>13. FlagReady'
  <2> SUFFICES ASSUME NEW r \in Relations, flag[r] = 2
               PROVE  readyList \cap On(r[1], r[2])' # {}
    BY <1>11 DEF FlagReady
  <2>1. PICK e \in readyList \cap On(r[1], r[2]) : TRUE
    BY DEF MatchInv, FlagReady
  <2>2. e \in Live'
    BY <1>3, <1>4, <1>5, <2>1
  <2> QED BY <2>1, <2>2 DEF On
<1>14. ReadyFlag'
  <2> SUFFICES ASSUME NEW e \in readyList PROVE flag[<<e.src, e.dst>>] = 2
    BY DEF ReadyFlag
  <2>1. e.dst \in Servants
    BY EventFacts DEF EventInv
  <2> QED BY <1>11, <2>1 DEF MatchInv, ReadyFlag
<1>15. TriggerComplete' /\ Matching'
  BY <1>11, <1>12 DEF TriggerComplete, Matching
<1> QED BY <1>1, <1>5, <1>7, <1>8, <1>9, <1>10, <1>13, <1>14, <1>15 DEF MatchInv

(* A sensor's job begins the next round: nobody else of its task has run   *)
(* in it.                                                                  *)
LEMMA SensorRan ==
  ASSUME TypeInv, RoundInv, NEW x \in Sensors,
         deadline' = [deadline EXCEPT ![x] = (count[x] + 1) * Period[TaskOf[x]]]
  PROVE  LET next == (count[x] + 1) * Period[TaskOf[x]]
         IN  /\ next \in Nat /\ deadline[x] \in Nat /\ deadline[x] < next
             /\ deadline'[x] = next
             /\ \A s \in Servants : s # x => deadline'[s] = deadline[s]
             /\ \A s \in Servants : deadline[s] \in Nat
             /\ Ran(x)'
             /\ \A s \in Servants :
                  IF SensorOf(s) = x THEN s # x => ~Ran(s)' ELSE Ran(s)' <=> Ran(s)
<1> DEFINE P == Period[TaskOf[x]]
           next == (count[x] + 1) * P
<1>1. deadline' = [deadline EXCEPT ![x] = next]
  OBVIOUS
<1>2. count[x] \in Nat /\ count[x] >= 2 /\ P \in Nat \ {0} /\ deadline[x] \in Nat
      /\ deadline[x] = IF count[x] = 2 THEN 0 ELSE count[x] * P
  BY TablesAssumption DEF TypeInv, TypeOK, RoundInv, Deadlines
<1>3. next \in Nat /\ deadline[x] \in Nat /\ deadline[x] < next
  <2> HIDE DEF P
  <2>1. next = count[x] * P + P /\ count[x] * P \in Nat
    BY <1>2
  <2> HIDE DEF next
  <2> QED BY <1>2, <2>1
<1> HIDE DEF P, next
<1>6. /\ deadline'[x] = next
      /\ \A s \in Servants : s # x => deadline'[s] = deadline[s]
      /\ \A s \in Servants : deadline[s] \in Nat
      /\ SensorOf(x) = x /\ x \in Servants
  BY <1>1, <1>3, SensorFacts DEF TypeInv, TypeOK
<1>7. Ran(x)'
  BY <1>3, <1>6 DEF Ran
<1>8. ASSUME NEW s \in Servants, s # x, SensorOf(s) = x PROVE ~Ran(s)'
  <2>1. deadline[s] <= deadline[x]
    BY <1>8 DEF RoundInv, Deadlines
  <2> QED BY <1>3, <1>6, <1>8, <2>1 DEF Ran
<1>9. ASSUME NEW s \in Servants, SensorOf(s) # x PROVE Ran(s)' <=> Ran(s)
  BY <1>6, <1>9, SensorFacts DEF Ran
<1> QED BY <1>3, <1>6, <1>7, <1>8, <1>9 DEF next, P

(* The task then has no events but those of the sensor.                    *)
LEMMA SensorExecStep ==
  ASSUME TypeInv, SchedInv, RestInv, NEW x \in Servants, SensorExec(x)
  PROVE  RestInv'
<1> USE DEF RestInv
<1> DEFINE P == Period[TaskOf[x]]
           next == (count[x] + 1) * P
           f == [d \in Outputs(x) |-> next]
<1>1. /\ x \in Sensors /\ pc[x] = "exec" /\ current = x
      /\ count' = [count EXCEPT ![x] = @ + 1]
      /\ deadline' = [deadline EXCEPT ![x] = next]
      /\ CreateAll(x, f, now + Let[x], Live)
      /\ pc' = [pc EXCEPT ![x] = "let"]
      /\ now' = now + missed
      /\ UNCHANGED <<sem, held, readyVars, matchVars>>
  BY DEF SensorExec, HeapEnd, ResumeAll
<1>2. count[x] \in Nat /\ count[x] >= 2 /\ P \in Nat \ {0}
      /\ deadline[x] = IF count[x] = 2 THEN 0 ELSE count[x] * P
  BY <1>1, TablesAssumption DEF TypeInv, TypeOK, RoundInv, Deadlines
<1>r. /\ next \in Nat /\ deadline[x] \in Nat /\ deadline[x] < next
      /\ deadline'[x] = next
      /\ \A s \in Servants : s # x => deadline'[s] = deadline[s]
      /\ \A s \in Servants : deadline[s] \in Nat
      /\ Ran(x)'
      /\ \A s \in Servants :
           IF SensorOf(s) = x THEN s # x => ~Ran(s)' ELSE Ran(s)' <=> Ran(s)
  BY <1>1, SensorRan
<1>3. next \in Nat /\ deadline[x] \in Nat /\ deadline[x] < next
  BY <1>r
<1> HIDE DEF P, next
<1>4. f \in [Outputs(x) -> Nat] /\ now + Let[x] \in Nat /\ now' \in Nat /\ now' >= now
  <2>1. f \in [Outputs(x) -> Nat]
    BY <1>3
  <2>2. now \in Nat /\ missed \in Nat /\ Let[x] \in Nat
    BY TablesAssumption DEF TypeInv, TypeOK
  <2> HIDE DEF f
  <2> QED BY <1>1, <2>1, <2>2
<1>5. PICK new \in SUBSET Event :
        /\ eventList' = eventList \cup new
        /\ \A e \in new : /\ e.src = x /\ e.dst \in Outputs(x)
                          /\ e.xSlackTime = f[e.dst]
                          /\ IsLast(x, e.dst) => e.xTime = e.xSlackTime
        /\ \A d \in Outputs(x) : \E e \in new : e.dst = d
        /\ \A e, g \in new : e.dst = g.dst => e = g
  <2> HIDE DEF f
  <2> QED BY <1>1, <1>4, CreatesAll
<1>6. /\ deadline'[x] = next
      /\ \A s \in Servants : s # x => deadline'[s] = deadline[s]
      /\ \A s \in Servants : deadline[s] \in Nat
      /\ SensorOf(x) = x
  BY <1>1, <1>r, SensorFacts
<1>7. Ran(x)'
  BY <1>r
<1>8. ASSUME NEW s \in Servants, s # x, SensorOf(s) = x PROVE ~Ran(s)'
  BY <1>r, <1>8
<1>9. ASSUME NEW s \in Servants, SensorOf(s) # x PROVE Ran(s)' <=> Ran(s)
  BY <1>r, <1>9
<1>10. ASSUME NEW r \in Relations, SensorOf(r[1]) = x, r[1] # x, r[2] # x
       PROVE  ~Marked(r[1], r[2])
  <2>1. ~IsLast(r[1], r[2]) /\ r[1] \in Member(x) /\ r[2] \in Member(x)
    BY <1>1, <1>10, RelationFacts, SensorFacts
  <2>2. deadline[x] # 0 => Ran(r[2])
    BY <1>1, <2>1 DEF RoundInv, RoundDone
  <2>3. deadline[x] = 0 => ~Ran(r[1])
    BY <1>10 DEF Ran
  <2> QED BY <2>1, <2>2, <2>3 DEF Marked
<1>11. \A r \in Relations :
         Marked(r[1], r[2])' <=> r[1] = x \/ (r[2] # x /\ Marked(r[1], r[2]))
  <2> SUFFICES ASSUME NEW r \in Relations
               PROVE  Marked(r[1], r[2])' <=>
                        r[1] = x \/ (r[2] # x /\ Marked(r[1], r[2]))
    OBVIOUS
  <2>1. pc'[x] = "let" /\ \A s \in Servants : s # x => pc'[s] = pc[s]
    BY <1>1 DEF TypeInv, TypeOK
  <2>2. CASE r[1] = x
    <3>1. IsLast(r[1], r[2]) => r[2] = x
      BY <1>6, <2>2, RelationFacts
    <3>2. ~IsLast(r[1], r[2]) => ~Ran(r[2])'
      BY <1>1, <1>6, <1>8, <2>2, RelationFacts
    <3> QED BY <1>7, <2>1, <2>2, <3>1, <3>2 DEF Marked
  <2>3. CASE r[1] # x /\ SensorOf(r[1]) = x
    <3>1. ~Ran(r[1])'
      BY <1>8, <2>3, RelationFacts
    <3>2. r[2] # x => ~Marked(r[1], r[2])
      BY <1>10, <2>3
    <3> QED BY <2>3, <3>1, <3>2 DEF Marked
  <2>4. CASE SensorOf(r[1]) # x
    <3>1. r[1] # x /\ r[2] # x /\ r[1] \in Servants /\ r[2] \in Servants
          /\ SensorOf(r[2]) # x
      BY <1>6, <2>4, RelationFacts
    <3> QED BY <1>9, <2>1, <2>4, <3>1 DEF Marked
  <2> QED BY <2>2, <2>3, <2>4
<1>12. held' = [held EXCEPT ![x] = {}]
  <2>1. held[x] = {}
    BY <1>1 DEF EventInv, HeldInputs
  <2> QED BY <1>1, <2>1 DEF TypeInv, TypeOK
<1>13. /\ \A e \in Live' : e \in new \/ (e \in Live /\ e.src # x /\ e.dst # x)
       /\ (Placed /\ HeldInputs /\ EventPerRelation /\ NoArrivedTwice)'
       /\ MatchInv'
  <2>1. /\ \A e \in new : e.src = x /\ e.dst \in Outputs(x)
        /\ \A d \in Outputs(x) : \E e \in new : e.dst = d
        /\ \A e, g \in new : e.dst = g.dst => e = g
        /\ eventList' = eventList \cup new
    BY <1>5
  <2>2. /\ pc[x] = "exec" /\ current = x /\ pc' = [pc EXCEPT ![x] = "let"]
        /\ UNCHANGED <<sem, readyVars, matchVars>>
    BY <1>1
  <2> HIDE DEF f
  <2> QED BY <1>4, <1>11, <1>12, <2>1, <2>2, CreateStep
<1>14. Stamped'
  <2> SUFFICES ASSUME NEW e \in Live'
               PROVE  /\ <<e.src, e.dst>> \in Relations
                      /\ e.xSlackTime = deadline'[SensorOf(e.src)]
                      /\ IsLast(e.src, e.dst) => e.xTime = e.xSlackTime
    BY DEF Stamped
  <2>1. CASE e \in new
    BY <1>5, <1>6, <2>1, OutputsType
  <2>2. CASE e \in Live /\ e.src # x /\ e.dst # x
    <3> DEFINE r == <<e.src, e.dst>>
    <3>1. r \in Relations /\ e \in On(r[1], r[2]) /\ r[1] = e.src /\ r[2] = e.dst
      BY <2>2, EventFacts DEF EventInv
    <3> HIDE DEF r
    <3>2. Marked(r[1], r[2])
      BY <3>1 DEF EventInv, EventPerRelation
    <3>3. SensorOf(e.src) # x
      BY <1>10, <2>2, <3>1, <3>2
    <3>4. SensorOf(e.src) \in Servants
      BY <2>2, EventFacts, SensorFacts DEF EventInv
    <3> QED BY <1>6, <2>2, <3>3, <3>4 DEF EventInv, Stamped
  <2> QED BY <1>13, <2>1, <2>2
<1>15. Deadlines'
  <2>1. ASSUME NEW y \in Sensors
        PROVE  /\ count'[y] >= 2
               /\ deadline'[y] = IF count'[y] = 2 THEN 0 ELSE count'[y] * Period[TaskOf[y]]
    <3>1. CASE y = x
      BY <1>1, <1>2, <1>6, <3>1 DEF P, next, TypeInv, TypeOK
    <3>2. CASE y # x
      BY <1>1, <1>6, <3>2, SensorFacts DEF RoundInv, Deadlines, TypeInv, TypeOK
    <3> QED BY <3>1, <3>2
  <2>2. ASSUME NEW s \in Servants PROVE deadline'[s] <= deadline'[SensorOf(s)]
    <3>1. deadline[s] <= deadline[SensorOf(s)] /\ SensorOf(s) \in Servants
      BY SensorFacts DEF RoundInv, Deadlines
    <3> QED BY <1>3, <1>6, <3>1
  <2> QED BY <2>1, <2>2 DEF Deadlines
<1>16. RanClosed'
  <2> SUFFICES ASSUME NEW r \in Relations, ~IsLast(r[1], r[2]), Ran(r[2])'
               PROVE  Ran(r[1])'
    BY DEF RanClosed
  <2>1. /\ r[1] \in Servants /\ r[2] \in Servants /\ r[2] # x
        /\ SensorOf(r[1]) = SensorOf(r[2])
    BY <1>1, RelationFacts
  <2>2. SensorOf(r[2]) # x
    BY <1>8, <2>1
  <2>3. Ran(r[2])
    BY <1>9, <2>1, <2>2
  <2>4. Ran(r[1])
    BY <2>3 DEF RoundInv, RanClosed
  <2> QED BY <1>9, <2>1, <2>2, <2>4
<1>17. RoundDone'
  <2>1. \A y \in Sensors : pc'[y] # "exec"
    BY <1>1, SensorFacts DEF SchedInv, OneAtATime, TypeInv, TypeOK
  <2> QED BY <2>1 DEF RoundDone
<1> QED BY <1>13, <1>14, <1>15, <1>16, <1>17 DEF RoundInv, EventInv

(* A servant's job takes the deadline of the round from its inputs; nobody *)
(* that depends on it has run.                                             *)
LEMMA ServantExecStep ==
  ASSUME TypeInv, SchedInv, RestInv, NEW s \in Servants, ServantExec(s)
  PROVE  RestInv'
<1> USE DEF RestInv
<1> DEFINE D == deadline[SensorOf(s)]
<1>1. PICK data \in [Outputs(s) -> held[s]], first \in Outputs(s) :
        /\ deadline' = [deadline EXCEPT ![s] = data[first].xSlackTime]
        /\ CreateAll(s, [d \in Outputs(s) |-> data[d].xSlackTime],
                     now + Let[s], Live \ held[s])
  BY DEF ServantExec
<1> DEFINE f == [d \in Outputs(s) |-> data[d].xSlackTime]
<1>2. /\ s \notin Sensors /\ pc[s] = "exec" /\ current = s
      /\ held' = [held EXCEPT ![s] = {}] /\ pc' = [pc EXCEPT ![s] = "let"]
      /\ now' = now + missed
      /\ UNCHANGED <<sem, count, readyVars, matchVars>>
  BY DEF ServantExec, HeapEnd, ResumeAll
<1>3. /\ \A e \in Live : e.src # s
      /\ \A e \in Live : e.dst = s <=> e \in held[s]
      /\ ~Ran(s) /\ D # 0 /\ held[s] # {} /\ \A u \in Inputs(s) : Ran(u)
  BY <1>2, BeforeCreate
<1>4. \A e \in held[s] : e.xSlackTime = D
  <2> SUFFICES ASSUME NEW e \in held[s] PROVE e.xSlackTime = D
    OBVIOUS
  <2>1. e \in Live
    BY EventFacts DEF EventInv
  <2>2. SensorOf(e.src) = SensorOf(s)
    BY <1>3, <2>1, EventFacts DEF EventInv
  <2> QED BY <2>1, <2>2 DEF EventInv, Stamped
<1>5. /\ \A d \in Outputs(s) : f[d] = D
      /\ deadline' = [deadline EXCEPT ![s] = D]
  BY <1>1, <1>4
<1>6. D \in Nat /\ SensorOf(s) # s /\ SensorOf(s) \in Servants
  BY <1>2, SensorFacts DEF TypeInv, TypeOK
<1>7. f \in [Outputs(s) -> Nat]
  BY <1>5, <1>6
<1>8. now + Let[s] \in Nat /\ now' \in Nat /\ now' >= now
  <2>1. now \in Nat /\ missed \in Nat /\ Let[s] \in Nat
    BY TablesAssumption DEF TypeInv, TypeOK
  <2> QED BY <1>2, <2>1
<1>9. PICK new \in SUBSET Event :
        /\ eventList' = eventList \cup new
        /\ \A e \in new : /\ e.src = s /\ e.dst \in Outputs(s)
                          /\ e.xSlackTime = f[e.dst]
                          /\ IsLast(s, e.dst) => e.xTime = e.xSlackTime
        /\ \A d \in Outputs(s) : \E e \in new : e.dst = d
        /\ \A e, g \in new : e.dst = g.dst => e = g
  <2>1. CreateAll(s, f, now + Let[s], Live \ held[s]) /\ Live \ held[s] \in SUBSET Live
    BY <1>1
  <2> HIDE DEF f
  <2> QED BY <1>2, <1>7, <1>8, <2>1, CreatesAll
<1> HIDE DEF f, D
<1>10. /\ deadline'[s] = D
       /\ \A u \in Servants : u # s => deadline'[u] = deadline[u]
       /\ \A u \in Servants : SensorOf(u) # s /\ SensorOf(u) \in Servants
  BY <1>2, <1>5, <1>6, SensorFacts DEF TypeInv, TypeOK
<1>11. Ran(s)' /\ \A u \in Servants : u # s => (Ran(u)' <=> Ran(u))
  BY <1>3, <1>6, <1>10 DEF Ran, D
<1>12. \A r \in Relations :
         Marked(r[1], r[2])' <=> r[1] = s \/ (r[2] # s /\ Marked(r[1], r[2]))
  <2> SUFFICES ASSUME NEW r \in Relations
               PROVE  Marked(r[1], r[2])' <=>
                        r[1] = s \/ (r[2] # s /\ Marked(r[1], r[2]))
    OBVIOUS
  <2>1. \A u \in Servants : u # s => pc'[u] = pc[u] /\ pc[u] # "exec"
    BY <1>2 DEF SchedInv, OneAtATime, TypeInv, TypeOK
  <2>2. CASE r[1] = s
    <3>1. IsLast(r[1], r[2]) => pc'[r[2]] # "exec"
      BY <1>6, <2>1, <2>2, RelationFacts
    <3>2. ~IsLast(r[1], r[2]) => ~Ran(r[2])
      BY <1>3, <2>2 DEF RoundInv, RanClosed
    <3>3. ~IsLast(r[1], r[2]) => ~Ran(r[2])'
      BY <1>11, <2>2, <3>2, RelationFacts
    <3> QED BY <1>11, <2>2, <3>1, <3>3 DEF Marked
  <2>3. CASE r[1] # s /\ r[2] = s
    <3>1. ~IsLast(r[1], r[2])
      BY <1>2, <2>3, RelationFacts, SensorFacts
    <3> QED BY <1>11, <2>3, <3>1 DEF Marked
  <2>4. CASE r[1] # s /\ r[2] # s
    BY <1>11, <2>1, <2>4, RelationFacts DEF Marked
  <2> QED BY <2>2, <2>3, <2>4
<1>13. /\ \A e \in Live' : e \in new \/ (e \in Live /\ e.src # s /\ e.dst # s)
       /\ (Placed /\ HeldInputs /\ EventPerRelation /\ NoArrivedTwice)'
       /\ MatchInv'
  <2>1. /\ \A e \in new : e.src = s /\ e.dst \in Outputs(s)
        /\ \A d \in Outputs(s) : \E e \in new : e.dst = d
        /\ \A e, g \in new : e.dst = g.dst => e = g
        /\ eventList' = eventList \cup new
    BY <1>9
  <2>2. /\ pc[s] = "exec" /\ current = s /\ pc' = [pc EXCEPT ![s] = "let"]
        /\ held' = [held EXCEPT ![s] = {}]
        /\ UNCHANGED <<sem, readyVars, matchVars>>
    BY <1>2
  <2> QED BY <1>8, <1>12, <2>1, <2>2, CreateStep
<1>14. Stamped'
  <2> SUFFICES ASSUME NEW e \in Live'
               PROVE  /\ <<e.src, e.dst>> \in Relations
                      /\ e.xSlackTime = deadline'[SensorOf(e.src)]
                      /\ IsLast(e.src, e.dst) => e.xTime = e.xSlackTime
    BY DEF Stamped
  <2>1. CASE e \in new
    <3>1. e.xSlackTime = D /\ e.src = s
      BY <1>5, <1>9, <2>1
    <3>2. deadline'[SensorOf(s)] = D
      BY <1>6, <1>10 DEF D
    <3> QED BY <1>9, <2>1, <3>1, <3>2, OutputsType
  <2>2. CASE e \in Live
    <3>1. e.src \in Servants
      BY <2>2, EventFacts DEF EventInv
    <3>2. deadline'[SensorOf(e.src)] = deadline[SensorOf(e.src)]
      BY <1>10, <3>1
    <3> QED BY <2>2, <3>2 DEF EventInv, Stamped
  <2> QED BY <1>13, <2>1, <2>2
<1>15. Deadlines'
  <2>1. \A y \in Sensors : deadline'[y] = deadline[y]
    BY <1>2, <1>10, SensorFacts
  <2>2. \A u \in Servants : deadline'[u] <= deadline'[SensorOf(u)]
    <3> SUFFICES ASSUME NEW u \in Servants PROVE deadline'[u] <= deadline'[SensorOf(u)]
      OBVIOUS
    <3>1. deadline'[SensorOf(u)] = deadline[SensorOf(u)]
      BY <1>10
    <3>2. deadline[u] <= deadline[SensorOf(u)]
      BY DEF RoundInv, Deadlines
    <3>3. CASE u = s
      BY <1>6, <1>10, <3>1, <3>3 DEF D
    <3>4. CASE u # s
      BY <1>10, <3>1, <3>2, <3>4
    <3> QED BY <3>3, <3>4
  <2> QED BY <1>2, <2>1, <2>2 DEF RoundInv, Deadlines
<1>16. RanClosed'
  <2> SUFFICES ASSUME NEW r \in Relations, ~IsLast(r[1], r[2]), Ran(r[2])'
               PROVE  Ran(r[1])'
    BY DEF RanClosed
  <2>1. r[1] \in Servants /\ r[2] \in Servants /\ r[1] \in Inputs(r[2])
    BY RelationFacts
  <2>2. Ran(r[1])
    BY <1>3, <1>11, <2>1 DEF RoundInv, RanClosed
  <2> QED BY <1>11, <2>1, <2>2
<1>17. RoundDone'
  <2>1. \A y \in Sensors : pc'[y] # "exec"
    BY <1>2, SensorFacts DEF SchedInv, OneAtATime, TypeInv, TypeOK
  <2> QED BY <2>1 DEF RoundDone
<1> QED BY <1>13, <1>14, <1>15, <1>16, <1>17 DEF RoundInv, EventInv

-----------------------------------------------------------------------------
(* The invariant.                                                          *)

(* Initially there are no events and nobody has run.                       *)
LEMMA RestInit == Init => RestInv
<1> SUFFICES ASSUME Init PROVE RestInv
  OBVIOUS
<1>1. Live = {} /\ \A s, d : On(s, d) = {}
  BY DEF Init, Live, On
<1>2. \A s \in Servants : deadline[s] = 0 /\ ~Ran(s) /\ pc[s] \in {"first", "take"}
  BY DEF Init, Ran
<1>3. RoundInv
  <2>1. \A s \in Servants : deadline[SensorOf(s)] = 0
    BY <1>2, SensorFacts
  <2>2. Deadlines
    BY <1>2, <2>1, SensorFacts DEF Init, Deadlines
  <2>3. RanClosed /\ RoundDone
    BY <1>2, RelationFacts, SensorFacts DEF RanClosed, RoundDone
  <2> QED BY <2>2, <2>3 DEF RoundInv
<1>4. EventPerRelation
  BY <1>1, <1>2, RelationFacts DEF EventPerRelation, Marked
<1>5. Stamped /\ Placed /\ HeldInputs /\ NoArrivedTwice
  BY <1>1, <1>2 DEF Init, Stamped, Placed, HeldInputs, NoArrivedTwice
<1>6. MatchInv
  BY <1>1, TablesAssumption
     DEF Init, MatchInv, FlagReady, ReadyFlag, TriggerComplete, Matching, Triggered
<1> QED BY <1>3, <1>4, <1>5, <1>6 DEF RestInv, EventInv

(* The tick hook gives to sensors that wait for their first job, and to    *)
(* the R-Servant: no servant is triggered by it.                           *)
LEMMA TickQuiet ==
  ASSUME TypeInv, SchedInv, RestInv, Tick
  PROVE  RestInv'
<1> DEFINE S == (IF isInit /\ now' = FirstTick THEN Sensors ELSE {})
                  \cup (IF HookDue(now') THEN {R} ELSE {})
<1>1. Give(S) /\ UNCHANGED <<jobVars, listVars, readyVars, matchVars>>
  BY DEF Tick, TickHook
<1>2. \A s \in Servants \cap S : pc[s] = "first"
  BY TablesAssumption DEF SchedInv, Startup
<1>3. now' \in Nat /\ now' >= now
  BY DEF Tick, TypeInv, TypeOK
<1> HIDE DEF S
<1>4. sem' = [t \in Servants \cup {R} |-> IF t \in S THEN 1 ELSE sem[t]]
  BY <1>1, GiveFacts DEF TypeInv
<1>5. \A s \in Servants : Triggered(s)' <=> Triggered(s)
  BY <1>1, <1>2, <1>4 DEF Triggered
<1> QED BY <1>1, <1>3, <1>5, QuietStep

(* The end of a job wakes the R-Servant only.                              *)
LEMMA FinishQuiet ==
  ASSUME TypeInv, SchedInv, RestInv, NEW s \in Servants, Finish(s)
  PROVE  RestInv'
<1>1. /\ pc[s] = "let" /\ Give({R}) /\ pc' = [pc EXCEPT ![s] = "take"]
      /\ UNCHANGED <<now, count, deadline, held, listVars, readyVars, matchVars>>
  BY DEF Finish
<1>2. sem' = [t \in Servants \cup {R} |-> IF t \in {R} THEN 1 ELSE sem[t]]
  BY <1>1, GiveFacts DEF TypeInv
<1>3. sem[s] = 0
  BY <1>1 DEF SchedInv, Taken
<1>4. \A u \in Servants : /\ Triggered(u)' <=> Triggered(u)
                          /\ pc'[u] = "exec" <=> pc[u] = "exec"
  BY <1>1, <1>2, <1>3, TablesAssumption DEF Triggered, TypeInv, TypeOK
<1>5. now' \in Nat /\ now' >= now
  BY <1>1 DEF TypeInv, TypeOK
<1> QED BY <1>1, <1>4, <1>5, QuietStep

(* A task that waits, and the scheduler's suspension for it.               *)
LEMMA WaitQuiet ==
  ASSUME TypeInv, RestInv, NEW t,
         ((WaitBegin(t) \/ WaitTest(t)) /\ UNCHANGED clockVars) \/ WaitEnd(t),
         UNCHANGED <<jobVars, listVars, readyVars, matchVars>>
  PROVE  RestInv'
<1>1. now \in Nat /\ missed \in Nat
  BY DEF TypeInv, TypeOK
<1>2. sem' = sem /\ now' \in Nat /\ now' >= now
  <2>1. CASE (WaitBegin(t) \/ WaitTest(t)) /\ UNCHANGED clockVars
    BY <1>1, <2>1 DEF WaitBegin, WaitTest, SuspendAll
  <2>2. CASE WaitEnd(t)
    <3>1. sem' = sem /\ now' = now + missed
      BY <2>2 DEF WaitEnd, ResumeAll
    <3> QED BY <1>1, <3>1
  <2> QED BY <2>1, <2>2
<1>3. \A s \in Servants : Triggered(s)' <=> Triggered(s)
  BY <1>2 DEF Triggered
<1> QED BY <1>2, <1>3, QuietStep

(* Every step preserves the invariant of rounds, events and flags.         *)
LEMMA RestStep == TypeInv /\ SchedInv /\ RestInv /\ [Next]_vars => RestInv'
<1> SUFFICES ASSUME TypeInv, SchedInv, RestInv, [Next]_vars PROVE RestInv'
  OBVIOUS
<1>n. now \in Nat /\ now >= now
  BY DEF TypeInv, TypeOK
<1>1. ASSUME NEW s \in Servants, SensorFirst(s) PROVE RestInv'
  BY <1>1, SensorFirstStep
<1>2. ASSUME NEW s \in Servants, SensorReceive(s) PROVE RestInv'
  BY <1>2, SensorReceiveStep
<1>3. ASSUME NEW s \in Servants, SensorExec(s) PROVE RestInv'
  BY <1>3, SensorExecStep
<1>4. ASSUME NEW s \in Servants, ServantReceive(s) PROVE RestInv'
  BY <1>4, ServantReceiveStep
<1>5. ASSUME NEW s \in Servants, ServantExec(s) PROVE RestInv'
  BY <1>5, ServantExecStep
<1>6. ASSUME NEW s \in Servants, HeapBegin(s) PROVE RestInv'
  <2>1. UNCHANGED <<now, sem, pc, count, deadline, held, listVars, readyVars, matchVars>>
    BY <1>6 DEF HeapBegin, SuspendAll
  <2>2. \A u \in Servants : Triggered(u)' <=> Triggered(u)
    BY <2>1 DEF Triggered
  <2> QED BY <1>n, <2>1, <2>2, QuietStep
<1>7. ASSUME NEW s \in Servants, Finish(s) PROVE RestInv'
  BY <1>7, FinishQuiet
<1>8. ASSUME NEW s \in Servants, WaitForTrigger(s) PROVE RestInv'
  BY <1>8, WaitQuiet DEF WaitForTrigger
<1>9. CASE RTake
  <2>1. /\ UNCHANGED <<now, pc, count, deadline, held, listVars, readyVars,
                       flag, moved, dangling>>
        /\ sem' = [sem EXCEPT ![R] = 0] /\ rpc = "take" /\ rpc' = "transit"
    BY <1>9 DEF RTake, Take
  <2>2. \A u \in Servants : Triggered(u)' <=> Triggered(u)
    BY <2>1, TablesAssumption DEF Triggered, TypeInv, TypeOK
  <2> QED BY <1>n, <2>1, <2>2, QuietStep
<1>10. CASE RWait
  BY <1>10, WaitQuiet DEF RWait
<1>11. CASE RTransit
  BY <1>11, TransitStep
<1>12. CASE RMatch
  BY <1>12, MatchStep
<1>13. CASE RFire
  BY <1>13, FireStep
<1>14. CASE Tick
  BY <1>14, TickQuiet
<1>15. CASE IdleYield \/ UNCHANGED vars \/ \E s \in Servants : DelayLET(s)
  <2>1. UNCHANGED <<now, sem, pc, count, deadline, held, listVars, readyVars, matchVars>>
    BY <1>15 DEF IdleYield, DelayLET
  <2>2. \A u \in Servants : Triggered(u)' <=> Triggered(u)
    BY <2>1 DEF Triggered
  <2> QED BY <1>n, <2>1, <2>2, QuietStep
<1> QED
  BY <1>1, <1>2, <1>3, <1>4, <1>5, <1>6, <1>7, <1>8, <1>9, <1>10, <1>11, <1>12,
     <1>13, <1>14, <1>15 DEF Next, Job, RServant

(* The invariant holds initially and every step preserves it.              *)
LEMMA Inductive ==
  /\ Init => IInv
  /\ IInv /\ [Next]_vars => IInv'
<1>1. Init => IInv
  BY TypeInit, SchedInit, RestInit DEF IInv, RestInv
<1>2. IInv /\ [Next]_vars => (TypeInv /\ SchedInv /\ RestInv)'
  BY TypeStep, MovedStep, SchedStep, RestStep DEF IInv, RestInv, TypeInv
<1>3. (TypeInv /\ SchedInv /\ RestInv)' => IInv'
  BY DEF IInv, RestInv
<1> QED BY <1>1, <1>2, <1>3

(* The bookkeeping of the runtime agrees with itself in every state: the   *)
(* semaphores, the events in the two lists and in the tasks' hands, and    *)
(* the R-Servant's flags (servant.c, eventlist.c, main.c).                 *)
THEOREM Invariant == Spec => []IInv
BY Inductive, PTL DEF Spec

(* Events are neither lost nor duplicated between the lists and the tasks, *)
(* and the heap does not run out of blocks (eventlist.c:205-242,           *)
(* servant.c:186-220).                                                     *)
THEOREM NoEventLost == Spec => []EventPerRelation
<1>1. IInv => EventPerRelation
  BY DEF IInv, EventInv
<1> QED BY <1>1, Invariant, PTL

(* The R-Servant never reports "This event has arrived!!" and deletes an   *)
(* event that is still linked (servant.c:511-515).                         *)
THEOREM NeverArrivesTwice == Spec => []NoArrivedTwice
<1>1. IInv => NoArrivedTwice
  BY DEF IInv, EventInv
<1> QED BY <1>1, Invariant, PTL

(* A servant that executes has one due event of the current round from     *)
(* each source: no pointer of pxEvent is NULL (servant.c:186-208, 411).    *)
THEOREM InputsArrive == Spec => []InputsComplete
<1>1. ASSUME IInv PROVE InputsComplete
  <2> USE <1>1 DEF IInv, EventInv
  <2>t. RestInv
    BY DEF RestInv
  <2> SUFFICES ASSUME NEW s \in Servants \ Sensors, pc[s] = "exec"
               PROVE  /\ {e.src : e \in held[s]} = Inputs(s)
                      /\ \A e, f \in held[s] : e.src = f.src => e = f
                      /\ \A e \in held[s] : e.dst = s /\ e.xTime <= now
                                              /\ e.xSlackTime = deadline[SensorOf(s)]
    BY DEF InputsComplete
  <2>1. \A e \in held[s] : e \in Live /\ e.dst = s /\ e.xTime <= now
    BY EventFacts DEF Placed
  <2>2. Inputs(s) \subseteq {e.src : e \in held[s]}
    BY DEF HeldInputs
  <2>3. \A e \in held[s] : e.src \in Inputs(s) /\ SensorOf(e.src) = SensorOf(s)
    BY <2>1, EventFacts
  <2>4. \A e, f \in held[s] : e.src = f.src => e = f
    BY <2>1, OneEvent
  <2>5. \A e \in held[s] : e.xSlackTime = deadline[SensorOf(s)]
    BY <2>1, <2>3 DEF Stamped
  <2> QED BY <2>1, <2>2, <2>3, <2>4, <2>5
<1> QED BY <1>1, Invariant, PTL

-----------------------------------------------------------------------------
(* Rounds.                                                                 *)

(* Who may change a sensor's round, and who a servant's deadline.          *)
LEMMA RoundSteps ==
  ASSUME [Next]_vars
  PROVE  \/ UNCHANGED <<count, deadline>>
         \/ \E x \in Servants : SensorExec(x)
         \/ \E s \in Servants : ServantExec(s)
<1>1. CASE RServant
  BY <1>1 DEF RServant, RTake, RWait, RTransit, RMatch, RFire
<1>2. CASE IdleYield \/ Tick \/ UNCHANGED vars
  BY <1>2 DEF IdleYield, Tick
<1>3. ASSUME NEW s \in Servants, Job(s), ~SensorExec(s), ~ServantExec(s)
      PROVE  UNCHANGED <<count, deadline>>
  BY <1>3 DEF Job, SensorFirst, SensorReceive, ServantReceive, HeapBegin,
     DelayLET, Finish, WaitForTrigger
<1> QED BY <1>1, <1>2, <1>3 DEF Next

(* A sensor begins a round no earlier than the deadline of the one before, *)
(* although it is woken by whatever wakes the R-Servant                    *)
(* (eventlist.c:216-219, servant.c:368, 435).                              *)
THEOREM PeriodKept == Spec => RoundsKeepPeriod
<1>1. ASSUME IInv, [Next]_vars, NEW x \in Sensors, count'[x] # count[x]
      PROVE  now >= deadline[x]
  <2>1. PICK y \in Servants : SensorExec(y)
    BY <1>1, RoundSteps DEF ServantExec
  <2>2. y = x /\ pc[x] = "exec"
    BY <1>1, <2>1 DEF SensorExec, IInv, TypeInv, TypeOK
  <2>3. now \in Nat /\ deadline[x] \in Nat
    BY <1>1, SensorFacts DEF IInv, TypeInv, TypeOK
  <2>4. CASE deadline[x] = 0
    BY <2>3, <2>4
  <2>5. CASE deadline[x] # 0
    BY <1>1, <2>2, <2>5 DEF IInv, RoundInv, RoundDone
  <2> QED BY <2>4, <2>5
<1>2. IInv /\ [Next]_vars =>
        [\A x \in Sensors : count'[x] # count[x] => now >= deadline[x]]_vars
  BY <1>1
<1> QED BY <1>2, Invariant, PTL DEF Spec, RoundsKeepPeriod

(* What the end of a servant's job does to the round.                      *)
LEMMA ServantRan ==
  ASSUME IInv, NEW s \in Servants, ServantExec(s)
  PROVE  /\ s \notin Sensors /\ count' = count
         /\ ~Ran(s) /\ \A u \in Inputs(s) : Ran(u)
         /\ Ran(s)' /\ \A u \in Servants : u # s => (Ran(u)' <=> Ran(u))
<1> USE DEF IInv, EventInv
<1>r. RestInv
  BY DEF RestInv
<1>1. PICK data \in [Outputs(s) -> held[s]], first \in Outputs(s) :
        deadline' = [deadline EXCEPT ![s] = data[first].xSlackTime]
  BY DEF ServantExec
<1>2. s \notin Sensors /\ pc[s] = "exec" /\ count' = count
  BY DEF ServantExec
<1>3. ~Ran(s) /\ deadline[SensorOf(s)] # 0 /\ \A u \in Inputs(s) : Ran(u)
  BY <1>r, <1>2, BeforeCreate
<1>4. data[first].xSlackTime = deadline[SensorOf(s)]
  <2>1. data[first] \in Live /\ data[first].dst = s
    BY EventFacts DEF Placed
  <2>2. SensorOf(data[first].src) = SensorOf(s)
    BY <2>1, EventFacts
  <2> QED BY <2>1, <2>2 DEF Stamped
<1>5. /\ deadline'[s] = deadline[SensorOf(s)]
      /\ \A u \in Servants : u # s => deadline'[u] = deadline[u]
      /\ \A u \in Servants : SensorOf(u) # s /\ SensorOf(u) \in Servants
  BY <1>1, <1>2, <1>4, SensorFacts DEF TypeInv, TypeOK
<1>6. Ran(s)' /\ \A u \in Servants : u # s => (Ran(u)' <=> Ran(u))
  BY <1>3, <1>5 DEF Ran
<1> QED BY <1>2, <1>3, <1>6

(* A multiple of a period is not the 0 of `before the first job'.          *)
LEMMA NoZeroProduct == \A a, b \in Nat \ {0} : a * b # 0
OBVIOUS

(* The runtime implements the abstract rounds: a sensor's job begins a     *)
(* round, a servant's job is its run, and every other step of servants,    *)
(* R-Servant and tick leaves the rounds alone (servant.c:186-220, 335-440).*)
THEOREM Refinement == Spec => ImplementsRounds
<1> DEFINE ranNow == {s \in Servants : Ran(s)}
           round == [x \in Sensors |-> count[x] - 2]
<1>1. Init => Rounds!Init
  <2> SUFFICES ASSUME Init PROVE Rounds!Init
    OBVIOUS
  <2>1. count = [x \in Sensors |-> 2] /\ \A s \in Servants : ~Ran(s)
    BY DEF Init, Ran
  <2>2. round = [x \in Sensors |-> 0] /\ ranNow = {}
    BY <2>1
  <2> QED BY <2>2 DEF Rounds!Init
<1>2. ASSUME IInv, NEW x \in Servants, SensorExec(x)
      PROVE  x \in Sensors /\ Rounds!BeginRound(x)
  <2> USE <1>2 DEF IInv
  <2>1. /\ x \in Sensors /\ pc[x] = "exec"
        /\ count' = [count EXCEPT ![x] = @ + 1]
        /\ deadline' = [deadline EXCEPT ![x] = (count[x] + 1) * Period[TaskOf[x]]]
    BY DEF SensorExec
  <2>2. count \in [Sensors -> Nat] /\ count[x] >= 2
    BY <2>1 DEF TypeInv, TypeOK, RoundInv, Deadlines
  <2>3. round' = [round EXCEPT ![x] = @ + 1]
    <3>1. \A y \in Sensors : count'[y] = IF y = x THEN count[x] + 1 ELSE count[y]
      BY <2>1, <2>2
    <3>2. (count[x] + 1) - 2 = (count[x] - 2) + 1
      BY <2>1, <2>2
    <3>3. \A y \in Sensors : round'[y] = IF y = x THEN round[x] + 1 ELSE round[y]
      BY <2>1, <3>1, <3>2
    <3> QED BY <3>3
  <2>4. /\ Ran(x)'
        /\ \A s \in Servants :
             IF SensorOf(s) = x THEN s # x => ~Ran(s)' ELSE Ran(s)' <=> Ran(s)
    BY <2>1, SensorRan
  <2>5. Rounds!Member(x) = Member(x)
    BY DEF Member, Rounds!Member
  <2>6. ranNow' = (ranNow \ Rounds!Member(x)) \cup {x}
    BY <2>1, <2>4, <2>5, SensorFacts
  <2>7. round[x] = 0 \/ Rounds!Member(x) \subseteq ranNow
    <3>1. CASE deadline[x] = 0
      <4>1. count[x] = 2
        <5>1. Period[TaskOf[x]] \in Nat \ {0}
          BY TablesAssumption
        <5>2. count[x] * Period[TaskOf[x]] # 0
          BY <2>1, <2>2, <5>1, NoZeroProduct
        <5> QED BY <2>1, <3>1, <5>2 DEF RoundInv, Deadlines
      <4> QED BY <2>1, <4>1
    <3>2. CASE deadline[x] # 0
      BY <2>1, <2>5, <3>2 DEF RoundInv, RoundDone, Member
    <3> QED BY <3>1, <3>2
  <2> QED BY <2>1, <2>3, <2>6, <2>7 DEF Rounds!BeginRound
<1>3. ASSUME IInv, NEW s \in Servants, ServantExec(s)
      PROVE  s \in Servants \ Sensors /\ Rounds!Run(s)
  <2>1. /\ s \notin Sensors /\ count' = count
        /\ ~Ran(s) /\ \A u \in Inputs(s) : Ran(u)
        /\ Ran(s)' /\ \A u \in Servants : u # s => (Ran(u)' <=> Ran(u))
    BY <1>3, ServantRan
  <2>2. s \notin ranNow /\ ranNow' = ranNow \cup {s}
    BY <2>1
  <2>3. Rounds!Before(s) \subseteq ranNow
    BY <2>1, RelationFacts DEF Rounds!Before, Inputs
  <2> QED BY <2>1, <2>2, <2>3 DEF Rounds!Run
<1>4. IInv /\ [Next]_vars => [Rounds!Next]_(Rounds!vars)
  <2> SUFFICES ASSUME IInv, [Next]_vars PROVE [Rounds!Next]_(Rounds!vars)
    OBVIOUS
  <2>1. CASE UNCHANGED <<count, deadline>>
    BY <2>1 DEF Rounds!vars, Ran
  <2>2. CASE \E x \in Servants : SensorExec(x)
    BY <1>2, <2>2 DEF Rounds!Next
  <2>3. CASE \E s \in Servants : ServantExec(s)
    BY <1>3, <2>3 DEF Rounds!Next
  <2> QED BY <2>1, <2>2, <2>3, RoundSteps
<1> QED BY <1>1, <1>4, Invariant, PTL DEF Spec, ImplementsRounds, Rounds!Spec

-----------------------------------------------------------------------------
(* The first transit.                                                      *)

(* Events that are created take serial numbers.                            *)
LEMMA CreateAllCounts ==
  ASSUME TypeOK, NEW s \in Servants, NEW next \in [Outputs(s) -> Nat],
         NEW time \in Nat, NEW live, CreateAll(s, next, time, live)
  PROVE  /\ serial' \in Nat /\ serial' >= serial
         /\ eventList' # eventList => serial' # 0
<1> DEFINE E(d) == NewEvent(s, d, IsLast(s, d), next[d], time, serial + Rank(s, d))
           new  == {E(d) : d \in Outputs(s)}
           free == HeapEvents - 1 - Cardinality(live)
           kept == {e \in new : e.xLevel - serial < free}
<1>1. eventList' = eventList \cup kept /\ serial' = serial + Cardinality(kept)
  BY DEF CreateAll, Create
<1>2. IsFiniteSet(kept)
  <2>1. IsFiniteSet(new)
    <3> HIDE DEF E
    <3> DEFINE g == [d \in Outputs(s) |-> E(d)]
    <3>1. g \in Surjection(Outputs(s), new)
      BY DEF Surjection
    <3> HIDE DEF g, new
    <3> QED BY <3>1, OutputsType, FS_Surjection
  <2> HIDE DEF new
  <2> QED BY <2>1, FS_Subset
<1> HIDE DEF kept
<1>3. Cardinality(kept) \in Nat /\ (kept # {} => Cardinality(kept) # 0)
  BY <1>2, FS_CardinalityType, FS_EmptySet
<1>4. serial \in Nat
  BY DEF TypeOK
<1>5. eventList' # eventList => Cardinality(kept) # 0
  BY <1>1, <1>3
<1>6. serial' \in Nat /\ serial' >= serial /\ (Cardinality(kept) # 0 => serial' # 0)
  <2> DEFINE n == Cardinality(kept)
  <2>1. n \in Nat /\ serial' = serial + n
    BY <1>1, <1>3
  <2> HIDE DEF n
  <2>2. serial' \in Nat /\ serial' >= serial /\ (n # 0 => serial' # 0)
    BY <1>4, <2>1
  <2> QED BY <2>2 DEF n
<1> QED BY <1>5, <1>6

(* Before the first event no sensor is past its first job, and the         *)
(* R-Servant has not been given its semaphore.                             *)
Unborn ==
  serial = 0 => rpc = "take" /\ \A x \in Sensors : pc[x] \in {"first", "exec"}

LEMMA UnbornStep ==
  ASSUME Servants # {}, IInv, Unborn, [Next]_vars
  PROVE  Unborn'
<1> SUFFICES ASSUME serial' = 0
             PROVE  rpc' = "take" /\ \A x \in Sensors : pc'[x] \in {"first", "exec"}
  BY DEF Unborn
<1> USE DEF IInv, TypeInv
<1>r. RestInv
  BY DEF RestInv
<1>p. DOMAIN pc = Servants /\ Sensors \subseteq Servants
  BY TablesAssumption DEF TypeOK
<1>n. now \in Nat /\ missed \in Nat /\ deadline \in [Servants -> Nat]
      /\ count \in [Sensors -> Nat] /\ serial \in Nat
  BY DEF TypeOK
<1>1. ASSUME NEW x \in Servants, SensorExec(x) PROVE FALSE
  <2> DEFINE f == [d \in Outputs(x) |-> (count[x] + 1) * Period[TaskOf[x]]]
  <2>1. /\ x \in Sensors /\ pc[x] = "exec"
        /\ CreateAll(x, f, now + Let[x], Live)
    BY <1>1 DEF SensorExec, HeapEnd, ResumeAll
  <2>2. f \in [Outputs(x) -> Nat] /\ now + Let[x] \in Nat
    <3>1. count[x] \in Nat /\ Period[TaskOf[x]] \in Nat /\ Let[x] \in Nat
      BY <1>n, <2>1, TablesAssumption
    <3>2. (count[x] + 1) * Period[TaskOf[x]] \in Nat
      BY <3>1
    <3> QED BY <1>n, <3>1, <3>2
  <2> HIDE DEF f
  <2>3. PICK new \in SUBSET Event :
          /\ eventList' = eventList \cup new /\ \A e \in new : e.src = x
          /\ \A d \in Outputs(x) : \E e \in new : e.dst = d
    BY <1>r, <2>1, <2>2, CreatesAll
  <2>4. PICK e \in new : e.src = x
    BY <2>3, InputFacts
  <2>5. e \notin eventList
    BY <1>r, <2>1, <2>4, BeforeCreate DEF Live
  <2>6. eventList' # eventList
    BY <2>3, <2>4, <2>5
  <2> QED BY <2>1, <2>2, <2>6, CreateAllCounts
<1>2. ASSUME NEW s \in Servants, ServantExec(s)
      PROVE  rpc' = "take" /\ \A x \in Sensors : pc'[x] \in {"first", "exec"}
  <2>1. PICK data \in [Outputs(s) -> held[s]], first \in Outputs(s) :
          CreateAll(s, [d \in Outputs(s) |-> data[d].xSlackTime], now + Let[s], Live \ held[s])
    BY <1>2 DEF ServantExec
  <2> DEFINE f == [d \in Outputs(s) |-> data[d].xSlackTime]
  <2>2. s \notin Sensors /\ pc' = [pc EXCEPT ![s] = "let"] /\ rpc' = rpc
    BY <1>2 DEF ServantExec, matchVars
  <2>3. f \in [Outputs(s) -> Nat] /\ now + Let[s] \in Nat
    <3>1. held[s] \in SUBSET Event
      BY DEF TypeOK
    <3>2. Let[s] \in Nat
      BY TablesAssumption
    <3> QED BY <1>n, <3>1, <3>2 DEF Event
  <2> HIDE DEF f
  <2>4. CreateAll(s, f, now + Let[s], Live \ held[s])
    BY <2>1 DEF f
  <2>5. serial = 0
    BY <1>n, <2>3, <2>4, CreateAllCounts
  <2> QED BY <1>p, <2>2, <2>5 DEF Unborn
<1>3. ASSUME UNCHANGED serial, UNCHANGED rpc,
             \A x \in Sensors : pc'[x] # pc[x] => pc[x] \notin {"first", "exec"} \/ pc'[x] \in {"first", "exec"}
      PROVE  rpc' = "take" /\ \A x \in Sensors : pc'[x] \in {"first", "exec"}
  BY <1>3 DEF Unborn
<1>4. ASSUME RTake PROVE FALSE
  <2>1. serial = 0 /\ current = R /\ sem[R] = 1
    BY <1>4 DEF RTake, Take, Running, listVars
  <2>2. PICK x \in Sensors : x \in Servants
    BY TopologyAssumption, <1>p
  <2>3. x \in blocked /\ sem[x] = 0 /\ ~isInit
    BY <2>1, <2>2 DEF SchedInv, OneAtATime, Waiting, Startup
  <2>4. pc[x] = "first"
    BY <2>1, <2>2, <2>3 DEF Unborn, SchedInv, Waiting
  <2> QED BY <2>2, <2>3, <2>4 DEF SchedInv, Starting
<1>5. ASSUME RTransit \/ RMatch \/ RFire PROVE FALSE
  <2>1. serial = 0 /\ rpc # "take"
    BY <1>5 DEF RTransit, RMatch, RFire, listVars
  <2> QED BY <2>1 DEF Unborn
<1>6. ASSUME NEW s \in Servants, SensorFirst(s) \/ SensorReceive(s) \/ ServantReceive(s) \/ Finish(s)
      PROVE  rpc' = "take" /\ \A x \in Sensors : pc'[x] \in {"first", "exec"}
  <2>1. UNCHANGED <<serial, rpc>>
    BY <1>6 DEF SensorFirst, SensorReceive, ServantReceive, Finish, listVars, matchVars
  <2>2. CASE SensorFirst(s) \/ SensorReceive(s) \/ ServantReceive(s)
    BY <1>p, <1>3, <2>1, <2>2 DEF SensorFirst, SensorReceive, ServantReceive
  <2>3. CASE Finish(s)
    BY <1>p, <1>3, <2>1, <2>3 DEF Finish
  <2> QED BY <1>6, <2>2, <2>3
<1>7. ASSUME NEW s \in Servants, HeapBegin(s) \/ DelayLET(s) \/ WaitForTrigger(s)
      PROVE  rpc' = "take" /\ \A x \in Sensors : pc'[x] \in {"first", "exec"}
  BY <1>3, <1>7 DEF HeapBegin, DelayLET, WaitForTrigger, vars, jobVars, listVars, matchVars
<1>8. ASSUME RWait \/ IdleYield \/ Tick \/ UNCHANGED vars
      PROVE  rpc' = "take" /\ \A x \in Sensors : pc'[x] \in {"first", "exec"}
  BY <1>3, <1>8 DEF RWait, IdleYield, Tick, vars, jobVars, listVars, matchVars
<1> QED BY <1>1, <1>2, <1>4, <1>5, <1>6, <1>7, <1>8 DEF Next, Job, RServant

(* xEventListGenericTransit finds a list that is initialised whenever the  *)
(* R-Servant calls it: the first event is created before the R-Servant is  *)
(* woken for the first time (eventlist.c:358-362, 412-420; main.c:147).    *)
THEOREM ListIsInitialised == ASSUME Servants # {} PROVE Spec => []NoNullTransit
<1>1. Init => Unborn
  BY TablesAssumption DEF Init, Unborn
<1>2. IInv /\ Unborn /\ [Next]_vars => Unborn'
  BY UnbornStep
<1>3. IInv /\ Unborn => NoNullTransit
  BY DEF IInv, TypeInv, TypeOK, Unborn, NoNullTransit
<1> QED BY <1>1, <1>2, <1>3, Invariant, PTL DEF Spec

-----------------------------------------------------------------------------
(* Multiples, frames and the work of a set of servants.                    *)

(* Division with remainder, and what is left of a multiple of p.           *)
LEMMA Division ==
  ASSUME NEW p \in Nat \ {0}, NEW a \in Nat
  PROVE  /\ a \div p \in Nat /\ (a % p) \in 0 .. p - 1
         /\ a = p * (a \div p) + (a % p)
OBVIOUS

LEMMA Remainder ==
  ASSUME NEW p \in Nat \ {0}, NEW i \in Nat, NEW r \in Nat, r < p
  PROVE  (p * i + r) % p = r
OBVIOUS

(* Multiples of p are p apart.                                             *)
LEMMA Cancel == \A p \in Nat \ {0}, i, j \in Nat : p * i < p * j => p * (i + 1) <= p * j
  OBVIOUS

(* A multiple of p is p times something.                                   *)
LEMMA MultipleIs ==
  ASSUME NEW p \in Nat \ {0}, NEW a \in Nat
  PROVE  Multiple(p, a) <=> \E i \in Nat : a = p * i
<1>1. ASSUME Multiple(p, a) PROVE \E i \in Nat : a = p * i
  <2>1. a \div p \in Nat /\ a = p * (a \div p) + 0
    BY <1>1, Division DEF Multiple
  <2>2. p * (a \div p) \in Nat
    BY <2>1
  <2> QED BY <2>1, <2>2
<1>2. ASSUME NEW i \in Nat, a = p * i PROVE Multiple(p, a)
  <2>1. (p * i + 0) % p = 0
    BY Remainder
  <2>2. p * i + 0 = p * i
    BY <1>2
  <2> QED BY <1>2, <2>1, <2>2 DEF Multiple
<1> QED BY <1>1, <1>2

(* Multiples lie p apart, and the next one and products are multiples.     *)
LEMMA MultipleFacts ==
  ASSUME NEW p \in Nat \ {0}
  PROVE  /\ Multiple(p, 0)
         /\ \A a, b \in Nat : Multiple(p, a) /\ Multiple(p, b) /\ a < b => a + p <= b
         /\ \A a \in Nat : Multiple(p, a) => Multiple(p, a + p)
         /\ \A a, c \in Nat : Multiple(p, a) => Multiple(p, c * a)
<1>1. Multiple(p, 0)
  <2>1. 0 = p * 0
    OBVIOUS
  <2> QED BY <2>1, MultipleIs
<1>2. ASSUME NEW a \in Nat, NEW b \in Nat, Multiple(p, a), Multiple(p, b), a < b
      PROVE  a + p <= b
  <2>1. PICK i \in Nat : a = p * i
    BY <1>2, MultipleIs
  <2>2. PICK j \in Nat : b = p * j
    BY <1>2, MultipleIs
  <2>3. p * (i + 1) <= p * j
    BY <1>2, <2>1, <2>2, Cancel
  <2>4. p * (i + 1) = p * i + p
    OBVIOUS
  <2> QED BY <2>1, <2>2, <2>3, <2>4
<1>3. ASSUME NEW a \in Nat, Multiple(p, a) PROVE Multiple(p, a + p)
  <2>1. PICK i \in Nat : a = p * i
    BY <1>3, MultipleIs
  <2>2. a + p = p * (i + 1) /\ a + p \in Nat /\ i + 1 \in Nat
    BY <2>1
  <2> QED BY <2>2, MultipleIs
<1>4. ASSUME NEW a \in Nat, NEW c \in Nat, Multiple(p, a) PROVE Multiple(p, c * a)
  <2>1. PICK i \in Nat : a = p * i
    BY <1>4, MultipleIs
  <2>2. c * a = p * (c * i) /\ c * a \in Nat /\ c * i \in Nat
    BY <2>1
  <2> QED BY <2>2, MultipleIs
<1> QED BY <1>1, <1>2, <1>3, <1>4

(* The frame of the clock.                                                 *)
LEMMA FrameFacts ==
  ASSUME NEW p \in Nat \ {0}, now \in Nat
  PROVE  /\ Frame(p) \in Nat /\ Multiple(p, Frame(p))
         /\ Frame(p) <= now /\ now < Frame(p) + p
<1>1. now \div p \in Nat /\ (now % p) \in 0 .. p - 1
      /\ now = Frame(p) + (now % p)
  BY Division DEF Frame
<1>2. Frame(p) \in Nat
  BY <1>1 DEF Frame
<1>3. Multiple(p, Frame(p))
  BY <1>1, <1>2, MultipleIs DEF Frame
<1> QED BY <1>1, <1>2, <1>3

(* The frame changes with the clock only when it reaches a multiple of p.  *)
LEMMA FrameStep ==
  ASSUME NEW p \in Nat \ {0}, now \in Nat, now' = now + 1
  PROVE  IF Multiple(p, now + 1) THEN Frame(p)' = Frame(p) + p /\ Frame(p)' = now + 1
                                 ELSE Frame(p)' = Frame(p)
<1>1. Frame(p) \in Nat /\ Multiple(p, Frame(p)) /\ Frame(p) <= now /\ now < Frame(p) + p
  BY FrameFacts
<1>2. Frame(p)' \in Nat /\ Multiple(p, Frame(p)') /\ Frame(p)' <= now + 1 /\ now + 1 < Frame(p)' + p
  <2> DEFINE n == now + 1
  <2>1. n \in Nat
    OBVIOUS
  <2>2. n \div p \in Nat /\ (n % p) \in 0 .. p - 1 /\ n = p * (n \div p) + (n % p)
    BY <2>1, Division
  <2>3. Frame(p)' = p * (n \div p)
    BY DEF Frame
  <2> HIDE DEF n
  <2>4. p * (n \div p) \in Nat
    BY <2>2
  <2>5. Multiple(p, p * (n \div p))
    BY <2>2, <2>4, MultipleIs
  <2>6. p * (n \div p) <= n /\ n < p * (n \div p) + p
    BY <2>2, <2>4, SMTT(30)
  <2> QED BY <2>3, <2>4, <2>5, <2>6 DEF n
<1>3. /\ \A a, b \in Nat : Multiple(p, a) /\ Multiple(p, b) /\ a < b => a + p <= b
      /\ Multiple(p, Frame(p) + p)
  BY <1>1, MultipleFacts
<1>4. CASE Multiple(p, now + 1)
  <2>1. Frame(p) + p <= now + 1
    BY <1>1, <1>3, <1>4
  <2>2. ~(Frame(p)' < now + 1)
    BY <1>2, <1>3, <1>4
  <2> QED BY <1>1, <1>2, <1>4, <2>1, <2>2
<1>5. CASE ~Multiple(p, now + 1)
  <2>1. Frame(p) + p # now + 1 /\ Frame(p)' # now + 1
    BY <1>2, <1>3, <1>5
  <2>2. ~(Frame(p) < Frame(p)')
    BY <1>1, <1>2, <1>3, <2>1
  <2>3. ~(Frame(p)' < Frame(p))
    BY <1>1, <1>2, <1>3, <2>1
  <2> QED BY <1>1, <1>2, <1>5, <2>2, <2>3
<1> QED BY <1>4, <1>5

(* The work of servants is a finite set.                                   *)
LEMMA WorkFinite ==
  ASSUME NEW S \in SUBSET Servants
  PROVE  IsFiniteSet(Work(S))
<1> DEFINE J(s) == {s} \X (1 .. Let[s])
           g == [s \in S |-> J(s)]
           all == {J(s) : s \in S}
<1>1. ASSUME NEW s \in S PROVE IsFiniteSet(J(s))
  <2>1. Let[s] \in Int
    BY TablesAssumption
  <2>2. IsFiniteSet(1 .. Let[s])
    BY <2>1, FS_Interval
  <2>3. IsFiniteSet({s})
    BY FS_Singleton
  <2> QED BY <2>2, <2>3, FS_Product
<1>2. IsFiniteSet(S)
  BY TablesAssumption, FS_Subset
<1>3. g \in Surjection(S, all)
  BY DEF Surjection
<1> HIDE DEF g
<1>4. IsFiniteSet(all)
  <2> HIDE DEF all
  <2> QED BY <1>2, <1>3, FS_Surjection
<1>5. \A T \in all : IsFiniteSet(T)
  BY <1>1
<1> HIDE DEF all
<1>6. IsFiniteSet(UNION all)
  BY <1>4, <1>5, FS_UNION
<1> QED BY <1>6 DEF Work, all

(* Load is additive, and only all the servants have all the load.          *)
LEMMA LoadFacts ==
  ASSUME NEW S \in SUBSET Servants
  PROVE  /\ Load(S) \in Nat /\ Load(S) <= Load(Servants)
         /\ Load(S) = Load(Servants) => S = Servants
<1>1. Work(S) \subseteq Work(Servants)
  BY DEF Work
<1>2. IsFiniteSet(Work(S)) /\ IsFiniteSet(Work(Servants))
  BY WorkFinite
<1>3. Load(S) \in Nat /\ Load(S) <= Load(Servants)
  BY <1>1, <1>2, FS_Subset, FS_CardinalityType DEF Load
<1>4. ASSUME Load(S) = Load(Servants) PROVE S = Servants
  <2>1. Work(S) = Work(Servants)
    BY <1>1, <1>2, <1>4, FS_Subset DEF Load
  <2>2. ASSUME NEW s \in Servants PROVE s \in S
    <3>1. 1 \in 1 .. Let[s]
      BY TablesAssumption
    <3>2. <<s, 1>> \in Work(Servants)
      BY <3>1 DEF Work
    <3>3. <<s, 1>> \in Work(S)
      BY <2>1, <3>2
    <3> QED BY <3>3 DEF Work
  <2> QED BY <2>2
<1> QED BY <1>3, <1>4

(* A servant adds its LET to the load.                                     *)
LEMMA LoadAdds ==
  ASSUME NEW S \in SUBSET Servants, NEW s \in Servants \ S
  PROVE  Load(S \cup {s}) = Load(S) + Let[s]
<1> DEFINE J == {s} \X (1 .. Let[s])
<1>1. Work(S \cup {s}) = Work(S) \cup J
  BY DEF Work
<1>2. Work(S) \cap J = {}
  BY DEF Work
<1>3. IsFiniteSet(J) /\ Cardinality(J) = Let[s]
  <2>1. Let[s] \in Nat \ {0}
    BY TablesAssumption
  <2>2. IsFiniteSet(1 .. Let[s]) /\ Cardinality(1 .. Let[s]) = Let[s]
    BY <2>1, FS_Interval
  <2>3. IsFiniteSet({s}) /\ Cardinality({s}) = 1
    BY FS_Singleton
  <2>4. IsFiniteSet(J) /\ Cardinality(J) = 1 * Let[s]
    BY <2>2, <2>3, FS_Product, ZenonT(30)
  <2> QED BY <2>1, <2>4
<1>4. IsFiniteSet(Work(S)) /\ Cardinality(Work(S)) \in Nat
  BY WorkFinite, FS_CardinalityType
<1> HIDE DEF J
<1>5. Cardinality(Work(S) \cup J) = Cardinality(Work(S)) + Cardinality(J) - Cardinality({})
  BY <1>2, <1>3, <1>4, FS_Union
<1>6. Let[s] \in Nat /\ Cardinality({}) = 0
  BY TablesAssumption, FS_EmptySet
<1> DEFINE A == Work(S \cup {s})
           B == Work(S)
<1> HIDE DEF A, B
<1>7. Cardinality(A) = Cardinality(B) + Let[s]
  <2>1. A = B \cup J
    BY <1>1 DEF A, B
  <2>2. Cardinality(A) = Cardinality(B \cup J)
    BY <2>1
  <2>3. Cardinality(B \cup J) = Cardinality(B) + Cardinality(J) - Cardinality({})
    BY <1>5 DEF B
  <2>4. Cardinality(B) \in Nat
    BY <1>4 DEF B
  <2> QED BY <1>3, <1>6, <2>2, <2>3, <2>4
<1> QED BY <1>7 DEF Load, A, B

-----------------------------------------------------------------------------
(* No wake-up is lost.                                                     *)

(* What the end of a job does while no ticks have been missed.             *)
ExecEffect(s) ==
  /\ pc[s] = "exec" /\ current = s /\ current' = s
  /\ pc' = [pc EXCEPT ![s] = "let"] /\ start' = [start EXCEPT ![s] = now]
  /\ deadline' = [deadline EXCEPT ![s] =
       IF s \in Sensors THEN (count[s] + 1) * Period[TaskOf[s]] ELSE deadline[SensorOf(s)]]
  /\ UNCHANGED <<now, missed, isInit, sem, blocked, readyVars, matchVars>>

Sends(s, new) ==
  /\ eventList' = eventList \cup new
  /\ \A e \in new : e.src = s /\ (~IsLast(s, e.dst) => e.xTime = now + Let[s])

LEMMA ExecFacts ==
  ASSUME IInv, missed = 0, NEW s \in Servants, SensorExec(s) \/ ServantExec(s)
  PROVE  ExecEffect(s) /\ \E new \in SUBSET Event : Sends(s, new)
<1> USE DEF IInv, EventInv
<1>r. RestInv
  BY DEF RestInv
<1>i. TypeInv /\ SchedInv
  OBVIOUS
<1>n. now \in Nat /\ missed \in Nat /\ now + missed = now /\ Let[s] \in Nat /\ ~yieldDue
      /\ now + Let[s] \in Nat /\ deadline \in [Servants -> Nat]
  BY TablesAssumption DEF TypeInv, TypeOK, SchedInv, Suspension
<1>1. CASE SensorExec(s)
  <2> DEFINE f == [d \in Outputs(s) |-> (count[s] + 1) * Period[TaskOf[s]]]
  <2>1. /\ s \in Sensors /\ pc[s] = "exec" /\ current = s
        /\ deadline' = [deadline EXCEPT ![s] = (count[s] + 1) * Period[TaskOf[s]]]
        /\ CreateAll(s, f, now + Let[s], Live)
        /\ pc' = [pc EXCEPT ![s] = "let"] /\ start' = [start EXCEPT ![s] = now]
        /\ UNCHANGED <<sem, blocked, isInit, readyVars, matchVars>>
        /\ ResumeAll(FALSE, blocked)
    BY <1>1 DEF SensorExec, HeapEnd
  <2>2. f \in [Outputs(s) -> Nat]
    <3>1. count[s] \in Nat /\ Period[TaskOf[s]] \in Nat
      BY <2>1, TablesAssumption DEF TypeInv, TypeOK
    <3>2. (count[s] + 1) * Period[TaskOf[s]] \in Nat
      BY <3>1
    <3> QED BY <3>2
  <2>c. CreateAll(s, f, now + Let[s], Live) /\ pc[s] = "exec" /\ Live \in SUBSET Live
    BY <2>1
  <2> HIDE DEF f
  <2>3. PICK new \in SUBSET Event :
          /\ eventList' = eventList \cup new
          /\ \A e \in new : /\ e.src = s /\ e.dst \in Outputs(s)
                            /\ e.xSlackTime = f[e.dst]
                            /\ ~IsLast(s, e.dst) => e.xTime = now + Let[s]
          /\ \A d \in Outputs(s) : \E e \in new : e.dst = d
          /\ \A e, g \in new : e.dst = g.dst => e = g
    BY ONLY s \in Servants, <1>r, <1>i, <1>n, <2>c, <2>2, CreatesAll
  <2>4. Sends(s, new)
    BY <2>3 DEF Sends
  <2>5. ExecEffect(s)
    BY <1>n, <2>1 DEF ExecEffect, ResumeAll
  <2> QED BY <2>4, <2>5
<1>2. CASE ServantExec(s)
  <2>1. PICK data \in [Outputs(s) -> held[s]], first \in Outputs(s) :
          /\ deadline' = [deadline EXCEPT ![s] = data[first].xSlackTime]
          /\ CreateAll(s, [d \in Outputs(s) |-> data[d].xSlackTime],
                       now + Let[s], Live \ held[s])
    BY <1>2 DEF ServantExec
  <2> DEFINE f == [d \in Outputs(s) |-> data[d].xSlackTime]
  <2>2. /\ s \notin Sensors /\ pc[s] = "exec" /\ current = s
        /\ pc' = [pc EXCEPT ![s] = "let"] /\ start' = [start EXCEPT ![s] = now]
        /\ UNCHANGED <<sem, blocked, isInit, readyVars, matchVars>>
        /\ ResumeAll(FALSE, blocked)
    BY <1>2 DEF ServantExec, HeapEnd
  <2>3. \A e \in held[s] : e.xSlackTime = deadline[SensorOf(s)] /\ e \in Event
    <3> SUFFICES ASSUME NEW e \in held[s]
                 PROVE  e.xSlackTime = deadline[SensorOf(s)] /\ e \in Event
      OBVIOUS
    <3>1. e \in Live /\ e.dst = s /\ e \in Event
      BY EventFacts DEF Placed
    <3>2. SensorOf(e.src) = SensorOf(s)
      BY <3>1, EventFacts
    <3> QED BY <3>1, <3>2 DEF Stamped
  <2>4. f \in [Outputs(s) -> Nat]
    BY <2>3 DEF Event
  <2>5. CreateAll(s, f, now + Let[s], Live \ held[s]) /\ Live \ held[s] \in SUBSET Live
    BY <2>1
  <2> HIDE DEF f
  <2>6. PICK new \in SUBSET Event :
          /\ eventList' = eventList \cup new
          /\ \A e \in new : /\ e.src = s /\ e.dst \in Outputs(s)
                            /\ e.xSlackTime = f[e.dst]
                            /\ ~IsLast(s, e.dst) => e.xTime = now + Let[s]
          /\ \A d \in Outputs(s) : \E e \in new : e.dst = d
          /\ \A e, g \in new : e.dst = g.dst => e = g
    BY ONLY s \in Servants, <1>r, <1>i, <1>n, <2>2, <2>4, <2>5, CreatesAll
  <2>7. Sends(s, new)
    BY <2>6 DEF Sends
  <2>8. deadline' = [deadline EXCEPT ![s] = deadline[SensorOf(s)]]
    BY <2>1, <2>3
  <2>9. ExecEffect(s)
    BY <1>n, <2>2, <2>8 DEF ExecEffect, ResumeAll
  <2> QED BY <2>7, <2>9
<1> QED BY <1>1, <1>2

(* The deadline of a round is a multiple of what divides the period, and   *)
(* lies at least three periods after the start.                            *)
LEMMA DeadlineFacts ==
  ASSUME TypeInv, RoundInv, NEW x \in Sensors, NEW p \in Nat \ {0},
         Multiple(p, Period[TaskOf[x]])
  PROVE  /\ Multiple(p, deadline[x])
         /\ deadline[x] # 0 => deadline[x] >= 3 * Period[TaskOf[x]]
<1> DEFINE P == Period[TaskOf[x]]
<1>1. count[x] \in Nat /\ count[x] >= 2 /\ P \in Nat \ {0}
      /\ deadline[x] = IF count[x] = 2 THEN 0 ELSE count[x] * P
  BY TablesAssumption DEF TypeInv, TypeOK, RoundInv, Deadlines
<1> HIDE DEF P
<1>2. \A a, c \in Nat : Multiple(p, a) => Multiple(p, c * a)
  BY MultipleFacts
<1>3. Multiple(p, count[x] * P)
  BY <1>1, <1>2 DEF P
<1>4. CASE count[x] = 2
  BY <1>1, <1>4, MultipleFacts
<1>5. CASE count[x] # 2
  <2>1. PICK k \in Nat : count[x] = 3 + k
    <3>1. count[x] - 3 \in Nat /\ count[x] = 3 + (count[x] - 3)
      BY <1>1, <1>5
    <3> QED BY <3>1
  <2>2. count[x] * P = 3 * P + k * P /\ k * P \in Nat /\ 3 * P \in Nat
    BY <1>1, <2>1
  <2>3. deadline[x] = 3 * P + k * P
    BY <1>1, <1>5, <2>2
  <2>4. deadline[x] >= 3 * P
    BY <2>2, <2>3
  <2> QED BY <1>1, <1>3, <1>5, <2>4 DEF P
<1> QED BY <1>4, <1>5

(* An event that is sent for the end of a round is due at its deadline.    *)
LEMMA LastDue ==
  ASSUME IInv, NEW e \in eventList, IsLast(e.src, e.dst)
  PROVE  /\ e.xTime = deadline[SensorOf(e.src)] /\ e.xTime = e.xSlackTime
         /\ SensorOf(e.src) \in Sensors /\ e.src \in Servants
<1> USE DEF IInv, EventInv
<1>1. e \in Live /\ e.src \in Servants
  BY EventFacts
<1>2. e.xTime = deadline[SensorOf(e.src)] /\ e.xTime = e.xSlackTime
  BY <1>1 DEF Stamped
<1> QED BY <1>1, <1>2, SensorFacts

(* A wake-up that was in time stays in time.                               *)
LEMMA StaysDue ==
  ASSUME IInv, DueWhenSent, eventList' \subseteq eventList, now' \in Nat, now' >= now,
         \A s \in Servants : pc[s] = "let" =>
           (pc'[s] = "let" /\ start'[s] = start[s]) \/ start[s] + Let[s] <= now'
  PROVE  DueWhenSent'
<1> SUFFICES ASSUME NEW e \in eventList', ~IsLast(e.src, e.dst)
             PROVE  \/ e.xTime <= now'
                    \/ pc'[e.src] = "let" /\ e.xTime = start'[e.src] + Let[e.src]
  BY DEF DueWhenSent
<1>1. e \in Event /\ e.src \in Servants /\ e.xTime \in Nat /\ now \in Nat
  BY DEF IInv, TypeInv, TypeOK, Event
<1>2. CASE e.xTime <= now
  BY <1>1, <1>2
<1>3. CASE pc[e.src] = "let" /\ e.xTime = start[e.src] + Let[e.src]
  BY <1>1, <1>3
<1> QED BY <1>2, <1>3 DEF DueWhenSent

(* The tick does not let an event become due unless it wakes the R-Servant.*)
LEMMA TickWakes ==
  ASSUME \A t \in Tasks : HookCovers(t), IInv, WakeInv, now' = now + 1, TickHook(now'),
         UNCHANGED <<pc, rpc, eventList>>, Asleep'
  PROVE  NothingDue'
<1> USE DEF IInv
<1>t. TypeOK /\ now \in Nat
  BY DEF TypeInv, TypeOK
<1> DEFINE S == (IF isInit /\ now' = FirstTick THEN Sensors ELSE {})
                  \cup (IF HookDue(now') THEN {R} ELSE {})
<1>1. sem' = [t \in Servants \cup {R} |-> IF t \in S THEN 1 ELSE sem[t]]
  <2>1. Give(S)
    BY DEF TickHook
  <2> HIDE DEF S
  <2> QED BY <1>t, <2>1, GiveFacts
<1>2. \A t \in Servants \cup {R} : sem'[t] = 0 => sem[t] = 0
  <2>1. sem \in [Servants \cup {R} -> {0, 1}]
    BY DEF TypeInv, TypeOK
  <2> HIDE DEF S
  <2> QED BY <1>1, <2>1
<1>3. Asleep
  BY <1>2 DEF Asleep
<1>4. ~HookDue(now + 1)
  <2>1. sem'[R] = 0
    BY DEF Asleep
  <2>2. R \notin S
    BY <1>1, <2>1
  <2> QED BY <2>2
<1>5. NothingDue
  BY <1>3 DEF WakeInv
<1> SUFFICES ASSUME NEW e \in eventList, IsHead(e, eventList), ~(e.xTime > now + 1)
             PROVE  FALSE
  BY DEF NothingDue
<1>6. e.xTime \in Nat /\ e.xTime > now /\ e.xTime = now + 1
  <2>1. e \in Event
    BY DEF TypeInv, TypeOK
  <2>2. e.xTime \in Nat
    BY <2>1 DEF Event
  <2>3. e.xTime > now
    BY <1>5 DEF NothingDue
  <2> QED BY <1>t, <2>2, <2>3
<1>7. IsLast(e.src, e.dst)
  BY <1>3, <1>6, <1>t DEF WakeInv, DueWhenSent, Asleep, TypeInv, TypeOK, Event
<1> DEFINE x == SensorOf(e.src)
<1>8. x \in Sensors /\ e.xTime = deadline[x] /\ x \in Servants
  BY <1>7, LastDue, SensorFacts
<1> HIDE DEF x
<1>9. TaskOf[x] \in Tasks /\ Period[TaskOf[x]] \in Nat
  BY <1>8, TablesAssumption
<1>10. PICK p \in HookPeriods : Multiple(p, Period[TaskOf[x]])
  BY <1>9 DEF HookCovers
<1>11. p \in Nat \ {0}
  BY <1>10, ClockAssumption
<1>12. HookStart <= 3 * Period[TaskOf[x]]
  BY <1>9 DEF HookCovers
<1>13. now + 1 >= HookStart /\ (now + 1) % p = 0
  <2>1. Multiple(p, deadline[x]) /\ deadline[x] >= 3 * Period[TaskOf[x]]
    BY <1>6, <1>8, <1>10, <1>11, DeadlineFacts, <1>t
  <2>2. 3 * Period[TaskOf[x]] \in Nat /\ HookStart \in Nat
    BY <1>9, ClockAssumption
  <2> QED BY <1>6, <1>8, <1>12, <1>t, <2>1, <2>2 DEF Multiple
<1> QED BY <1>4, <1>10, <1>13 DEF HookDue

(* A step in which nobody is in its LET, and no events are sent.           *)
WakeQuiet ==
  /\ missed' = 0 /\ now' = now /\ eventList' \subseteq eventList
  /\ \A s \in Servants : pc[s] = "let" =>
       (pc'[s] = "let" /\ start'[s] = start[s]) \/ start[s] + Let[s] <= now'
  /\ SleepsEmpty'
  /\ Asleep' => \/ Asleep /\ eventList' = eventList
                \/ NothingDue /\ eventList' = eventList

(* Such a step keeps what is said about wake-ups.                          *)
LEMMA WakeQuietStep ==
  ASSUME IInv, WakeInv, WakeQuiet
  PROVE  WakeInv'
<1>1. now' \in Nat /\ now' >= now
  BY DEF WakeQuiet, IInv, TypeInv, TypeOK
<1>2. DueWhenSent'
  BY <1>1, StaysDue DEF WakeInv, WakeQuiet
<1>3. Asleep' => NothingDue'
  BY DEF WakeInv, WakeQuiet, NothingDue
<1> QED BY <1>2, <1>3 DEF WakeInv, WakeQuiet

(* A give the hook makes finds the scheduler running, so that nobody goes  *)
(* to sleep with a semaphore that is given.                                *)
LEMMA SleepsStep ==
  ASSUME NoTickMissed, IInv, WakeInv, [Next]_vars
  PROVE  SleepsEmpty'
<1> USE DEF IInv
<1>t. /\ TypeOK /\ sem \in [Servants \cup {R} -> {0, 1}] /\ blocked \in SUBSET (Servants \cup {R})
      /\ R \notin Servants /\ SleepsEmpty /\ (placing => suspended) /\ missed = 0
  BY TablesAssumption DEF TypeInv, TypeOK, WakeInv, SchedInv, Waiting
<1>g. ASSUME ~suspended, NEW S \in SUBSET (Servants \cup {R}), Give(S) PROVE SleepsEmpty'
  <2>1. /\ ~placing' /\ blocked' = blocked \ Woken(S)
        /\ sem' = [t \in DOMAIN sem |-> IF t \in S THEN 1 ELSE sem[t]]
    BY <1>t, <1>g DEF Give
  <2>2. ASSUME R \in blocked' PROVE sem'[R] = 0
    <3>1. sem[R] = 0 /\ R \in blocked
      BY <1>t, <2>1, <2>2 DEF SleepsEmpty
    <3>2. R \notin S
      BY <2>1, <2>2, <3>1 DEF Woken
    <3> QED BY <1>t, <2>1, <3>1, <3>2
  <2> QED BY <2>1, <2>2 DEF SleepsEmpty
<1>u. ASSUME UNCHANGED <<sem, blocked, placing>>, placing => current' = current PROVE SleepsEmpty'
  BY <1>t, <1>u DEF SleepsEmpty
<1>k. ASSUME NEW s \in Servants, Take(s) PROVE SleepsEmpty'
  <2>1. sem' = [sem EXCEPT ![s] = 0] /\ blocked' = blocked /\ placing' = placing /\ ~suspended
    BY <1>k DEF Take, Running
  <2> QED BY <1>t, <2>1 DEF SleepsEmpty
<1>w. ASSUME NEW s \in Servants \cup {R}, WaitBegin(s) \/ WaitTest(s) \/ WaitEnd(s)
      PROVE  SleepsEmpty'
  <2>1. CASE WaitBegin(s)
    <3>1. UNCHANGED <<sem, blocked, current, placing>>
      BY <2>1 DEF WaitBegin, SuspendAll
    <3> QED BY <1>u, <3>1
  <2>2. CASE WaitTest(s)
    BY <1>t, <2>2 DEF WaitTest, SleepsEmpty
  <2>3. CASE WaitEnd(s)
    <3>1. /\ current = s /\ placing' = FALSE /\ sem' = sem
          /\ blocked' = IF placing THEN blocked \cup {s} ELSE blocked
      BY <2>3 DEF WaitEnd
    <3> QED BY <1>t, <3>1 DEF SleepsEmpty
  <2> QED BY <1>w, <2>1, <2>2, <2>3
<1>1. ASSUME NEW s \in Servants, SensorExec(s) \/ ServantExec(s) \/ HeapBegin(s) \/ DelayLET(s)
      PROVE  SleepsEmpty'
  <2>1. CASE SensorExec(s) \/ ServantExec(s)
    <3>1. current = s /\ pc[s] = "exec" /\ UNCHANGED <<sem, blocked, placing>>
      BY <2>1 DEF SensorExec, ServantExec, HeapEnd
    <3>2. ~placing
      BY <1>t, <3>1 DEF SchedInv, Waiting
    <3> QED BY <1>u, <3>1, <3>2
  <2>2. CASE HeapBegin(s) \/ DelayLET(s)
    <3>1. UNCHANGED <<sem, blocked, current, placing>>
      BY <2>2 DEF HeapBegin, DelayLET, SuspendAll, vars, schedVars
    <3> QED BY <1>u, <3>1
  <2> QED BY <1>1, <2>1, <2>2
<1>2. ASSUME NEW s \in Servants, SensorFirst(s) \/ SensorReceive(s) \/ ServantReceive(s)
      PROVE  SleepsEmpty'
  <2>1. Take(s)
    BY <1>2 DEF SensorFirst, SensorReceive, ServantReceive
  <2> QED BY <1>k, <2>1
<1>3. ASSUME NEW s \in Servants, Finish(s) PROVE SleepsEmpty'
  <2>1. Give({R}) /\ ~suspended
    BY <1>3 DEF Finish, Running
  <2> QED BY <1>g, <2>1
<1>4. ASSUME NEW s \in Servants, WaitForTrigger(s) PROVE SleepsEmpty'
  BY <1>4, <1>w DEF WaitForTrigger
<1>5. CASE RTake
  <2>1. /\ sem' = [sem EXCEPT ![R] = 0] /\ blocked' = blocked /\ placing' = placing
        /\ ~suspended
    BY <1>5 DEF RTake, Take, Running
  <2> QED BY <1>t, <2>1 DEF SleepsEmpty
<1>6. CASE RWait
  BY <1>6, <1>w DEF RWait
<1>7. CASE RTransit \/ RMatch \/ UNCHANGED vars
  <2>1. UNCHANGED <<sem, blocked, current, placing>>
    BY <1>7 DEF RTransit, RMatch, vars, schedVars
  <2> QED BY <1>u, <2>1
<1>8. CASE RFire
  <2>1. Give({moved.dst}) /\ ~suspended /\ moved.dst \in Servants
    BY <1>8 DEF RFire, TypeInv, MovedIsEvent, Event, Running
  <2> QED BY <1>g, <2>1
<1>9. CASE IdleYield
  <2>1. UNCHANGED <<sem, blocked, placing>> /\ ~placing
    BY <1>9, <1>t DEF IdleYield, Running
  <2> QED BY <1>u, <2>1
<1>10. CASE Tick
  <2>1. ~suspended
    BY <1>10, <1>t DEF Tick, NoTickMissed, CodeIsWaiting, Running
  <2> DEFINE S == (IF isInit /\ now' = FirstTick THEN Sensors ELSE {})
                    \cup (IF HookDue(now') THEN {R} ELSE {})
  <2>2. Give(S)
    BY <1>10 DEF Tick, TickHook
  <2>3. S \in SUBSET (Servants \cup {R})
    BY TablesAssumption
  <2> HIDE DEF S
  <2> QED BY <1>g, <2>1, <2>2, <2>3
<1> QED BY <1>1, <1>2, <1>3, <1>4, <1>5, <1>6, <1>7, <1>8, <1>9, <1>10 DEF Next, Job, RServant

(* Every step keeps it.                                                    *)
LEMMA WakeStep ==
  ASSUME NoTickMissed, \A t \in Tasks : HookCovers(t), IInv, WakeInv, [Next]_vars
  PROVE  WakeInv'
<1> USE DEF IInv
<1>t. TypeOK /\ now \in Nat /\ missed = 0 /\ now + missed = now
      /\ pc \in [Servants -> {"first", "take", "exec", "let"}] /\ start \in [Servants -> Nat]
      /\ R \notin Servants
  BY TablesAssumption DEF TypeInv, TypeOK, WakeInv
<1>s. SleepsEmpty'
  BY SleepsStep
<1>1. ASSUME NEW s \in Servants, SensorExec(s) \/ ServantExec(s) PROVE WakeInv'
  <2>1. ExecEffect(s)
    BY <1>1, <1>t, ExecFacts
  <2>2. PICK new \in SUBSET Event : Sends(s, new)
    BY <1>1, <1>t, ExecFacts
  <2>3. pc'[s] = "let" /\ start'[s] = now /\ now' = now /\ missed' = 0
        /\ \A u \in Servants : pc[u] # "let"
    BY <1>t, <2>1 DEF ExecEffect, SchedInv, OneAtATime
  <2>4. ~Asleep'
    BY <2>3 DEF Asleep
  <2>5. DueWhenSent'
    BY <2>2, <2>3 DEF DueWhenSent, WakeInv, Sends, TypeInv, TypeOK, Event
  <2> QED BY <1>s, <2>3, <2>4, <2>5 DEF WakeInv
<1>2. ASSUME NEW s \in Servants, SensorFirst(s) \/ SensorReceive(s) \/ ServantReceive(s)
      PROVE  WakeInv'
  <2>1. /\ pc[s] \in {"first", "take"} /\ pc' = [pc EXCEPT ![s] = "exec"]
        /\ UNCHANGED <<now, missed, start, eventList>>
    BY <1>2 DEF SensorFirst, SensorReceive, ServantReceive
  <2>2. ~Asleep'
    BY <1>t, <2>1 DEF Asleep
  <2>3. WakeQuiet
    BY <1>s, <1>t, <2>1, <2>2 DEF WakeQuiet
  <2> QED BY <2>3, WakeQuietStep
<1>3. ASSUME NEW s \in Servants, HeapBegin(s) \/ DelayLET(s) \/ WaitForTrigger(s)
      PROVE  WakeInv'
  <2>1. UNCHANGED <<now, missed, pc, rpc, sem, start, eventList>>
    BY <1>3, <1>t DEF HeapBegin, DelayLET, WaitForTrigger, SuspendAll, WaitBegin, WaitTest,
                       WaitEnd, ResumeAll
  <2>2. WakeQuiet
    BY <1>s, <1>t, <2>1 DEF WakeQuiet, Asleep
  <2> QED BY <2>2, WakeQuietStep
<1>4. ASSUME NEW s \in Servants, Finish(s) PROVE WakeInv'
  <2>1. /\ LetOver(s) /\ pc' = [pc EXCEPT ![s] = "take"] /\ Give({R})
        /\ UNCHANGED <<now, missed, start, eventList>>
    BY <1>4 DEF Finish
  <2>2. sem'[R] = 1
    BY <1>t, <2>1, GiveFacts
  <2>3. ~Asleep'
    BY <2>2 DEF Asleep
  <2>4. WakeQuiet
    BY <1>s, <1>t, <2>1, <2>3 DEF WakeQuiet, LetOver
  <2> QED BY <2>4, WakeQuietStep
<1>5. CASE RTake \/ RMatch
  <2>1. rpc' # "take" /\ UNCHANGED <<now, missed, pc, start, eventList>>
    BY <1>5 DEF RTake, RMatch
  <2>2. WakeQuiet
    BY <1>s, <1>t, <2>1 DEF WakeQuiet, Asleep
  <2> QED BY <2>2, WakeQuietStep
<1>6. CASE RWait \/ IdleYield \/ UNCHANGED vars
  <2>1. UNCHANGED <<now, missed, pc, rpc, sem, start, eventList>>
    BY <1>6, <1>t DEF RWait, IdleYield, SuspendAll, WaitBegin, WaitTest, WaitEnd, ResumeAll
  <2>2. WakeQuiet
    BY <1>s, <1>t, <2>1 DEF WakeQuiet, Asleep
  <2> QED BY <2>2, WakeQuietStep
<1>7. CASE RTransit
  <2>1. UNCHANGED <<now, missed, pc, start>>
    BY <1>7 DEF RTransit
  <2>2. CASE \E e \in eventList : Transit(e) /\ rpc' = "match"
    <3>1. eventList' \subseteq eventList /\ ~Asleep'
      BY <2>2 DEF Transit, Asleep
    <3> QED BY <1>s, <1>t, <2>1, <3>1, WakeQuietStep DEF WakeQuiet
  <2>3. CASE NothingDue /\ UNCHANGED <<eventList, readyList>>
    BY <1>s, <1>t, <2>1, <2>3, WakeQuietStep DEF WakeQuiet
  <2> QED BY <1>7, <2>2, <2>3 DEF RTransit
<1>8. CASE RFire
  <2>1. Give({moved.dst}) /\ moved.dst \in Servants
        /\ UNCHANGED <<now, missed, pc, start, eventList>>
    BY <1>8 DEF RFire, TypeInv, MovedIsEvent, Event
  <2>2. sem'[moved.dst] = 1
    BY <1>t, <2>1, GiveFacts
  <2>3. ~Asleep'
    BY <2>1, <2>2 DEF Asleep
  <2>4. WakeQuiet
    BY <1>s, <1>t, <2>1, <2>3 DEF WakeQuiet
  <2> QED BY <2>4, WakeQuietStep
<1>9. CASE Tick
  <2>1. ~suspended
    BY <1>9, <1>t DEF Tick, NoTickMissed, CodeIsWaiting, Running
  <2>2. now' = now + 1 /\ missed' = 0 /\ TickHook(now')
        /\ UNCHANGED <<pc, rpc, start, eventList>>
    BY <1>9, <1>t, <2>1 DEF Tick
  <2>3. now' \in Nat /\ now' >= now
    BY <1>t, <2>2
  <2>4. DueWhenSent'
    BY <2>2, <2>3, StaysDue DEF WakeInv
  <2>5. Asleep' => NothingDue'
    BY <2>2, TickWakes
  <2> QED BY <1>s, <2>2, <2>4, <2>5 DEF WakeInv
<1> QED BY <1>1, <1>2, <1>3, <1>4, <1>5, <1>6, <1>7, <1>8, <1>9 DEF Next, Job, RServant

(* It holds at the start, ...                                              *)
LEMMA WakeInit == Init => WakeInv
BY DEF Init, WakeInv, DueWhenSent, NothingDue, SleepsEmpty

(* ... and always.                                                         *)
LEMMA WakeInvariant ==
  ASSUME NoTickMissed, \A t \in Tasks : HookCovers(t)
  PROVE  Spec => [](IInv /\ WakeInv)
<1>1. Init => WakeInv
  BY WakeInit
<1>2. IInv /\ WakeInv /\ [Next]_vars => WakeInv'
  BY WakeStep
<1> QED BY <1>1, <1>2, Invariant, PTL DEF Spec

(* No wake-up of the R-Servant is lost: as long as no tick is missed and   *)
(* the hook tests a divisor of every task's period, nobody waits while the *)
(* first event of the list is due, although gives to the binary semaphore  *)
(* merge (main.c:164-175, servant.c:368, 435).                             *)
THEOREM NoWakeupLost ==
  ASSUME NoTickMissed, \A t \in Tasks : HookCovers(t)
  PROVE  Spec => []NoLostWakeup
<1>1. IInv /\ WakeInv => NoLostWakeup
  BY DEF IInv, SchedInv, Waiting, WakeInv, SleepsEmpty, Asleep, NoLostWakeup
<1> QED BY <1>1, WakeInvariant, PTL

-----------------------------------------------------------------------------
(* Deadlines are met.                                                      *)

(* What follows from the tables being schedulable.                         *)
LEMMA ScheduleFacts ==
  ASSUME NEW p, Schedulable(p)
  PROVE  /\ NoTickMissed /\ SlowTicks = {} /\ \A t \in Tasks : HookCovers(t)
         /\ p \in Nat \ {0} /\ Multiple(p, FirstTick) /\ FirstTick \in Nat
         /\ \A s \in Servants : /\ Period[TaskOf[s]] \in Nat \ {0}
                                /\ Multiple(p, Period[TaskOf[s]])
                                /\ FirstTick < 3 * Period[TaskOf[s]]
         /\ \A S \in SUBSET Servants : Load(S) \in Nat /\ Load(S) <= p
         /\ \A S \in SUBSET Servants : Load(S) = p => S = Servants
<1>1. p \in Nat \ {0} /\ FirstTick \in Nat
  BY ClockAssumption DEF Schedulable
<1>2. \A t \in Tasks : HookCovers(t)
  BY DEF HookCovers, Schedulable
<1>3. \A s \in Servants : /\ Period[TaskOf[s]] \in Nat \ {0}
                          /\ Multiple(p, Period[TaskOf[s]])
                          /\ FirstTick < 3 * Period[TaskOf[s]]
  BY TablesAssumption DEF Schedulable
<1>4. ASSUME NEW S \in SUBSET Servants
      PROVE  Load(S) \in Nat /\ Load(S) <= p /\ (Load(S) = p => S = Servants)
  <2>1. Load(Servants) \in Nat /\ Load(Servants) <= p
    BY LoadFacts DEF Schedulable
  <2>2. /\ Load(S) \in Nat /\ Load(S) <= Load(Servants)
        /\ Load(S) = Load(Servants) => S = Servants
    BY LoadFacts
  <2> QED BY <1>1, <2>1, <2>2
<1> QED BY <1>1, <1>2, <1>3, <1>4 DEF Schedulable, NoTickMissed

(* What the frame says of a multiple of p.                                 *)
LEMMA FrameBounds ==
  ASSUME NEW p \in Nat \ {0}, now \in Nat, NEW a \in Nat, Multiple(p, a)
  PROVE  /\ a > now => a >= Frame(p) + p
         /\ a <= now => a <= Frame(p)
         /\ a <= now /\ now < a + p => a = Frame(p)
<1>1. /\ Frame(p) \in Nat /\ Multiple(p, Frame(p)) /\ Frame(p) <= now /\ now < Frame(p) + p
  BY FrameFacts
<1>2. \A x, y \in Nat : Multiple(p, x) /\ Multiple(p, y) /\ x < y => x + p <= y
  BY MultipleFacts
<1>3. Frame(p) < a => Frame(p) + p <= a
  BY <1>1, <1>2
<1>4. a < Frame(p) => a + p <= Frame(p)
  BY <1>1, <1>2
<1> HIDE DEF Frame
<1> QED BY <1>1, <1>3, <1>4

(* Round deadlines after a sensor's job.                                   *)
LEMMA NextDeadline ==
  ASSUME NEW p, Schedulable(p), IInv, TimeInv(p), NEW x \in Sensors, pc[x] = "exec"
  PROVE  LET next == (count[x] + 1) * Period[TaskOf[x]]
         IN  /\ next \in Nat /\ Multiple(p, next) /\ next >= Frame(p) + p
             /\ x \notin Done(p) /\ deadline[x] <= now
<1> USE DEF IInv
<1> DEFINE P == Period[TaskOf[x]]
           next == (count[x] + 1) * P
<1>1. /\ p \in Nat \ {0} /\ Multiple(p, FirstTick) /\ FirstTick \in Nat
      /\ P \in Nat \ {0} /\ Multiple(p, P) /\ FirstTick < 3 * P
      /\ x \in Servants /\ Let[x] \in Nat \ {0}
  BY ScheduleFacts, TablesAssumption
<1>2. count[x] \in Nat /\ count[x] >= 2 /\ now \in Nat /\ start[x] \in Nat
      /\ deadline[x] = IF count[x] = 2 THEN 0 ELSE count[x] * P
  BY <1>1 DEF TypeInv, TypeOK, RoundInv, Deadlines
<1>3. /\ Frame(p) \in Nat /\ Multiple(p, Frame(p)) /\ Frame(p) <= now /\ now < Frame(p) + p
  BY <1>1, <1>2, FrameFacts
<1> HIDE DEF P
<1>4. /\ \A a, b \in Nat : Multiple(p, a) /\ Multiple(p, b) /\ a < b => a + p <= b
      /\ \A a, c \in Nat : Multiple(p, a) => Multiple(p, c * a)
  BY <1>1, MultipleFacts
<1>5. next \in Nat /\ Multiple(p, next)
  <2>1. count[x] + 1 \in Nat
    BY <1>2
  <2>2. next \in Nat
    BY <1>1, <2>1
  <2> QED BY <1>1, <1>4, <2>1, <2>2
<1>6. CASE count[x] = 2
  <2>1. deadline[x] = 0 /\ next = 3 * P
    BY <1>2, <1>6
  <2>2. ~isInit
    <3>1. pc[x] # "first"
      OBVIOUS
    <3> QED BY <1>1, <3>1 DEF SchedInv, Startup
  <2>3. now < FirstTick + p
    BY <2>1, <2>2 DEF TimeInv, BeginsInTime
  <2>4. FirstTick + p <= next
    BY <1>1, <1>4, <1>5, <2>1
  <2>5. Frame(p) < next
    BY <1>1, <1>2, <1>3, <1>5, <2>3, <2>4
  <2>6. Frame(p) + p <= next
    BY <1>3, <1>4, <1>5, <2>5
  <2> QED BY <1>2, <1>3, <1>5, <2>1, <2>6 DEF Done, P
<1>7. CASE count[x] # 2
  <2>1. deadline[x] = count[x] * P /\ next = count[x] * P + P /\ count[x] * P \in Nat
    BY <1>1, <1>2, <1>7
  <2>2. deadline[x] # 0
    <3>1. count[x] \in Nat \ {0}
      BY <1>2
    <3>2. count[x] * P # 0
      BY <1>1, <3>1, NoZeroProduct, ZenonT(30)
    <3> QED BY <2>1, <3>2
  <2>3. now >= deadline[x]
    BY <2>2 DEF RoundInv, RoundDone
  <2>4. now < deadline[x] + p
    BY <2>2 DEF TimeInv, BeginsInTime
  <2>5. Multiple(p, deadline[x]) /\ start[x] + Let[x] <= deadline[x]
    BY <1>1, <2>2 DEF TimeInv, JobsFit
  <2>6. deadline[x] \in Nat
    BY <2>1
  <2>7. deadline[x] = Frame(p)
    BY <1>1, <1>2, <2>3, <2>4, <2>5, <2>6, FrameBounds
  <2>8. Frame(p) < next
    BY <1>1, <1>3, <2>1, <2>7
  <2>9. Frame(p) + p <= next
    BY <1>3, <1>4, <1>5, <2>8
  <2>10. start[x] < Frame(p)
    BY <1>1, <1>2, <1>3, <2>5, <2>7
  <2>11. x \notin Done(p)
    BY <1>2, <1>3, <2>10 DEF Done
  <2> QED BY <1>5, <2>3, <2>9, <2>11 DEF P
<1> QED BY <1>6, <1>7

(* Another servant runs for a deadline that is not in its frame.           *)
LEMMA RoundDeadline ==
  ASSUME NEW p, Schedulable(p), IInv, TimeInv(p), NEW s \in Servants \ Sensors, pc[s] = "exec"
  PROVE  LET next == deadline[SensorOf(s)]
         IN  /\ next \in Nat /\ Multiple(p, next) /\ next >= Frame(p) + p /\ next # 0
             /\ s \notin Done(p)
<1> USE DEF IInv
<1>r. RestInv
  BY DEF RestInv
<1> DEFINE next == deadline[SensorOf(s)]
<1>1. p \in Nat \ {0} /\ SensorOf(s) \in Servants
  BY ScheduleFacts, SensorFacts
<1>2. now \in Nat /\ start[s] \in Nat /\ deadline[s] \in Nat /\ next \in Nat
      /\ Let[s] \in Nat \ {0}
  BY <1>1, TablesAssumption DEF TypeInv, TypeOK
<1>3. ~Ran(s) /\ next # 0
  BY <1>r, BeforeCreate
<1>4. next > now /\ (deadline[s] # 0 => deadline[s] <= now)
  BY <1>3 DEF TimeInv, TimeToRun
<1>5. Multiple(p, next) /\ Multiple(p, deadline[s])
      /\ (deadline[s] # 0 => start[s] + Let[s] <= deadline[s])
  BY <1>1 DEF TimeInv, JobsFit
<1> HIDE DEF next
<1>6. next >= Frame(p) + p
  BY <1>1, <1>2, <1>4, <1>5, FrameBounds
<1>7. s \notin Done(p)
  <2>1. Frame(p) \in Nat
    BY <1>1, <1>2, FrameFacts
  <2>2. deadline[s] # 0 => deadline[s] <= Frame(p)
    BY <1>1, <1>2, <1>4, <1>5, FrameBounds
  <2> QED BY <1>2, <1>5, <2>1, <2>2 DEF Done
<1> QED BY <1>2, <1>3, <1>5, <1>6, <1>7 DEF next

(* A job that begins ends in its frame, hence before the deadline.         *)
LEMMA ExecTime ==
  ASSUME NEW p, Schedulable(p), IInv, WakeInv, TimeInv(p),
         NEW s \in Servants, SensorExec(s) \/ ServantExec(s)
  PROVE  TimeInv(p)'
<1> USE DEF IInv
<1> DEFINE D == IF s \in Sensors THEN (count[s] + 1) * Period[TaskOf[s]]
                                 ELSE deadline[SensorOf(s)]
<1>e. ExecEffect(s)
  BY ExecFacts DEF WakeInv
<1>1. /\ pc[s] = "exec" /\ current = s /\ current' = s
      /\ pc' = [pc EXCEPT ![s] = "let"] /\ start' = [start EXCEPT ![s] = now]
      /\ deadline' = [deadline EXCEPT ![s] = D]
      /\ UNCHANGED <<now, missed, isInit, sem, blocked, flag, moved, rpc>>
  BY <1>e DEF ExecEffect
<1>2. /\ p \in Nat \ {0} /\ Let[s] \in Nat \ {0}
      /\ now \in Nat /\ deadline \in [Servants -> Nat] /\ start \in [Servants -> Nat]
      /\ pc \in [Servants -> {"first", "take", "exec", "let"}]
      /\ Sensors \subseteq Servants /\ Idle \notin Servants
  BY ScheduleFacts, TablesAssumption DEF TypeInv, TypeOK
<1>3. /\ D \in Nat /\ Multiple(p, D) /\ D >= Frame(p) + p /\ D # 0
      /\ s \notin Done(p) /\ (s \in Sensors => deadline[s] <= now)
  <2>1. CASE s \in Sensors
    <3>1. /\ D \in Nat /\ Multiple(p, D) /\ D >= Frame(p) + p
          /\ s \notin Done(p) /\ deadline[s] <= now
      BY <1>1, <2>1, NextDeadline
    <3>2. Frame(p) \in Nat
      BY <1>2, FrameFacts
    <3> HIDE DEF D
    <3> QED BY <1>2, <3>1, <3>2
  <2>2. CASE s \notin Sensors
    BY <1>1, <2>2, RoundDeadline
  <2> QED BY <2>1, <2>2
<1> HIDE DEF D
<1>4. Frame(p) \in Nat /\ Frame(p) <= now /\ now < Frame(p) + p /\ Frame(p)' = Frame(p)
  BY <1>1, <1>2, FrameFacts DEF Frame
<1>5. /\ \A u \in Servants : u # s => deadline'[u] = deadline[u] /\ start'[u] = start[u]
                                      /\ pc'[u] = pc[u] /\ pc[u] \notin {"exec", "let"}
      /\ deadline'[s] = D /\ start'[s] = now /\ pc'[s] = "let"
  BY <1>1, <1>2 DEF SchedInv, OneAtATime
<1>6. Done(p)' = Done(p) \cup {s}
  BY <1>3, <1>4, <1>5 DEF Done
<1>7. Done(p) \in SUBSET Servants /\ Done(p)' \in SUBSET Servants
  BY <1>6 DEF Done
<1>8. Load(Done(p)) \in Nat /\ Load(Done(p)') \in Nat /\ Load(Done(p)') <= p
      /\ Load(Done(p)') = Load(Done(p)) + Let[s]
  <2>1. Load(Done(p) \cup {s}) = Load(Done(p)) + Let[s]
    BY <1>3, <1>7, LoadAdds
  <2> QED BY <1>6, <1>7, <2>1, ScheduleFacts
<1>9. now <= Frame(p) + Load(Done(p))
  <2>1. Busy /\ \A u \in Servants : pc[u] # "let"
    BY <1>1, <1>5 DEF Busy
  <2> QED BY <2>1 DEF TimeInv, WorkConserved
<1> DEFINE L == Load(Done(p))
           f == Frame(p)
<1>10. now + Let[s] <= f + Load(Done(p)') /\ now + Let[s] <= D /\ D > now
  <2>1. L \in Nat /\ f \in Nat /\ now <= f + L /\ L + Let[s] <= p /\ Load(Done(p)') = L + Let[s]
        /\ D >= f + p /\ now < f + p
    BY <1>3, <1>4, <1>8, <1>9
  <2> HIDE DEF L, f
  <2> QED BY <1>2, <1>3, <2>1
<1>11. JobsFit(p)'
  BY <1>3, <1>5, <1>10 DEF TimeInv, JobsFit
<1>12. TimeToRun'
  <2> SUFFICES ASSUME NEW u \in Servants, ~Ran(u)'
               PROVE  /\ deadline'[u] # 0 => deadline'[u] <= now'
                      /\ deadline'[SensorOf(u)] # 0 => deadline'[SensorOf(u)] > now'
    BY DEF TimeToRun
  <2>1. SensorOf(u) \in Servants /\ SensorOf(u) \in Sensors
    BY SensorFacts
  <2>2. CASE s \in Sensors /\ SensorOf(u) = s
    <3>1. u # s
      BY <1>3, <1>5, <2>2 DEF Ran
    <3>2. deadline'[u] = deadline[u] /\ deadline[u] <= deadline[s]
      BY <1>5, <2>2, <3>1 DEF RoundInv, Deadlines
    <3> QED BY <1>1, <1>2, <1>3, <1>5, <1>10, <2>2, <3>2
  <2>3. CASE s \notin Sensors
    <3>1. u # s
      <4>1. SensorOf(s) # s
        BY <2>3, SensorFacts
      <4> QED BY <1>3, <1>5, <2>1, <2>3, <4>1 DEF Ran, D
    <3>2. SensorOf(u) # s
      BY <2>1, <2>3
    <3>3. ~Ran(u)
      BY <1>5, <2>1, <3>1, <3>2 DEF Ran
    <3> QED BY <1>1, <1>5, <2>1, <3>1, <3>2, <3>3 DEF TimeInv, TimeToRun
  <2>4. CASE s \in Sensors /\ SensorOf(u) # s
    <3>1. u # s
      BY <2>4, SensorFacts
    <3>2. ~Ran(u)
      BY <1>5, <2>1, <2>4, <3>1 DEF Ran
    <3> QED BY <1>1, <1>5, <2>1, <2>4, <3>1, <3>2 DEF TimeInv, TimeToRun
  <2> QED BY <2>2, <2>3, <2>4
<1>13. BeginsInTime(p)'
  <2> SUFFICES ASSUME NEW x \in Sensors
               PROVE  IF deadline'[x] # 0 THEN now' < deadline'[x] + p
                      ELSE pc'[x] \in {"first", "exec"} /\ (isInit' \/ now' < FirstTick + p)
    BY DEF BeginsInTime
  <2>1. CASE x = s
    BY <1>1, <1>2, <1>3, <1>5, <1>10, <2>1
  <2>2. CASE x # s
    BY <1>1, <1>2, <1>5, <2>2 DEF TimeInv, BeginsInTime
  <2> QED BY <2>1, <2>2
<1>14. FiresAtOnce'
  BY <1>1 DEF TimeInv, FiresAtOnce
<1>15. InLet'
  BY <1>1, <1>2, <1>3, <1>5 DEF InLet
<1>16. WorkConserved(p)'
  BY <1>4, <1>5, <1>10 DEF WorkConserved
<1>17. IdleWaits'
  BY <1>1, <1>2 DEF IdleWaits
<1> QED BY <1>11, <1>12, <1>13, <1>14, <1>15, <1>16, <1>17 DEF TimeInv

(* A step in no time that starts no job and makes no work.                 *)
TimeQuiet ==
  /\ UNCHANGED <<now, isInit, deadline, start>>
  /\ \A s \in Servants : pc'[s] = "let" => pc[s] = "let"
  /\ Busy' => Busy \/ \E s \in Servants : pc[s] = "let"
  /\ \A x \in Sensors : deadline[x] = 0 /\ pc[x] \in {"first", "exec"} => pc'[x] \in {"first", "exec"}
  /\ FiresAtOnce' /\ IdleWaits'

(* Such a step keeps what is said about time.                              *)
LEMMA TimeQuietStep ==
  ASSUME NEW p, Schedulable(p), IInv, TimeInv(p), TimeQuiet
  PROVE  TimeInv(p)'
<1>1. /\ p \in Nat \ {0} /\ now \in Nat /\ start \in [Servants -> Nat]
      /\ Let \in [Servants -> Nat]
  BY ScheduleFacts, TablesAssumption DEF IInv, TypeInv, TypeOK
<1>2. Frame(p)' = Frame(p) /\ Done(p)' = Done(p)
  BY DEF TimeQuiet, Frame, Done
<1>3. JobsFit(p)' /\ InLet'
  BY DEF TimeQuiet, TimeInv, JobsFit, InLet
<1>4. TimeToRun'
  BY DEF TimeQuiet, TimeInv, TimeToRun, Ran
<1>5. BeginsInTime(p)'
  BY DEF TimeQuiet, TimeInv, BeginsInTime
<1>6. ASSUME Busy', \A s \in Servants : pc'[s] # "let"
      PROVE  now <= Frame(p) + Load(Done(p))
  <2>1. CASE \E s \in Servants : pc[s] = "let"
    <3>1. PICK s \in Servants : pc[s] = "let"
      BY <2>1
    <3>2. now <= start[s] + Let[s] /\ start[s] + Let[s] <= Frame(p) + Load(Done(p))
      BY <3>1 DEF TimeInv, InLet, WorkConserved
    <3>3. Frame(p) \in Nat /\ Load(Done(p)) \in Nat
      <4>1. Done(p) \in SUBSET Servants
        BY DEF Done
      <4> QED BY <1>1, <4>1, FrameFacts, ScheduleFacts
    <3>4. start[s] \in Nat /\ Let[s] \in Nat
      BY <1>1
    <3> HIDE DEF Frame, Load
    <3> QED BY <1>1, <3>2, <3>3, <3>4
  <2>2. CASE \A s \in Servants : pc[s] # "let"
    BY <1>6, <2>2 DEF TimeQuiet, TimeInv, WorkConserved
  <2> QED BY <2>1, <2>2
<1>7. \A s \in Servants : pc'[s] = "let" => start'[s] + Let[s] <= Frame(p) + Load(Done(p))
  BY DEF TimeQuiet, TimeInv, WorkConserved
<1>8. WorkConserved(p)'
  <2>1. now' = now /\ Load(Done(p)') = Load(Done(p))
    BY <1>2 DEF TimeQuiet
  <2> QED BY <1>2, <1>6, <1>7, <2>1 DEF WorkConserved
<1> QED BY <1>3, <1>4, <1>5, <1>8 DEF TimeQuiet, TimeInv

(* A switch of tasks goes to the idle task only when all others wait.      *)
LEMMA SwitchIdle ==
  ASSUME NEW W \in SUBSET (Servants \cup {R}), SwitchContext(W), current' = Idle
  PROVE  Servants \cup {R} \subseteq W
<1>1. Idle \notin W
  BY TablesAssumption
<1> QED BY <1>1, SwitchFacts

(* ... nor does a give, unless all others wait.                            *)
LEMMA GiveIdle ==
  ASSUME TypeOK, IdleWaits, ~suspended, NEW S \in SUBSET (Servants \cup {R}), Give(S)
  PROVE  IdleWaits'
<1> SUFFICES ASSUME current' = Idle PROVE Servants \cup {R} \subseteq blocked'
  BY DEF IdleWaits
<1> DEFINE yield == \E t \in Woken(S) : Prio(t) >= Prio(current)
<1>1. /\ blocked' = blocked \ Woken(S)
      /\ yield => SwitchContext(blocked')
      /\ ~yield => current' = current
  BY GiveFacts
<1>2. /\ blocked \in SUBSET (Servants \cup {R}) /\ blocked' \in SUBSET (Servants \cup {R})
      /\ Woken(S) \subseteq blocked
  BY <1>1 DEF TypeOK, Woken
<1>3. CASE yield
  BY <1>1, <1>2, <1>3, SwitchIdle
<1>4. CASE ~yield
  <2>1. current = Idle /\ Servants \cup {R} \subseteq blocked
    BY <1>1, <1>4 DEF IdleWaits
  <2>2. \A t \in Woken(S) : Prio(t) >= Prio(current)
    BY <1>2, <2>1, PrioFacts
  <2>3. Woken(S) = {}
    BY <1>4, <2>2
  <2> QED BY <1>1, <2>1, <2>3
<1> QED BY <1>3, <1>4

(* Every step but a job and a tick is of this kind.                        *)
LEMMA TimeStepQuiet ==
  ASSUME IInv, WakeInv, FiresAtOnce, IdleWaits, [Next]_vars, ~Tick,
         \A x \in Sensors : deadline[x] = 0 => pc[x] \in {"first", "exec"},
         \A s \in Servants : ~SensorExec(s) /\ ~ServantExec(s)
  PROVE  TimeQuiet
<1> USE DEF IInv
<1>t. TypeOK /\ now \in Nat /\ missed = 0 /\ now + missed = now
      /\ pc \in [Servants -> {"first", "take", "exec", "let"}]
      /\ sem \in [Servants \cup {R} -> {0, 1}] /\ blocked \in SUBSET (Servants \cup {R})
      /\ R \notin Servants /\ Sensors \subseteq Servants /\ Idle \notin Servants /\ R # Idle
  BY TablesAssumption DEF TypeInv, TypeOK, WakeInv
<1>2. ASSUME NEW s \in Servants, SensorFirst(s) \/ SensorReceive(s) \/ ServantReceive(s)
      PROVE  TimeQuiet
  <2>1. /\ pc[s] \in {"first", "take"} /\ pc' = [pc EXCEPT ![s] = "exec"] /\ Take(s)
        /\ UNCHANGED <<now, isInit, deadline, start, eventList, flag, moved, rpc>>
    BY <1>2 DEF SensorFirst, SensorReceive, ServantReceive
  <2>2. sem[s] = 1 /\ current = s /\ current' = s
    BY <2>1 DEF Take, Running
  <2>3. Busy
    BY <2>2 DEF Busy
  <2>4. FiresAtOnce' /\ IdleWaits'
    BY <1>t, <2>1, <2>2 DEF FiresAtOnce, IdleWaits
  <2> QED BY <1>t, <2>1, <2>3, <2>4 DEF TimeQuiet
<1>3. ASSUME NEW s \in Servants, HeapBegin(s) \/ DelayLET(s) \/ WaitForTrigger(s)
      PROVE  TimeQuiet
  <2>1. UNCHANGED <<now, isInit, deadline, start, pc, rpc, sem, eventList, flag, moved>>
    BY <1>3, <1>t DEF HeapBegin, DelayLET, WaitForTrigger, SuspendAll, WaitBegin, WaitTest,
                       WaitEnd, ResumeAll
  <2>2. Busy' => Busy
    BY <2>1 DEF Busy, NothingDue
  <2>3. IdleWaits'
    <3>1. CASE HeapBegin(s) \/ DelayLET(s) \/ WaitBegin(s) \/ WaitTest(s)
      BY <3>1 DEF HeapBegin, DelayLET, WaitBegin, WaitTest, SuspendAll, IdleWaits
    <3>2. CASE WaitEnd(s)
      <4>1. blocked' \in SUBSET (Servants \cup {R})
        BY <1>t, <3>2 DEF WaitEnd
      <4>2. current = s /\ (SwitchContext(blocked') \/ current' = current)
        BY <3>2 DEF WaitEnd, ResumeAll
      <4> QED BY <1>t, <4>1, <4>2, SwitchIdle DEF IdleWaits
    <3> QED BY <1>3, <3>1, <3>2 DEF WaitForTrigger
  <2> QED BY <2>1, <2>2, <2>3 DEF TimeQuiet, FiresAtOnce
<1>4. ASSUME NEW s \in Servants, Finish(s) PROVE TimeQuiet
  <2>1. /\ pc[s] = "let" /\ pc' = [pc EXCEPT ![s] = "take"] /\ Give({R}) /\ ~suspended
        /\ UNCHANGED <<now, isInit, deadline, start, eventList, flag, moved, rpc>>
    BY <1>4 DEF Finish, Running
  <2>2. IdleWaits'
    BY <1>t, <2>1, GiveIdle
  <2>3. \A x \in Sensors : deadline[x] = 0 /\ pc[x] \in {"first", "exec"} => pc'[x] \in {"first", "exec"}
    BY <1>t, <2>1
  <2> QED BY <1>t, <2>1, <2>2, <2>3 DEF TimeQuiet, FiresAtOnce
<1>5. CASE RTake
  <2>1. /\ rpc = "take" /\ rpc' = "transit"
        /\ UNCHANGED <<now, isInit, deadline, start, pc, eventList, flag, moved, blocked, current>>
        /\ sem' = [sem EXCEPT ![R] = 0]
    BY <1>5 DEF RTake, Take
  <2>2. Busy' => Busy
    BY <1>t, <2>1 DEF Busy, NothingDue
  <2> QED BY <2>1, <2>2 DEF TimeQuiet, FiresAtOnce, IdleWaits
<1>6. CASE RWait \/ IdleYield \/ UNCHANGED vars
  <2>1. UNCHANGED <<now, isInit, deadline, start, pc, rpc, sem, eventList, flag, moved>>
    BY <1>6, <1>t DEF RWait, IdleYield, SuspendAll, WaitBegin, WaitTest, WaitEnd, ResumeAll
  <2>2. Busy' => Busy
    BY <2>1 DEF Busy, NothingDue
  <2>3. IdleWaits'
    <3>1. CASE WaitBegin(R) \/ WaitTest(R) \/ UNCHANGED vars
      BY <3>1 DEF WaitBegin, WaitTest, SuspendAll, IdleWaits
    <3>2. CASE WaitEnd(R)
      <4>1. blocked' \in SUBSET (Servants \cup {R})
        BY <1>t, <3>2 DEF WaitEnd
      <4>2. current = R /\ (SwitchContext(blocked') \/ current' = current)
        BY <3>2 DEF WaitEnd, ResumeAll
      <4> QED BY <1>t, <4>1, <4>2, SwitchIdle DEF IdleWaits
    <3>3. CASE IdleYield
      <4>1. SwitchContext(blocked) /\ blocked' = blocked
        BY <3>3 DEF IdleYield
      <4> QED BY <1>t, <4>1, SwitchIdle DEF IdleWaits
    <3> QED BY <1>6, <3>1, <3>2, <3>3 DEF RWait
  <2> QED BY <2>1, <2>2, <2>3 DEF TimeQuiet, FiresAtOnce
<1>7. CASE RTransit
  <2>1. /\ rpc = "transit"
        /\ UNCHANGED <<now, isInit, deadline, start, pc, flag, blocked, current, sem>>
    BY <1>7 DEF RTransit
  <2>2. Busy' => Busy
    <3>1. CASE \E e \in eventList : Transit(e)
      <4>1. now \in Nat /\ \A e \in eventList : e.xTime \in Nat
        BY DEF TypeInv, TypeOK, Event
      <4>2. ~NothingDue
        BY <3>1, <4>1 DEF Transit, NothingDue
      <4> QED BY <4>2 DEF Busy
    <3>2. CASE NothingDue /\ rpc' = "take" /\ UNCHANGED <<eventList, readyList>>
      BY <2>1, <3>2 DEF Busy, NothingDue
    <3> QED BY <1>7, <3>1, <3>2 DEF RTransit
  <2>3. FiresAtOnce'
    BY <2>1 DEF FiresAtOnce
  <2> QED BY <2>1, <2>2, <2>3 DEF TimeQuiet, IdleWaits
<1>8. CASE RMatch
  <2> DEFINE r == <<moved.src, moved.dst>>
             missing == {q \in Relations : q[2] = r[2] /\ q # r /\ flag[q] = 1}
  <2>1. /\ rpc = "match"
        /\ UNCHANGED <<now, isInit, deadline, start, pc, blocked, current, sem, moved, eventList>>
        /\ rpc' = IF missing = {} THEN "fire" ELSE "transit"
        /\ flag' = flag \/ flag' = [flag EXCEPT ![r] = 2]
    BY <1>8 DEF RMatch
  <2>2. flag \in [Relations -> {1, 2}]
    BY DEF TypeInv, TypeOK
  <2>3. FiresAtOnce'
    <3> SUFFICES ASSUME NEW d \in Servants, \A q \in Inputs(d) : flag'[<<q, d>>] = 2
                 PROVE  rpc' = "fire" /\ moved'.dst = d
      BY DEF FiresAtOnce
    <3>1. \A q \in Inputs(d) : <<q, d>> \in Relations
      BY InputFacts
    <3>2. CASE d = moved.dst
      <4>1. ASSUME NEW q \in missing PROVE FALSE
        <5>1. q = <<q[1], d>> /\ q[1] \in Inputs(d)
          BY <3>2, RelationFacts
        <5>2. flag'[q] = 2
          BY <5>1
        <5> QED BY <2>1, <2>2, <5>2
      <4>2. missing = {}
        BY <4>1
      <4> QED BY <2>1, <3>2, <4>2
    <3>3. CASE d # moved.dst
      <4>1. \A q \in Inputs(d) : flag[<<q, d>>] = 2
        BY <2>1, <2>2, <3>1, <3>3
      <4> QED BY <2>1, <4>1 DEF FiresAtOnce
    <3> QED BY <3>2, <3>3
  <2>4. Busy
    BY <2>1 DEF Busy
  <2> HIDE DEF r, missing
  <2> QED BY <2>1, <2>3, <2>4 DEF TimeQuiet, IdleWaits
<1>9. CASE RFire
  <2>1. /\ rpc = "fire" /\ ~suspended /\ Give({moved.dst}) /\ moved.dst \in Servants
        /\ flag' = [r \in Relations |-> IF r[2] = moved.dst THEN 1 ELSE flag[r]]
        /\ UNCHANGED <<now, isInit, deadline, start, pc, moved, eventList>>
    BY <1>9 DEF RFire, TypeInv, MovedIsEvent, Event, Running
  <2>2. IdleWaits'
    BY <1>t, <2>1, GiveIdle
  <2>3. FiresAtOnce'
    <3> SUFFICES ASSUME NEW d \in Servants, \A q \in Inputs(d) : flag'[<<q, d>>] = 2
                 PROVE  FALSE
      BY DEF FiresAtOnce
    <3>1. Inputs(d) # {} /\ \A q \in Inputs(d) : <<q, d>> \in Relations
      BY InputFacts
    <3>2. ASSUME d = moved.dst PROVE FALSE
      <4>1. PICK q \in Inputs(d) : <<q, d>> \in Relations
        BY <3>1
      <4>2. flag'[<<q, d>>] = 1
        BY <2>1, <3>2, <4>1
      <4> QED BY <4>1, <4>2
    <3>3. \A q \in Inputs(d) : flag[<<q, d>>] = 2
      BY <2>1, <3>1, <3>2
    <3> QED BY <3>2, <3>3 DEF FiresAtOnce
  <2>4. Busy
    BY <2>1 DEF Busy
  <2> QED BY <2>1, <2>2, <2>3, <2>4 DEF TimeQuiet
<1> QED BY <1>2, <1>3, <1>4, <1>5, <1>6, <1>7, <1>8, <1>9 DEF Next, Job, RServant

(* A set of numbers has a least one.                                       *)
LEMMA LeastOf ==
  ASSUME NEW I \in SUBSET Nat, I # {}
  PROVE  \E i \in I : \A j \in I : i <= j
<1> DEFINE L == OpToRel(<, Nat)
<1>1. \A x, y \in I : <<y, x>> \in L <=> y < x
  BY DEF OpToRel
<1>2. IsWellFoundedOn(L, Nat)
  BY NatLessThanWellFounded
<1> HIDE DEF L
<1>3. \E x \in I : \A y \in I : ~(<<y, x>> \in L)
  BY <1>2, WFMin
<1>4. \A x, y \in I : ~(y < x) => x <= y
  OBVIOUS
<1> QED BY <1>1, <1>3, <1>4

(* A list of events that is not empty has a first one.                     *)
LEMMA HeadExists ==
  ASSUME NEW S \in SUBSET Event, S # {}
  PROVE  \E h \in S : IsHead(h, S)
<1>1. \A e \in S : e.xSlackTime \in Nat /\ e.xTime \in Nat /\ e.xLevel \in Nat
  BY DEF Event
<1> DEFINE A == {e.xSlackTime : e \in S}
<1>2. PICK a \in A : \A j \in A : a <= j
  <2>1. A \in SUBSET Nat /\ A # {}
    BY <1>1
  <2> HIDE DEF A
  <2> QED BY <2>1, LeastOf
<1> DEFINE B == {e.xTime : e \in {d \in S : d.xSlackTime = a}}
<1>3. PICK b \in B : \A j \in B : b <= j
  <2>1. B \in SUBSET Nat /\ B # {}
    BY <1>1
  <2> HIDE DEF B
  <2> QED BY <2>1, LeastOf
<1> DEFINE C == {e.xLevel : e \in {d \in S : d.xSlackTime = a /\ d.xTime = b}}
<1>4. PICK c \in C : \A j \in C : c <= j
  <2>1. C \in SUBSET Nat /\ C # {}
    BY <1>1
  <2> HIDE DEF C
  <2> QED BY <2>1, LeastOf
<1>5. PICK h \in S : h.xSlackTime = a /\ h.xTime = b /\ h.xLevel = c
  BY <1>4
<1>6. ASSUME NEW f \in S, Before(f, h) PROVE FALSE
  <2>1. a <= f.xSlackTime
    BY <1>2
  <2>2. f.xSlackTime = a => b <= f.xTime
    BY <1>3
  <2>3. f.xSlackTime = a /\ f.xTime = b => c <= f.xLevel
    BY <1>4
  <2>4. /\ f.xSlackTime \in Nat /\ f.xTime \in Nat /\ f.xLevel \in Nat
        /\ a \in Nat /\ b \in Nat /\ c \in Nat
    BY <1>1, <1>5
  <2>5. ~(f.xSlackTime < a)
    BY <2>1, <2>4
  <2>6. f.xSlackTime = a /\ (f.xTime < b \/ (f.xTime = b /\ f.xLevel < c))
    BY <1>5, <1>6, <2>5 DEF Before
  <2>7. ~(f.xTime < b)
    BY <2>2, <2>4, <2>6
  <2> QED BY <2>3, <2>4, <2>6, <2>7
<1> QED BY <1>6 DEF IsHead

(* When everybody waits, the events on the inputs of a servant cannot all  *)
(* be there, due, and of a round that ends now.                            *)
LEMMA IdleInputs ==
  ASSUME IInv, WakeInv, FiresAtOnce, Servants \cup {R} \subseteq blocked,
         NEW d \in Servants,
         \A q \in Inputs(d) : \E e \in On(q, d) : e.xTime <= now /\ e.xSlackTime <= now + 1
  PROVE  FALSE
<1> USE DEF IInv
<1>1. /\ rpc = "take" /\ sem[R] = 0
      /\ \A s \in Servants : pc[s] \in {"first", "take"} /\ sem[s] = 0
  BY DEF SchedInv, Waiting, WakeInv, SleepsEmpty
<1>2. NothingDue
  BY <1>1 DEF WakeInv, Asleep
<1>3. now \in Nat
  BY DEF TypeInv, TypeOK
<1>4. ASSUME NEW e \in eventList, e.xTime <= now, e.xSlackTime <= now + 1 PROVE FALSE
  <2>1. PICK h \in eventList : IsHead(h, eventList)
    <3>1. eventList \in SUBSET Event
      BY DEF TypeInv, TypeOK
    <3> QED BY <1>4, <3>1, HeadExists
  <2>2. h.xTime > now
    BY <1>2, <2>1 DEF NothingDue
  <2>3. /\ h.xTime \in Nat /\ h.xSlackTime \in Nat /\ e.xTime \in Nat /\ e.xSlackTime \in Nat
        /\ h.src \in Servants
    BY DEF TypeInv, TypeOK, Event
  <2>4. IsLast(h.src, h.dst)
    BY <1>1, <1>3, <2>2, <2>3 DEF WakeInv, DueWhenSent
  <2>5. h.xTime = h.xSlackTime
    BY <2>4, LastDue
  <2>6. ~Before(e, h)
    BY <1>4, <2>1 DEF IsHead
  <2> QED BY <1>3, <1>4, <2>2, <2>3, <2>5, <2>6 DEF Before
<1>5. ASSUME NEW q \in Inputs(d) PROVE flag[<<q, d>>] = 2
  <2>1. PICK e \in On(q, d) : e.xTime <= now /\ e.xSlackTime <= now + 1
    OBVIOUS
  <2>2. e \in Live /\ e.src = q /\ e.dst = d
    BY DEF On
  <2>3. \A s \in Servants : held[s] = {}
    BY <1>1 DEF EventInv, HeldInputs
  <2>4. e \in readyList
    BY <1>4, <2>1, <2>2, <2>3, InLive
  <2>5. sem[d] = 0
    BY <1>1
  <2>6. flag[<<e.src, e.dst>>] = 2 \/ Triggered(e.dst)
    BY <1>1, <2>4 DEF MatchInv, ReadyFlag
  <2> QED BY <2>2, <2>5, <2>6 DEF Triggered
<1>6. rpc = "fire"
  BY <1>5 DEF FiresAtOnce
<1> QED BY <1>1, <1>6

(* e is the event of the current round on the relation of q and d.         *)
Carries(q, d, e) ==
  /\ e \in On(q, d) /\ e \in Live /\ e.src = q /\ e.dst = d
  /\ e.xSlackTime = deadline[SensorOf(d)]
  /\ IsLast(q, d) => e.xTime = e.xSlackTime

(* There is one on a relation that is marked.                              *)
LEMMA MarkedEvent ==
  ASSUME IInv, NEW q, NEW d, <<q, d>> \in Relations, Marked(q, d)
  PROVE  \E e : Carries(q, d, e)
<1> USE DEF IInv, EventInv
<1> DEFINE r == <<q, d>>
<1>0. r \in Relations /\ r[1] = q /\ r[2] = d
  OBVIOUS
<1> HIDE DEF r
<1>1. On(r[1], r[2]) # {}
  BY <1>0 DEF EventPerRelation
<1>2. PICK e \in On(r[1], r[2]) : TRUE
  BY <1>1
<1>3. e \in Live /\ e.src = r[1] /\ e.dst = r[2]
  BY DEF On
<1>4. SensorOf(e.src) = SensorOf(r[2])
  BY <1>0, <1>3, RelationFacts
<1>5. Carries(q, d, e)
  BY <1>0, <1>2, <1>3, <1>4 DEF Stamped, Carries
<1> QED BY <1>5

(* When everybody waits, forward events are due.                           *)
LEMMA IdleDue ==
  ASSUME IInv, WakeInv, Servants \cup {R} \subseteq blocked,
         NEW e \in Live, ~IsLast(e.src, e.dst)
  PROVE  e.xTime <= now
<1> USE DEF IInv, EventInv
<1>1. \A s \in Servants : pc[s] \in {"first", "take"}
  BY DEF SchedInv, Waiting
<1>2. e.src \in Servants
  BY EventFacts
<1>3. CASE e \in eventList
  BY <1>1, <1>2, <1>3 DEF WakeInv, DueWhenSent
<1>4. CASE e \notin eventList
  BY <1>4, InLive DEF Placed
<1> QED BY <1>3, <1>4

(* When everybody waits, every round that ends at the next tick is done,   *)
(* and every sensor has begun the round after a deadline that is past.     *)
LEMMA IdleFrame ==
  ASSUME NEW p, Schedulable(p), IInv, WakeInv, TimeInv(p), Servants \cup {R} \subseteq blocked
  PROVE  /\ \A u \in Servants : ~Ran(u) => deadline[SensorOf(u)] # now + 1
         /\ \A x \in Sensors : deadline[x] # 0 => now + 1 # deadline[x] + p
         /\ \A x \in Sensors : deadline[x] = 0 => isInit
<1> USE DEF IInv, EventInv
<1>1. /\ rpc = "take"
      /\ \A s \in Servants : pc[s] \in {"first", "take"} /\ sem[s] = 0
  BY DEF SchedInv, Waiting
<1>2. now \in Nat /\ p \in Nat \ {0} /\ deadline \in [Servants -> Nat]
      /\ Sensors \subseteq Servants /\ Servants \subseteq Nat
  BY ScheduleFacts, TablesAssumption DEF TypeInv, TypeOK
<1>i. FiresAtOnce
  BY DEF TimeInv
<1>3. ASSUME NEW x \in Sensors, deadline[x] = 0 PROVE isInit
  BY <1>1, <1>2, <1>3 DEF TimeInv, BeginsInTime, SchedInv, Starting
<1>4. ASSUME NEW u \in Servants, ~Ran(u), deadline[SensorOf(u)] = now + 1 PROVE FALSE
  <2> DEFINE x == SensorOf(u)
             I == {s \in Servants : SensorOf(s) = x /\ ~Ran(s)}
  <2>1. x \in Sensors /\ x \in Servants /\ SensorOf(x) = x
    BY SensorFacts
  <2> HIDE DEF x
  <2>2. PICK d \in I : \A j \in I : d <= j
    <3>1. u \in I /\ I \in SUBSET Nat
      BY <1>2, <1>4 DEF x
    <3> HIDE DEF I
    <3> QED BY <3>1, LeastOf
  <2>3. deadline[x] = now + 1
    BY <1>4 DEF x
  <2>4. d \in Servants /\ d # x
    <3>1. Ran(x)
      BY <1>2, <2>1, <2>3 DEF Ran
    <3> QED BY <2>2, <3>1
  <2>5. ASSUME NEW q \in Inputs(d)
        PROVE  \E e \in On(q, d) : e.xTime <= now /\ e.xSlackTime <= now + 1
    <3> DEFINE r == <<q, d>>
    <3>1. r \in Relations /\ r[1] = q /\ r[2] = d
      BY <2>4, InputFacts
    <3> HIDE DEF r
    <3>2. /\ q \in Servants /\ SensorOf(q) = x
          /\ IsLast(q, d) => d = SensorOf(q)
      BY <2>2, <3>1, RelationFacts
    <3>3. ~IsLast(q, d)
      BY <2>4, <3>2
    <3>4. q < d
      BY <1>2, <2>4, <3>2, <3>3 DEF IsLast
    <3>5. Ran(q)
      <4>1. ~(d <= q)
        BY <1>2, <2>4, <3>2, <3>4
      <4> QED BY <2>2, <3>2, <4>1
    <3>6. Marked(q, d) /\ <<q, d>> \in Relations
      BY <2>2, <2>4, <3>3, <3>5, InputFacts DEF Marked
    <3>7. PICK e : Carries(q, d, e)
      BY <3>6, MarkedEvent
    <3>8. e.xTime <= now
      BY <3>3, <3>7, IdleDue DEF Carries
    <3>9. e.xSlackTime = now + 1
      BY <2>2, <2>3, <3>7 DEF Carries
    <3> QED BY <1>2, <3>7, <3>8, <3>9 DEF Carries
  <2> QED BY <1>i, <2>4, <2>5, IdleInputs
<1>5. ASSUME NEW x \in Sensors, deadline[x] # 0, now + 1 = deadline[x] + p PROVE FALSE
  <2>1. deadline[x] <= now /\ deadline[x] \in Nat
    BY <1>2, <1>5
  <2>2. pc[x] = "take"
    BY <1>1, <1>2, <1>5 DEF SchedInv, Starting
  <2>3. ASSUME NEW q \in Inputs(x)
        PROVE  \E e \in On(q, x) : e.xTime <= now /\ e.xSlackTime <= now + 1
    <3> DEFINE r == <<q, x>>
    <3>1. r \in Relations /\ r[1] = q /\ r[2] = x
      BY <1>2, InputFacts
    <3> HIDE DEF r
    <3>2. q \in Servants /\ SensorOf(q) = x /\ IsLast(q, x)
      BY <3>1, RelationFacts, SensorFacts
    <3>3. Ran(q)
      BY <1>2, <1>5, <2>1, <3>2 DEF TimeInv, TimeToRun
    <3>4. Marked(q, x) /\ <<q, x>> \in Relations
      BY <1>2, <2>2, <3>2, <3>3, InputFacts DEF Marked
    <3>5. PICK e : Carries(q, x, e)
      BY <3>4, MarkedEvent
    <3>6. e.xTime = deadline[x] /\ e.xSlackTime = deadline[x]
      BY <3>2, <3>5, SensorFacts DEF Carries
    <3> QED BY <1>2, <2>1, <3>5, <3>6 DEF Carries
  <2> QED BY <1>i, <1>2, <2>3, IdleInputs
<1> QED BY <1>3, <1>4, <1>5

(* A job that lasts to the end of the frame is the last one of them all.   *)
LEMMA LetFrame ==
  ASSUME NEW p, Schedulable(p), IInv, TimeInv(p), NEW s \in Servants,
         pc[s] = "let", ~LetOver(s), Multiple(p, now + 1)
  PROVE  /\ start[s] + Let[s] = Frame(p) + p /\ Frame(p) + p = now + 1
         /\ \A u \in Servants : Ran(u) /\ deadline[u] >= Frame(p) + p /\ deadline[u] # 0
<1> USE DEF IInv
<1>1. now \in Nat /\ p \in Nat \ {0} /\ deadline \in [Servants -> Nat]
      /\ start \in [Servants -> Nat] /\ Let \in [Servants -> Nat \ {0}]
  BY ScheduleFacts, TablesAssumption DEF TypeInv, TypeOK
<1>2. /\ Frame(p) \in Nat /\ Multiple(p, Frame(p)) /\ Frame(p) <= now /\ now < Frame(p) + p
  BY <1>1, FrameFacts
<1>3. \A a, b \in Nat : Multiple(p, a) /\ Multiple(p, b) /\ a < b => a + p <= b
  BY <1>1, MultipleFacts
<1>4. Frame(p) + p = now + 1
  <2>1. Frame(p) + p <= now + 1
    BY <1>1, <1>2, <1>3
  <2> QED BY <1>1, <1>2, <2>1
<1>5. /\ Done(p) \in SUBSET Servants /\ Load(Done(p)) \in Nat /\ Load(Done(p)) <= p
      /\ Load(Done(p)) = p => Done(p) = Servants
  <2>1. Done(p) \in SUBSET Servants
    BY DEF Done
  <2> QED BY <2>1, ScheduleFacts
<1>6. now < start[s] + Let[s] /\ start[s] + Let[s] <= Frame(p) + Load(Done(p))
  <2>1. start[s] + Let[s] <= Frame(p) + Load(Done(p))
    BY DEF TimeInv, WorkConserved
  <2> QED BY <1>1, <2>1 DEF LetOver
<1> DEFINE L == Load(Done(p))
           f == Frame(p)
<1>7. start[s] + Let[s] = f + p /\ L = p
  <2>1. /\ L \in Nat /\ f \in Nat /\ L <= p /\ f + p = now + 1
        /\ now < start[s] + Let[s] /\ start[s] + Let[s] <= f + L
    BY <1>2, <1>4, <1>5, <1>6
  <2> HIDE DEF L, f
  <2> QED BY <1>1, <2>1
<1>8. Done(p) = Servants
  BY <1>5, <1>7
<1>9. ASSUME NEW u \in Servants
      PROVE  Ran(u) /\ deadline[u] >= Frame(p) + p /\ deadline[u] # 0
  <2>1. deadline[u] # 0 /\ start[u] >= Frame(p)
    BY <1>8 DEF Done
  <2>2. Multiple(p, deadline[u]) /\ start[u] + Let[u] <= deadline[u]
    BY <2>1 DEF TimeInv, JobsFit
  <2>3. deadline[u] >= Frame(p) + p
    BY <1>1, <1>2, <1>3, <2>1, <2>2
  <2>4. Ran(u)
    BY <1>1, <1>2, <2>1, <2>3 DEF TimeInv, TimeToRun
  <2> QED BY <2>1, <2>3, <2>4
<1> QED BY <1>4, <1>7, <1>9

(* What a tick changes: the clock, and at FirstTick the sensors' semaphores*)
TickEffect ==
  /\ now' = now + 1 /\ UNCHANGED <<pc, rpc, deadline, start, eventList>>
  /\ isInit' = (isInit /\ now + 1 # FirstTick)
  /\ \A s \in Servants : sem'[s] = 1 => sem[s] = 1 \/ now + 1 = FirstTick
  /\ FiresAtOnce' /\ IdleWaits'

(* A tick does no more while code takes only its LET.                      *)
LEMMA TickFacts ==
  ASSUME NEW p, Schedulable(p), IInv, WakeInv, TimeInv(p), Tick
  PROVE  CodeIsWaiting /\ TickEffect
<1> USE DEF IInv
<1>t. TypeOK /\ now \in Nat /\ missed = 0 /\ SlowTicks = {}
  BY ScheduleFacts DEF TypeInv, TypeOK, WakeInv
<1>1. CodeIsWaiting
  BY <1>t DEF Tick
<1>2. ~suspended
  BY <1>1 DEF CodeIsWaiting, Running
<1>3. now' = now + 1 /\ TickHook(now') /\ UNCHANGED <<pc, rpc, deadline, start, eventList, flag, moved>>
  BY <1>2 DEF Tick
<1> DEFINE S == (IF isInit /\ now' = FirstTick THEN Sensors ELSE {})
                  \cup (IF HookDue(now') THEN {R} ELSE {})
<1>4. isInit' = (isInit /\ now' # FirstTick) /\ Give(S)
  BY <1>3 DEF TickHook
<1>5. S \in SUBSET (Servants \cup {R}) /\ (now' # FirstTick => S \cap Servants = {})
  BY TablesAssumption
<1> HIDE DEF S
<1>6. sem' = [t \in Servants \cup {R} |-> IF t \in S THEN 1 ELSE sem[t]]
  BY <1>t, <1>4, GiveFacts
<1>7. IdleWaits'
  BY <1>t, <1>2, <1>4, <1>5, GiveIdle DEF TimeInv
<1>8. FiresAtOnce'
  BY <1>3 DEF TimeInv, FiresAtOnce
<1>9. \A s \in Servants : sem'[s] = 1 => sem[s] = 1 \/ now + 1 = FirstTick
  BY <1>3, <1>5, <1>6
<1> QED BY <1>1, <1>3, <1>4, <1>7, <1>8, <1>9 DEF TickEffect

(* Nothing falls due at the next tick that should have been done before.   *)
InTime(p) ==
  /\ \A u \in Servants : ~Ran(u) => deadline[SensorOf(u)] # now + 1
  /\ \A x \in Sensors : deadline[x] # 0 => now + 1 # deadline[x] + p
  /\ \A x \in Sensors : deadline[x] = 0 => isInit \/ now + 1 # FirstTick + p
  /\ \A s \in Servants : pc[s] = "let" => now + 1 <= start[s] + Let[s]

(* Then the tick keeps what is said about time.                            *)
LEMMA TickInTime ==
  ASSUME NEW p, Schedulable(p), IInv, WakeInv, TimeInv(p), TickEffect, InTime(p), WorkConserved(p)'
  PROVE  TimeInv(p)'
<1> USE DEF IInv
<1>1. /\ now \in Nat /\ p \in Nat \ {0} /\ deadline \in [Servants -> Nat] /\ FirstTick \in Nat
      /\ Sensors \subseteq Servants
  BY ScheduleFacts, TablesAssumption DEF TypeInv, TypeOK
<1>2. JobsFit(p)' /\ InLet'
  BY DEF TickEffect, TimeInv, JobsFit, InLet, InTime
<1>3. TimeToRun'
  <2> SUFFICES ASSUME NEW u \in Servants, ~Ran(u)
               PROVE  /\ deadline[u] # 0 => deadline[u] <= now + 1
                      /\ deadline[SensorOf(u)] # 0 => deadline[SensorOf(u)] > now + 1
    BY DEF TimeToRun, TickEffect, Ran
  <2>1. deadline[SensorOf(u)] \in Nat /\ deadline[u] \in Nat
    BY <1>1, SensorFacts
  <2>2. /\ deadline[u] # 0 => deadline[u] <= now
        /\ deadline[SensorOf(u)] # 0 => deadline[SensorOf(u)] > now
    BY DEF TimeInv, TimeToRun
  <2>3. deadline[SensorOf(u)] # now + 1
    BY DEF InTime
  <2> QED BY <1>1, <2>1, <2>2, <2>3
<1>4. BeginsInTime(p)'
  <2> SUFFICES ASSUME NEW x \in Sensors
               PROVE  IF deadline[x] # 0 THEN now + 1 < deadline[x] + p
                      ELSE pc[x] \in {"first", "exec"} /\ (isInit' \/ now + 1 < FirstTick + p)
    BY DEF BeginsInTime, TickEffect
  <2>1. CASE deadline[x] # 0
    <3>1. now < deadline[x] + p /\ now + 1 # deadline[x] + p /\ deadline[x] \in Nat
      BY <1>1, <2>1 DEF TimeInv, BeginsInTime, InTime
    <3> QED BY <1>1, <2>1, <3>1
  <2>2. CASE deadline[x] = 0
    <3>1. /\ pc[x] \in {"first", "exec"} /\ (isInit \/ now < FirstTick + p)
          /\ isInit \/ now + 1 # FirstTick + p
      BY <2>2 DEF TimeInv, BeginsInTime, InTime
    <3>2. isInit' = (isInit /\ now + 1 # FirstTick)
      BY DEF TickEffect
    <3>3. now + 1 = FirstTick => now + 1 < FirstTick + p
      BY <1>1
    <3>4. ~isInit => now + 1 < FirstTick + p
      <4>1. now + 1 # FirstTick + p /\ now < FirstTick + p => now + 1 < FirstTick + p
        BY <1>1
      <4> QED BY <3>1, <4>1
    <3>5. isInit' \/ now + 1 < FirstTick + p
      BY <3>2, <3>3, <3>4, Zenon
    <3> QED BY <2>2, <3>1, <3>5
  <2> QED BY <2>1, <2>2
<1> QED BY <1>2, <1>3, <1>4 DEF TickEffect, TimeInv

(* A tick while a servant is in its LET.                                   *)
LEMMA LetTick ==
  ASSUME NEW p, Schedulable(p), IInv, WakeInv, TimeInv(p), TickEffect,
         NEW s \in Servants, pc[s] = "let", ~LetOver(s)
  PROVE  InTime(p) /\ WorkConserved(p)'
<1> USE DEF IInv
<1>1. /\ now \in Nat /\ p \in Nat \ {0} /\ deadline \in [Servants -> Nat] /\ FirstTick \in Nat
      /\ start \in [Servants -> Nat] /\ Let \in [Servants -> Nat \ {0}]
      /\ Sensors \subseteq Servants /\ Multiple(p, FirstTick)
  BY ScheduleFacts, TablesAssumption DEF TypeInv, TypeOK
<1>2. \A u \in Servants : pc[u] \in {"exec", "let"} => u = s
  BY DEF SchedInv, OneAtATime
<1>3. now + 1 <= start[s] + Let[s]
  BY <1>1 DEF LetOver
<1>4. \A u \in Servants : SensorOf(u) \in Servants
  BY SensorFacts
<1>5. Frame(p) \in Nat
  BY <1>1, FrameFacts
<1>6. now' = now + 1
  BY DEF TickEffect
<1>7. CASE Multiple(p, now + 1)
  <2>1. /\ start[s] + Let[s] = Frame(p) + p /\ Frame(p) + p = now + 1
        /\ \A u \in Servants : Ran(u) /\ deadline[u] >= Frame(p) + p /\ deadline[u] # 0
    BY <1>7, LetFrame
  <2>2. InTime(p)
    BY <1>1, <1>2, <1>3, <1>4, <1>5, <2>1 DEF InTime
  <2>3. Frame(p)' = now + 1
    BY <1>1, <1>6, <1>7, FrameStep
  <2>4. Load(Done(p)') \in Nat
    <3>1. Done(p)' \in SUBSET Servants
      BY DEF Done
    <3> QED BY <3>1, ScheduleFacts
  <2>5. start[s] + Let[s] <= Frame(p)' + Load(Done(p)')
    <3> HIDE DEF Load
    <3> QED BY <1>1, <2>1, <2>3, <2>4
  <2>6. WorkConserved(p)'
    BY <1>2, <2>5 DEF TickEffect, WorkConserved
  <2> QED BY <2>2, <2>6
<1>8. CASE ~Multiple(p, now + 1)
  <2>1. \A u \in Servants : Multiple(p, deadline[u])
    BY DEF TimeInv, JobsFit
  <2>2. \A a \in Nat : Multiple(p, a) => Multiple(p, a + p)
    BY <1>1, MultipleFacts
  <2>3. InTime(p)
    BY <1>1, <1>2, <1>3, <1>4, <1>8, <2>1, <2>2 DEF InTime
  <2>4. Frame(p)' = Frame(p)
    BY <1>1, <1>6, <1>8, FrameStep
  <2>5. Done(p)' = Done(p)
    BY <2>4 DEF Done, TickEffect
  <2>6. WorkConserved(p)'
    BY <1>2, <2>4, <2>5 DEF TickEffect, TimeInv, WorkConserved
  <2> QED BY <2>3, <2>6
<1> QED BY <1>7, <1>8

(* A tick while everybody waits.                                           *)
LEMMA IdleTick ==
  ASSUME NEW p, Schedulable(p), IInv, WakeInv, TimeInv(p), TickEffect,
         Servants \cup {R} \subseteq blocked
  PROVE  InTime(p) /\ WorkConserved(p)'
<1> USE DEF IInv
<1>1. /\ now \in Nat /\ p \in Nat \ {0} /\ FirstTick \in Nat /\ Multiple(p, FirstTick)
      /\ Sensors \subseteq Servants
  BY ScheduleFacts, TablesAssumption DEF TypeInv, TypeOK
<1>2. /\ rpc = "take" /\ sem[R] = 0
      /\ \A s \in Servants : pc[s] \in {"first", "take"} /\ sem[s] = 0
  BY DEF SchedInv, Waiting, WakeInv, SleepsEmpty
<1>3. NothingDue
  BY <1>2 DEF WakeInv, Asleep
<1>4. InTime(p)
  BY <1>2, IdleFrame DEF InTime
<1>5. now' = now + 1 /\ UNCHANGED <<pc, rpc, eventList>>
  BY DEF TickEffect
<1>6. CASE Multiple(p, now + 1)
  <2>1. Frame(p)' = now + 1
    BY <1>1, <1>5, <1>6, FrameStep
  <2>2. Load(Done(p)') \in Nat
    <3>1. Done(p)' \in SUBSET Servants
      BY DEF Done
    <3> QED BY <3>1, ScheduleFacts
  <2>3. now' <= Frame(p)' + Load(Done(p)')
    <3> HIDE DEF Load
    <3> QED BY <1>1, <1>5, <2>1, <2>2
  <2> QED BY <1>2, <1>4, <1>5, <2>3 DEF WorkConserved
<1>7. CASE ~Multiple(p, now + 1)
  <2>1. \A s \in Servants : sem'[s] # 1
    BY <1>1, <1>2, <1>7 DEF TickEffect
  <2>2. NothingDue'
    <3> SUFFICES ASSUME NEW e \in eventList, IsHead(e, eventList), ~(e.xTime > now + 1)
                 PROVE  FALSE
      BY <1>5 DEF NothingDue
    <3>1. e.xTime \in Nat /\ e.xTime > now /\ e.xTime = now + 1 /\ e.src \in Servants
      <4>1. e.xTime \in Nat /\ e.src \in Servants
        BY DEF TypeInv, TypeOK, Event
      <4> QED BY <1>1, <1>3, <4>1 DEF NothingDue
    <3>2. IsLast(e.src, e.dst)
      BY <1>1, <1>2, <3>1 DEF WakeInv, DueWhenSent
    <3>3. e.xTime = deadline[SensorOf(e.src)] /\ SensorOf(e.src) \in Servants
      BY <1>1, <3>2, LastDue
    <3>4. Multiple(p, deadline[SensorOf(e.src)])
      BY <3>3 DEF TimeInv, JobsFit
    <3> QED BY <1>7, <3>1, <3>3, <3>4
  <2>3. ~Busy'
    BY <1>2, <1>5, <2>1, <2>2 DEF Busy
  <2> QED BY <1>2, <1>4, <1>5, <2>3 DEF WorkConserved
<1> QED BY <1>6, <1>7

(* Every tick keeps it, ...                                                *)
LEMMA TickTime ==
  ASSUME NEW p, Schedulable(p), IInv, WakeInv, TimeInv(p), Tick
  PROVE  TimeInv(p)'
<1>1. CodeIsWaiting /\ TickEffect
  BY TickFacts
<1>2. InTime(p) /\ WorkConserved(p)'
  <2>1. CASE Running(Idle)
    <3>1. Servants \cup {R} \subseteq blocked
      BY <2>1 DEF TimeInv, IdleWaits, Running
    <3> QED BY <1>1, <3>1, IdleTick
  <2>2. CASE \E s \in Servants : Running(s) /\ pc[s] = "let" /\ ~LetOver(s)
    BY <1>1, <2>2, LetTick
  <2> QED BY <1>1, <2>1, <2>2 DEF CodeIsWaiting
<1> QED BY <1>1, <1>2, TickInTime

(* ... it holds at the start, ...                                          *)
LEMMA TimeInit ==
  ASSUME NEW p, Schedulable(p), Init
  PROVE  TimeInv(p)
<1>1. /\ now = 0 /\ isInit /\ rpc = "take" /\ eventList = {} /\ blocked = {}
      /\ \A s \in Servants : deadline[s] = 0 /\ start[s] = 0 /\ sem[s] = 0
                             /\ pc[s] \in {"first", "take"}
      /\ \A x \in Sensors : pc[x] = "first" /\ x \in Servants
      /\ flag = [r \in Relations |-> 1]
  BY TablesAssumption DEF Init
<1>2. p \in Nat \ {0}
  BY ScheduleFacts
<1>3. JobsFit(p)
  BY <1>1, <1>2, MultipleFacts DEF JobsFit
<1>4. TimeToRun
  BY <1>1, SensorFacts DEF TimeToRun
<1>5. BeginsInTime(p) /\ InLet
  BY <1>1 DEF BeginsInTime, InLet
<1>6. FiresAtOnce
  <2> SUFFICES ASSUME NEW d \in Servants, \A q \in Inputs(d) : flag[<<q, d>>] = 2
               PROVE  FALSE
    BY DEF FiresAtOnce
  <2>1. PICK q \in Inputs(d) : <<q, d>> \in Relations
    BY InputFacts
  <2> QED BY <1>1, <2>1
<1>7. WorkConserved(p)
  <2>1. ~Busy
    BY <1>1 DEF Busy, NothingDue
  <2> QED BY <1>1, <2>1 DEF WorkConserved
<1>8. IdleWaits
  <2>1. current # Idle
    <3>1. current \in Highest(Servants \cup {R, Idle})
      BY DEF Init
    <3>2. Prio(R) <= Prio(current)
      BY <3>1 DEF Highest
    <3> QED BY <3>2, PrioFacts
  <2> QED BY <2>1 DEF IdleWaits
<1> QED BY <1>3, <1>4, <1>5, <1>6, <1>7, <1>8 DEF TimeInv

(* ... and every step keeps it.                                            *)
LEMMA TimeStep ==
  ASSUME NEW p, Schedulable(p), IInv, WakeInv, TimeInv(p), [Next]_vars
  PROVE  TimeInv(p)'
<1>1. CASE \E s \in Servants : SensorExec(s) \/ ServantExec(s)
  BY <1>1, ExecTime
<1>2. CASE Tick
  BY <1>2, TickTime
<1>3. CASE ~Tick /\ \A s \in Servants : ~SensorExec(s) /\ ~ServantExec(s)
  <2>1. /\ FiresAtOnce /\ IdleWaits
        /\ \A x \in Sensors : deadline[x] = 0 => pc[x] \in {"first", "exec"}
    BY DEF TimeInv, BeginsInTime
  <2>2. TimeQuiet
    BY <1>3, <2>1, TimeStepQuiet
  <2> QED BY <2>2, TimeQuietStep
<1> QED BY <1>1, <1>2, <1>3

(* No servant is in its job after the deadline of its round, when the      *)
(* tables can be scheduled: the LETs of all servants fit into a period     *)
(* that the hook tests and that divides those of the tasks, and code takes *)
(* no time but its LET (servant.c:362-366, 428-433; app.c).                *)
THEOREM DeadlinesMet ==
  ASSUME NEW p, Schedulable(p)
  PROVE  Spec => []MeetsDeadline
<1>1. Init => TimeInv(p)
  BY TimeInit
<1>2. IInv /\ WakeInv /\ TimeInv(p) /\ [Next]_vars => TimeInv(p)'
  BY TimeStep
<1>3. Spec => [](IInv /\ WakeInv)
  <2>1. NoTickMissed /\ \A t \in Tasks : HookCovers(t)
    BY ScheduleFacts
  <2> QED BY <2>1, WakeInvariant
<1>4. ASSUME IInv, TimeInv(p) PROVE MeetsDeadline
  <2> SUFFICES ASSUME NEW s \in Servants, pc[s] = "let" PROVE now <= deadline[s]
    BY DEF MeetsDeadline
  <2>1. now \in Nat /\ start[s] \in Nat /\ Let[s] \in Nat /\ deadline[s] \in Nat
    BY <1>4, TablesAssumption DEF IInv, TypeInv, TypeOK
  <2>2. now <= start[s] + Let[s] /\ start[s] + Let[s] <= deadline[s]
    BY <1>4 DEF TimeInv, InLet, JobsFit
  <2> QED BY <2>1, <2>2
<1>5. IInv /\ TimeInv(p) => MeetsDeadline
  BY <1>4
<1> QED BY <1>1, <1>2, <1>3, <1>5, PTL DEF Spec
=============================================================================
