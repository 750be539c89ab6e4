--------------------------- MODULE CriticalProofs ---------------------------
(***************************************************************************)
(* What critical sections promise in the system of the servants, although  *)
(* the mask holds back none of the kernel's interrupts: it has no          *)
(* preemption, and the one task the tick hook can wake while others run    *)
(* has the lowest priority but the idle task's.                            *)
(***************************************************************************)
EXTENDS Critical, TLAPS, FiniteSetTheorems

USE DEF sectionVars, switchVars, queueVars, vars

CallType == [kind : {"give", "take"}, queue : Semaphores, found : BOOLEAN]

ConstantsOK ==
  /\ Idle \in Task /\ IsFiniteSet(Task) /\ Cardinality(Task) < NestingWidth
  /\ NestingWidth \in Nat
  /\ Priority \in [Task -> Nat]
  /\ Calls \in [Task -> SUBSET CallType] /\ Calls[Idle] = {}
  /\ HookGives \subseteq Semaphores
  /\ KernelPriority \in Nat /\ MaxSyscallPriority \in Nat

(* src/freertos/FreeRTOSConfig.h:75, 111 and 115, and the R-Servant below  *)
(* every servant (main.c).                                                 *)
ServantSystem ==
  /\ ~Preemption /\ KernelPriority < MaxSyscallPriority
  /\ \A t \in Task : \A c \in Calls[t] :
       c.kind = "take" /\ c.queue \in HookGives =>
         \A u \in Task \ {t, Idle} : Priority[t] < Priority[u]

Places == {"idle", "mask", "enter", "count", "test", "fetch", "store", "wake",
           "leave", "exit", "open", "suspend", "place", "resume"}
InCount == {t \in Task : InRegion(t) \/ pc[t] = "exit"}

TypeOK ==
  /\ current \in Task
  /\ basepri \in {0, MaxSyscallPriority}
  /\ loaded \in [Task -> Nat]
  /\ pendSV \in BOOLEAN /\ yieldDue \in BOOLEAN /\ suspender \in Task
  /\ messages \in [Semaphores -> Nat]
  /\ waiting \in [Semaphores -> SUBSET Task]
  /\ pc \in [Task -> Places]
  /\ call \in [Task -> CallType \cup {NoCall}]

(* A task is in one of the calls it makes, and where that has steps.       *)
IsCall(t, kind) ==
  call[t] \in CallType /\ call[t].kind = kind
    /\ \E c \in Calls[t] : c.kind = kind /\ c.queue = call[t].queue

InCall ==
  \A t \in Task :
    /\ pc[t] # "idle" => IsCall(t, "give") \/ IsCall(t, "take")
    /\ pc[t] \in {"suspend", "place", "resume"} => IsCall(t, "take")
    /\ pc[t] = "wake" => IsCall(t, "give")
    /\ pc[t] = "place" => ~call[t].found

(* Who does not run has been switched away where tasks yield, in a give    *)
(* that woke another, or before it begins a call anew.                     *)
Away ==
  \A t \in Task \ {current} :
    \/ pc[t] \in {"idle", "mask"}
    \/ pc[t] = "leave" /\ IsCall(t, "give")

(* A switch is pending only where the running task has asked for it.       *)
Asked ==
  pendSV =>
    \/ pc[current] \in {"idle", "mask"}
    \/ pc[current] = "leave" /\ IsCall(current, "give")
    \/ pc[current] = "resume"

(* The scheduler is suspended by the running task, in its second look.     *)
Suspended ==
  /\ suspender # Idle => suspender = current
  /\ \A t \in Task : pc[t] \in {"place", "resume"} => suspender = t
  /\ \A t \in Task : suspender = t /\ t # Idle => IsCall(t, "take") /\ pc[t] # "idle"

(* Who waits is about to give the processor up, or to begin its take anew. *)
Waits ==
  \A q \in Semaphores : \A t \in waiting[q] :
    /\ IsCall(t, "take") /\ call[t].queue = q
    /\ \/ pc[t] = "resume" /\ ~call[t].found
       \/ pc[t] = "mask" /\ suspender # t /\ (t = current => pendSV)

Nesting ==
  /\ uxCriticalNesting = Cardinality(InCount)
  /\ \A t \in Task : pc[t] \in {"count", "exit"} => loaded[t] = uxCriticalNesting

(* What a task has found or fetched, the hook can have added one to.       *)
Counting ==
  /\ CountsBounded
  /\ \A t \in Task :
       /\ pc[t] = "fetch" =>
            IF call[t].kind = "give" THEN messages[call[t].queue] < Bound(call[t].queue)
                                     ELSE messages[call[t].queue] > 0
       /\ pc[t] = "store" =>
            IF call[t].kind = "give" THEN loaded[t] < Bound(call[t].queue)
                                     ELSE loaded[t] \in 1 .. Bound(call[t].queue)

IInv ==
  TypeOK /\ InCall /\ Away /\ Asked /\ Suspended /\ Waits /\ Nesting /\ Counting
-----------------------------------------------------------------------------
(* A number below the width is itself.                                     *)
LEMMA SmallMod == \A n, w \in Nat : n < w => n % w = n
OBVIOUS

LEMMA BoundFacts == \A q : Bound(q) \in {1, 2} /\ (q \in HookGives => Bound(q) = 2)
BY DEF Bound

(* No interrupt of the kernel is ever held back, and the idle task makes   *)
(* no calls.                                                               *)
LEMMA NeverMasked ==
  ASSUME ConstantsOK, ServantSystem, IInv
  PROVE  Unmasked /\ pc[Idle] = "idle" /\ \A k : ~IsCall(Idle, k)
<1>1. Unmasked
  BY DEF ConstantsOK, ServantSystem, IInv, TypeOK, Unmasked
<1>2. \A k : ~IsCall(Idle, k)
  BY DEF ConstantsOK, IsCall
<1>3. pc[Idle] = "idle"
  BY <1>2 DEF ConstantsOK, IInv, InCall
<1> QED BY <1>1, <1>2, <1>3

(* A task takes a step only when no switch is pending.                     *)
LEMMA StepFacts ==
  ASSUME ConstantsOK, ServantSystem, IInv, NEW t \in Task, NEW from, NEW to, Step(t, from, to)
  PROVE  /\ t = current /\ current' = current /\ pc[t] = from /\ ~pendSV
         /\ pc' = [pc EXCEPT ![t] = to]
         /\ \A u \in Task : u # t => /\ pc'[u] = pc[u] /\ pc[u] \in {"idle", "mask", "leave"}
                                      /\ (pc[u] = "leave" => IsCall(u, "give"))
         /\ to \in Places => pc' \in [Task -> Places] /\ pc'[t] = to
<1>1. t = current /\ current' = current /\ pc[t] = from /\ ~pendSV
      /\ pc' = [pc EXCEPT ![t] = to]
  BY NeverMasked DEF Step
<1>2. pc \in [Task -> Places]
  BY DEF IInv, TypeOK
<1> QED BY <1>1, <1>2 DEF IInv, Away

(* Who waits for what the hook gives runs only when all others cannot.     *)
LEMMA HookWakes ==
  ASSUME ConstantsOK, ServantSystem, IInv, NEW q \in HookGives, NEW t \in waiting[q],
         Priority[t] >= Priority[current]
  PROVE  t = current \/ current = Idle
<1>1. t \in Task /\ q \in Semaphores /\ current \in Task
  BY DEF ConstantsOK, IInv, TypeOK
<1>2. IsCall(t, "take") /\ call[t].queue = q
  BY <1>1 DEF IInv, Waits
<1>3. PICK c \in Calls[t] : c.kind = "take" /\ c.queue = q
  BY <1>2 DEF IsCall
<1>4. \A u \in Task \ {t, Idle} : Priority[t] < Priority[u]
  BY <1>1, <1>3 DEF ServantSystem
<1>5. Priority[t] \in Nat /\ Priority[current] \in Nat
  BY <1>1 DEF ConstantsOK
<1> QED BY <1>1, <1>4, <1>5

(* The count of sections has room for every task's.                        *)
LEMMA CountFacts ==
  ASSUME ConstantsOK
  PROVE  /\ IsFiniteSet(InCount) /\ Cardinality(InCount) \in Nat
         /\ Cardinality(InCount) < NestingWidth
         /\ \A t \in Task \ InCount :
              /\ Cardinality(InCount \cup {t}) = Cardinality(InCount) + 1
              /\ (Cardinality(InCount) + 1) % NestingWidth = Cardinality(InCount) + 1
         /\ \A t \in InCount :
              /\ Cardinality(InCount \ {t}) = Cardinality(InCount) - 1
              /\ (Cardinality(InCount) - 1) % NestingWidth = Cardinality(InCount) - 1
<1> DEFINE S == InCount
<1>1. IsFiniteSet(Task) /\ S \subseteq Task /\ NestingWidth \in Nat
      /\ Cardinality(Task) < NestingWidth
  BY DEF ConstantsOK, InCount
<1> HIDE DEF S
<1>2. \A T \in SUBSET Task :
        IsFiniteSet(T) /\ Cardinality(T) \in Nat /\ Cardinality(T) < NestingWidth
  <2> SUFFICES ASSUME NEW T \in SUBSET Task
               PROVE  IsFiniteSet(T) /\ Cardinality(T) \in Nat /\ Cardinality(T) < NestingWidth
    OBVIOUS
  <2>1. IsFiniteSet(T) /\ Cardinality(T) <= Cardinality(Task)
    BY <1>1, FS_Subset
  <2>2. Cardinality(T) \in Nat /\ Cardinality(Task) \in Nat
    BY <1>1, <2>1, FS_CardinalityType
  <2> QED BY <1>1, <2>1, <2>2
<1>3. ASSUME NEW t \in Task \ S
      PROVE  /\ Cardinality(S \cup {t}) = Cardinality(S) + 1
             /\ (Cardinality(S) + 1) % NestingWidth = Cardinality(S) + 1
  <2>1. Cardinality(S \cup {t}) = Cardinality(S) + 1
    BY <1>1, <1>2, FS_AddElement
  <2>2. Cardinality(S \cup {t}) < NestingWidth /\ Cardinality(S) \in Nat
    BY <1>1, <1>2
  <2>3. Cardinality(S) + 1 \in 0 .. NestingWidth - 1
    BY <1>1, <2>1, <2>2
  <2> QED BY <1>1, <2>1, <2>3, SmallMod
<1>4. ASSUME NEW t \in S
      PROVE  /\ Cardinality(S \ {t}) = Cardinality(S) - 1
             /\ (Cardinality(S) - 1) % NestingWidth = Cardinality(S) - 1
  <2>1. Cardinality(S \ {t}) = Cardinality(S) - 1
    BY <1>1, <1>2, FS_RemoveElement
  <2>2. Cardinality(S \ {t}) < NestingWidth /\ Cardinality(S \ {t}) \in Nat
    <3>1. S \ {t} \in SUBSET Task
      BY <1>1
    <3> QED BY <1>2, <3>1
  <2>3. Cardinality(S) - 1 \in 0 .. NestingWidth - 1
    BY <1>1, <2>1, <2>2
  <2> QED BY <1>1, <2>1, <2>3, SmallMod
<1>5. IsFiniteSet(S) /\ Cardinality(S) \in Nat /\ Cardinality(S) < NestingWidth
  BY <1>1, <1>2
<1> QED BY <1>3, <1>4, <1>5 DEF S

-----------------------------------------------------------------------------
LEMMA HoldsInitially == ASSUME ConstantsOK PROVE Init => IInv
<1> SUFFICES ASSUME ConstantsOK, Init PROVE IInv
  OBVIOUS
<1>1. /\ \A t \in Task : pc[t] = "idle" /\ loaded[t] = 0
      /\ \A q \in Semaphores : messages[q] = 0 /\ waiting[q] = {}
      /\ pendSV = FALSE /\ suspender = Idle /\ Idle \in Task /\ uxCriticalNesting = 0
      /\ current \in Task
  BY DEF Init, Highest, ConstantsOK
<1>2. TypeOK
  BY <1>1 DEF Init, TypeOK, Places
<1>3. InCall /\ Away /\ Asked /\ Suspended /\ Waits
  BY <1>1 DEF InCall, Away, Asked, Suspended, Waits
<1>4. Nesting
  <2>1. InCount = {}
    BY <1>1 DEF InCount, InRegion
  <2> QED BY <1>1, <2>1, FS_EmptySet DEF Nesting
<1>5. Counting
  BY <1>1, BoundFacts DEF Counting, CountsBounded
<1> QED BY <1>2, <1>3, <1>4, <1>5 DEF IInv

(* PendSV takes the processor from a task that has asked for it.           *)
LEMMA PendSVPreserves ==
  ASSUME ConstantsOK, ServantSystem, IInv, PendSV PROVE IInv'
<1>1. /\ pendSV /\ pendSV' = FALSE /\ basepri' = 0
      /\ UNCHANGED <<uxCriticalNesting, loaded, suspender, messages, waiting, pc, call>>
      /\ \A t \in Task : \A k : IsCall(t, k)' <=> IsCall(t, k)
  BY DEF PendSV, IsCall
<1>2. pc[Idle] = "idle" /\ Idle \in Task
  BY NeverMasked DEF ConstantsOK
<1>3. CASE suspender # Idle
  <2>1. current' = current /\ yieldDue' = TRUE /\ suspender = current
    BY <1>3 DEF PendSV, IInv, Suspended
  <2>2. TypeOK' /\ InCall' /\ Away' /\ Asked' /\ Suspended'
    BY <1>1, <2>1 DEF IInv, TypeOK, InCall, Away, Asked, Suspended
  <2>3. Waits'
    <3>1. \A q \in Semaphores : \A t \in waiting[q] :
            /\ t \in Task /\ IsCall(t, "take") /\ call[t].queue = q
            /\ \/ pc[t] = "resume" /\ ~call[t].found
               \/ pc[t] = "mask" /\ suspender # t /\ t # current
      BY <2>1 DEF IInv, Waits, TypeOK
    <3> QED BY <1>1, <2>1, <3>1 DEF Waits
  <2>4. Nesting' /\ Counting'
    BY <1>1 DEF IInv, Nesting, InCount, InRegion, Counting, CountsBounded
  <2> QED BY <2>2, <2>3, <2>4 DEF IInv
<1>4. CASE suspender = Idle
  <2>1. current' \in Highest(Ready) /\ yieldDue' = yieldDue
    BY <1>4 DEF PendSV
  <2>2. current' \in Task /\ \A q \in Semaphores : current' \notin waiting[q]
    BY <2>1 DEF Highest, Ready
  <2>3. \A t \in Task : pc[t] \notin {"place", "resume"}
    BY <1>2, <1>4 DEF IInv, Suspended
  <2>4. TypeOK' /\ InCall' /\ Asked' /\ Suspended'
    BY <1>1, <1>4, <2>1, <2>2, <2>3 DEF IInv, TypeOK, InCall, Asked, Suspended
  <2>5. Away'
    BY <1>1, <2>2, <2>3 DEF IInv, Away, Asked, TypeOK
  <2>6. Waits'
    <3>1. \A q \in Semaphores : \A t \in waiting[q] :
            /\ t \in Task /\ IsCall(t, "take") /\ call[t].queue = q
            /\ pc[t] = "mask" /\ suspender # t /\ t # current'
      BY <2>2, <2>3 DEF IInv, Waits, TypeOK
    <3> QED BY <1>1, <3>1 DEF Waits
  <2>7. Nesting' /\ Counting'
    BY <1>1 DEF IInv, Nesting, InCount, InRegion, Counting, CountsBounded
  <2> QED BY <2>4, <2>5, <2>6, <2>7 DEF IInv
<1> QED BY <1>3, <1>4

(* The tick finds a switch wanted only where the idle task runs, or where  *)
(* the R-Servant is about to give the processor up.                        *)
LEMMA SysTickPreserves ==
  ASSUME ConstantsOK, ServantSystem, IInv, SysTick PROVE IInv'
<1>1. /\ basepri' = 0
      /\ UNCHANGED <<current, uxCriticalNesting, loaded, suspender, yieldDue, pc, call>>
      /\ \A t \in Task : \A k : IsCall(t, k)' <=> IsCall(t, k)
  BY DEF SysTick, IsCall
<1>2. pc[Idle] = "idle" /\ Idle \in Task /\ HookGives \subseteq Semaphores /\ ~Preemption
  BY NeverMasked DEF ConstantsOK, ServantSystem
<1>3. Nesting'
  BY <1>1 DEF IInv, Nesting, InCount, InRegion
<1>4. InCall' /\ Away' /\ Suspended'
  BY <1>1 DEF IInv, InCall, Away, Suspended
<1>5. CASE UNCHANGED queueVars /\ pendSV' = (pendSV \/ Preemption)
  <2>1. UNCHANGED <<messages, waiting>> /\ pendSV' = pendSV
    BY <1>2, <1>5 DEF IInv, TypeOK
  <2>2. TypeOK' /\ Asked' /\ Waits' /\ Counting'
    BY <1>1, <2>1 DEF IInv, TypeOK, Asked, Waits, Counting, CountsBounded
  <2> QED BY <1>3, <1>4, <2>2 DEF IInv
<1>6. ASSUME NEW q \in HookGives, messages[q] < 1,
             messages' = [messages EXCEPT ![q] = messages[q] + 1], Wake(q, Preemption)
      PROVE  IInv'
  <2>1. q \in Semaphores /\ messages[q] = 0 /\ Bound(q) = 2
    BY <1>2, <1>6, BoundFacts DEF IInv, TypeOK
  <2>2. messages' = [messages EXCEPT ![q] = 1]
    BY <1>6, <2>1
  <2>3. Counting'
    <3>1. CountsBounded'
      BY <2>1, <2>2 DEF IInv, TypeOK, Counting, CountsBounded
    <3>2. \A s \in Semaphores : /\ (messages[s] < Bound(s) => messages'[s] < Bound(s))
                                 /\ (messages[s] > 0 => messages'[s] > 0)
      BY <2>1, <2>2 DEF IInv, TypeOK
    <3>3. \A t \in Task : pc[t] = "fetch" => call[t].queue \in Semaphores
      BY DEF IInv, InCall, IsCall, CallType
    <3>4. \A t \in Task : loaded'[t] = loaded[t] /\ pc'[t] = pc[t] /\ call'[t] = call[t]
      BY <1>1
    <3>5. \A s \in Semaphores : Bound(s)' = Bound(s)
      BY DEF Bound
    <3>6. Counting
      BY DEF IInv
    <3> HIDE DEF IInv
    <3> QED BY <3>1, <3>2, <3>3, <3>4, <3>5, <3>6 DEF Counting
  <2>4. CASE waiting[q] = {} /\ UNCHANGED waiting /\ pendSV' = pendSV
    <3>1. TypeOK' /\ Asked' /\ Waits'
      BY <1>1, <2>2, <2>4 DEF IInv, TypeOK, Asked, Waits
    <3> QED BY <1>3, <1>4, <2>3, <3>1 DEF IInv
  <2>5. ASSUME NEW t \in Highest(waiting[q]), waiting' = [waiting EXCEPT ![q] = @ \ {t}],
               pendSV' = (pendSV \/ Priority[t] >= Priority[current])
        PROVE  IInv'
    <3>1. t \in waiting[q]
      BY DEF Highest
    <3>2. TypeOK'
      BY <1>1, <2>2, <2>5 DEF IInv, TypeOK
    <3>3. Asked'
      <4>1. CASE pendSV
        BY <1>1, <4>1 DEF IInv, Asked, TypeOK
      <4>2. CASE ~pendSV /\ Priority[t] >= Priority[current]
        <5>1. t = current \/ current = Idle
          BY <3>1, <4>2, HookWakes
        <5>2. pc[t] \in {"resume", "mask"}
          BY <2>1, <3>1 DEF IInv, Waits
        <5>3. pc'[current'] \in {"resume", "mask", "idle"}
          BY <1>1, <1>2, <5>1, <5>2
        <5> QED BY <5>3 DEF Asked
      <4>3. CASE ~pendSV'
        BY <4>3 DEF Asked
      <4> QED BY <2>5, <4>1, <4>2, <4>3
    <3>4. Waits'
      <4>1. \A s \in Semaphores : waiting'[s] \subseteq waiting[s]
        BY <2>5 DEF IInv, TypeOK
      <4>2. pendSV => pendSV'
        BY <2>5
      <4>3. \A s \in Semaphores : waiting[s] \subseteq Task
        BY DEF IInv, TypeOK
      <4> QED BY <1>1, <4>1, <4>2, <4>3 DEF IInv, Waits
    <3> QED BY <1>3, <1>4, <2>3, <3>2, <3>3, <3>4 DEF IInv
  <2>6. ~Preemption /\ pendSV \in BOOLEAN
    BY <1>2 DEF IInv, TypeOK
  <2> QED BY <1>6, <2>4, <2>5, <2>6 DEF Wake
<1> QED BY <1>5, <1>6 DEF SysTick

-----------------------------------------------------------------------------
(* The steps of the running task.                                          *)

(* A step of t from one place to another, outside the switches.            *)
Goes(t, from, to) ==
  /\ t = current /\ current' = current /\ pc[t] = from /\ ~pendSV /\ pc' \in [Task -> Places]
  /\ pc'[t] = to
  /\ \A u \in Task : u # t => /\ pc'[u] = pc[u] /\ pc[u] \in {"idle", "mask", "leave"}
                              /\ (pc[u] = "leave" => IsCall(u, "give"))

LEMMA StepGoes ==
  ASSUME ConstantsOK, ServantSystem, IInv, NEW t \in Task, NEW from, NEW to \in Places,
         Step(t, from, to)
  PROVE  Goes(t, from, to)
BY StepFacts DEF Goes

SameCalls ==
  call' = call /\ \A u \in Task : \A k : IsCall(u, k)' <=> IsCall(u, k)

LEMMA CallsStay == call' = call => SameCalls
BY DEF SameCalls, IsCall

(* What a step leaves alone that neither suspends, waits nor wakes.        *)
LEMMA PlainStep ==
  ASSUME ConstantsOK, ServantSystem, IInv, NEW t \in Task,
         NEW from \in Places \ {"resume"}, NEW to \in Places \ {"idle", "place", "resume"},
         Goes(t, from, to), SameCalls, UNCHANGED <<switchVars, waiting>>,
         to = "suspend" => IsCall(t, "take"), to = "wake" => IsCall(t, "give"),
         from # "idle"
  PROVE  InCall' /\ Away' /\ Asked' /\ Suspended' /\ Waits'
<1>1. InCall'
  BY DEF IInv, InCall, Goes, SameCalls
<1>2. Away' /\ Asked'
  BY DEF Away, Asked, Goes, SameCalls
<1>3. Suspended'
  BY DEF IInv, Suspended, Goes, SameCalls
<1>4. Waits'
  <2>1. \A q \in Semaphores : \A u \in waiting[q] :
          /\ u \in Task /\ u # t /\ IsCall(u, "take") /\ call[u].queue = q
          /\ pc[u] = "mask" /\ suspender # u
    BY DEF IInv, Waits, Goes, TypeOK
  <2> QED BY <2>1 DEF Waits, Goes, SameCalls
<1> QED BY <1>1, <1>2, <1>3, <1>4

LEMMA SameCount ==
  ASSUME IInv, NEW t \in Task, NEW from, NEW to, Goes(t, from, to),
         from \in {"test", "fetch", "store", "wake", "leave", "exit"}
           <=> to \in {"test", "fetch", "store", "wake", "leave", "exit"}
  PROVE  InCount' = InCount
BY DEF Goes, InCount, InRegion

LEMMA BeginPreserves ==
  ASSUME ConstantsOK, ServantSystem, IInv, NEW t \in Task, NEW c \in Calls[t], Begin(t, c)
  PROVE  IInv'
<1>1. Goes(t, "idle", "mask")
  BY StepGoes DEF Begin, Places
<1>2. call' = [call EXCEPT ![t] = c] /\ UNCHANGED <<sectionVars, switchVars, queueVars>>
  BY DEF Begin
<1>3. c \in CallType /\ t # Idle
  BY DEF ConstantsOK
<1>4. call'[t] = c /\ \A u \in Task : u # t => call'[u] = call[u]
  BY <1>2 DEF IInv, TypeOK
<1>5. \A u \in Task : u # t => \A k : IsCall(u, k)' <=> IsCall(u, k)
  BY <1>4 DEF IsCall
<1>6. IsCall(t, c.kind)' /\ c.kind \in {"give", "take"}
  BY <1>3, <1>4 DEF IsCall, CallType
<1>7. TypeOK'
  BY <1>1, <1>2, <1>3 DEF IInv, TypeOK, Goes
<1>8. InCall' /\ Away' /\ Asked'
  BY <1>1, <1>2, <1>5, <1>6 DEF IInv, InCall, Away, Asked, Goes
<1>9. suspender # t
  BY <1>1, <1>3 DEF IInv, Suspended, Goes
<1>10. Suspended'
  BY <1>1, <1>2, <1>5, <1>9 DEF IInv, Suspended, Goes, TypeOK
<1>11. Waits'
  <2>1. \A q \in Semaphores : \A u \in waiting[q] :
          /\ u \in Task /\ u # t /\ IsCall(u, "take") /\ call[u].queue = q
          /\ pc[u] = "mask" /\ suspender # u
    BY <1>1 DEF IInv, Waits, Goes, TypeOK
  <2> QED BY <1>1, <1>2, <1>4, <1>5, <2>1 DEF Waits, Goes
<1>12. Nesting'
  <2>1. InCount' = InCount
    BY <1>1, SameCount
  <2> QED BY <1>1, <1>2, <2>1 DEF IInv, Nesting, Goes
<1>13. Counting'
  BY <1>1, <1>2, <1>4 DEF IInv, Counting, CountsBounded, Goes, Bound
<1> QED BY <1>7, <1>8, <1>10, <1>11, <1>12, <1>13 DEF IInv

(* The steps of vPortEnterCritical and vPortExitCritical.                  *)
LEMMA SectionPreserves ==
  ASSUME ConstantsOK, ServantSystem, IInv, NEW t \in Task,
         \/ Mask(t) \/ Load(t, "enter", "count") \/ Enter(t)
         \/ Load(t, "leave", "exit") \/ Exit(t)
  PROVE  IInv'
<1>0. /\ call' = call /\ UNCHANGED <<switchVars, queueVars>>
      /\ uxCriticalNesting = Cardinality(InCount)
  BY DEF Mask, Load, Enter, Exit, IInv, Nesting
<1>s. SameCalls
  BY <1>0, CallsStay
<1>n. IInv /\ CountsBounded
  BY DEF IInv, Counting
<1>1. CASE Mask(t)
  <2>1. Goes(t, "mask", "enter") /\ basepri' = MaxSyscallPriority
        /\ UNCHANGED <<uxCriticalNesting, loaded>>
    BY <1>1, StepGoes DEF Mask, Places
  <2>2. TypeOK'
    BY <1>0, <2>1 DEF IInv, TypeOK, Goes
  <2>3. InCall' /\ Away' /\ Asked' /\ Suspended' /\ Waits'
    BY <1>0, <1>s, <2>1, PlainStep DEF Places
  <2>4. Nesting'
    <3>1. InCount' = InCount
      BY <2>1, SameCount
    <3> QED BY <2>1, <3>1 DEF IInv, Nesting, Goes
  <2>5. Counting'
    BY <1>0, <2>1 DEF IInv, Counting, CountsBounded, Goes, Bound
  <2> QED BY <2>2, <2>3, <2>4, <2>5 DEF IInv
<1>2. CASE Load(t, "enter", "count")
  <2>1. Goes(t, "enter", "count") /\ loaded' = [loaded EXCEPT ![t] = uxCriticalNesting]
        /\ UNCHANGED <<uxCriticalNesting, basepri>>
    BY <1>2, StepGoes DEF Load, Places
  <2>2. uxCriticalNesting \in Nat
    BY <1>0, CountFacts
  <2>3. TypeOK'
    BY <1>0, <2>1, <2>2 DEF IInv, TypeOK, Goes
  <2>4. InCall' /\ Away' /\ Asked' /\ Suspended' /\ Waits'
    BY <1>0, <1>s, <2>1, PlainStep DEF Places
  <2>5. Nesting'
    <3>1. InCount' = InCount
      BY <2>1, SameCount
    <3> QED BY <2>1, <3>1 DEF IInv, Nesting, Goes, TypeOK
  <2>6. Counting'
    BY <1>0, <2>1 DEF IInv, Counting, CountsBounded, Goes, Bound
  <2> QED BY <2>3, <2>4, <2>5, <2>6 DEF IInv
<1>3. CASE Load(t, "leave", "exit")
  <2>1. Goes(t, "leave", "exit") /\ loaded' = [loaded EXCEPT ![t] = uxCriticalNesting]
        /\ UNCHANGED <<uxCriticalNesting, basepri>>
    BY <1>3, StepGoes DEF Load, Places
  <2>2. uxCriticalNesting \in Nat
    BY <1>0, CountFacts
  <2>3. TypeOK'
    BY <1>0, <2>1, <2>2 DEF IInv, TypeOK, Goes
  <2>4. InCall' /\ Away' /\ Asked' /\ Suspended' /\ Waits'
    BY <1>0, <1>s, <2>1, PlainStep DEF Places
  <2>5. Nesting'
    <3>1. InCount' = InCount
      BY <2>1, SameCount
    <3> QED BY <2>1, <3>1 DEF IInv, Nesting, Goes, TypeOK
  <2>6. Counting'
    BY <1>0, <2>1 DEF IInv, Counting, CountsBounded, Goes, Bound
  <2> QED BY <2>3, <2>4, <2>5, <2>6 DEF IInv
<1>4. CASE Enter(t)
  <2>1. Goes(t, "count", "test") /\ uxCriticalNesting' = (loaded[t] + 1) % NestingWidth
        /\ UNCHANGED <<loaded, basepri>>
    BY <1>4, StepGoes DEF Enter, Places
  <2>2. InCount' = InCount \cup {t} /\ t \notin InCount
    BY <2>1 DEF Goes, InCount, InRegion
  <2>3. uxCriticalNesting' = Cardinality(InCount')
    <3>1. loaded[t] = Cardinality(InCount)
      BY <1>0, <2>1 DEF IInv, Nesting, Goes
    <3> QED BY <2>1, <2>2, <3>1, CountFacts
  <2>4. TypeOK'
    BY <1>0, <2>1 DEF IInv, TypeOK, Goes
  <2>5. InCall' /\ Away' /\ Asked' /\ Suspended' /\ Waits'
    BY <1>0, <1>s, <2>1, PlainStep DEF Places
  <2>6. Nesting'
    BY <2>1, <2>3 DEF Nesting, Goes
  <2>7. Counting'
    BY <1>0, <2>1 DEF IInv, Counting, CountsBounded, Goes, Bound
  <2> QED BY <2>4, <2>5, <2>6, <2>7 DEF IInv
<1>5. CASE Exit(t)
  <2>1. Goes(t, "exit", "open") /\ uxCriticalNesting' = (loaded[t] - 1) % NestingWidth
        /\ UNCHANGED <<loaded, basepri>>
    BY <1>5, StepGoes DEF Exit, Places
  <2>2. InCount' = InCount \ {t} /\ t \in InCount
    BY <2>1 DEF Goes, InCount, InRegion
  <2>3. uxCriticalNesting' = Cardinality(InCount')
    <3>1. loaded[t] = Cardinality(InCount)
      BY <1>0, <2>1 DEF IInv, Nesting, Goes
    <3> QED BY <2>1, <2>2, <3>1, CountFacts
  <2>4. TypeOK'
    BY <1>0, <2>1 DEF IInv, TypeOK, Goes
  <2>5. InCall' /\ Away' /\ Asked' /\ Suspended' /\ Waits'
    BY <1>0, <1>s, <2>1, PlainStep DEF Places
  <2>6. Nesting'
    BY <2>1, <2>3 DEF Nesting, Goes
  <2>7. Counting'
    BY <1>0, <2>1 DEF IInv, Counting, CountsBounded, Goes, Bound
  <2> QED BY <2>4, <2>5, <2>6, <2>7 DEF IInv
<1> QED BY <1>1, <1>2, <1>3, <1>4, <1>5

(* The test looks, and decides nothing but where the call goes on.         *)
LEMMA TestPreserves ==
  ASSUME ConstantsOK, ServantSystem, IInv, NEW t \in Task, Test(t)
  PROVE  IInv'
<1> DEFINE to == IF Found(t) /\ suspender # t THEN "fetch" ELSE "leave"
<1>1. Goes(t, "test", to) /\ to \in {"fetch", "leave"}
      /\ call' = [call EXCEPT ![t].found = Found(t)]
      /\ UNCHANGED <<sectionVars, switchVars, queueVars>>
  BY StepGoes DEF Test, Places
<1>2. call[t] \in CallType /\ call[t].queue \in Semaphores
  BY <1>1 DEF IInv, InCall, IsCall, Goes, CallType
<1>3. /\ call'[t] \in CallType /\ call'[t].kind = call[t].kind /\ call'[t].queue = call[t].queue
      /\ \A u \in Task : u # t => call'[u] = call[u]
      /\ call' \in [Task -> CallType \cup {NoCall}]
  <2>1. Found(t) \in BOOLEAN
    BY DEF Found
  <2>2. [call[t] EXCEPT !.found = Found(t)] \in CallType
    BY <1>2, <2>1 DEF CallType
  <2>3. call' = [call EXCEPT ![t] = [call[t] EXCEPT !.found = Found(t)]]
    BY <1>1
  <2> HIDE DEF to
  <2> QED BY <1>2, <2>2, <2>3 DEF IInv, TypeOK, CallType
<1>4. \A u \in Task : \A k : IsCall(u, k)' <=> IsCall(u, k)
  BY <1>2, <1>3 DEF IsCall
<1>5. to = "fetch" => IF call[t].kind = "give" THEN messages[call[t].queue] < 1
                                               ELSE messages[call[t].queue] > 0
  BY DEF Found
<1> HIDE DEF to
<1>6. TypeOK'
  BY <1>1, <1>3 DEF IInv, TypeOK, Goes
<1>7. InCall' /\ Away' /\ Asked' /\ Suspended'
  BY <1>1, <1>4 DEF IInv, InCall, Away, Asked, Suspended, Goes
<1>8. Waits'
  <2>1. \A q \in Semaphores : \A u \in waiting[q] :
          /\ u \in Task /\ u # t /\ IsCall(u, "take") /\ call[u].queue = q
          /\ pc[u] = "mask" /\ suspender # u
    BY <1>1 DEF IInv, Waits, Goes, TypeOK
  <2> QED BY <1>1, <1>3, <1>4, <2>1 DEF Waits, Goes
<1>9. Nesting'
  <2>1. InCount' = InCount
    BY <1>1, SameCount
  <2> QED BY <1>1, <2>1 DEF IInv, Nesting, Goes
<1>10. Counting'
  <2>1. messages[call[t].queue] \in Nat /\ Bound(call[t].queue) \in {1, 2}
    BY <1>2, BoundFacts DEF IInv, TypeOK
  <2> QED BY <1>1, <1>3, <1>5, <2>1 DEF IInv, Counting, CountsBounded, Goes, Bound
<1> QED BY <1>6, <1>7, <1>8, <1>9, <1>10 DEF IInv

(* ++uxMessagesWaiting and --uxMessagesWaiting                             *)
LEMMA CountPreserves ==
  ASSUME ConstantsOK, ServantSystem, IInv, NEW t \in Task, Fetch(t) \/ Store(t)
  PROVE  IInv'
<1>0. /\ call' = call /\ UNCHANGED <<switchVars, waiting, basepri, uxCriticalNesting>>
  BY DEF Fetch, Store
<1>s. SameCalls
  BY <1>0, CallsStay
<1> DEFINE q == call[t].queue
<1>q. pc[t] # "idle" => /\ q \in Semaphores /\ messages[q] \in 0 .. Bound(q)
                        /\ Bound(q) \in {1, 2} /\ call[t].kind \in {"give", "take"}
                        /\ (IsCall(t, "give") <=> call[t].kind = "give")
  BY BoundFacts DEF IInv, InCall, IsCall, CallType, Counting, CountsBounded
<1>1. CASE Fetch(t)
  <2>1. Goes(t, "fetch", "store") /\ loaded' = [loaded EXCEPT ![t] = messages[q]]
        /\ messages' = messages
    BY <1>1, StepGoes DEF Fetch, Places
  <2>2. q \in Semaphores /\ messages[q] \in 0 .. Bound(q) /\ Bound(q) \in {1, 2}
    BY <1>q, <2>1 DEF Goes
  <2>3. TypeOK'
    BY <1>0, <2>1, <2>2 DEF IInv, TypeOK, Goes
  <2>4. InCall' /\ Away' /\ Asked' /\ Suspended' /\ Waits'
    BY <1>0, <1>s, <2>1, PlainStep DEF Places
  <2>5. Nesting'
    <3>1. InCount' = InCount
      BY <2>1, SameCount
    <3> QED BY <1>0, <2>1, <3>1 DEF IInv, Nesting, Goes, TypeOK
  <2>6. Counting'
    <3>1. CountsBounded'
      BY <2>1 DEF IInv, Counting, CountsBounded, Bound
    <3>2. IF call[t].kind = "give" THEN messages[q] < Bound(q) ELSE messages[q] > 0
      BY <2>1 DEF IInv, Counting, Goes
    <3>3. loaded'[t] = messages[q] /\ \A u \in Task : u # t => pc'[u] \notin {"fetch", "store"}
      BY <2>1 DEF IInv, TypeOK, Goes
    <3> QED BY <1>0, <2>1, <2>2, <3>1, <3>2, <3>3 DEF Counting, Goes, Bound
  <2> QED BY <2>3, <2>4, <2>5, <2>6 DEF IInv
<1>2. CASE Store(t)
  <2> DEFINE to == IF call[t].kind = "give" THEN "wake" ELSE "leave"
             n == IF call[t].kind = "give" THEN loaded[t] + 1 ELSE loaded[t] - 1
  <2>1. Goes(t, "store", to) /\ to \in {"wake", "leave"} /\ loaded' = loaded
        /\ messages' = [messages EXCEPT ![q] = n]
    BY <1>2, StepGoes DEF Store, Places
  <2>2. q \in Semaphores /\ Bound(q) \in {1, 2} /\ (to = "wake" => IsCall(t, "give"))
    BY <1>q, <2>1 DEF Goes
  <2>3. n \in 0 .. Bound(q)
    <3>1. loaded[t] \in Nat
      BY DEF IInv, TypeOK
    <3>2. IF call[t].kind = "give" THEN loaded[t] < Bound(q) ELSE loaded[t] \in 1 .. Bound(q)
      BY <2>1 DEF IInv, Counting, Goes
    <3> QED BY <2>2, <3>1, <3>2
  <2> HIDE DEF to, n
  <2>4. TypeOK'
    BY <1>0, <2>1, <2>2, <2>3 DEF IInv, TypeOK, Goes
  <2>5. InCall' /\ Away' /\ Asked' /\ Suspended' /\ Waits'
    BY <1>0, <1>s, <2>1, <2>2, PlainStep DEF Places
  <2>6. Nesting'
    <3>1. InCount' = InCount
      BY <2>1, SameCount
    <3> QED BY <1>0, <2>1, <3>1 DEF IInv, Nesting, Goes
  <2>7. Counting'
    <3>1. CountsBounded'
      BY <2>1, <2>2, <2>3 DEF IInv, TypeOK, Counting, CountsBounded, Bound
    <3>2. \A u \in Task : pc'[u] \notin {"fetch", "store"}
      BY <2>1 DEF Goes
    <3> QED BY <3>1, <3>2 DEF Counting
  <2> QED BY <2>4, <2>5, <2>6, <2>7 DEF IInv
<1> QED BY <1>1, <1>2

(* A give that wakes a task of at least the own priority yields at once.   *)
LEMMA WakePreserves ==
  ASSUME ConstantsOK, ServantSystem, IInv, NEW t \in Task, WakeStep(t)
  PROVE  IInv'
<1>1. Goes(t, "wake", "leave") /\ call' = call
      /\ UNCHANGED <<sectionVars, suspender, yieldDue, messages>>
  BY StepGoes DEF WakeStep, Places
<1>s. SameCalls
  BY <1>1, CallsStay
<1>2. call[t].queue \in Semaphores /\ IsCall(t, "give")
  BY <1>1 DEF IInv, InCall, IsCall, Goes, CallType
<1>3. pendSV' \in BOOLEAN /\ waiting' \in [Semaphores -> SUBSET Task]
      /\ \A q \in Semaphores : waiting'[q] \subseteq waiting[q]
  <2>1. Wake(call[t].queue, FALSE)
    BY DEF WakeStep
  <2>2. waiting \in [Semaphores -> SUBSET Task] /\ pendSV \in BOOLEAN
    BY DEF IInv, TypeOK
  <2>3. ASSUME NEW u, waiting' = [waiting EXCEPT ![call[t].queue] = waiting[call[t].queue] \ {u}]
        PROVE  waiting' \in [Semaphores -> SUBSET Task]
               /\ \A q \in Semaphores : waiting'[q] \subseteq waiting[q]
    BY <1>2, <2>2, <2>3
  <2>4. waiting' \in [Semaphores -> SUBSET Task]
        /\ \A q \in Semaphores : waiting'[q] \subseteq waiting[q]
    BY <2>1, <2>2, <2>3 DEF Wake
  <2>5. pendSV' \in BOOLEAN
    BY <2>1, <2>2 DEF Wake
  <2> QED BY <2>4, <2>5
<1>4. TypeOK'
  BY <1>1, <1>3 DEF IInv, TypeOK, Goes
<1>5. InCall' /\ Away' /\ Suspended'
  BY <1>1, <1>s DEF IInv, InCall, Away, Suspended, Goes, SameCalls
<1>6. Asked'
  BY <1>1, <1>2, <1>s DEF Asked, Goes, SameCalls
<1>7. Waits'
  <2>1. \A q \in Semaphores : \A u \in waiting[q] :
          /\ u \in Task /\ u # t /\ IsCall(u, "take") /\ call[u].queue = q
          /\ pc[u] = "mask" /\ suspender # u
    BY <1>1 DEF IInv, Waits, Goes, TypeOK
  <2> QED BY <1>1, <1>3, <1>s, <2>1 DEF Waits, Goes, SameCalls
<1>8. Nesting'
  <2>1. InCount' = InCount
    BY <1>1, SameCount
  <2> QED BY <1>1, <2>1 DEF IInv, Nesting, Goes
<1>9. Counting'
  BY <1>1 DEF IInv, Counting, CountsBounded, Goes, Bound
<1> QED BY <1>4, <1>5, <1>6, <1>7, <1>8, <1>9 DEF IInv

(* Where a call goes on after its section.                                 *)
LEMMA OpenPreserves ==
  ASSUME ConstantsOK, ServantSystem, IInv, NEW t \in Task, Open(t)
  PROVE  IInv'
<1> DEFINE to == AfterSection(t)
<1>1. Goes(t, "open", to) /\ to \in {"idle", "suspend", "place", "resume"}
  <2>1. to \in {"idle", "suspend", "place", "resume"}
    BY DEF AfterSection
  <2> QED BY <2>1, StepGoes DEF Open, Places
<1>2. call' = call /\ UNCHANGED <<uxCriticalNesting, loaded, switchVars, queueVars>>
      /\ basepri' \in {0, basepri}
  BY DEF Open
<1>s. SameCalls
  BY <1>2, CallsStay
<1>3. t # Idle
  BY <1>1, NeverMasked DEF Goes
<1>4. /\ to \in {"suspend", "place", "resume"} => IsCall(t, "take")
      /\ to = "place" => ~call[t].found
      /\ to \in {"place", "resume"} <=> suspender = t
  <2>1. IsCall(t, "give") \/ IsCall(t, "take")
    BY <1>1 DEF IInv, InCall, Goes
  <2>2. suspender = t => IsCall(t, "take")
    BY <1>3 DEF IInv, Suspended
  <2>3. IsCall(t, "give") => call[t].kind = "give"
    BY DEF IsCall
  <2> QED BY <2>1, <2>2, <2>3 DEF AfterSection
<1> HIDE DEF to
<1>5. TypeOK'
  BY <1>1, <1>2 DEF IInv, TypeOK, Goes
<1>6. InCall' /\ Away' /\ Asked'
  BY <1>1, <1>2, <1>4, <1>s DEF IInv, InCall, Away, Asked, Goes, SameCalls
<1>7. Suspended'
  BY <1>1, <1>2, <1>4, <1>s DEF IInv, Suspended, Goes, SameCalls
<1>8. Waits'
  <2>1. \A q \in Semaphores : \A u \in waiting[q] :
          /\ u \in Task /\ u # t /\ IsCall(u, "take") /\ call[u].queue = q
          /\ pc[u] = "mask" /\ suspender # u
    BY <1>1 DEF IInv, Waits, Goes, TypeOK
  <2> QED BY <1>1, <1>2, <1>s, <2>1 DEF Waits, Goes, SameCalls
<1>9. Nesting'
  <2>1. InCount' = InCount
    BY <1>1, SameCount
  <2> QED BY <1>1, <1>2, <2>1 DEF IInv, Nesting, Goes
<1>10. Counting'
  BY <1>1, <1>2 DEF IInv, Counting, CountsBounded, Goes, Bound
<1> QED BY <1>5, <1>6, <1>7, <1>8, <1>9, <1>10 DEF IInv

(* The steps of a take that waits.                                         *)
LEMMA SuspendPreserves ==
  ASSUME ConstantsOK, ServantSystem, IInv, NEW t \in Task,
         SuspendAll(t) \/ Place(t) \/ ResumeAll(t)
  PROVE  IInv'
<1>0. /\ call' = call /\ UNCHANGED <<sectionVars, messages>>
  BY DEF SuspendAll, Place, ResumeAll
<1>s. SameCalls
  BY <1>0, CallsStay
<1>1. ASSUME NEW from \in {"suspend", "place", "resume"}, NEW to \in {"mask", "resume"},
             Goes(t, from, to)
      PROVE  Nesting' /\ Counting' /\ t # Idle /\ IsCall(t, "take") /\ call[t].queue \in Semaphores
  <2>1. InCount' = InCount
    BY <1>1, SameCount
  <2>2. Nesting'
    BY <1>0, <1>1, <2>1 DEF IInv, Nesting, Goes
  <2>3. Counting'
    BY <1>0, <1>1 DEF IInv, Counting, CountsBounded, Goes, Bound
  <2>4. t # Idle
    BY <1>1, NeverMasked DEF Goes
  <2>5. IsCall(t, "take") /\ call[t].queue \in Semaphores
    BY <1>1 DEF IInv, InCall, IsCall, Goes, CallType
  <2> QED BY <2>2, <2>3, <2>4, <2>5
<1>2. CASE SuspendAll(t)
  <2>1. Goes(t, "suspend", "mask") /\ suspender' = t /\ UNCHANGED <<pendSV, yieldDue, waiting>>
    BY <1>2, StepGoes DEF SuspendAll, Places
  <2>2. Nesting' /\ Counting' /\ t # Idle /\ IsCall(t, "take")
    BY <1>1, <2>1
  <2>3. TypeOK'
    BY <1>0, <2>1 DEF IInv, TypeOK, Goes
  <2>4. InCall' /\ Away' /\ Asked' /\ Suspended'
    BY <1>0, <1>s, <2>1, <2>2 DEF IInv, InCall, Away, Asked, Suspended, Goes, SameCalls
  <2>5. Waits'
    <3>1. \A q \in Semaphores : \A u \in waiting[q] :
            /\ u \in Task /\ u # t /\ IsCall(u, "take") /\ call[u].queue = q
            /\ pc[u] = "mask"
      BY <2>1 DEF IInv, Waits, Goes, TypeOK
    <3> QED BY <1>0, <1>s, <2>1, <3>1 DEF Waits, Goes, SameCalls
  <2> QED BY <2>2, <2>3, <2>4, <2>5 DEF IInv
<1>3. CASE Place(t)
  <2>1. Goes(t, "place", "resume") /\ UNCHANGED switchVars
        /\ waiting' = [waiting EXCEPT ![call[t].queue] = @ \cup {t}]
    BY <1>3, StepGoes DEF Place, Places
  <2>2. Nesting' /\ Counting' /\ t # Idle /\ IsCall(t, "take") /\ call[t].queue \in Semaphores
    BY <1>1, <2>1
  <2>3. ~call[t].found
    BY <2>1 DEF IInv, InCall, Goes
  <2>4. TypeOK'
    BY <1>0, <2>1, <2>2 DEF IInv, TypeOK, Goes
  <2>5. InCall' /\ Away' /\ Asked'
    BY <1>0, <1>s, <2>1, <2>2 DEF IInv, InCall, Away, Asked, Goes, SameCalls
  <2>6. Suspended'
    BY <1>0, <1>s, <2>1, <2>2 DEF IInv, Suspended, Goes, SameCalls
  <2>7. Waits'
    <3>1. \A q \in Semaphores : \A u \in waiting[q] :
            /\ u \in Task /\ u # t /\ IsCall(u, "take") /\ call[u].queue = q
            /\ pc[u] = "mask" /\ suspender # u
      BY <2>1 DEF IInv, Waits, Goes, TypeOK
    <3>2. ASSUME NEW q \in Semaphores, NEW u \in waiting'[q]
          PROVE  u \in waiting[q] \/ (u = t /\ q = call[t].queue)
      BY <2>1, <2>2 DEF IInv, TypeOK
    <3>3. ASSUME NEW q \in Semaphores, NEW u \in waiting[q]
          PROVE  /\ IsCall(u, "take")' /\ call'[u].queue = q
                 /\ pc'[u] = "mask" /\ suspender' # u /\ u # current'
      BY <1>0, <1>s, <2>1, <3>1 DEF Goes, SameCalls
    <3>4. /\ IsCall(t, "take")' /\ call' = call
          /\ pc'[t] = "resume" /\ ~call'[t].found
      BY <1>0, <1>s, <2>1, <2>2, <2>3 DEF Goes, SameCalls
    <3> QED BY <3>2, <3>3, <3>4 DEF Waits
  <2> QED BY <2>2, <2>4, <2>5, <2>6, <2>7 DEF IInv
<1>4. CASE ResumeAll(t)
  <2>1. Goes(t, "resume", "mask") /\ suspender' = Idle /\ yieldDue' = FALSE
        /\ pendSV' = (yieldDue \/ ~call[t].found) /\ waiting' = waiting
    BY <1>4, StepGoes DEF ResumeAll, Places
  <2>2. Nesting' /\ Counting' /\ t # Idle /\ IsCall(t, "take")
    BY <1>1, <2>1
  <2>3. TypeOK'
    BY <1>0, <2>1 DEF IInv, TypeOK, Goes, ConstantsOK
  <2>4. InCall' /\ Away' /\ Asked' /\ Suspended'
    BY <1>0, <1>s, <2>1, <2>2 DEF IInv, InCall, Away, Asked, Suspended, Goes, SameCalls
  <2>5. Waits'
    <3>1. \A q \in Semaphores : \A u \in waiting[q] :
            /\ u \in Task /\ IsCall(u, "take") /\ call[u].queue = q
            /\ IF u = t THEN ~call[u].found ELSE pc[u] = "mask"
            /\ u # Idle
      BY <2>1, NeverMasked DEF IInv, Waits, Goes, TypeOK
    <3>2. ASSUME NEW q \in Semaphores, NEW u \in waiting[q]
          PROVE  /\ IsCall(u, "take")' /\ call'[u].queue = q
                 /\ pc'[u] = "mask" /\ suspender' # u /\ (u = current' => pendSV')
      <4>1. CASE u = t
        BY <1>0, <1>s, <2>1, <3>1, <4>1 DEF Goes, SameCalls
      <4>2. CASE u # t
        BY <1>0, <1>s, <2>1, <3>1, <4>2 DEF Goes, SameCalls
      <4> QED BY <4>1, <4>2
    <3> QED BY <2>1, <3>2 DEF Waits
  <2> QED BY <2>2, <2>3, <2>4, <2>5 DEF IInv
<1> QED BY <1>2, <1>3, <1>4

LEMMA StepPreserves ==
  ASSUME ConstantsOK, ServantSystem, IInv, [Next]_vars PROVE IInv'
<1>1. ASSUME NEW t \in Task, TaskStep(t) PROVE IInv'
  BY <1>1, BeginPreserves, SectionPreserves, TestPreserves, CountPreserves, WakePreserves,
     OpenPreserves, SuspendPreserves DEF TaskStep
<1>2. CASE UNCHANGED vars
  <2>1. InCount' = InCount /\ \A u \in Task : \A k : IsCall(u, k)' <=> IsCall(u, k)
    BY <1>2 DEF InCount, InRegion, IsCall
  <2>2. TypeOK' /\ InCall' /\ Away' /\ Asked'
    BY <1>2, <2>1 DEF IInv, TypeOK, InCall, Away, Asked
  <2>3. Suspended' /\ Waits' /\ Nesting' /\ Counting'
    BY <1>2, <2>1 DEF IInv, TypeOK, Suspended, Waits, Nesting, Counting, CountsBounded, Bound
  <2> QED BY <2>2, <2>3 DEF IInv
<1> QED BY <1>1, <1>2, PendSVPreserves, SysTickPreserves DEF Next

-----------------------------------------------------------------------------
(* In the system of the servants no task is taken off the processor inside *)
(* a critical region but by the yield of its own give (task.h:157): what   *)
(* Tasks, Queue and SEFM do in one step is one step for the other tasks.   *)
THEOREM OnlyYieldsSwitch ==
  ASSUME ConstantsOK, ServantSystem PROVE Spec => NoPreemptiveSwitch
<1> DEFINE A == current' # current /\ InRegion(current) =>
                  pc[current] = "leave" /\ call[current].kind = "give"
<1>1. ASSUME IInv, [Next]_vars PROVE [A]_vars
  <2>1. ASSUME PendSV PROVE A
    <3>1. pendSV /\ (InRegion(current) => pc[current] \notin {"idle", "mask", "resume"})
      BY <2>1 DEF PendSV, InRegion
    <3> QED BY <1>1, <3>1 DEF IInv, Asked, IsCall
  <2>2. ASSUME SysTick \/ \E t \in Task : TaskStep(t) PROVE current' = current
    BY <2>2 DEF SysTick, TaskStep, Begin, Mask, Load, Enter, Test, Fetch, Store, WakeStep, Exit,
                Open, SuspendAll, Place, ResumeAll, Step
  <2> QED BY <1>1, <2>1, <2>2 DEF Next
<1> QED BY <1>1, HoldsInitially, StepPreserves, PTL DEF Spec, NoPreemptiveSwitch

(* A semaphore counts at most one give that is not taken, and one more if  *)
(* the tick hook gives it between the test and the count of a task's give. *)
THEOREM CountsStayBounded ==
  ASSUME ConstantsOK, ServantSystem PROVE Spec => []CountsBounded
<1>1. IInv => CountsBounded
  BY DEF IInv, Counting
<1> QED BY <1>1, HoldsInitially, StepPreserves, PTL DEF Spec

(* The one count of sections is right for all tasks together, those among  *)
(* them that yielded the processor inside a section.                       *)
THEOREM OneCountIsEnough ==
  ASSUME ConstantsOK, ServantSystem PROVE Spec => []NestingCounts
<1>1. IInv => NestingCounts
  BY DEF IInv, Nesting, InCount, NestingCounts
<1> QED BY <1>1, HoldsInitially, StepPreserves, PTL DEF Spec
=============================================================================
