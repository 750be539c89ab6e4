------------------------------ MODULE Critical ------------------------------
(***************************************************************************)
(* Critical sections (port.c, portmacro.h) under the binary semaphores of  *)
(* queue.c, one access of a shared variable at a time.  A section raises   *)
(* basepri to MaxSyscallPriority, and lets go of it when the count of      *)
(* sections, one variable for all tasks, is back at zero.  basepri holds   *)
(* back an interrupt only if the number of its priority is not smaller;    *)
(* both FreeRTOSConfig.h give the kernel's interrupts, SysTick and PendSV, *)
(* 127, and the mask 191: the tick interrupts sections, and its hook gives *)
(* semaphores with the call for tasks.                                     *)
(*                                                                         *)
(* The modules Tasks, Queue and SEFM take what is done inside a section as *)
(* one step.  CriticalProofs shows what that rests on in the system of the *)
(* servants, which has no preemption.                                      *)
(***************************************************************************)
EXTENDS Integers, FiniteSets

CONSTANTS
  Task,               \* with the idle task, which makes no calls
  Idle,
  Priority,
  Semaphores,
  Calls,              \* the calls each task makes: kinds and semaphores
  HookGives,          \* semaphores vApplicationTickHook gives
  Preemption,         \* configUSE_PREEMPTION
  NestingWidth,       \* number of values of unsigned portBASE_TYPE
  KernelPriority,     \* configKERNEL_INTERRUPT_PRIORITY
  MaxSyscallPriority  \* configMAX_SYSCALL_INTERRUPT_PRIORITY

VARIABLES
  current,            \* pxCurrentTCB
  basepri,
  uxCriticalNesting,
  loaded,             \* the register each task changes a count in
  pendSV,             \* a context switch is pending
  suspender,          \* the task that suspended the scheduler, or Idle
  yieldDue,           \* xMissedYield
  messages,           \* uxMessagesWaiting of each semaphore
  waiting,            \* xTasksWaitingToReceive of each semaphore
  pc,
  call                \* the call each task is in

sectionVars == <<basepri, uxCriticalNesting, loaded>>
switchVars == <<pendSV, suspender, yieldDue>>
queueVars == <<messages, waiting>>
vars == <<current, sectionVars, switchVars, queueVars, pc, call>>

-----------------------------------------------------------------------------
(* SysTick and PendSV preempt tasks, but not each other.                   *)
Unmasked == basepri = 0 \/ KernelPriority < basepri

Ready == {t \in Task : \A q \in Semaphores : t \notin waiting[q]}
Highest(S) == {t \in S : \A u \in S : Priority[u] <= Priority[t]}

(* xTaskRemoveFromEventList, for the first of the waiting tasks, if any,   *)
(* and the yield when it has at least the priority of the running task;    *)
(* `tick' says that the interrupt asks for a switch anyway.                *)
Wake(q, tick) ==
  \/ waiting[q] = {} /\ UNCHANGED waiting /\ pendSV' = (pendSV \/ tick)
  \/ \E t \in Highest(waiting[q]) :
       /\ waiting' = [waiting EXCEPT ![q] = @ \ {t}]
       /\ pendSV' = (pendSV \/ tick \/ Priority[t] >= Priority[current])

(* xPortPendSVHandler and vTaskSwitchContext.  While the scheduler is      *)
(* suspended the switch is left to xTaskResumeAll.  The handler ends with  *)
(* basepri 0, whatever it was.                                             *)
PendSV ==
  /\ pendSV /\ Unmasked
  /\ pendSV' = FALSE
  /\ basepri' = 0
  /\ IF suspender # Idle THEN yieldDue' = TRUE /\ UNCHANGED current
                         ELSE current' \in Highest(Ready) /\ UNCHANGED yieldDue
  /\ UNCHANGED <<uxCriticalNesting, loaded, suspender, queueVars, pc, call>>

(* xPortSysTickHandler, with a hook that may give a semaphore, whether the *)
(* scheduler is suspended or not.  The call is the one for tasks, with a   *)
(* section of its own that leaves the count as it was, and the handler     *)
(* ends with basepri 0, whatever it was.  Only with configUSE_PREEMPTION   *)
(* does the tick ask for a switch itself.                                  *)
SysTick ==
  /\ Unmasked
  /\ \/ UNCHANGED queueVars /\ pendSV' = (pendSV \/ Preemption)
     \/ \E q \in HookGives :
          /\ messages[q] < 1
          /\ messages' = [messages EXCEPT ![q] = @ + 1]
          /\ Wake(q, Preemption)
  /\ basepri' = 0
  /\ UNCHANGED <<current, uxCriticalNesting, loaded, suspender, yieldDue, pc, call>>

-----------------------------------------------------------------------------
(* The steps of a call.  A switch that is pending and not held back comes  *)
(* before the next of them.                                                *)

Step(t, from, to) ==
  /\ t = current /\ pc[t] = from /\ ~(pendSV /\ Unmasked)
  /\ pc' = [pc EXCEPT ![t] = to]
  /\ UNCHANGED current

Begin(t, c) ==
  /\ c \in Calls[t]
  /\ Step(t, "idle", "mask")
  /\ call' = [call EXCEPT ![t] = c]
  /\ UNCHANGED <<sectionVars, switchVars, queueVars>>

(* vPortEnterCritical                                                      *)
Mask(t) ==
  /\ Step(t, "mask", "enter")
  /\ basepri' = MaxSyscallPriority
  /\ UNCHANGED <<uxCriticalNesting, loaded, switchVars, queueVars, call>>

Load(t, from, to) ==
  /\ Step(t, from, to)
  /\ loaded' = [loaded EXCEPT ![t] = uxCriticalNesting]
  /\ UNCHANGED <<basepri, uxCriticalNesting, switchVars, queueVars, call>>

Enter(t) ==
  /\ Step(t, "count", "test")
  /\ uxCriticalNesting' = (loaded[t] + 1) % NestingWidth
  /\ UNCHANGED <<basepri, loaded, switchVars, queueVars, call>>

(* The test xQueueGenericSend and xQueueGenericReceive begin with, and     *)
(* that of prvIsQueueEmpty                                                 *)
Found(t) ==
  \/ call[t].kind = "give" /\ messages[call[t].queue] < 1
  \/ call[t].kind = "take" /\ messages[call[t].queue] > 0

Test(t) ==
  /\ Step(t, "test", IF Found(t) /\ suspender # t THEN "fetch" ELSE "leave")
  /\ call' = [call EXCEPT ![t].found = Found(t)]
  /\ UNCHANGED <<sectionVars, switchVars, queueVars>>

(* ++uxMessagesWaiting or --uxMessagesWaiting                              *)
Fetch(t) ==
  /\ Step(t, "fetch", "store")
  /\ loaded' = [loaded EXCEPT ![t] = messages[call[t].queue]]
  /\ UNCHANGED <<basepri, uxCriticalNesting, switchVars, queueVars, call>>

Store(t) ==
  /\ Step(t, "store", IF call[t].kind = "give" THEN "wake" ELSE "leave")
  /\ messages' = [messages EXCEPT ![call[t].queue] =
                    IF call[t].kind = "give" THEN loaded[t] + 1 ELSE loaded[t] - 1]
  /\ UNCHANGED <<sectionVars, switchVars, waiting, call>>

WakeStep(t) ==
  /\ Step(t, "wake", "leave")
  /\ Wake(call[t].queue, FALSE)
  /\ UNCHANGED <<sectionVars, suspender, yieldDue, messages, call>>

(* vPortExitCritical.  A call for which nothing was found goes on to wait  *)
(* if it is a take, and ends if it is a give.                              *)
Exit(t) ==
  /\ Step(t, "exit", "open")
  /\ uxCriticalNesting' = (loaded[t] - 1) % NestingWidth
  /\ UNCHANGED <<basepri, loaded, switchVars, queueVars, call>>

AfterSection(t) ==
  IF suspender = t THEN IF call[t].found THEN "resume" ELSE "place"
  ELSE IF call[t].kind = "give" \/ call[t].found THEN "idle" ELSE "suspend"

Open(t) ==
  /\ Step(t, "open", AfterSection(t))
  /\ basepri' = IF uxCriticalNesting = 0 THEN 0 ELSE basepri
  /\ UNCHANGED <<uxCriticalNesting, loaded, switchVars, queueVars, call>>

(* A take that waits: vTaskSuspendAll, the test of prvIsQueueEmpty in a    *)
(* section of its own, vTaskPlaceOnEventList if it was empty, and          *)
(* xTaskResumeAll, after which it begins again.  The locks on the queue    *)
(* are not here: the call for tasks does not look at them.                 *)
SuspendAll(t) ==
  /\ Step(t, "suspend", "mask")
  /\ suspender' = t
  /\ UNCHANGED <<sectionVars, pendSV, yieldDue, queueVars, call>>

Place(t) ==
  /\ Step(t, "place", "resume")
  /\ waiting' = [waiting EXCEPT ![call[t].queue] = @ \cup {t}]
  /\ UNCHANGED <<sectionVars, switchVars, messages, call>>

ResumeAll(t) ==
  /\ Step(t, "resume", "mask")
  /\ suspender' = Idle
  /\ pendSV' = (yieldDue \/ ~call[t].found)
  /\ yieldDue' = FALSE
  /\ UNCHANGED <<sectionVars, queueVars, call>>

-----------------------------------------------------------------------------
NoCall == [kind |-> "none", queue |-> Idle, found |-> FALSE]

Init ==
  /\ current \in Highest(Task)
  /\ basepri = 0 /\ uxCriticalNesting = 0 /\ loaded = [t \in Task |-> 0]
  /\ pendSV = FALSE /\ suspender = Idle /\ yieldDue = FALSE
  /\ messages = [q \in Semaphores |-> 0]
  /\ waiting = [q \in Semaphores |-> {}]
  /\ pc = [t \in Task |-> "idle"] /\ call = [t \in Task |-> NoCall]

TaskStep(t) ==
  \/ \E c \in Calls[t] : Begin(t, c)
  \/ Mask(t) \/ Load(t, "enter", "count") \/ Enter(t)
  \/ Test(t) \/ Fetch(t) \/ Store(t) \/ WakeStep(t)
  \/ Load(t, "leave", "exit") \/ Exit(t) \/ Open(t)
  \/ SuspendAll(t) \/ Place(t) \/ ResumeAll(t)

Next == PendSV \/ SysTick \/ \E t \in Task : TaskStep(t)

Spec == Init /\ [][Next]_vars

-----------------------------------------------------------------------------
(* "send semaphore to R-Servant to triggered it to cope with events"       *)
(* (main.c:164): when nobody runs but the idle task, nobody waits for a    *)
(* semaphore that has been given.  For tasks and for interrupts that use   *)
(* their own calls the lock on the queue sees to that (tasks.c:1751-1755). *)
NobodySleepsGiven ==
  current = Idle /\ ~pendSV =>
    \A q \in Semaphores : messages[q] > 0 => waiting[q] = {}

-----------------------------------------------------------------------------
(* What CriticalProofs proves for the system of the servants.              *)

(* The processor goes to another task inside a section only by the yield   *)
(* of a give, which queue.c:600-605 declares right, and never by a tick:   *)
(* "Preemptive context switches cannot occur when in a critical region"    *)
(* (task.h:157-158, 171-172).                                              *)
InRegion(t) == pc[t] \in {"test", "fetch", "store", "wake", "leave"}
NoPreemptiveSwitch ==
  [][current' # current /\ InRegion(current) =>
       pc[current] = "leave" /\ call[current].kind = "give"]_vars

(* A give of the tick hook that falls between the test and the count of a  *)
(* servant's give makes uxMessagesWaiting go beyond uxLength, but by no    *)
(* more than one, and only for a semaphore that both give (queue.c:589).   *)
Bound(q) == IF q \in HookGives THEN 2 ELSE 1
CountsBounded == \A q \in Semaphores : messages[q] \in 0 .. Bound(q)

(* uxCriticalNesting counts the sections that are open, those of tasks     *)
(* that were switched away inside one among them, so that the last to be   *)
(* closed, and no other, lets interrupts in (port.c:216-231).              *)
NestingCounts ==
  uxCriticalNesting = Cardinality({t \in Task : InRegion(t) \/ pc[t] = "exit"})
=============================================================================
