------------------------------ MODULE LetRounds ------------------------------
(***************************************************************************)
(* What the servant runtime promises to an application, without events,    *)
(* lists, semaphores or a clock: the servants of a task run in rounds.  In *)
(* a round every servant runs exactly once, after the servants it has      *)
(* inputs from, and the task's sensor begins the next round only when all  *)
(* of them have run.                                                       *)
(***************************************************************************)
EXTENDS Naturals

CONSTANTS Servants, Sensors, TaskOf, Relations

Member(x) == {s \in Servants : TaskOf[s] = TaskOf[x]}

(* The servants of the same round that s has inputs from.                  *)
Before(s) == {r[1] : r \in {q \in Relations : q[2] = s /\ q[1] < q[2]}}

VARIABLES
  round,  \* the number of rounds each sensor has begun
  ran     \* the servants that have run in the current round of their task

vars == <<round, ran>>

Init ==
  /\ round = [x \in Sensors |-> 0]
  /\ ran = {}

BeginRound(x) ==
  /\ round[x] = 0 \/ Member(x) \subseteq ran
  /\ round' = [round EXCEPT ![x] = @ + 1]
  /\ ran' = (ran \ Member(x)) \cup {x}

Run(s) ==
  /\ s \notin ran
  /\ Before(s) \subseteq ran
  /\ ran' = ran \cup {s}
  /\ UNCHANGED round

Next ==
  \/ \E x \in Sensors : BeginRound(x)
  \/ \E s \in Servants \ Sensors : Run(s)

Spec == Init /\ [][Next]_vars
=============================================================================
