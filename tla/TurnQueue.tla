------------------------------ MODULE TurnQueue ------------------------------
(***************************************************************************)
(* What the scheduler takes a ready list and a list sorted by value for:   *)
(* tasks of equal priority take turns, and a task that is put aside is     *)
(* found at the head of the other list when it is its time, behind those   *)
(* of the same time.                                                       *)
(***************************************************************************)
EXTENDS Integers, Sequences, SequencesExt

CONSTANTS KernelTasks, Values

VARIABLES
  turns,    \* the ready tasks by turn; the one whose turn it is comes last
  aside     \* the others, with their values, the lowest first

Ready(t) == t \in ToSet(turns)
Aside(t) == \E i \in DOMAIN aside : aside[i].task = t

Without(t) == RemoveFirst(turns, t)
AsideWithout(t) == RemoveFirstMatch(aside, LAMBDA s : s.task = t)

AddTurn(t) ==
  ~Ready(t) /\ ~Aside(t) /\ turns' = Append(turns, t) /\ UNCHANGED aside

TakeTurn ==
  turns # <<>> /\ turns' = Append(Tail(turns), Head(turns)) /\ UNCHANGED aside

PutAside(t, v) ==
  /\ Ready(t) /\ turns' = Without(t)
  /\ \E i \in 1 .. Len(aside) + 1 :
       /\ \A j \in DOMAIN aside : j < i <=> aside[j].value <= v
       /\ aside' = InsertAt(aside, i, [task |-> t, value |-> v])

ComeBack(t) == Aside(t) /\ aside' = AsideWithout(t) /\ turns' = Append(turns, t)

Drop(t) == turns' = Without(t) /\ aside' = AsideWithout(t)

TurnInit == turns = <<>> /\ aside = <<>>

TurnNext ==
  \/ TakeTurn
  \/ \E t \in KernelTasks : \/ AddTurn(t) \/ ComeBack(t) \/ Drop(t)
                            \/ \E v \in Values : PutAside(t, v)

TurnSpec == TurnInit /\ [][TurnNext]_<<turns, aside>>
=============================================================================
