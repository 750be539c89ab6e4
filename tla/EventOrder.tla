----------------------------- MODULE EventOrder -----------------------------
(***************************************************************************)
(* The events of the servant execution flow model and the order in which   *)
(* they are kept: struct timeStamp (include/eventlist.h) and               *)
(* xCompareFunction (eventlist.c).  The modules that keep events, SEFM and *)
(* EventList, share these operators.                                       *)
(***************************************************************************)
EXTENDS Integers

(* Mutant: IS_LAST_SERVANT is not looked at.                               *)
NewEventAtLet(s, d, last, nextPeriod, time, level) ==
  [src |-> s, dst |-> d, xSlackTime |-> nextPeriod,
   xTime |-> time, xLevel |-> level]

(* vEventGenericCreate and vEventSetxTimeStamp: the deadline is the key    *)
(* the list is sorted by, and an event of the last servant of a round is   *)
(* due at the deadline.                                                    *)
NewEvent(s, d, last, nextPeriod, time, level) ==
  [src |-> s, dst |-> d, xSlackTime |-> nextPeriod,
   xTime |-> IF last THEN nextPeriod ELSE time, xLevel |-> level]

(* xCompareFunction: earliest deadline first (vEventSetxTimeStamp stores   *)
(* the deadline in xSlackTime), then the time the event is due, then the   *)
(* order of creation.  xMicroStep takes no part in the comparison.         *)
Before(t1, t2) ==
  \/ t1.xSlackTime < t2.xSlackTime
  \/ /\ t1.xSlackTime = t2.xSlackTime
     /\ \/ t1.xTime < t2.xTime
        \/ t1.xTime = t2.xTime /\ t1.xLevel < t2.xLevel

(* e can be the first item of a list of the events S that is kept sorted:  *)
(* nothing in S goes before it.                                            *)
IsHead(e, S) == e \in S /\ \A f \in S : ~Before(f, e)
=============================================================================
