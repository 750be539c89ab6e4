------------------------------ MODULE MCSEFMApp ------------------------------
(***************************************************************************)
(* The application of app.c, with code that takes no time beyond its LET.  *)
(***************************************************************************)
EXTENDS SEFMInv, App

MCTasks     == 0 .. 12
MCSlowTicks == {}

(* The tables of app.c are ones the theorems about time are about.         *)
ASSUME MCSchedulable == \E p \in HookPeriods : Schedulable(p)
=============================================================================
