----------------------------- MODULE MCSEFMRing -----------------------------
(***************************************************************************)
(* Two tasks shaped like those of app.c: a ring of a sensor and a servant, *)
(* and a sensor that is its own successor, with twice the period.          *)
(***************************************************************************)
EXTENDS SEFM

MCServants    == 0 .. 2
MCSensors     == {0, 2}
MCTasks       == 0 .. 1
MCTaskOf      == [s \in MCServants |-> IF s = 2 THEN 1 ELSE 0]
MCRelations   == {<<0, 1>>, <<1, 0>>, <<2, 2>>}
MCLet         == [s \in MCServants |-> 1]
MCPeriod      == [t \in MCTasks |-> IF t = 0 THEN 4 ELSE 8]
MCPriority    == [s \in MCServants |-> IF s = 2 THEN 2 ELSE 3]
MCHookPeriods == {4, 8}
MCSlowTicks   == 5 .. 24
=============================================================================
