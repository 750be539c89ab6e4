----------------------------- MODULE MCSEFMFork -----------------------------
(***************************************************************************)
(* The shapes MAXINDEGREE = MAXOUTDEGREE = 2 (app.h) allow beyond those of *)
(* app.c: a sensor whose two successors are joined by a fourth servant,    *)
(* and a sensor with two successors that both end the round; and, as in    *)
(* app.c, a sensor that is its own successor.  Code that takes all of the  *)
(* slow ticks makes a round miss its deadline.                             *)
(***************************************************************************)
EXTENDS SEFMInv

MCServants    == 0 .. 7
MCSensors     == {0, 4, 7}
MCTasks       == 0 .. 2
MCTaskOf      == [s \in MCServants |-> IF s < 4 THEN 0 ELSE IF s < 7 THEN 1 ELSE 2]
MCRelations   == {<<0, 1>>, <<0, 2>>, <<1, 3>>, <<2, 3>>, <<3, 0>>,
                  <<4, 5>>, <<4, 6>>, <<5, 4>>, <<6, 4>>,
                  <<7, 7>>}
MCLet         == [s \in MCServants |-> IF s \in {0, 5} THEN 2 ELSE 1]
MCPeriod      == [t \in MCTasks |-> IF t = 0 THEN 10 ELSE 20]
MCPriority    == [s \in MCServants |-> IF s < 4 THEN 4 ELSE IF s < 7 THEN 3 ELSE 2]
MCHookPeriods == {10, 20}
MCSlowTicks   == 11 .. 22
=============================================================================
