-------------------------------- MODULE App --------------------------------
(***************************************************************************)
(* The application of app.c: 21 servants in 13 tasks, its relations,       *)
(* periods and logical execution times, and the priorities and the periods *)
(* of the tick hook that main.c adds.                                      *)
(***************************************************************************)
EXTENDS Integers

(* The last entry of the code's tables, the R-Servant's, is left out.      *)
AppServants == 0 .. 20

xTaskOfServant ==
  [s \in AppServants |->
     <<0, 0, 1, 1, 2, 3, 4, 5, 5, 6, 6, 6, 7, 8, 8, 9, 9, 9, 10, 11, 12>>[s + 1]]

xLetOfServant ==
  [s \in AppServants |->
     <<13, 2, 4, 3, 3, 6, 7, 7, 5, 3, 4, 6, 2, 2, 4, 3, 5, 4, 3, 6, 6>>[s + 1]]

xPeriodOfTask ==
  [t \in 0 .. 12 |->
     <<100, 100, 200, 200, 200, 100, 200, 200, 1000, 1000, 1000, 1000, 400>>[t + 1]]

xRelations ==
  {<<0, 1>>, <<1, 0>>, <<2, 3>>, <<3, 2>>, <<4, 4>>, <<5, 5>>, <<6, 6>>,
   <<7, 8>>, <<8, 7>>, <<9, 10>>, <<10, 11>>, <<11, 9>>, <<12, 12>>,
   <<13, 14>>, <<14, 13>>, <<15, 16>>, <<16, 17>>, <<17, 15>>, <<18, 18>>,
   <<19, 19>>, <<20, 20>>}

(* main() creates these from vSensor, the others from vServant, ...        *)
AppSensors == {0, 2, 4, 5, 6, 7, 9, 12, 13, 15, 18, 19, 20}

(* ... with these priorities.                                              *)
AppPriority ==
  [s \in AppServants |->
     <<15, 15, 14, 14, 12, 11, 10, 13, 13, 9, 9, 9, 8, 6, 6, 5, 5, 5, 4, 3, 7>>[s + 1]]

(* The tick hook tests these periods, and starts at two of the first.      *)
AppHookPeriods == {xPeriodOfTask[t] : t \in {0, 2, 12, 8}}
AppHookStart   == xPeriodOfTask[0] * 2
=============================================================================
