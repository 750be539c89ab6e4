---------------------------- MODULE MCTasksDelay ----------------------------
(* Tasks that delay, across the overflow of a tick count of four or five values. *)
EXTENDS Tasks

CONSTANTS cyclic, waiter, locker

MCTask == {cyclic, waiter, locker}
MCCreation == <<waiter, cyclic, locker>>
MCPriority == [t \in MCTask \cup {Idle} |-> CASE t = Idle -> 0 [] t = cyclic -> 2 [] OTHER -> 1]
MCCalls == [t \in MCTask \cup {Idle} |->
              CASE t = cyclic -> {"vTaskDelayUntil"}
                [] t = waiter -> {"vTaskDelay"}
                [] t = locker -> {"vTaskDelay", "vTaskSuspendAll"}
                [] OTHER      -> {}]
MCDelayTimes == 1 .. TickWidth - 1
=============================================================================
