----------------------------- MODULE MCTasksApi -----------------------------
(* A task that controls others, a task it creates and deletes, a worker that  *)
(* suspends itself and is resumed by an interrupt.                            *)
EXTENDS Tasks

CONSTANTS control, child, worker

MCTask == {control, child, worker}
MCCreation == <<worker, control>>
MCPriority == [t \in MCTask \cup {Idle} |-> CASE t = control -> 2 [] t = Idle -> 0 [] OTHER -> 1]
MCCalls == [t \in MCTask \cup {Idle} |->
              CASE t = control -> {"xTaskCreate", "vTaskDelete", "vTaskResume",
                                   "vTaskPrioritySet", "vTaskDelay"}
                [] t = child   -> {"vTaskDelay", "vTaskSuspendAll"}
                [] t = worker  -> {"vTaskSuspend"}
                [] OTHER       -> {}]
MCDelayTimes == {1}
=============================================================================
