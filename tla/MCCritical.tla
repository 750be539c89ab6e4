----------------------------- MODULE MCCritical -----------------------------
(* A sensor and a servant of one task, of the same priority, the R-Servant    *)
(* and the tick hook, with the semaphores they give each other (main.c:60-64, *)
(* 172, servant.c:310, 435, 460, 565).                                        *)
EXTENDS Critical

CONSTANTS sensor, servant, rServant, sensorSem, servantSem, rSem

MCTask == {sensor, servant, rServant, Idle}
MCPriority ==
  [t \in MCTask |-> CASE t \in {sensor, servant} -> 2 [] t = rServant -> 1 [] OTHER -> 0]
MCSemaphores == {sensorSem, servantSem, rSem}
ACall(kind, semaphore) == [kind |-> kind, queue |-> semaphore, found |-> FALSE]
MCCalls == [t \in MCTask |->
              CASE t = sensor   -> {ACall("take", sensorSem), ACall("give", rSem)}
                [] t = servant  -> {ACall("take", servantSem), ACall("give", rSem)}
                [] t = rServant -> {ACall("take", rSem), ACall("give", sensorSem),
                                    ACall("give", servantSem)}
                [] OTHER        -> {}]
=============================================================================
