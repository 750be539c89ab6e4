------------------------------ MODULE MCMutex ------------------------------
(* Tasks of three priorities share a mutex.  The highest waits for it for as  *)
(* long as it takes, the middle for two ticks (and may be woken in vain, when  *)
(* the highest is faster), and the lowest takes it only when it is free.       *)
EXTENDS Queue

CONSTANTS low, middle, high, mutex

MCTask == {low, middle, high}
MCCreation == <<low, middle, high>>
MCPriority == [t \in MCTask \cup {Idle} |->
                 CASE t = high -> 3 [] t = middle -> 2 [] t = low -> 1 [] OTHER -> 0]
MCCalls == [t \in MCTask \cup {Idle} |->
              CASE t = middle -> {"send", "receive", "vTaskDelay", mutex}
                [] t = Idle   -> {}
                [] t = high   -> {"send", "receive", "vTaskDelay", mutex}
                [] OTHER      -> {"send", "receive", mutex}]
MCLength == [x \in {mutex} |-> 1]
MCWait == [t \in MCTask |-> CASE t = low -> {0} [] t = middle -> {2} [] OTHER -> {3}]
MCGiveWait == [t \in MCTask |-> {1, 2}]
MCEventLists == {mutex} \X {"send", "receive"}
=============================================================================
