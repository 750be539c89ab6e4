------------------------------ MODULE MCQueue ------------------------------
(* Two receivers and a sender of different priorities at one queue. *)
EXTENDS Queue

CONSTANTS producer, consumer, observer, mailbox

MCTask == {producer, consumer, observer}
MCCreation == <<producer, consumer, observer>>
MCPriority == [t \in MCTask \cup {Idle} |->
                 CASE t = Idle -> 0 [] t = consumer -> 2 [] OTHER -> 1]
MCCalls == [t \in MCTask \cup {Idle} |->
              CASE t = producer -> {"send", mailbox}
                [] t = consumer -> {"receive", mailbox}
                [] t = observer -> {"receive", "peek", mailbox}
                [] OTHER        -> {}]
MCLength == [x \in {mailbox} |-> 2]
MCWait == [t \in MCTask |-> {1}]
MCEventLists == {mailbox} \X {"send", "receive"}
=============================================================================
