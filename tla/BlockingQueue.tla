--------------------------- MODULE BlockingQueue ---------------------------
(***************************************************************************)
(* What queue.c promises to the tasks that call it, without lists, locks,  *)
(* priorities or a clock: messages leave a queue in the order they stand   *)
(* in it; a call has its effect once, at one moment, or returns without    *)
(* one; and a call asked to wait for as long as it takes does not return   *)
(* without one.  A mutex is a queue with a holder, who alone gives it.     *)
(***************************************************************************)
EXTENDS Integers, Sequences

CONSTANTS
    Task, Queues, Mutexes, Length, Items, Null,
    Recreated   \* tasks that may be deleted in a call and created again

VARIABLES
    messages,       \* what waits in each queue, first to be received first
    pxMutexHolder,
    pending         \* the call each task waits in

vars == <<messages, pxMutexHolder, pending>>

NoCall == [kind |-> "none"]

QueueCalls ==
    [kind : {"send"}, queue : Queues, item : Items, position : {"back", "front"},
     patient : BOOLEAN]
    \cup
    [kind : {"receive", "peek"}, queue : Queues, item : {Null}, position : {Null},
     patient : BOOLEAN]

HasRoom(q)    == Len(messages[q]) < Length[q]
HasMessage(q) == Len(messages[q]) > 0

Init ==
    /\ messages \in [Queues -> {<<>>} \cup {<<i>> : i \in Items}]
    /\ \A q \in Queues : HasMessage(q) <=> q \in Mutexes
    /\ pxMutexHolder = [q \in Queues |-> Null]
    /\ pending = [t \in Task |-> NoCall]

-----------------------------------------------------------------------------
Put(q, item, position) ==
    /\ HasRoom(q)
    /\ \/ position = "back"  /\ messages' = [messages EXCEPT ![q] = Append(@, item)]
       \/ position = "front" /\ messages' = [messages EXCEPT ![q] = <<item>> \o @]

Take(q) == HasMessage(q) /\ messages' = [messages EXCEPT ![q] = Tail(@)]

\* The effect of a call
Effect(t, c) ==
    \/ /\ c.kind = "send"
       /\ c.queue \in Mutexes => pxMutexHolder[c.queue] = t
       /\ Put(c.queue, c.item, c.position)
       /\ pxMutexHolder' = [pxMutexHolder EXCEPT ![c.queue] = Null]
    \/ /\ c.kind = "receive"
       /\ Take(c.queue)
       /\ pxMutexHolder' = IF c.queue \in Mutexes THEN [pxMutexHolder EXCEPT ![c.queue] = t]
                           ELSE pxMutexHolder
    \/ c.kind = "peek" /\ HasMessage(c.queue) /\ UNCHANGED <<messages, pxMutexHolder>>

CanHappen(c) == IF c.kind = "send" THEN HasRoom(c.queue) ELSE HasMessage(c.queue)

Call(t, c) ==
    /\ pending[t] = NoCall
    /\ Effect(t, c)
    /\ UNCHANGED pending

Wait(t, c) ==
    /\ pending[t] = NoCall /\ ~CanHappen(c)
    /\ pending' = [pending EXCEPT ![t] = c]
    /\ UNCHANGED <<messages, pxMutexHolder>>

Complete(t) ==
    /\ pending[t] # NoCall
    /\ Effect(t, pending[t])
    /\ pending' = [pending EXCEPT ![t] = NoCall]

GiveUp(t) ==
    /\ pending[t] # NoCall
    /\ ~pending[t].patient \/ t \in Recreated
    /\ pending' = [pending EXCEPT ![t] = NoCall]
    /\ UNCHANGED <<messages, pxMutexHolder>>

Interrupt(q) ==
    /\ q \notin Mutexes
    /\ Take(q) \/ \E i \in Items, p \in {"back", "front"} : Put(q, i, p)
    /\ UNCHANGED <<pxMutexHolder, pending>>

Next ==
    \/ \E t \in Task : \/ \E c \in QueueCalls : Call(t, c) \/ Wait(t, c)
                       \/ Complete(t) \/ GiveUp(t)
    \/ \E q \in Queues : Interrupt(q)

Spec == Init /\ [][Next]_vars
=============================================================================
