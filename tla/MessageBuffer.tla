---------------------------- MODULE MessageBuffer ----------------------------
(***************************************************************************)
(* What the storage of a queue stands for: a sequence of messages, put at  *)
(* either end and taken from one.                                          *)
(***************************************************************************)
EXTENDS Integers, Sequences

CONSTANTS uxLength, Items, NoItem

VARIABLES
  messages,     \* the first to be received first
  pvBuffer      \* what the last call copied to its caller

Init == messages = <<>> /\ pvBuffer = NoItem

PutBack(i) ==
  Len(messages) < uxLength /\ messages' = Append(messages, i) /\ UNCHANGED pvBuffer

PutFront(i) ==
  Len(messages) < uxLength /\ messages' = <<i>> \o messages /\ UNCHANGED pvBuffer

TakeFirst ==
  messages # <<>> /\ pvBuffer' = Head(messages) /\ messages' = Tail(messages)

LookAtFirst ==
  messages # <<>> /\ pvBuffer' = Head(messages) /\ UNCHANGED messages

Clear == messages' = <<>> /\ UNCHANGED pvBuffer

Next ==
  \/ TakeFirst \/ LookAtFirst \/ Clear
  \/ \E i \in Items : PutBack(i) \/ PutFront(i)

Spec == Init /\ [][Next]_<<messages, pvBuffer>>
=============================================================================
