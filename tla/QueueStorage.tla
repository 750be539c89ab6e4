---------------------------- MODULE QueueStorage ----------------------------
(***************************************************************************)
(* The storage of a queue, queue.c: a ring of uxLength items, written at   *)
(* pcWriteTo and read behind pcReadFrom, both of which wrap at its ends.   *)
(* Positions count items from pcHead.                                      *)
(***************************************************************************)
EXTENDS Integers, Sequences

CONSTANTS uxLength, Items, NoItem

ASSUME StorageAssumption == uxLength \in Nat \ {0} /\ NoItem \notin Items

VARIABLES
  storage,              \* what lies at each position, NoItem if nothing was written
  pcWriteTo, pcReadFrom,
  uxMessagesWaiting,
  pvBuffer              \* what the last call copied to its caller

storageVars == <<storage, pcWriteTo, pcReadFrom, uxMessagesWaiting, pvBuffer>>

Positions == 0 .. uxLength - 1

(* The position after p, and the one before it                             *)
Forward(p)  == IF p + 1 >= uxLength THEN 0 ELSE p + 1
Backward(p) == IF p - 1 < 0 THEN uxLength - 1 ELSE p - 1

(* Mutant: pcReadFrom is at the first item, where the next is written.     *)
ResetToHead ==
  uxMessagesWaiting' = 0 /\ pcWriteTo' = 0 /\ pcReadFrom' = 0

ResetPositions ==
  uxMessagesWaiting' = 0 /\ pcWriteTo' = 0 /\ pcReadFrom' = uxLength - 1

(* xQueueGenericCreate                                                     *)
StorageInit ==
  /\ storage = [p \in Positions |-> NoItem] /\ pvBuffer = NoItem
  /\ uxMessagesWaiting = 0 /\ pcWriteTo = 0 /\ pcReadFrom = uxLength - 1

(* xQueueGenericReset, of a queue no task waits for                        *)
GenericReset == ResetPositions /\ UNCHANGED <<storage, pvBuffer>>

(* prvCopyDataToQueue, queueSEND_TO_BACK: pcWriteTo is where it writes.    *)
CopyToBack(i) ==
  /\ uxMessagesWaiting < uxLength
  /\ storage' = [storage EXCEPT ![pcWriteTo] = i]
  /\ pcWriteTo' = Forward(pcWriteTo)
  /\ uxMessagesWaiting' = uxMessagesWaiting + 1
  /\ UNCHANGED <<pcReadFrom, pvBuffer>>

(* queueSEND_TO_FRONT: pcReadFrom is before the first item.                *)
CopyToFront(i) ==
  /\ uxMessagesWaiting < uxLength
  /\ storage' = [storage EXCEPT ![pcReadFrom] = i]
  /\ pcReadFrom' = Backward(pcReadFrom)
  /\ uxMessagesWaiting' = uxMessagesWaiting + 1
  /\ UNCHANGED <<pcWriteTo, pvBuffer>>

(* prvCopyDataFromQueue, in a call that removes the item                   *)
Receive ==
  /\ uxMessagesWaiting > 0
  /\ pcReadFrom' = Forward(pcReadFrom)
  /\ pvBuffer' = storage[pcReadFrom']
  /\ uxMessagesWaiting' = uxMessagesWaiting - 1
  /\ UNCHANGED <<storage, pcWriteTo>>

(* ... and in one that peeks, which puts pcOriginalReadPosition back.      *)
Peek ==
  /\ uxMessagesWaiting > 0
  /\ pvBuffer' = storage[Forward(pcReadFrom)]
  /\ UNCHANGED <<storage, pcWriteTo, pcReadFrom, uxMessagesWaiting>>

StorageNext ==
  \/ GenericReset \/ Receive \/ Peek
  \/ \E i \in Items : CopyToBack(i) \/ CopyToFront(i)

StorageSpec == StorageInit /\ [][StorageNext]_storageVars

-----------------------------------------------------------------------------
(* The position of the n-th item, counted from behind pcReadFrom           *)
Slot(r, n) == IF r + n < uxLength THEN r + n ELSE r + n - uxLength

Contents == [n \in 1 .. uxMessagesWaiting |-> storage[Slot(pcReadFrom, n)]]

(* Whatever was sent to either end, received, peeked at or dropped by a    *)
(* reset, and wherever both pointers wrapped, the ring holds the messages  *)
(* of a queue: they are received in their order, each once, also from a    *)
(* full queue, whose pointers are as those of an empty one                 *)
(* (prvCopyDataToQueue, prvCopyDataFromQueue).                             *)
Buffer == INSTANCE MessageBuffer WITH messages <- Contents

ImplementsBuffer == Buffer!Spec
=============================================================================
