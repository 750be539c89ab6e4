-------------------------------- MODULE Heap2 --------------------------------
(***************************************************************************)
(* heap_2.c as the servant system uses it: main() and vTaskStartScheduler  *)
(* allocate what tasks and semaphores need and keep it, and then only the  *)
(* blocks of events are allocated and freed.  Free blocks are in a list by *)
(* size and are never joined.  Memory is counted in units of the           *)
(* alignment.  Both functions run with the scheduler suspended: each is    *)
(* one step.                                                               *)
(***************************************************************************)
EXTENDS Integers, FiniteSets, Sequences, SequencesExt

CONSTANTS
  HeapSize,     \* configTOTAL_HEAP_SIZE
  StructSize,   \* heapSTRUCT_SIZE
  StartSizes,   \* the sizes main() asks for
  EventSize     \* the size of an eveECB

ASSUME Heap2Assumption ==
  /\ {HeapSize, StructSize, EventSize} \cup StartSizes \subseteq Nat \ {0}
  /\ EventSize > StructSize /\ EventSize + StructSize < HeapSize

VARIABLES
  freeList,     \* the free blocks from xStart to xEnd, by their addresses
  xBlockSize,   \* of each block, free or not, by its address
  kept,         \* the blocks allocated at the start
  eventBlocks,  \* the blocks of events
  xFreeBytesRemaining,
  started,      \* the scheduler has been started
  room          \* the size of the free block it was started with

heapVars == <<freeList, xBlockSize, kept, eventBlocks, xFreeBytesRemaining, started, room>>

MinimumBlockSize == 2 * StructSize

Addresses == 0 .. HeapSize - 1

Heap2Init ==
  /\ freeList = <<0>> /\ xBlockSize = [a \in Addresses |-> IF a = 0 THEN HeapSize ELSE 0]
  /\ kept = {} /\ eventBlocks = {}
  /\ xFreeBytesRemaining = HeapSize
  /\ started = FALSE /\ room = 0

(* prvInsertBlockIntoFreeList: before the first block that is as large.    *)
InsertBlock(list, sizes, b) ==
  LET i == SelectInSeq(list, LAMBDA c : sizes[c] >= sizes[b])
  IN  InsertAt(list, IF i = 0 THEN Len(list) + 1 ELSE i, b)

FirstFit(wanted) == SelectInSeq(freeList, LAMBDA b : xBlockSize[b] >= wanted + StructSize)

(* Mutant: what is left of a block is not put into the list.               *)
TakeWhole(i, total) ==
  LET b == freeList[i]
  IN  /\ xBlockSize' = [xBlockSize EXCEPT ![b] = total]
      /\ freeList' = RemoveAt(freeList, i)
      /\ xFreeBytesRemaining' = xFreeBytesRemaining - xBlockSize'[b]

(* Mutant: a block is split only if three minimum blocks would be left.    *)
TakeBlockUnsplit(i, total) ==
  LET b == freeList[i]
      others == RemoveAt(freeList, i)
      left == xBlockSize[b] - total
  IN  /\ IF left > 3 * MinimumBlockSize
         THEN /\ xBlockSize' = [xBlockSize EXCEPT ![b] = total, ![b + total] = left]
              /\ freeList' = InsertBlock(others, xBlockSize', b + total)
         ELSE freeList' = others /\ UNCHANGED xBlockSize
      /\ xFreeBytesRemaining' = xFreeBytesRemaining - xBlockSize'[b]

(* The i-th free block is taken, and split if enough of it is left.        *)
TakeBlock(i, total) ==
  LET b == freeList[i]
      others == RemoveAt(freeList, i)
      left == xBlockSize[b] - total
  IN  /\ IF left > MinimumBlockSize
         THEN /\ xBlockSize' = [xBlockSize EXCEPT ![b] = total, ![b + total] = left]
              /\ freeList' = InsertBlock(others, xBlockSize', b + total)
         ELSE freeList' = others /\ UNCHANGED xBlockSize
      /\ xFreeBytesRemaining' = xFreeBytesRemaining - xBlockSize'[b]

(* pvPortMalloc, of the tasks and semaphores that main() creates           *)
MallocAtStart(wanted) ==
  LET i == FirstFit(wanted)
  IN  /\ ~started /\ i # 0 /\ wanted + StructSize < HeapSize
      /\ TakeBlock(i, wanted + StructSize)
      /\ kept' = kept \cup {freeList[i]}
      /\ UNCHANGED <<eventBlocks, started, room>>

StartScheduler ==
  /\ ~started /\ started' = TRUE
  /\ room' = IF freeList = <<>> THEN 0 ELSE xBlockSize[Head(freeList)]
  /\ UNCHANGED <<freeList, xBlockSize, kept, eventBlocks, xFreeBytesRemaining>>

(* pvPortMalloc of an event, which returns NULL if no block is large       *)
(* enough, ...                                                             *)
MallocEvent ==
  LET i == FirstFit(EventSize)
  IN  /\ started
      /\ IF i = 0 THEN UNCHANGED <<freeList, xBlockSize, eventBlocks, xFreeBytesRemaining>>
         ELSE /\ TakeBlock(i, EventSize + StructSize)
              /\ eventBlocks' = eventBlocks \cup {freeList[i]}
      /\ UNCHANGED <<kept, started, room>>

(* ... and vPortFree of one                                                *)
FreeEvent(b) ==
  /\ eventBlocks' = eventBlocks \ {b}
  /\ freeList' = InsertBlock(freeList, xBlockSize, b)
  /\ xFreeBytesRemaining' = xFreeBytesRemaining + xBlockSize[b]
  /\ UNCHANGED <<xBlockSize, kept, started, room>>

Heap2Next ==
  \/ \E wanted \in StartSizes : MallocAtStart(wanted)
  \/ StartScheduler
  \/ MallocEvent
  \/ \E b \in eventBlocks : FreeEvent(b)

Heap2Spec == Heap2Init /\ [][Heap2Next]_heapVars

-----------------------------------------------------------------------------
(* Properties.                                                             *)

(* The blocks that are free, kept and used by events fill the heap: none   *)
(* overlaps another and none is lost, and the count of free bytes is that  *)
(* of the free blocks (heap_2.c:125-143, 209-238, 274-275).                *)
Blocks == ToSet(freeList) \cup kept \cup eventBlocks

Extent(b) == b .. b + xBlockSize[b] - 1

BlocksFillHeap ==
  /\ Len(freeList) = Cardinality(ToSet(freeList))
  /\ kept \cap eventBlocks = {} /\ ToSet(freeList) \cap (kept \cup eventBlocks) = {}
  /\ 0 \in Blocks /\ \A b \in Blocks : b + xBlockSize[b] \in Blocks \cup {HeapSize}
  /\ \A b, c \in Blocks : b < c => b + xBlockSize[b] <= c
  /\ xFreeBytesRemaining = Cardinality(UNION {Extent(b) : b \in ToSet(freeList)})

(* Though free blocks are never joined, an event gets no block only if as  *)
(* many events exist as fit in what was free when the scheduler started:   *)
(* in this use the heap is a number of blocks (heap_2.c:203-238).          *)
HeapIsCounter ==
  started /\ FirstFit(EventSize) = 0 =>
    Cardinality(eventBlocks) = room \div (EventSize + StructSize)
=============================================================================
