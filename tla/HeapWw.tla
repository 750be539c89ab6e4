------------------------------ MODULE HeapWw ------------------------------
(***************************************************************************)
(* heap_ww.c, the heap of the shell system.  Free blocks are in two lists, *)
(* by size and by address; a block that is freed is joined with the free   *)
(* blocks next to it.  Memory is counted in units of the alignment, and a  *)
(* block's header, its size and its two links, is in the functions size,   *)
(* nextSize and nextAddr at its address, also after it was allocated.      *)
(* Both functions run with the scheduler suspended: each is one step.      *)
(***************************************************************************)
EXTENDS Integers, Sequences, SequencesExt

CONSTANTS
    HeapSize,       \* configTOTAL_HEAP_SIZE
    StructSize,     \* heapSTRUCT_SIZE
    WantedSizes,    \* arguments of pvPortMalloc
    StackGarbage    \* addresses an uninitialised pointer may hold

Addresses == 0 .. HeapSize - 1
Minimum   == 2 * StructSize         \* heapMINIMUM_BLOCK_SIZE
StartSize == -1                     \* xStartSize
StartAddr == -2                     \* xStartAddr
End       == HeapSize               \* xEnd
Nowhere   == HeapSize + 1

VARIABLES
    nextSize,       \* pxNextSizeBlock of each block and of xStartSize
    nextAddr,       \* pxNextAddrBlock of each block and of xStartAddr
    size,           \* xBlockSize of each block
    allocated,      \* blocks pvPortMalloc has returned and vPortFree not freed
    xFreeBytesRemaining

vars == <<nextSize, nextAddr, size, allocated, xFreeBytesRemaining>>

-----------------------------------------------------------------------------
\* The marker `start' and the blocks after it
RECURSIVE From(_, _)
From(next, start) ==
    <<start>> \o (IF next[start] = End THEN <<>> ELSE From(next, next[start]))

\* What the iterations stop at: the last of list before an item that satisfies P
LastBefore(list, P(_)) ==
    list[CHOOSE i \in DOMAIN list : /\ i = Len(list) \/ P(list[i + 1])
                                    /\ \A j \in 2 .. i : ~P(list[j])]

\* The iterations over the two lists
BeforeSize(next, sizes, wanted) == LastBefore(From(next, StartSize), LAMBDA b : sizes[b] >= wanted)
BeforeAddr(next, block)         == LastBefore(From(next, StartAddr), LAMBDA b : b >= block)

Link(next, previous, block) == [next EXCEPT ![block] = next[previous], ![previous] = block]
Unlink(next, previous, block) == [next EXCEPT ![previous] = next[block]]

\* prvInsertBlockIntoFreeList
InsertBlockIntoFreeList(bySize, byAddr, sizes, block) ==
    /\ nextSize' = Link(bySize, BeforeSize(bySize, sizes, sizes[block]), block)
    /\ nextAddr' = Link(byAddr, BeforeAddr(byAddr, block), block)
    /\ size' = sizes

\* pvPortMalloc with a block large enough; without one it returns NULL
Malloc(wanted) ==
    LET total    == wanted + StructSize
        previous == BeforeSize(nextSize, size, total)
        block    == nextSize[previous]
        rest     == size[block] - total
        bySize   == Unlink(nextSize, previous, block)
        byAddr   == Unlink(nextAddr, BeforeAddr(nextAddr, block), block)
        used     == IF rest > Minimum THEN total ELSE size[block]
    IN  /\ total < HeapSize /\ block # End
        /\ IF rest > Minimum
           THEN InsertBlockIntoFreeList(bySize, byAddr,
                   [size EXCEPT ![block + total] = rest, ![block] = total], block + total)
           ELSE nextSize' = bySize /\ nextAddr' = byAddr /\ UNCHANGED size
        /\ allocated' = allocated \cup {block}
        /\ xFreeBytesRemaining' = xFreeBytesRemaining - used

\* The local variable `successor' of vPortFree after its loop, which does not set it
\* when there is no free block
Successors(block) ==
    IF nextAddr[StartAddr] = End THEN StackGarbage \cup {Nowhere}
    ELSE LET previous == BeforeAddr(nextAddr, block)
         IN  {IF nextAddr[previous] = End THEN previous ELSE nextAddr[previous]}

\* vPortFree.  prvRemoveFromFreeList unlinks the victim from the list by address, and
\* from the list by size behind the last block smaller than it
Free(block) ==
    LET previous == BeforeAddr(nextAddr, block)
        beforePrevious == BeforeAddr(nextAddr, previous)
        RemovedBySize(bySize, sizes, victim) ==
            [bySize EXCEPT ![BeforeSize(bySize, sizes, sizes[victim])] = bySize[victim]]
    IN  \E successor \in Successors(block) :
        LET joinsNext  == block + size[block] = successor
            bySize1    == IF joinsNext THEN RemovedBySize(nextSize, size, successor) ELSE nextSize
            byAddr1    == IF joinsNext THEN Unlink(nextAddr, previous, successor) ELSE nextAddr
            sizes1     == IF joinsNext THEN [size EXCEPT ![block] = @ + size[successor]] ELSE size
            joinsPrev  == previous # StartAddr /\ previous + sizes1[previous] = block
            bySize2    == IF joinsPrev THEN RemovedBySize(bySize1, sizes1, previous) ELSE bySize1
            byAddr2    == IF joinsPrev THEN Unlink(byAddr1, beforePrevious, previous) ELSE byAddr1
            sizes2     == IF joinsPrev THEN [sizes1 EXCEPT ![previous] = @ + sizes1[block]] ELSE sizes1
            joined     == IF joinsPrev THEN previous ELSE block
        IN  /\ block \in allocated
            /\ InsertBlockIntoFreeList(bySize2, byAddr2, sizes2, joined)
            /\ allocated' = allocated \ {block}
            /\ xFreeBytesRemaining' = xFreeBytesRemaining + sizes2[joined]

\* prvHeapInit, by the first pvPortMalloc
Init ==
    /\ nextSize = [b \in Addresses \cup {StartSize} |-> IF b = StartSize THEN 0 ELSE End]
    /\ nextAddr = [b \in Addresses \cup {StartAddr} |-> IF b = StartAddr THEN 0 ELSE End]
    /\ size = [b \in Addresses |-> IF b = 0 THEN HeapSize ELSE 0]
    /\ allocated = {}
    /\ xFreeBytesRemaining = HeapSize

Next ==
    \/ \E wanted \in WantedSizes : Malloc(wanted)
    \/ \E block \in allocated : Free(block)

Spec == Init /\ [][Next]_vars

-----------------------------------------------------------------------------
Units(blocks) == UNION {b .. b + size[b] - 1 : b \in blocks}

\* "The free list is actually two linked lists, both running through all unallocated
\* blocks": the two lists hold the same blocks, all that is not allocated.
FreeListsComplete ==
    LET bySize == ToSet(Tail(From(nextSize, StartSize)))
        byAddr == ToSet(Tail(From(nextAddr, StartAddr)))
    IN  bySize = byAddr /\ Units(byAddr) = Addresses \ Units(allocated)

=============================================================================
