-------------------------- MODULE KernelDataProofs --------------------------
(***************************************************************************)
(* The data of the kernel, for any sizes: the heap is blocks that do not   *)
(* overlap, the ring of a queue holds a sequence of messages, and the      *)
(* lists of tasks are the turns and the order that the scheduler takes     *)
(* them for.                                                               *)
(***************************************************************************)
EXTENDS EventListProofs, KernelLists, Heap2, QueueStorage

(* The heap.                                                               *)

(* Blocks of some sizes fill the heap one behind the other.                *)
Fill(blocks, size) ==
  /\ blocks \subseteq Addresses /\ 0 \in blocks
  /\ size \in [Addresses -> Nat]
  /\ \A b \in blocks : size[b] > 0 /\ b + size[b] \in blocks \cup {HeapSize}
  /\ \A b, c \in blocks : b < c => b + size[b] <= c

Units(blocks, size) == UNION {b .. b + size[b] - 1 : b \in blocks}

FreeBlocks == ToSet(freeList)

HeapInv ==
  /\ freeList \in Seq(Addresses) /\ IsInjective(freeList)
  /\ started \in BOOLEAN
  /\ kept \cap eventBlocks = {} /\ FreeBlocks \cap (kept \cup eventBlocks) = {}
  /\ Fill(Blocks, xBlockSize)
  /\ xFreeBytesRemaining = Cardinality(Units(FreeBlocks, xBlockSize))

-----------------------------------------------------------------------------

LEMMA HeapNumbers ==
  /\ HeapSize \in Nat \ {0} /\ StructSize \in Nat \ {0} /\ EventSize \in Nat \ {0}
  /\ \A wanted \in StartSizes : wanted \in Nat \ {0}
  /\ EventSize > StructSize /\ EventSize + StructSize < HeapSize
BY Heap2Assumption

(* The sizes after a block is split.                                       *)
SplitSizes(size, b, total) == [size EXCEPT ![b] = total, ![b + total] = size[b] - total]

CanSplit(size, b, total) == total \in Nat \ {0} /\ total < size[b]

IsSplit(blocks, size, b, total, split) ==
  /\ b + total \in Addresses \ blocks
  /\ Fill(blocks \cup {b + total}, split)
  /\ split[b] = total /\ split[b + total] = size[b] - total
  /\ \A c \in blocks \ {b} : split[c] = size[c]

(* A block that is split is two blocks.                                    *)
LEMMA SplitFills ==
  ASSUME NEW blocks, NEW size, Fill(blocks, size), NEW b \in blocks,
         NEW total, CanSplit(size, b, total),
         NEW split, split = SplitSizes(size, b, total)
  PROVE  IsSplit(blocks, size, b, total, split)
<1>0. total \in Nat \ {0} /\ total < size[b]
  BY DEF CanSplit
<1> DEFINE n == b + total
<1>1. /\ blocks \subseteq Addresses /\ 0 \in blocks /\ size \in [Addresses -> Nat]
      /\ \A c \in blocks : size[c] > 0 /\ c + size[c] \in blocks \cup {HeapSize}
      /\ \A c, d \in blocks : c < d => c + size[c] <= d
      /\ HeapSize \in Nat \ {0} /\ Addresses = 0 .. HeapSize - 1
  BY HeapNumbers DEF Fill, Addresses
<1>2. /\ b \in Nat /\ size[b] \in Nat /\ n \in Nat /\ b < n /\ n < b + size[b]
      /\ b + size[b] <= HeapSize
  BY <1>0, <1>1
<1>3. n \in Addresses
  BY <1>1, <1>2
<1>4. n \notin blocks
  BY <1>1, <1>2
<1>5. /\ split \in [Addresses -> Nat] /\ split[b] = total /\ split[n] = size[b] - total
      /\ \A c \in Addresses \ {b, n} : split[c] = size[c]
  BY <1>0, <1>1, <1>2, <1>3 DEF SplitSizes
<1>6. /\ \A c \in blocks \ {b} : split[c] = size[c] /\ c \in Nat /\ size[c] \in Nat
      /\ split[b] = total /\ split[n] = size[b] - total
  BY <1>1, <1>4, <1>5
<1>7. \A c \in blocks \cup {n} : split[c] > 0 /\ c + split[c] \in blocks \cup {n} \cup {HeapSize}
  <2> SUFFICES ASSUME NEW c \in blocks \cup {n}
               PROVE  split[c] > 0 /\ c + split[c] \in blocks \cup {n} \cup {HeapSize}
    OBVIOUS
  <2>1. CASE c = b
    BY <2>1, <1>0, <1>6, <1>2
  <2>2. CASE c = n
    <3>1. split[n] > 0 /\ n + split[n] = b + size[b]
      BY <1>0, <1>2, <1>6
    <3>2. b + size[b] \in blocks \cup {HeapSize}
      BY <1>1
    <3> QED BY <2>2, <3>1, <3>2 DEF SplitSizes
  <2>3. CASE c \in blocks \ {b}
    <3>1. split[c] = size[c] /\ size[c] > 0 /\ c + size[c] \in blocks \cup {HeapSize}
      BY <2>3, <1>6, <1>1
    <3> QED BY <3>1
  <2> QED BY <2>1, <2>2, <2>3
<1>8. \A c, d \in blocks \cup {n} : c < d => c + split[c] <= d
  <2> SUFFICES ASSUME NEW c \in blocks \cup {n}, NEW d \in blocks \cup {n}, c < d
               PROVE  c + split[c] <= d
    OBVIOUS
  <2>1. CASE c = b /\ d = n
    BY <2>1, <1>0, <1>6, <1>2
  <2>2. CASE c = b /\ d \in blocks
    BY <2>2, <1>6, <1>2, <1>1
  <2>3. CASE c = n /\ d \in blocks
    <3>1. b < d
      BY <2>3, <1>2, <1>1
    <3>2. b + size[b] <= d
      BY <3>1, <2>3, <1>1
    <3> QED BY <3>2, <2>3, <1>0, <1>6, <1>2, <1>1
  <2>4. CASE c \in blocks \ {b} /\ d \in blocks
    <3>1. split[c] = size[c] /\ c + size[c] <= d
      BY <2>4, <1>6, <1>1
    <3> QED BY <3>1
  <2>5. CASE c \in blocks \ {b} /\ d = n
    <3>1. c \in Nat /\ c # b /\ split[c] = size[c] /\ size[c] \in Nat
      BY <2>5, <1>6
    <3>2. b < c => b + size[b] <= c
      BY <2>5, <1>1
    <3>3. c < b
      BY <3>1, <3>2, <1>2, <2>5
    <3>4. c + size[c] <= b
      BY <3>3, <2>5, <1>1
    <3>5. c + size[c] <= n
      BY <3>1, <3>4, <1>2
    <3> QED BY <3>1, <3>5, <2>5
  <2>6. ~(c = n /\ d = n)
    BY <1>2
  <2> QED BY <2>1, <2>2, <2>3, <2>4, <2>5, <2>6
<1> HIDE DEF n
<1>9. n \in Addresses \ blocks /\ Fill(blocks \cup {n}, split)
  BY <1>1, <1>3, <1>4, <1>5, <1>7, <1>8 DEF Fill
<1> QED BY <1>9, <1>6 DEF n, IsSplit

AddsUnits(some, size, b) ==
  /\ Cardinality(Units(some, size)) \in Nat
  /\ Cardinality(Units(some \cup {b}, size)) = Cardinality(Units(some, size)) + size[b]

(* One more block adds its size to what some blocks cover.                 *)
LEMMA UnitsAdded ==
  ASSUME NEW blocks, NEW size, Fill(blocks, size), NEW some \in SUBSET blocks,
         NEW b \in blocks \ some
  PROVE  AddsUnits(some, size, b)
<1> DEFINE U == Units(some, size)
           E == b .. b + size[b] - 1
<1>1. /\ blocks \subseteq Addresses /\ size \in [Addresses -> Nat]
      /\ \A c \in blocks : size[c] > 0 /\ c + size[c] \in blocks \cup {HeapSize}
      /\ \A c, d \in blocks : c < d => c + size[c] <= d
      /\ HeapSize \in Nat \ {0} /\ Addresses = 0 .. HeapSize - 1
  BY HeapNumbers DEF Fill, Addresses
<1>2. \A c \in blocks : c \in Nat /\ size[c] \in Nat /\ size[c] > 0 /\ c + size[c] <= HeapSize
  BY <1>1
<1>3. U \subseteq 0 .. HeapSize - 1
  BY <1>2, <1>1 DEF Units
<1>4. IsFiniteSet(U)
  <2>1. IsFiniteSet(0 .. HeapSize - 1)
    BY <1>1, FS_Interval
  <2> HIDE DEF U
  <2> QED BY <2>1, <1>3, FS_Subset
<1>5. IsFiniteSet(E) /\ Cardinality(E) = size[b]
  BY <1>2, FS_Interval, SMTT(30)
<1>6. U \cap E = {}
  <2> SUFFICES ASSUME NEW c \in some, NEW u \in c .. c + size[c] - 1, u \in E PROVE FALSE
    BY DEF Units
  <2>1. c \in blocks /\ b \in blocks /\ c # b /\ c \in Nat /\ b \in Nat
    BY <1>2
  <2>2. c < b \/ b < c
    BY <2>1
  <2>3. c + size[c] <= b \/ b + size[b] <= c
    BY <2>1, <2>2, <1>1
  <2> QED BY <2>1, <2>3, <1>2
<1>7. Units(some \cup {b}, size) = U \cup E
  BY DEF Units
<1>8. Cardinality(U) \in Nat
  BY <1>4, FS_CardinalityType
<1>9. Cardinality(U \cup E) = Cardinality(U) + Cardinality(E) - Cardinality(U \cap E)
  BY <1>4, <1>5, FS_Union
<1>10. Cardinality(U \cap E) = 0
  BY <1>6, FS_EmptySet
<1> HIDE DEF U, E
<1>11. Cardinality(U \cup E) = Cardinality(U) + size[b]
  BY <1>5, <1>8, <1>9, <1>10, <1>2
<1> QED BY <1>7, <1>8, <1>11 DEF U, E, AddsUnits

(* Splitting off total from one of some blocks takes as much from them.    *)
LEMMA SplitCounts ==
  ASSUME NEW blocks, NEW size, Fill(blocks, size), NEW some \in SUBSET blocks, NEW b \in some,
         NEW total, CanSplit(size, b, total),
         NEW split, split = SplitSizes(size, b, total)
  PROVE  Cardinality(Units((some \ {b}) \cup {b + total}, split))
           = Cardinality(Units(some, size)) - total
<1> DEFINE rest == some \ {b}
<1>1. PICK n : n = b + total
  OBVIOUS
<1>2. /\ n \in Addresses \ blocks
      /\ Fill(blocks \cup {n}, split)
      /\ split[b] = total /\ split[n] = size[b] - total
      /\ \A c \in blocks \ {b} : split[c] = size[c]
  <2>1. IsSplit(blocks, size, b, total, split)
    BY SplitFills
  <2> QED BY <1>1, <2>1 DEF IsSplit
<1>3. total \in Nat /\ size[b] \in Nat
  BY DEF CanSplit, Fill
<1>4. PICK all : all = blocks \cup {n}
  OBVIOUS
<1>5. AddsUnits(rest, size, b)
  BY UnitsAdded
<1>6. Fill(all, split) /\ rest \in SUBSET all /\ n \in all \ rest
  BY <1>2, <1>4
<1>7. AddsUnits(rest, split, n)
  <2> HIDE DEF rest
  <2> QED BY <1>6, UnitsAdded
<1>8. Units(rest, split) = Units(rest, size)
  BY <1>2 DEF Units
<1>9. rest \cup {b} = some
  OBVIOUS
<1> HIDE DEF rest
<1>10. /\ Cardinality(Units(rest, size)) \in Nat
       /\ Cardinality(Units(some, size)) = Cardinality(Units(rest, size)) + size[b]
       /\ Cardinality(Units(rest \cup {n}, split)) = Cardinality(Units(rest, size)) + split[n]
  BY <1>5, <1>7, <1>8, <1>9 DEF AddsUnits
<1>11. Cardinality(Units(rest \cup {n}, split)) = Cardinality(Units(some, size)) - total
  BY <1>2, <1>3, <1>10
<1> QED BY <1>1, <1>11 DEF rest

(* A block is put into the list of free blocks, wherever it belongs.       *)
LEMMA InsertBlockFacts ==
  ASSUME NEW list \in Seq(Addresses), IsInjective(list), NEW sizes,
         NEW b \in Addresses, b \notin ToSet(list)
  PROVE  /\ InsertBlock(list, sizes, b) \in Seq(Addresses)
         /\ IsInjective(InsertBlock(list, sizes, b))
         /\ ToSet(InsertBlock(list, sizes, b)) = ToSet(list) \cup {b}
<1> DEFINE I == {k \in 1 .. Len(list) : sizes[list[k]] >= sizes[b]}
           i == IF I # {} THEN Min(I) ELSE 0
           p == IF i = 0 THEN Len(list) + 1 ELSE i
<1>1. Len(list) \in Nat
  OBVIOUS
<1>2. InsertBlock(list, sizes, b) = InsertAt(list, p, b)
  BY DEF InsertBlock, SelectInSeq
<1>3. p \in 1 .. Len(list) + 1
  <2>1. CASE I = {}
    BY <2>1, <1>1
  <2>2. CASE I # {}
    <3>1. I \in SUBSET Nat /\ I \subseteq 1 .. Len(list)
      BY <1>1
    <3> HIDE DEF I
    <3>2. Min(I) \in I
      BY <2>2, <3>1, Smallest
    <3>3. Min(I) \in 1 .. Len(list)
      BY <3>1, <3>2
    <3> QED BY <2>2, <3>3, <1>1
  <2> QED BY <2>1, <2>2
<1> HIDE DEF p
<1> QED BY <1>2, <1>3, InsertAtFacts, InsertAtSet

(* The first free block that is large enough, or there is none.            *)
LEMMA FirstFitFacts ==
  ASSUME HeapInv, NEW wanted \in Nat
  PROVE  /\ FirstFit(wanted) # 0 =>
              /\ FirstFit(wanted) \in 1 .. Len(freeList)
              /\ xBlockSize[freeList[FirstFit(wanted)]] >= wanted + StructSize
         /\ FirstFit(wanted) = 0 => \A b \in FreeBlocks : xBlockSize[b] < wanted + StructSize
<1> DEFINE I == {k \in 1 .. Len(freeList) : xBlockSize[freeList[k]] >= wanted + StructSize}
<1>1. FirstFit(wanted) = IF I # {} THEN Min(I) ELSE 0
  BY DEF FirstFit, SelectInSeq
<1>2. /\ freeList \in Seq(Addresses) /\ Len(freeList) \in Nat /\ DOMAIN freeList = 1 .. Len(freeList)
      /\ xBlockSize \in [Addresses -> Nat]
  BY DEF HeapInv, Fill
<1>3. CASE I = {}
  <2>1. FirstFit(wanted) = 0
    BY <1>1, <1>3
  <2>2. \A k \in 1 .. Len(freeList) : xBlockSize[freeList[k]] < wanted + StructSize
    <3> SUFFICES ASSUME NEW k \in 1 .. Len(freeList)
                 PROVE  xBlockSize[freeList[k]] < wanted + StructSize
      OBVIOUS
    <3>1. freeList[k] \in Addresses /\ xBlockSize[freeList[k]] \in Nat
      BY <1>2
    <3>2. ~(xBlockSize[freeList[k]] >= wanted + StructSize)
      BY <1>3
    <3> QED BY <3>1, <3>2, HeapNumbers
  <2> QED BY <2>1, <2>2, <1>2 DEF FreeBlocks, ToSet
<1>4. CASE I # {}
  <2>1. I \in SUBSET Nat
    BY <1>2
  <2>2. FirstFit(wanted) = Min(I)
    BY <1>1, <1>4
  <2> DEFINE J == I
  <2> HIDE DEF J
  <2>3. Min(J) \in J
    BY <2>1, <1>4, Smallest DEF J
  <2>4. FirstFit(wanted) \in I
    BY <2>2, <2>3 DEF J
  <2>5. FirstFit(wanted) # 0
    BY <2>4, <1>2
  <2> QED BY <2>4, <2>5
<1> QED BY <1>3, <1>4

Splits(b, total) ==
  /\ xBlockSize[b] - total > MinimumBlockSize
  /\ xBlockSize' = [xBlockSize EXCEPT ![b] = total, ![b + total] = xBlockSize[b] - total]
  /\ FreeBlocks' = (FreeBlocks \ {b}) \cup {b + total}
  /\ xFreeBytesRemaining' = xFreeBytesRemaining - total

UsesAll(b, total) ==
  /\ xBlockSize[b] - total <= MinimumBlockSize
  /\ xBlockSize' = xBlockSize
  /\ FreeBlocks' = FreeBlocks \ {b}
  /\ xFreeBytesRemaining' = xFreeBytesRemaining - xBlockSize[b]

LEMMA TakeFacts ==
  ASSUME HeapInv, NEW i \in 1 .. Len(freeList), NEW total \in Nat \ {0},
         TakeBlock(i, total), NEW b, b = freeList[i], total <= xBlockSize[b]
  PROVE  /\ b \in FreeBlocks
         /\ freeList' \in Seq(Addresses) /\ IsInjective(freeList')
         /\ Splits(b, total) \/ UsesAll(b, total)
<1>1. /\ freeList \in Seq(Addresses) /\ IsInjective(freeList) /\ DOMAIN freeList = 1 .. Len(freeList)
      /\ Fill(Blocks, xBlockSize) /\ xBlockSize \in [Addresses -> Nat]
      /\ xFreeBytesRemaining = Cardinality(Units(FreeBlocks, xBlockSize))
  BY DEF HeapInv, Fill
<1>2. b \in FreeBlocks /\ b \in Blocks /\ b \in Addresses
  BY <1>1 DEF FreeBlocks, Blocks, ToSet
<1> DEFINE others == RemoveAt(freeList, i)
           left == xBlockSize[b] - total
<1>3. others \in Seq(Addresses) /\ IsInjective(others) /\ ToSet(others) = FreeBlocks \ {b}
  BY <1>1, RemoveAtFacts, RemoveAtSet DEF FreeBlocks
<1>4. /\ IF left > MinimumBlockSize
         THEN /\ xBlockSize' = [xBlockSize EXCEPT ![b] = total, ![b + total] = left]
              /\ freeList' = InsertBlock(others, xBlockSize', b + total)
         ELSE freeList' = others /\ xBlockSize' = xBlockSize
      /\ xFreeBytesRemaining' = xFreeBytesRemaining - xBlockSize'[b]
  BY DEF TakeBlock
<1>5. left \in Int /\ MinimumBlockSize \in Nat \ {0}
  BY <1>1, <1>2, HeapNumbers DEF MinimumBlockSize
<1>6. CASE left > MinimumBlockSize
  <2>1. total < xBlockSize[b]
    BY <1>1, <1>2, <1>5, <1>6
  <2>2. xBlockSize' = [xBlockSize EXCEPT ![b] = total, ![b + total] = left]
    BY <1>4, <1>6
  <2>3. b + total \in Addresses \ Blocks /\ xBlockSize'[b] = total
    <3>1. PICK split : split = SplitSizes(xBlockSize, b, total)
      OBVIOUS
    <3>2. IsSplit(Blocks, xBlockSize, b, total, split)
      BY <1>1, <1>2, <2>1, <3>1, SplitFills DEF CanSplit
    <3> QED BY <2>2, <3>1, <3>2 DEF SplitSizes, IsSplit
  <2>4. b + total \notin ToSet(others)
    BY <2>3, <1>3 DEF FreeBlocks, Blocks
  <2>5. freeList' = InsertBlock(others, xBlockSize', b + total)
    BY <1>4, <1>6
  <2> HIDE DEF others
  <2>6. /\ freeList' \in Seq(Addresses) /\ IsInjective(freeList')
        /\ ToSet(freeList') = ToSet(others) \cup {b + total}
    BY <1>3, <2>3, <2>4, <2>5, InsertBlockFacts
  <2>7. FreeBlocks' = (FreeBlocks \ {b}) \cup {b + total}
    BY <2>6, <1>3 DEF FreeBlocks
  <2>8. xFreeBytesRemaining' = xFreeBytesRemaining - total
    BY <1>4, <2>3
  <2> QED BY <1>2, <1>6, <2>2, <2>6, <2>7, <2>8 DEF Splits
<1>7. CASE ~(left > MinimumBlockSize)
  <2>1. left <= MinimumBlockSize
    BY <1>5, <1>7
  <2>2. freeList' = others /\ xBlockSize' = xBlockSize /\ xFreeBytesRemaining' = xFreeBytesRemaining - xBlockSize[b]
    BY <1>4, <1>7
  <2>3. FreeBlocks' = FreeBlocks \ {b}
    BY <2>2, <1>3 DEF FreeBlocks
  <2> QED BY <1>2, <1>3, <2>1, <2>2, <2>3 DEF UsesAll
<1> QED BY <1>6, <1>7

(* Whether the block b is taken for a task or an event, the blocks fill    *)
(* the heap.                                                               *)
LEMMA TakeFills ==
  ASSUME HeapInv, NEW i \in 1 .. Len(freeList), NEW total \in Nat \ {0},
         TakeBlock(i, total), NEW b, b = freeList[i], total <= xBlockSize[b],
         kept' \cup eventBlocks' = kept \cup eventBlocks \cup {b}, kept' \cap eventBlocks' = {},
         started' = started
  PROVE  HeapInv'
<1>1. /\ b \in FreeBlocks
      /\ freeList' \in Seq(Addresses) /\ IsInjective(freeList')
      /\ Splits(b, total) \/ UsesAll(b, total)
  BY TakeFacts
<1>2. /\ started \in BOOLEAN
      /\ kept \cap eventBlocks = {} /\ FreeBlocks \cap (kept \cup eventBlocks) = {}
      /\ Fill(Blocks, xBlockSize) /\ xBlockSize \in [Addresses -> Nat]
      /\ xFreeBytesRemaining = Cardinality(Units(FreeBlocks, xBlockSize))
      /\ Blocks = FreeBlocks \cup kept \cup eventBlocks
  BY DEF HeapInv, Fill, Blocks, FreeBlocks
<1>3. Blocks' = FreeBlocks' \cup kept' \cup eventBlocks'
  BY DEF Blocks, FreeBlocks
<1> DEFINE rest == FreeBlocks \ {b}
<1>4. /\ rest \in SUBSET Blocks /\ b \in Blocks \ rest /\ FreeBlocks = rest \cup {b}
      /\ FreeBlocks \subseteq Blocks
  BY <1>1, <1>2
<1>5. /\ Cardinality(Units(rest, xBlockSize)) \in Nat
      /\ Cardinality(Units(FreeBlocks, xBlockSize))
           = Cardinality(Units(rest, xBlockSize)) + xBlockSize[b]
  <2>1. AddsUnits(rest, xBlockSize, b)
    BY <1>2, <1>4, UnitsAdded
  <2> QED BY <2>1, <1>4 DEF AddsUnits
<1>6. xBlockSize[b] \in Nat
  BY <1>2, <1>4 DEF Fill
<1>7. CASE UsesAll(b, total)
  <2>1. /\ xBlockSize' = xBlockSize /\ FreeBlocks' = rest
        /\ xFreeBytesRemaining' = xFreeBytesRemaining - xBlockSize[b]
    BY <1>7 DEF UsesAll
  <2>2. Blocks' = Blocks
    BY <2>1, <1>1, <1>2, <1>3
  <2>3. xFreeBytesRemaining' = Cardinality(Units(rest, xBlockSize))
    BY <2>1, <1>2, <1>5, <1>6
  <2>4. Fill(Blocks', xBlockSize')
    BY <2>1, <2>2, <1>2
  <2>5. FreeBlocks' \cap (kept' \cup eventBlocks') = {}
    BY <2>1, <1>2
  <2>6. xFreeBytesRemaining' = Cardinality(Units(FreeBlocks', xBlockSize'))
    BY <2>1, <2>3
  <2> QED BY <1>1, <1>2, <2>4, <2>5, <2>6 DEF HeapInv, Fill, Units
<1>8. CASE Splits(b, total)
  <2>1. /\ xBlockSize[b] - total > MinimumBlockSize
        /\ xBlockSize' = [xBlockSize EXCEPT ![b] = total, ![b + total] = xBlockSize[b] - total]
        /\ FreeBlocks' = rest \cup {b + total}
        /\ xFreeBytesRemaining' = xFreeBytesRemaining - total
    BY <1>8 DEF Splits
  <2>2. CanSplit(xBlockSize, b, total)
    BY <2>1, <1>6, HeapNumbers DEF MinimumBlockSize, CanSplit
  <2>3. PICK split : split = SplitSizes(xBlockSize, b, total)
    OBVIOUS
  <2>4. IsSplit(Blocks, xBlockSize, b, total, split)
    BY <1>2, <1>4, <2>2, <2>3, SplitFills
  <2>5. Cardinality(Units((FreeBlocks \ {b}) \cup {b + total}, split))
          = Cardinality(Units(FreeBlocks, xBlockSize)) - total
    BY <1>1, <1>2, <1>4, <2>2, <2>3, SplitCounts
  <2>6. split = xBlockSize'
    BY <2>1, <2>3 DEF SplitSizes
  <2>7. b + total \in Addresses \ Blocks /\ Fill(Blocks \cup {b + total}, xBlockSize')
    BY <2>4, <2>6 DEF IsSplit
  <2>8. Blocks' = Blocks \cup {b + total}
    BY <2>1, <1>1, <1>2, <1>3
  <2>9. xFreeBytesRemaining' = Cardinality(Units(FreeBlocks', xBlockSize'))
    BY <2>1, <2>5, <2>6, <1>2
  <2>10. FreeBlocks' \cap (kept' \cup eventBlocks') = {}
    BY <2>1, <2>7, <1>2, <1>4
  <2>11. Fill(Blocks', xBlockSize')
    BY <2>7, <2>8
  <2> QED BY <1>1, <1>2, <2>9, <2>10, <2>11 DEF HeapInv, Fill, Units
<1> QED BY <1>1, <1>7, <1>8

LEMMA HeapStarts == Heap2Init => HeapInv
<1> SUFFICES ASSUME Heap2Init PROVE HeapInv
  OBVIOUS
<1>1. /\ freeList = <<0>> /\ xBlockSize = [a \in Addresses |-> IF a = 0 THEN HeapSize ELSE 0]
      /\ kept = {} /\ eventBlocks = {} /\ xFreeBytesRemaining = HeapSize /\ started = FALSE
  BY DEF Heap2Init
<1>2. HeapSize \in Nat \ {0} /\ 0 \in Addresses /\ Addresses = 0 .. HeapSize - 1
  BY HeapNumbers DEF Addresses
<1>3. freeList \in Seq(Addresses) /\ IsInjective(freeList) /\ FreeBlocks = {0}
  BY <1>1, <1>2 DEF IsInjective, FreeBlocks, ToSet
<1>4. Blocks = {0}
  BY <1>1, <1>3 DEF Blocks, FreeBlocks
<1>5. xBlockSize \in [Addresses -> Nat] /\ xBlockSize[0] = HeapSize
  BY <1>1, <1>2
<1>6. Fill({0}, xBlockSize)
  BY <1>2, <1>5 DEF Fill
<1>7. Units({0}, xBlockSize) = 0 .. HeapSize - 1
  <2>1. Units({0}, xBlockSize) = 0 .. 0 + xBlockSize[0] - 1
    BY DEF Units
  <2> QED BY <2>1, <1>2, <1>5
<1>8. Cardinality(0 .. HeapSize - 1) = HeapSize
  BY <1>2, FS_Interval
<1> QED BY <1>1, <1>3, <1>4, <1>6, <1>7, <1>8 DEF HeapInv

(* A block that is freed.                                                  *)
LEMMA FreeFills ==
  ASSUME HeapInv, NEW b \in eventBlocks, FreeEvent(b)
  PROVE  HeapInv' /\ FreeBlocks' = FreeBlocks \cup {b}
<1>1. /\ freeList \in Seq(Addresses) /\ IsInjective(freeList) /\ started \in BOOLEAN
      /\ kept \cap eventBlocks = {} /\ FreeBlocks \cap (kept \cup eventBlocks) = {}
      /\ Fill(Blocks, xBlockSize)
      /\ xFreeBytesRemaining = Cardinality(Units(FreeBlocks, xBlockSize))
  BY DEF HeapInv
<1>2. /\ eventBlocks' = eventBlocks \ {b}
      /\ freeList' = InsertBlock(freeList, xBlockSize, b)
      /\ xFreeBytesRemaining' = xFreeBytesRemaining + xBlockSize[b]
      /\ xBlockSize' = xBlockSize /\ kept' = kept /\ started' = started
  BY DEF FreeEvent
<1>3. b \in Blocks /\ b \in Addresses /\ FreeBlocks \in SUBSET Blocks /\ b \notin FreeBlocks
  BY <1>1 DEF Blocks, FreeBlocks, Fill
<1>4. /\ freeList' \in Seq(Addresses) /\ IsInjective(freeList')
      /\ FreeBlocks' = FreeBlocks \cup {b}
  BY <1>1, <1>2, <1>3, InsertBlockFacts DEF FreeBlocks
<1>5. Blocks' = Blocks
  BY <1>2, <1>4 DEF Blocks, FreeBlocks
<1>6. AddsUnits(FreeBlocks, xBlockSize, b)
  BY <1>1, <1>3, UnitsAdded
<1>7. xFreeBytesRemaining' = Cardinality(Units(FreeBlocks', xBlockSize'))
  BY <1>1, <1>2, <1>4, <1>6 DEF AddsUnits
<1>8. kept' \cap eventBlocks' = {} /\ FreeBlocks' \cap (kept' \cup eventBlocks') = {}
  BY <1>1, <1>2, <1>4
<1>9. Fill(Blocks', xBlockSize')
  BY <1>1, <1>2, <1>5
<1> QED BY <1>1, <1>2, <1>4, <1>7, <1>8, <1>9 DEF HeapInv, Fill, Units

(* What a call that gets a block has found.                                *)
LEMMA FoundBlock ==
  ASSUME HeapInv, NEW wanted \in Nat \ {0}, FirstFit(wanted) # 0
  PROVE  /\ FirstFit(wanted) \in 1 .. Len(freeList)
         /\ wanted + StructSize \in Nat \ {0}
         /\ wanted + StructSize <= xBlockSize[freeList[FirstFit(wanted)]]
<1>1. /\ FirstFit(wanted) \in 1 .. Len(freeList)
      /\ xBlockSize[freeList[FirstFit(wanted)]] >= wanted + StructSize
  BY FirstFitFacts
<1>2. freeList[FirstFit(wanted)] \in Addresses /\ xBlockSize \in [Addresses -> Nat]
  BY <1>1 DEF HeapInv, Fill
<1> QED BY <1>1, <1>2, HeapNumbers

LEMMA HeapSteps == HeapInv /\ [Heap2Next]_heapVars => HeapInv'
<1> SUFFICES ASSUME HeapInv, [Heap2Next]_heapVars PROVE HeapInv'
  OBVIOUS
<1>1. ASSUME NEW wanted \in StartSizes, MallocAtStart(wanted) PROVE HeapInv'
  <2>1. wanted \in Nat \ {0} /\ FirstFit(wanted) # 0
    BY <1>1, HeapNumbers DEF MallocAtStart
  <2>2. PICK i : i = FirstFit(wanted)
    OBVIOUS
  <2>3. PICK total : total = wanted + StructSize
    OBVIOUS
  <2>4. PICK b : b = freeList[i]
    OBVIOUS
  <2>5. i \in 1 .. Len(freeList) /\ total \in Nat \ {0} /\ total <= xBlockSize[b]
    BY <2>1, <2>2, <2>3, <2>4, FoundBlock
  <2>6. /\ TakeBlock(i, total) /\ kept' = kept \cup {b} /\ eventBlocks' = eventBlocks
        /\ started' = started
    BY <1>1, <2>2, <2>3, <2>4 DEF MallocAtStart
  <2>7. b \in FreeBlocks
    BY <2>4, <2>5 DEF HeapInv, FreeBlocks, ToSet
  <2>8. kept' \cup eventBlocks' = kept \cup eventBlocks \cup {b} /\ kept' \cap eventBlocks' = {}
    BY <2>6, <2>7 DEF HeapInv
  <2> QED BY <2>4, <2>5, <2>6, <2>8, TakeFills
<1>2. ASSUME MallocEvent, FirstFit(EventSize) # 0 PROVE HeapInv'
  <2>1. EventSize \in Nat \ {0} /\ FirstFit(EventSize) # 0
    BY <1>2, HeapNumbers
  <2>2. PICK i : i = FirstFit(EventSize)
    OBVIOUS
  <2>3. PICK total : total = EventSize + StructSize
    OBVIOUS
  <2>4. PICK b : b = freeList[i]
    OBVIOUS
  <2>5. i \in 1 .. Len(freeList) /\ total \in Nat \ {0} /\ total <= xBlockSize[b]
    BY <2>1, <2>2, <2>3, <2>4, FoundBlock
  <2>6. /\ TakeBlock(i, total) /\ kept' = kept /\ eventBlocks' = eventBlocks \cup {b}
        /\ started' = started
    BY <1>2, <2>2, <2>3, <2>4 DEF MallocEvent
  <2>7. b \in FreeBlocks
    BY <2>4, <2>5 DEF HeapInv, FreeBlocks, ToSet
  <2>8. kept' \cup eventBlocks' = kept \cup eventBlocks \cup {b} /\ kept' \cap eventBlocks' = {}
    BY <2>6, <2>7 DEF HeapInv
  <2> QED BY <2>4, <2>5, <2>6, <2>8, TakeFills
<1>3. ASSUME NEW b \in eventBlocks, FreeEvent(b) PROVE HeapInv'
  BY <1>3, FreeFills
<1>4. ASSUME UNCHANGED <<freeList, xBlockSize, kept, eventBlocks, xFreeBytesRemaining>>,
             started' \in BOOLEAN
      PROVE  HeapInv'
  BY <1>4 DEF HeapInv, FreeBlocks, Blocks, Fill, Units
<1>5. started \in BOOLEAN
  BY DEF HeapInv
<1>6. CASE StartScheduler
  BY <1>4, <1>6 DEF StartScheduler
<1>7. CASE MallocEvent /\ FirstFit(EventSize) = 0
  BY <1>4, <1>5, <1>7 DEF MallocEvent
<1>8. CASE UNCHANGED heapVars
  BY <1>4, <1>5, <1>8 DEF heapVars
<1> QED BY <1>1, <1>2, <1>3, <1>6, <1>7, <1>8 DEF Heap2Next

LEMMA HeapInvariant == Heap2Spec => []HeapInv
BY HeapStarts, HeapSteps, PTL DEF Heap2Spec

(* The blocks in the list, those of the tasks and semaphores and those of  *)
(* events fill the heap, and the count of free bytes is right, for any     *)
(* size of the heap and of what is asked for (heap_2.c:125-143, 167-279).  *)
THEOREM BlocksAreApart == Heap2Spec => []BlocksFillHeap
<1>1. HeapInv => BlocksFillHeap
  <2> SUFFICES ASSUME HeapInv PROVE BlocksFillHeap
    OBVIOUS
  <2>1. /\ freeList \in Seq(Addresses) /\ IsInjective(freeList)
        /\ kept \cap eventBlocks = {} /\ ToSet(freeList) \cap (kept \cup eventBlocks) = {}
        /\ 0 \in Blocks /\ \A b \in Blocks : b + xBlockSize[b] \in Blocks \cup {HeapSize}
        /\ \A b, c \in Blocks : b < c => b + xBlockSize[b] <= c
        /\ xFreeBytesRemaining = Cardinality(Units(ToSet(freeList), xBlockSize))
    BY DEF HeapInv, Fill, FreeBlocks
  <2>2. Len(freeList) = Cardinality(ToSet(freeList))
    BY <2>1, SizeOfSeq
  <2>3. Units(ToSet(freeList), xBlockSize) = UNION {Extent(b) : b \in ToSet(freeList)}
    BY DEF Units, Extent
  <2> QED BY <2>1, <2>2, <2>3 DEF BlocksFillHeap
<1> QED BY <1>1, HeapInvariant, PTL

(* The free block the scheduler was started with is now in pieces that     *)
(* are free or used by events.  All but one, what is left of it, have the  *)
(* size an event takes; what is left is used if it was too small to be     *)
(* split.                                                                  *)
EventBlockSize == EventSize + StructSize

Pieces == FreeBlocks \cup eventBlocks

InPieces(pieces, events, size, total) ==
  IF pieces = {} THEN total = 0
  ELSE \E last \in pieces :
         /\ total = (Cardinality(pieces) - 1) * EventBlockSize + size[last]
         /\ \A b \in pieces \ {last} : size[b] = EventBlockSize
         /\ last \in events => /\ EventBlockSize <= size[last]
                               /\ size[last] <= EventBlockSize + MinimumBlockSize

CountInv ==
  /\ HeapInv
  /\ ~started => eventBlocks = {} /\ \A b, c \in FreeBlocks : b = c
  /\ started => InPieces(Pieces, eventBlocks, xBlockSize, room)

LEMMA EventNumbers ==
  /\ EventBlockSize \in Nat \ {0} /\ MinimumBlockSize \in Nat \ {0}
  /\ MinimumBlockSize < EventBlockSize
BY HeapNumbers DEF EventBlockSize, MinimumBlockSize

LEMMA PiecesFinite ==
  ASSUME HeapInv
  PROVE  /\ IsFiniteSet(Pieces) /\ Cardinality(Pieces) \in Nat
         /\ IsFiniteSet(eventBlocks) /\ Cardinality(eventBlocks) \in Nat
         /\ Pieces \subseteq Blocks /\ FreeBlocks \subseteq Blocks
         /\ FreeBlocks \cap eventBlocks = {} /\ kept \cap Pieces = {}
         /\ Fill(Blocks, xBlockSize)
         /\ \A b \in Blocks : xBlockSize[b] \in Nat \ {0}
<1>1. /\ Fill(Blocks, xBlockSize) /\ Pieces \subseteq Blocks /\ FreeBlocks \subseteq Blocks
      /\ FreeBlocks \cap eventBlocks = {} /\ kept \cap Pieces = {}
  BY DEF HeapInv, Pieces, Blocks, FreeBlocks
<1>2. Pieces \subseteq 0 .. HeapSize - 1 /\ eventBlocks \subseteq Pieces
  BY <1>1 DEF Fill, Addresses, Pieces
<1>3. IsFiniteSet(0 .. HeapSize - 1)
  BY HeapNumbers, FS_Interval
<1>4. IsFiniteSet(Pieces) /\ IsFiniteSet(eventBlocks)
  BY <1>2, <1>3, FS_Subset
<1>5. \A b \in Blocks : xBlockSize[b] \in Nat \ {0}
  BY <1>1 DEF Fill
<1> QED BY <1>1, <1>4, <1>5, FS_CardinalityType

-----------------------------------------------------------------------------
(* Arithmetic.                                                             *)

LEMMA Quotient ==
  ASSUME NEW n \in Nat, NEW t \in Nat \ {0}, NEW s \in Nat, s < t
  PROVE  (n * t + s) \div t = n
OBVIOUS

LEMMA OneMore ==
  ASSUME NEW n \in Nat, NEW t \in Nat
  PROVE  (n + 1) * t = n * t + t
OBVIOUS

LEMMA QuotientUsed ==
  ASSUME NEW n \in Nat, NEW t \in Nat \ {0}, NEW s \in Nat, t <= s, s < t + t
  PROVE  (n * t + s) \div t = n + 1
<1>1. s - t \in Nat /\ s - t < t
  OBVIOUS
<1>2. ((n + 1) * t + (s - t)) \div t = n + 1
  BY <1>1, Quotient
<1>3. (n + 1) * t = n * t + t /\ n * t \in Nat
  BY OneMore
<1>4. (n + 1) * t + (s - t) = n * t + s
  BY <1>3
<1> QED BY <1>2, <1>4

-----------------------------------------------------------------------------
(* When no free block is large enough there are as many events as fit.     *)
LEMMA CountIsRight == CountInv => HeapIsCounter
<1> SUFFICES ASSUME CountInv, started, FirstFit(EventSize) = 0
             PROVE  Cardinality(eventBlocks) = room \div EventBlockSize
  BY DEF HeapIsCounter, EventBlockSize
<1>1. HeapInv /\ InPieces(Pieces, eventBlocks, xBlockSize, room)
  BY DEF CountInv
<1>2. /\ IsFiniteSet(Pieces) /\ Cardinality(Pieces) \in Nat
      /\ FreeBlocks \cap eventBlocks = {} /\ Pieces = FreeBlocks \cup eventBlocks
      /\ \A b \in Pieces : xBlockSize[b] \in Nat \ {0}
  BY <1>1, PiecesFinite DEF Pieces
<1>3. \A b \in FreeBlocks : xBlockSize[b] < EventBlockSize
  BY <1>1, FirstFitFacts, HeapNumbers DEF EventBlockSize
<1>4. CASE Pieces = {}
  <2>1. eventBlocks = {} /\ room = 0
    BY <1>1, <1>2, <1>4 DEF InPieces
  <2>2. Cardinality(eventBlocks) = 0
    BY <2>1, FS_EmptySet
  <2>3. (0 * EventBlockSize + 0) \div EventBlockSize = 0
    BY EventNumbers, Quotient
  <2> QED BY <2>1, <2>2, <2>3, EventNumbers
<1>5. CASE Pieces # {}
  <2>1. PICK last \in Pieces :
          /\ room = (Cardinality(Pieces) - 1) * EventBlockSize + xBlockSize[last]
          /\ \A b \in Pieces \ {last} : xBlockSize[b] = EventBlockSize
          /\ last \in eventBlocks => /\ EventBlockSize <= xBlockSize[last]
                                     /\ xBlockSize[last] <= EventBlockSize + MinimumBlockSize
    BY <1>1, <1>5 DEF InPieces
  <2>2. FreeBlocks \subseteq {last}
    <3> SUFFICES ASSUME NEW b \in FreeBlocks, b # last PROVE FALSE
      OBVIOUS
    <3>1. xBlockSize[b] = EventBlockSize /\ xBlockSize[b] < EventBlockSize
      BY <1>2, <1>3, <2>1
    <3> QED BY <3>1, EventNumbers
  <2>3. PICK n : n = Cardinality(Pieces) - 1
    OBVIOUS
  <2>4. PICK s : s = xBlockSize[last]
    OBVIOUS
  <2>5. n \in Nat /\ Cardinality(Pieces \ {last}) = n
    <3>1. IsFiniteSet(Pieces \ {last}) /\ Cardinality(Pieces \ {last}) = Cardinality(Pieces) - 1
      BY <1>2, FS_RemoveElement
    <3> QED BY <2>3, <3>1, FS_CardinalityType
  <2>6. s \in Nat /\ room = n * EventBlockSize + s
    BY <1>2, <2>1, <2>3, <2>4
  <2>7. CASE last \in eventBlocks
    <3>1. eventBlocks = Pieces
      BY <2>2, <2>7, <1>2
    <3>2. Cardinality(eventBlocks) = n + 1
      BY <3>1, <1>2, <2>3
    <3>3. EventBlockSize <= s /\ s < EventBlockSize + EventBlockSize
      BY <2>1, <2>4, <2>6, <2>7, EventNumbers
    <3>4. (n * EventBlockSize + s) \div EventBlockSize = n + 1
      BY <3>3, <2>5, <2>6, EventNumbers, QuotientUsed
    <3> QED BY <3>2, <3>4, <2>6
  <2>8. CASE last \in FreeBlocks
    <3>1. eventBlocks = Pieces \ {last}
      BY <2>2, <2>8, <1>2
    <3>2. Cardinality(eventBlocks) = n
      BY <3>1, <2>5
    <3>3. s < EventBlockSize
      BY <2>4, <2>8, <1>3
    <3>4. (n * EventBlockSize + s) \div EventBlockSize = n
      BY <3>3, <2>5, <2>6, EventNumbers, Quotient
    <3> QED BY <3>2, <3>4, <2>6
  <2> QED BY <2>7, <2>8, <1>2
<1> QED BY <1>4, <1>5

(* An event gets a piece: the last one is split, or one is used as it is.  *)
LEMMA TakeInPieces ==
  ASSUME CountInv, started, NEW i \in 1 .. Len(freeList), TakeBlock(i, EventBlockSize),
         NEW b, b = freeList[i], EventBlockSize <= xBlockSize[b],
         eventBlocks' = eventBlocks \cup {b}, room' = room
  PROVE  InPieces(Pieces', eventBlocks', xBlockSize', room')
<1> DEFINE N == Cardinality(Pieces)
           T == EventBlockSize
<1>1. HeapInv /\ InPieces(Pieces, eventBlocks, xBlockSize, room)
  BY DEF CountInv
<1>2. /\ IsFiniteSet(Pieces) /\ Cardinality(Pieces) \in Nat
      /\ Pieces = FreeBlocks \cup eventBlocks /\ Pieces \subseteq Blocks
      /\ FreeBlocks \cap eventBlocks = {} /\ Fill(Blocks, xBlockSize)
      /\ \A c \in Blocks : xBlockSize[c] \in Nat \ {0}
  BY <1>1, PiecesFinite DEF Pieces
<1>3. T \in Nat \ {0} /\ MinimumBlockSize \in Nat \ {0}
  BY EventNumbers
<1>4. b \in FreeBlocks /\ (Splits(b, T) \/ UsesAll(b, T))
  BY <1>1, <1>3, TakeFacts
<1>5. b \in Pieces /\ b \in Blocks /\ Pieces # {} /\ xBlockSize[b] \in Nat
  BY <1>2, <1>4
<1>6. Pieces' = FreeBlocks' \cup eventBlocks'
  BY DEF Pieces
<1>7. PICK last \in Pieces :
        /\ room = (N - 1) * T + xBlockSize[last]
        /\ \A c \in Pieces \ {last} : xBlockSize[c] = T
        /\ last \in eventBlocks => /\ T <= xBlockSize[last]
                                   /\ xBlockSize[last] <= T + MinimumBlockSize
  BY <1>1, <1>5 DEF InPieces
<1>8. CASE UsesAll(b, T)
  <2>1. xBlockSize[b] - T <= MinimumBlockSize /\ xBlockSize' = xBlockSize /\ FreeBlocks' = FreeBlocks \ {b}
    BY <1>8 DEF UsesAll
  <2>2. Pieces' = Pieces
    BY <2>1, <1>2, <1>4, <1>6
  <2>3. last \in eventBlocks' => T <= xBlockSize[last] /\ xBlockSize[last] <= T + MinimumBlockSize
    BY <2>1, <1>3, <1>5, <1>7
  <2>4. InPieces(Pieces, eventBlocks', xBlockSize, room)
    BY <2>3, <1>5, <1>7 DEF InPieces
  <2> QED BY <2>1, <2>2, <2>4
<1>9. CASE Splits(b, T)
  <2>1. xBlockSize[b] - T > MinimumBlockSize /\ FreeBlocks' = (FreeBlocks \ {b}) \cup {b + T}
    BY <1>9 DEF Splits
  <2>2. b = last
    <3>1. xBlockSize[b] # T
      BY <2>1, <1>3, <1>5
    <3> QED BY <3>1, <1>5, <1>7
  <2>3. CanSplit(xBlockSize, b, T)
    BY <2>1, <1>3, <1>5 DEF CanSplit
  <2>4. PICK split : split = SplitSizes(xBlockSize, b, T)
    OBVIOUS
  <2>5. xBlockSize' = split
    BY <1>9, <2>4 DEF Splits, SplitSizes
  <2>6. IsSplit(Blocks, xBlockSize, b, T, split)
    BY <1>2, <1>5, <2>3, <2>4, SplitFills
  <2>7. PICK n : n = b + T
    OBVIOUS
  <2>8. /\ n \notin Blocks /\ split[b] = T /\ split[n] = xBlockSize[b] - T
        /\ \A c \in Blocks \ {b} : split[c] = xBlockSize[c]
    BY <2>6, <2>7 DEF IsSplit
  <2>9. Pieces' = Pieces \cup {n} /\ n \notin Pieces /\ n # b /\ n \notin eventBlocks'
    BY <2>1, <2>7, <2>8, <1>2, <1>4, <1>5, <1>6
  <2>10. Cardinality(Pieces \cup {n}) = N + 1
    BY <2>9, <1>2, FS_AddElement
  <2>11. \A c \in (Pieces \cup {n}) \ {n} : split[c] = T
    <3> SUFFICES ASSUME NEW c \in Pieces PROVE split[c] = T
      BY <2>9
    <3>1. c = b \/ (split[c] = xBlockSize[c] /\ xBlockSize[c] = T)
      BY <2>2, <2>8, <1>2, <1>7
    <3> QED BY <3>1, <2>8
  <2>12. room = N * T + (xBlockSize[b] - T)
    <3>1. N - 1 \in Nat
      <4>1. N # 0
        BY <1>2, <1>5, FS_EmptySet
      <4> QED BY <4>1, <1>2
    <3>2. ((N - 1) + 1) * T = (N - 1) * T + T
      BY <3>1, <1>3, OneMore
    <3>3. (N - 1) + 1 = N /\ room = (N - 1) * T + xBlockSize[b] /\ (N - 1) * T \in Int
      BY <1>2, <1>7, <2>2, <3>1, <1>3
    <3> HIDE DEF N, T
    <3> QED BY <3>2, <3>3, <1>3, <1>5
  <2>13. room = (Cardinality(Pieces \cup {n}) - 1) * T + split[n]
    <3>1. Cardinality(Pieces \cup {n}) - 1 = N
      BY <2>10, <1>2
    <3> QED BY <3>1, <2>12, <2>8
  <2>14. InPieces(Pieces \cup {n}, eventBlocks', split, room)
    BY <2>9, <2>11, <2>13 DEF InPieces
  <2> QED BY <2>5, <2>9, <2>14
<1> QED BY <1>4, <1>8, <1>9

LEMMA CountStarts == Heap2Init => CountInv
<1> SUFFICES ASSUME Heap2Init PROVE CountInv
  OBVIOUS
<1>1. started = FALSE /\ eventBlocks = {} /\ freeList = <<0>>
  BY DEF Heap2Init
<1>2. FreeBlocks = {0}
  BY <1>1 DEF FreeBlocks, ToSet
<1> QED BY <1>1, <1>2, HeapStarts DEF CountInv

LEMMA CountSteps == CountInv /\ [Heap2Next]_heapVars => CountInv'
<1> SUFFICES ASSUME CountInv, [Heap2Next]_heapVars PROVE CountInv'
  OBVIOUS
<1>1. HeapInv /\ HeapInv' /\ started \in BOOLEAN
  BY HeapSteps DEF CountInv, HeapInv
<1>2. ASSUME NEW wanted \in StartSizes, MallocAtStart(wanted) PROVE CountInv'
  <2>1. wanted \in Nat \ {0} /\ FirstFit(wanted) # 0
    BY <1>2, HeapNumbers DEF MallocAtStart
  <2>2. PICK i : i = FirstFit(wanted)
    OBVIOUS
  <2>3. PICK total : total = wanted + StructSize
    OBVIOUS
  <2>4. PICK b : b = freeList[i]
    OBVIOUS
  <2>5. i \in 1 .. Len(freeList) /\ total \in Nat \ {0} /\ total <= xBlockSize[b]
    BY <1>1, <2>1, <2>2, <2>3, <2>4, FoundBlock
  <2>6. TakeBlock(i, total) /\ eventBlocks' = eventBlocks /\ started' = started /\ ~started
    BY <1>2, <2>2, <2>3, <2>4 DEF MallocAtStart
  <2>7. b \in FreeBlocks /\ (Splits(b, total) \/ UsesAll(b, total))
    BY <1>1, <2>4, <2>5, <2>6, TakeFacts
  <2>8. \A c, d \in FreeBlocks : c = d
    BY <2>6 DEF CountInv
  <2>9. FreeBlocks' = {b + total} \/ FreeBlocks' = {}
    BY <2>7, <2>8 DEF Splits, UsesAll
  <2>10. \A c, d \in FreeBlocks' : c = d
    BY <2>9
  <2> QED BY <1>1, <2>6, <2>10 DEF CountInv
<1>3. ASSUME StartScheduler PROVE CountInv'
  <2>1. /\ ~started /\ started' = TRUE /\ eventBlocks' = eventBlocks /\ freeList' = freeList
        /\ xBlockSize' = xBlockSize
        /\ room' = IF freeList = <<>> THEN 0 ELSE xBlockSize[Head(freeList)]
    BY <1>3 DEF StartScheduler
  <2>2. eventBlocks = {} /\ \A b, c \in FreeBlocks : b = c
    BY <2>1 DEF CountInv
  <2>3. Pieces' = FreeBlocks /\ Pieces = FreeBlocks
    BY <2>1, <2>2 DEF Pieces, FreeBlocks
  <2>4. freeList \in Seq(Addresses) /\ DOMAIN freeList = 1 .. Len(freeList)
    BY <1>1 DEF HeapInv
  <2>5. CASE freeList = <<>>
    <3>1. FreeBlocks = {}
      BY <2>4, <2>5 DEF FreeBlocks, ToSet
    <3>2. room' = 0
      BY <2>1, <2>5
    <3>3. InPieces(Pieces', eventBlocks', xBlockSize', room')
      BY <2>3, <3>1, <3>2 DEF InPieces
    <3> QED BY <3>3, <1>1, <2>1 DEF CountInv
  <2>6. CASE freeList # <<>>
    <3>1. PICK b : b = Head(freeList)
      OBVIOUS
    <3>2. 1 \in 1 .. Len(freeList) /\ b = freeList[1]
      BY <2>4, <2>6, <3>1, EmptySeq
    <3>3. b \in FreeBlocks
      BY <2>4, <3>2 DEF FreeBlocks, ToSet
    <3>4. FreeBlocks = {b}
      BY <3>3, <2>2
    <3>5. xBlockSize[b] \in Nat /\ EventBlockSize \in Nat
      BY <1>1, <3>3, PiecesFinite, EventNumbers
    <3>6. Cardinality({b}) = 1
      BY FS_Singleton
    <3>7. room' = (Cardinality({b}) - 1) * EventBlockSize + xBlockSize[b]
      BY <2>1, <2>6, <3>1, <3>5, <3>6
    <3>8. InPieces({b}, {}, xBlockSize, room')
      BY <3>7 DEF InPieces
    <3>9. InPieces(Pieces', eventBlocks', xBlockSize', room')
      BY <2>1, <2>2, <2>3, <3>4, <3>8
    <3> QED BY <3>9, <1>1, <2>1 DEF CountInv
  <2> QED BY <2>5, <2>6
<1>4. ASSUME MallocEvent, FirstFit(EventSize) # 0 PROVE CountInv'
  <2>1. EventSize \in Nat \ {0} /\ EventBlockSize = EventSize + StructSize
    BY HeapNumbers DEF EventBlockSize
  <2>2. PICK i : i = FirstFit(EventSize)
    OBVIOUS
  <2>3. PICK b : b = freeList[i]
    OBVIOUS
  <2>4. i \in 1 .. Len(freeList) /\ EventBlockSize <= xBlockSize[b]
    BY <1>1, <1>4, <2>1, <2>2, <2>3, FoundBlock
  <2>5. /\ TakeBlock(i, EventBlockSize) /\ eventBlocks' = eventBlocks \cup {b} /\ started
        /\ started' = started /\ room' = room
    BY <1>4, <2>2, <2>3 DEF MallocEvent, EventBlockSize
  <2>6. InPieces(Pieces', eventBlocks', xBlockSize', room')
    BY <2>3, <2>4, <2>5, TakeInPieces
  <2> QED BY <1>1, <2>5, <2>6 DEF CountInv
<1>5. ASSUME NEW b \in eventBlocks, FreeEvent(b) PROVE CountInv'
  <2>1. FreeBlocks' = FreeBlocks \cup {b}
    BY <1>1, <1>5, FreeFills
  <2>2. /\ eventBlocks' = eventBlocks \ {b} /\ xBlockSize' = xBlockSize
        /\ started' = started /\ room' = room
    BY <1>5 DEF FreeEvent
  <2>3. started
    BY <1>1 DEF CountInv
  <2>4. Pieces' = Pieces
    BY <2>1, <2>2 DEF Pieces
  <2>5. InPieces(Pieces, eventBlocks, xBlockSize, room)
    BY <2>3 DEF CountInv
  <2>6. InPieces(Pieces, eventBlocks \ {b}, xBlockSize, room)
    BY <2>5 DEF InPieces
  <2>7. InPieces(Pieces', eventBlocks', xBlockSize', room')
    BY <2>2, <2>4, <2>6
  <2> QED BY <1>1, <2>2, <2>3, <2>7 DEF CountInv
<1>6. ASSUME UNCHANGED <<freeList, xBlockSize, eventBlocks, started, room>> PROVE CountInv'
  <2>1. Pieces' = Pieces /\ FreeBlocks' = FreeBlocks
    BY <1>6 DEF Pieces, FreeBlocks
  <2> QED BY <1>1, <1>6, <2>1 DEF CountInv
<1>7. CASE MallocEvent /\ FirstFit(EventSize) = 0
  BY <1>6, <1>7 DEF MallocEvent
<1>8. CASE UNCHANGED heapVars
  BY <1>6, <1>8 DEF heapVars
<1> QED BY <1>2, <1>3, <1>4, <1>5, <1>7, <1>8 DEF Heap2Next

(* Though free blocks are never joined, an event gets no block only if as  *)
(* many exist as fit in the block that was free when the scheduler         *)
(* started, whatever the sizes (heap_2.c:203-238).                         *)
THEOREM HeapCounts == Heap2Spec => []HeapIsCounter
BY CountStarts, CountSteps, CountIsRight, PTL DEF Heap2Spec

-----------------------------------------------------------------------------
(* The ring of a queue.                                                    *)

(* pcWriteTo is the position after the last item; so it and pcReadFrom are *)
(* apart by uxMessagesWaiting, which alone tells a full ring from an empty *)
(* one.                                                                    *)
StorageInv ==
  /\ uxMessagesWaiting \in 0 .. uxLength
  /\ pcReadFrom \in Positions /\ pcWriteTo = Forward(Slot(pcReadFrom, uxMessagesWaiting))
  /\ storage \in [Positions -> Items \cup {NoItem}]

-----------------------------------------------------------------------------
(* Positions in the ring.                                                  *)

LEMMA Slots ==
  ASSUME NEW r \in Positions, NEW n \in 0 .. uxLength
  PROVE  /\ Slot(r, n) \in Positions
         /\ Slot(r, 0) = r
         /\ n < uxLength => Forward(Slot(r, n)) = Slot(r, n + 1)
         /\ n < uxLength => \A k \in 1 .. n : Slot(r, k) # Slot(r, n + 1) /\ Slot(r, k) # r
BY StorageAssumption DEF Positions, Slot, Forward

LEMMA SlotsForward ==
  ASSUME NEW r \in Positions
  PROVE  /\ Forward(r) \in Positions /\ Forward(r) = Slot(r, 1)
         /\ \A n \in 0 .. uxLength - 1 : Slot(Forward(r), n) = Slot(r, n + 1)
BY StorageAssumption DEF Positions, Slot, Forward

LEMMA SlotsBackward ==
  ASSUME NEW r \in Positions
  PROVE  /\ Backward(r) \in Positions /\ Slot(Backward(r), 1) = r
         /\ \A n \in 0 .. uxLength - 1 : Slot(Backward(r), n + 1) = Slot(r, n)
BY StorageAssumption DEF Positions, Slot, Backward

LEMMA ContentsOf ==
  ASSUME NEW s \in [Positions -> Items \cup {NoItem}], NEW r \in Positions,
         NEW n \in 0 .. uxLength, NEW c, c = [k \in 1 .. n |-> s[Slot(r, k)]]
  PROVE  /\ c \in Seq(Items \cup {NoItem}) /\ Len(c) = n
         /\ \A k \in 1 .. n : c[k] = s[Slot(r, k)]
<1>1. n \in Nat /\ \A k \in 1 .. n : k \in 0 .. uxLength
  BY StorageAssumption
<1>2. \A k \in 1 .. n : s[Slot(r, k)] \in Items \cup {NoItem}
  BY <1>1, Slots
<1>3. c \in Seq(Items \cup {NoItem})
  BY <1>1, <1>2, IsASeq
<1>4. Len(c) = n
  BY <1>1, <1>3, LenProperties
<1> QED BY <1>3, <1>4

LEMMA ContentsFacts ==
  ASSUME StorageInv
  PROVE  /\ Contents \in Seq(Items \cup {NoItem}) /\ Len(Contents) = uxMessagesWaiting
         /\ \A n \in 1 .. uxMessagesWaiting : Contents[n] = storage[Slot(pcReadFrom, n)]
<1>1. Contents = [n \in 1 .. uxMessagesWaiting |-> storage[Slot(pcReadFrom, n)]]
  BY DEF Contents
<1>2. /\ uxMessagesWaiting \in 0 .. uxLength /\ pcReadFrom \in Positions
      /\ storage \in [Positions -> Items \cup {NoItem}]
  BY DEF StorageInv
<1> QED BY <1>1, <1>2, ContentsOf

LEMMA ContentsFactsNext ==
  ASSUME StorageInv'
  PROVE  /\ Contents' \in Seq(Items \cup {NoItem}) /\ Len(Contents') = uxMessagesWaiting'
         /\ \A n \in 1 .. uxMessagesWaiting' : Contents'[n] = storage'[Slot(pcReadFrom', n)]
<1>1. Contents' = [n \in 1 .. uxMessagesWaiting' |-> storage'[Slot(pcReadFrom', n)]]
  BY DEF Contents, Slot
<1>2. /\ uxMessagesWaiting' \in 0 .. uxLength /\ pcReadFrom' \in Positions
      /\ storage' \in [Positions -> Items \cup {NoItem}]
  BY DEF StorageInv, Positions
<1> QED BY <1>1, <1>2, ContentsOf

-----------------------------------------------------------------------------
(* Each operation keeps the invariant and does on the sequence what the    *)
(* operation of MessageBuffer does.                                        *)

LEMMA ResetRefines ==
  ASSUME StorageInv, GenericReset
  PROVE  StorageInv' /\ Buffer!Clear
<1>1. uxMessagesWaiting' = 0 /\ pcWriteTo' = 0 /\ pcReadFrom' = uxLength - 1
      /\ UNCHANGED <<storage, pvBuffer>>
  BY DEF GenericReset, ResetPositions
<1>2. StorageInv'
  BY <1>1, StorageAssumption DEF StorageInv, Positions, Forward, Slot
<1>3. Contents' = <<>>
  BY <1>1 DEF Contents
<1> QED BY <1>1, <1>2, <1>3 DEF Buffer!Clear

LEMMA CopyToBackRefines ==
  ASSUME StorageInv, NEW i \in Items, CopyToBack(i)
  PROVE  StorageInv' /\ Buffer!PutBack(i)
<1> DEFINE n == uxMessagesWaiting
           r == pcReadFrom
<1>1. n \in 0 .. uxLength - 1 /\ r \in Positions /\ n' = n + 1 /\ r' = r
      /\ pcWriteTo \in Positions
      /\ storage' = [storage EXCEPT ![pcWriteTo] = i] /\ pvBuffer' = pvBuffer
  BY Slots, SlotsForward, StorageAssumption DEF StorageInv, CopyToBack
<1>2. pcWriteTo = Slot(r, n + 1)
  BY <1>1, Slots, StorageAssumption DEF StorageInv
<1>3. StorageInv'
  <2>1. pcWriteTo' = Forward(Slot(r', n'))
    BY <1>1, <1>2 DEF CopyToBack
  <2> QED BY <1>1, <2>1, StorageAssumption DEF StorageInv
<1>4. \A k \in 1 .. n : Slot(r, k) # pcWriteTo /\ Slot(r, k) \in Positions
  <2>1. n \in 0 .. uxLength /\ n < uxLength /\ \A k \in 1 .. n : k \in 0 .. uxLength
    BY <1>1, StorageAssumption
  <2> QED BY <1>1, <1>2, <2>1, Slots
<1>5. Contents' = Append(Contents, i)
  <2>1. /\ Contents' \in Seq(Items \cup {NoItem}) /\ Len(Contents') = n + 1
        /\ \A k \in 1 .. n + 1 : Contents'[k] = storage'[Slot(r, k)]
    BY <1>1, <1>3, ContentsFactsNext
  <2>2. /\ Contents \in Seq(Items \cup {NoItem}) /\ Len(Contents) = n
        /\ \A k \in 1 .. n : Contents[k] = storage[Slot(r, k)]
    BY ContentsFacts
  <2>3. \A k \in 1 .. n : Contents'[k] = Contents[k]
    BY <1>1, <1>4, <2>1, <2>2 DEF StorageInv
  <2>4. Contents'[n + 1] = i
    BY <1>1, <1>2, <2>1 DEF StorageInv
  <2>5. /\ Append(Contents, i) \in Seq(Items \cup {NoItem}) /\ Len(Append(Contents, i)) = n + 1
        /\ \A k \in 1 .. n : Append(Contents, i)[k] = Contents[k]
        /\ Append(Contents, i)[n + 1] = i
    BY <2>2, AppendProperties
  <2>6. \A k \in 1 .. n + 1 : Contents'[k] = Append(Contents, i)[k]
    BY <1>1, <2>3, <2>4, <2>5
  <2> QED BY <2>1, <2>5, <2>6, SeqEqual
<1>6. Len(Contents) < uxLength
  BY <1>1, ContentsFacts, StorageAssumption
<1> QED BY <1>1, <1>3, <1>5, <1>6 DEF Buffer!PutBack

LEMMA CopyToFrontRefines ==
  ASSUME StorageInv, NEW i \in Items, CopyToFront(i)
  PROVE  StorageInv' /\ Buffer!PutFront(i)
<1> DEFINE n == uxMessagesWaiting
           r == pcReadFrom
<1>1. n \in 0 .. uxLength - 1 /\ r \in Positions /\ n' = n + 1 /\ r' = Backward(r)
      /\ storage' = [storage EXCEPT ![r] = i] /\ UNCHANGED <<pcWriteTo, pvBuffer>>
  BY StorageAssumption DEF StorageInv, CopyToFront
<1>2. /\ r' \in Positions /\ Slot(r', 1) = r
      /\ \A k \in 0 .. uxLength - 1 : Slot(r', k + 1) = Slot(r, k)
  BY <1>1, SlotsBackward
<1>3. StorageInv'
  <2>1. pcWriteTo' = Forward(Slot(r', n'))
    BY <1>1, <1>2 DEF StorageInv
  <2> QED BY <1>1, <1>2, <2>1, StorageAssumption DEF StorageInv
<1>4. \A k \in 1 .. n : Slot(r, k) # r /\ Slot(r, k) \in Positions
  <2>1. n \in 0 .. uxLength /\ n < uxLength /\ \A k \in 1 .. n : k \in 0 .. uxLength
    BY <1>1, StorageAssumption
  <2> QED BY <1>1, <2>1, Slots
<1>5. Contents' = <<i>> \o Contents
  <2>1. /\ Contents' \in Seq(Items \cup {NoItem}) /\ Len(Contents') = n + 1
        /\ \A k \in 1 .. n + 1 : Contents'[k] = storage'[Slot(r', k)]
    BY <1>1, <1>3, ContentsFactsNext
  <2>2. /\ Contents \in Seq(Items \cup {NoItem}) /\ Len(Contents) = n
        /\ \A k \in 1 .. n : Contents[k] = storage[Slot(r, k)]
    BY ContentsFacts
  <2>3. Contents'[1] = i
    BY <1>1, <1>2, <2>1, StorageAssumption DEF StorageInv
  <2>4. \A k \in 1 .. n : Contents'[k + 1] = Contents[k]
    <3> SUFFICES ASSUME NEW k \in 1 .. n PROVE Contents'[k + 1] = Contents[k]
      OBVIOUS
    <3>1. k \in 0 .. uxLength - 1 /\ k + 1 \in 1 .. n + 1
      BY <1>1, StorageAssumption
    <3>2. Contents'[k + 1] = storage'[Slot(r, k)]
      BY <1>2, <2>1, <3>1
    <3> QED BY <1>1, <1>4, <2>2, <3>2 DEF StorageInv
  <2>5. <<i>> \in Seq(Items \cup {NoItem}) /\ Len(<<i>>) = 1 /\ <<i>>[1] = i
    OBVIOUS
  <2>6. /\ <<i>> \o Contents \in Seq(Items \cup {NoItem})
        /\ Len(<<i>> \o Contents) = 1 + n
        /\ \A k \in 1 .. 1 + n :
              (<<i>> \o Contents)[k] = IF k <= 1 THEN <<i>>[k] ELSE Contents[k - 1]
    BY <2>2, <2>5, ConcatProperties
  <2>7. \A k \in 1 .. n + 1 : Contents'[k] = (<<i>> \o Contents)[k]
    <3> SUFFICES ASSUME NEW k \in 1 .. n + 1 PROVE Contents'[k] = (<<i>> \o Contents)[k]
      OBVIOUS
    <3>1. k = 1 \/ (k - 1 \in 1 .. n /\ (k - 1) + 1 = k /\ ~(k <= 1))
      BY <1>1
    <3>2. k \in 1 .. 1 + n
      BY <1>1
    <3> HIDE DEF n, r
    <3> QED BY <2>3, <2>4, <2>5, <2>6, <3>1, <3>2
  <2>8. Len(Contents') = Len(<<i>> \o Contents)
    BY <1>1, <2>1, <2>6
  <2> QED BY <2>1, <2>6, <2>7, <2>8, SeqEqual
<1>6. Len(Contents) < uxLength
  BY <1>1, ContentsFacts, StorageAssumption
<1> QED BY <1>1, <1>3, <1>5, <1>6 DEF Buffer!PutFront

(* What a call that finds an item copies is the first of the sequence.     *)
LEMMA FirstItem ==
  ASSUME StorageInv, uxMessagesWaiting > 0
  PROVE  Contents # <<>> /\ Head(Contents) = storage[Forward(pcReadFrom)]
<1>1. Contents \in Seq(Items \cup {NoItem}) /\ Len(Contents) = uxMessagesWaiting
      /\ \A k \in 1 .. uxMessagesWaiting : Contents[k] = storage[Slot(pcReadFrom, k)]
  BY ContentsFacts
<1>2. uxMessagesWaiting \in Nat /\ 1 \in 1 .. uxMessagesWaiting
  BY StorageAssumption DEF StorageInv
<1>3. Contents # <<>>
  BY <1>1, <1>2
<1>4. Head(Contents) = Contents[1]
  BY <1>1, <1>3
<1>5. Forward(pcReadFrom) = Slot(pcReadFrom, 1)
  BY SlotsForward DEF StorageInv
<1> QED BY <1>1, <1>2, <1>3, <1>4, <1>5

LEMMA PeekRefines ==
  ASSUME StorageInv, Peek
  PROVE  StorageInv' /\ Buffer!LookAtFirst
<1>1. UNCHANGED <<storage, pcWriteTo, pcReadFrom, uxMessagesWaiting>>
  BY DEF Peek
<1>2. StorageInv'
  BY <1>1 DEF StorageInv, Slot, Forward, Positions
<1>3. Contents' = Contents
  BY <1>1 DEF Contents, Slot
<1> QED BY <1>2, <1>3, FirstItem DEF Peek, Buffer!LookAtFirst

LEMMA ReceiveRefines ==
  ASSUME StorageInv, Receive
  PROVE  StorageInv' /\ Buffer!TakeFirst
<1> DEFINE n == uxMessagesWaiting
           r == pcReadFrom
<1>1. n \in 1 .. uxLength /\ n > 0 /\ r \in Positions /\ n' = n - 1 /\ r' = Forward(r)
      /\ UNCHANGED <<storage, pcWriteTo>> /\ pvBuffer' = storage[Forward(r)]
  BY StorageAssumption DEF StorageInv, Receive
<1>2. r' \in Positions /\ \A k \in 0 .. uxLength - 1 : Slot(r', k) = Slot(r, k + 1)
  BY <1>1, SlotsForward
<1>3. StorageInv'
  <2>1. n - 1 \in 0 .. uxLength - 1 /\ (n - 1) + 1 = n
    BY <1>1, StorageAssumption
  <2>2. Slot(r', n - 1) = Slot(r, n)
    BY <1>2, <2>1
  <2>3. pcWriteTo' = Forward(Slot(r', n'))
    BY <1>1, <2>2 DEF StorageInv
  <2> QED BY <1>1, <1>2, <2>1, <2>3, StorageAssumption DEF StorageInv
<1>4. Contents' = Tail(Contents)
  <2>1. /\ Contents' \in Seq(Items \cup {NoItem}) /\ Len(Contents') = n - 1
        /\ \A k \in 1 .. n - 1 : Contents'[k] = storage[Slot(r', k)]
    BY <1>1, <1>3, ContentsFactsNext
  <2>2. /\ Contents \in Seq(Items \cup {NoItem}) /\ Len(Contents) = n
        /\ \A k \in 1 .. n : Contents[k] = storage[Slot(r, k)]
    BY ContentsFacts
  <2>3. /\ Tail(Contents) \in Seq(Items \cup {NoItem}) /\ Len(Tail(Contents)) = n - 1
        /\ \A k \in 1 .. n - 1 : Tail(Contents)[k] = Contents[k + 1]
    BY <1>1, <2>2, FirstItem, HeadTailProperties
  <2>4. \A k \in 1 .. n - 1 : Contents'[k] = Tail(Contents)[k]
    <3> SUFFICES ASSUME NEW k \in 1 .. n - 1 PROVE Contents'[k] = Tail(Contents)[k]
      OBVIOUS
    <3>1. k \in 0 .. uxLength - 1 /\ k + 1 \in 1 .. n
      BY <1>1, StorageAssumption
    <3> QED BY <1>2, <2>1, <2>2, <2>3, <3>1
  <2> QED BY <2>1, <2>3, <2>4, SeqEqual
<1> QED BY <1>1, <1>3, <1>4, FirstItem DEF Buffer!TakeFirst

-----------------------------------------------------------------------------
LEMMA StorageInitially == StorageInit => StorageInv /\ Buffer!Init
<1> SUFFICES ASSUME StorageInit PROVE StorageInv /\ Buffer!Init
  OBVIOUS
<1>1. StorageInv
  BY StorageAssumption DEF StorageInit, StorageInv, Positions, Forward, Slot
<1>2. Contents = <<>>
  BY DEF StorageInit, Contents
<1> QED BY <1>1, <1>2 DEF StorageInit, Buffer!Init

(* prvCopyDataToQueue and prvCopyDataFromQueue: the ring implements a      *)
(* sequence of messages, for any length of the queue.                      *)
THEOREM RingImplementsBuffer == StorageSpec => ImplementsBuffer
<1>1. StorageInit => StorageInv /\ Buffer!Init
  BY StorageInitially
<1>2. StorageInv /\ [StorageNext]_storageVars
        => StorageInv' /\ [Buffer!Next]_(<<Contents, pvBuffer>>)
  <2> SUFFICES ASSUME StorageInv, [StorageNext]_storageVars
               PROVE  StorageInv' /\ (Buffer!Next \/ UNCHANGED <<Contents, pvBuffer>>)
    OBVIOUS
  <2>1. CASE GenericReset
    BY <2>1, ResetRefines DEF Buffer!Next
  <2>2. CASE Receive
    BY <2>2, ReceiveRefines DEF Buffer!Next
  <2>3. CASE Peek
    BY <2>3, PeekRefines DEF Buffer!Next
  <2>4. ASSUME NEW i \in Items, CopyToBack(i)
        PROVE  StorageInv' /\ Buffer!Next
    BY <2>4, CopyToBackRefines DEF Buffer!Next
  <2>5. ASSUME NEW i \in Items, CopyToFront(i)
        PROVE  StorageInv' /\ Buffer!Next
    BY <2>5, CopyToFrontRefines DEF Buffer!Next
  <2>6. CASE UNCHANGED storageVars
    BY <2>6 DEF storageVars, StorageInv, Contents, Slot, Forward, Positions
  <2> QED BY <2>1, <2>2, <2>3, <2>4, <2>5, <2>6 DEF StorageNext
<1> QED BY <1>1, <1>2, PTL DEF StorageSpec, ImplementsBuffer, Buffer!Spec
-----------------------------------------------------------------------------
(* The ready list and the sorted list. *)

(* The items of s behind the i-th and round to it.                         *)
Turned(s, i) == [k \in 1 .. Len(s) |-> IF i + k <= Len(s) THEN s[i + k] ELSE s[i + k - Len(s)]]

LEMMA SameSeq ==
  ASSUME NEW S, NEW s \in Seq(S), NEW T, NEW u \in Seq(T), Len(s) = Len(u),
         \A k \in 1 .. Len(s) : s[k] = u[k]
  PROVE  s = u
BY LenProperties

LEMMA TurnedFacts ==
  ASSUME NEW S, NEW s \in Seq(S), NEW i \in 0 .. Len(s)
  PROVE  /\ Turned(s, i) \in Seq(S) /\ Len(Turned(s, i)) = Len(s)
         /\ \A k \in 1 .. Len(s) :
              Turned(s, i)[k] = IF i + k <= Len(s) THEN s[i + k] ELSE s[i + k - Len(s)]
<1> DEFINE t == Turned(s, i)
<1>1. Len(s) \in Nat
  BY LenProperties
<1>2. ASSUME NEW k \in 1 .. Len(s)
      PROVE  (IF i + k <= Len(s) THEN s[i + k] ELSE s[i + k - Len(s)]) \in S
  <2>1. CASE i + k <= Len(s)
    <3>1. i + k \in 1 .. Len(s)
      BY <1>1, <1>2, <2>1
    <3> QED BY <2>1, <3>1, ElementOfSeq
  <2>2. CASE ~(i + k <= Len(s))
    <3>1. i + k - Len(s) \in 1 .. Len(s)
      BY <1>1, <1>2, <2>2
    <3> QED BY <2>2, <3>1, ElementOfSeq
  <2> QED BY <2>1, <2>2
<1>3. t \in Seq(S)
  BY <1>1, <1>2, IsASeq DEF Turned
<1>4. Len(t) = Len(s)
  <2>1. DOMAIN t = 1 .. Len(s)
    BY DEF Turned
  <2> HIDE DEF t
  <2> QED BY <1>1, <1>3, <2>1, LenProperties
<1> QED BY <1>3, <1>4 DEF Turned

(* The item that goes behind the index comes last.                         *)
LEMMA TurnedInsert ==
  ASSUME NEW S, NEW s \in Seq(S), NEW i \in 0 .. Len(s), NEW x \in S
  PROVE  Turned(InsertAt(s, i + 1, x), i + 1) = Append(Turned(s, i), x)
<1>1. Len(s) \in Nat /\ i + 1 \in 1 .. Len(s) + 1
  BY LenProperties
<1>2. PICK p \in 1 .. Len(s) + 1 : p = i + 1
  BY <1>1
<1>3. PICK u : u = InsertAt(s, p, x)
  OBVIOUS
<1>4. /\ u \in Seq(S) /\ Len(u) = Len(s) + 1
      /\ \A k \in 1 .. Len(s) + 1 : u[k] = IF k < p THEN s[k] ELSE IF k = p THEN x ELSE s[k - 1]
  <2>1. /\ InsertAt(s, p, x) \in Seq(S) /\ Len(InsertAt(s, p, x)) = Len(s) + 1
        /\ \A k \in 1 .. Len(s) + 1 :
             InsertAt(s, p, x)[k] = IF k < p THEN s[k] ELSE IF k = p THEN x ELSE s[k - 1]
    BY InsertAtFacts
  <2> QED BY <1>3, <2>1
<1>5. PICK v : v = Turned(u, p)
  OBVIOUS
<1>6. /\ v \in Seq(S) /\ Len(v) = Len(s) + 1
      /\ \A k \in 1 .. Len(s) + 1 :
           v[k] = IF p + k <= Len(s) + 1 THEN u[p + k] ELSE u[p + k - (Len(s) + 1)]
  <2>1. p \in 0 .. Len(u)
    BY <1>1, <1>2, <1>4
  <2> QED BY <1>4, <1>5, <2>1, TurnedFacts
<1>7. PICK t : t = Turned(s, i)
  OBVIOUS
<1>8. /\ t \in Seq(S) /\ Len(t) = Len(s)
      /\ \A k \in 1 .. Len(s) : t[k] = IF i + k <= Len(s) THEN s[i + k] ELSE s[i + k - Len(s)]
  BY <1>7, TurnedFacts
<1>9. PICK w : w = Append(t, x)
  OBVIOUS
<1>10. /\ w \in Seq(S) /\ Len(w) = Len(s) + 1 /\ w[Len(s) + 1] = x
       /\ \A k \in 1 .. Len(s) : w[k] = t[k]
  BY <1>8, <1>9, AppendProperties
<1>11. ASSUME NEW k \in 1 .. Len(s) + 1 PROVE v[k] = w[k]
  <2>1. CASE k = Len(s) + 1
    <3>1. ~(p + k <= Len(s) + 1) /\ p + k - (Len(s) + 1) = p /\ p \in 1 .. Len(s) + 1
      BY <1>1, <1>2, <2>1
    <3>2. v[k] = u[p]
      BY <1>6, <3>1
    <3>3. u[p] = x
      BY <1>4, <3>1, <1>1, <1>2
    <3> QED BY <2>1, <3>2, <3>3, <1>10
  <2>2. CASE k # Len(s) + 1 /\ i + k <= Len(s)
    <3>1. k \in 1 .. Len(s) /\ p + k <= Len(s) + 1 /\ p + k \in 1 .. Len(s) + 1
          /\ ~(p + k < p) /\ p + k # p /\ p + k - 1 = i + k
      BY <1>1, <1>2, <2>2
    <3>2. v[k] = u[p + k]
      BY <1>6, <3>1
    <3>3. u[p + k] = s[p + k - 1]
      BY <1>4, <3>1
    <3> QED BY <2>2, <3>1, <3>2, <3>3, <1>8, <1>10
  <2>3. CASE k # Len(s) + 1 /\ ~(i + k <= Len(s))
    <3>1. k \in 1 .. Len(s) /\ ~(p + k <= Len(s) + 1)
          /\ p + k - (Len(s) + 1) \in 1 .. Len(s) + 1
          /\ p + k - (Len(s) + 1) < p /\ p + k - (Len(s) + 1) = i + k - Len(s)
      BY <1>1, <1>2, <2>3
    <3>2. v[k] = u[p + k - (Len(s) + 1)]
      BY <1>6, <3>1
    <3>3. u[p + k - (Len(s) + 1)] = s[i + k - Len(s)]
      BY <1>4, <3>1
    <3> QED BY <2>3, <3>1, <3>2, <3>3, <1>8, <1>10
  <2> QED BY <2>1, <2>2, <2>3
<1>12. v = w
  BY <1>6, <1>10, <1>11, SameSeq
<1> QED BY <1>2, <1>3, <1>5, <1>7, <1>9, <1>12

(* The index moves on: the first comes last.                               *)
LEMMA TurnedNext ==
  ASSUME NEW S, NEW s \in Seq(S), NEW i \in 0 .. Len(s), Len(s) # 0
  PROVE  /\ Turned(s, i) # <<>>
         /\ Turned(s, IF i < Len(s) THEN i + 1 ELSE 1) = Append(Tail(Turned(s, i)), Head(Turned(s, i)))
<1>1. Len(s) \in Nat \ {0}
  BY LenProperties
<1>2. PICK j \in 1 .. Len(s) : j = IF i < Len(s) THEN i + 1 ELSE 1
  BY <1>1
<1>3. j \in 1 .. Len(s)
  OBVIOUS
<1>4. PICK t : t = Turned(s, i)
  OBVIOUS
<1>5. /\ t \in Seq(S) /\ Len(t) = Len(s)
      /\ \A k \in 1 .. Len(s) : t[k] = IF i + k <= Len(s) THEN s[i + k] ELSE s[i + k - Len(s)]
  BY <1>4, TurnedFacts
<1>6. PICK v : v = Turned(s, j)
  OBVIOUS
<1>7. /\ v \in Seq(S) /\ Len(v) = Len(s)
      /\ \A k \in 1 .. Len(s) : v[k] = IF j + k <= Len(s) THEN s[j + k] ELSE s[j + k - Len(s)]
  <2>1. j \in 0 .. Len(s)
    BY <1>1, <1>3
  <2> QED BY <1>6, <2>1, TurnedFacts
<1>8. t # <<>>
  BY <1>1, <1>5
<1>9. PICK w : w = Append(Tail(t), Head(t))
  OBVIOUS
<1>10. /\ w \in Seq(S) /\ Len(w) = Len(s) /\ w[Len(s)] = t[1]
       /\ \A k \in 1 .. Len(s) - 1 : w[k] = t[k + 1]
  <2>1. /\ Tail(t) \in Seq(S) /\ Len(Tail(t)) = Len(t) - 1
        /\ \A k \in 1 .. Len(t) - 1 : Tail(t)[k] = t[k + 1]
        /\ Head(t) = t[1] /\ Head(t) \in S
    BY <1>5, <1>8, HeadTailProperties
  <2>2. PICK u : u = Tail(t)
    OBVIOUS
  <2>3. /\ u \in Seq(S) /\ Len(u) = Len(s) - 1 /\ \A k \in 1 .. Len(s) - 1 : u[k] = t[k + 1]
    BY <1>5, <2>1, <2>2
  <2>4. w = Append(u, Head(t)) /\ (Len(s) - 1) + 1 = Len(s)
    BY <1>1, <1>9, <2>2
  <2>5. /\ w \in Seq(S) /\ Len(w) = Len(u) + 1 /\ w[Len(u) + 1] = Head(t)
        /\ \A k \in 1 .. Len(u) : w[k] = u[k]
    BY <2>1, <2>3, <2>4, AppendProperties
  <2> QED BY <2>1, <2>3, <2>4, <2>5
<1>11. ASSUME NEW k \in 1 .. Len(s) PROVE v[k] = w[k]
  <2>1. CASE k = Len(s)
    <3>1. v[k] = s[j]
      <4>1. ~(j + k <= Len(s)) /\ j + k - Len(s) = j
        BY <1>1, <1>3, <2>1
      <4> QED BY <1>7, <4>1
    <3>2. t[1] = s[j]
      <4>1. 1 \in 1 .. Len(s) /\ (i + 1 <= Len(s) <=> i < Len(s)) /\ (~(i < Len(s)) => i + 1 - Len(s) = 1)
        BY <1>1
      <4> QED BY <1>2, <1>5, <4>1
    <3> QED BY <2>1, <3>1, <3>2, <1>10
  <2>2. CASE k # Len(s)
    <3>1. k \in 1 .. Len(s) - 1 /\ k + 1 \in 1 .. Len(s) /\ i + (k + 1) = (i + k) + 1
      BY <1>1, <2>2
    <3>2. w[k] = IF i + (k + 1) <= Len(s) THEN s[i + (k + 1)] ELSE s[i + (k + 1) - Len(s)]
      BY <1>5, <1>10, <3>1
    <3>3. CASE i < Len(s)
      <4>1. PICK a : a = j + k
        OBVIOUS
      <4>2. a = i + (k + 1)
        BY <1>1, <1>2, <3>3, <4>1
      <4>3. v[k] = IF a <= Len(s) THEN s[a] ELSE s[a - Len(s)]
        BY <1>7, <4>1
      <4>4. w[k] = IF a <= Len(s) THEN s[a] ELSE s[a - Len(s)]
        BY <3>2, <4>2
      <4> QED BY <4>3, <4>4
    <3>4. CASE ~(i < Len(s))
      <4>1. j = 1 /\ i = Len(s) /\ j + k = k + 1 /\ j + k <= Len(s)
            /\ ~(i + (k + 1) <= Len(s)) /\ i + (k + 1) - Len(s) = k + 1
        BY <1>1, <1>2, <3>1, <3>4
      <4> QED BY <1>7, <3>2, <4>1
    <3> QED BY <3>3, <3>4
  <2> QED BY <2>1, <2>2
<1>12. v = w
  BY <1>7, <1>10, <1>11, SameSeq
<1> QED BY <1>2, <1>4, <1>6, <1>8, <1>9, <1>12

(* Which index an element of one sequence has in another.                  *)
Around(i, k, n) == IF i + k <= n THEN i + k ELSE i + k - n

Past(p, k) == IF k < p THEN k ELSE k + 1

LEMMA AroundIs ==
  ASSUME NEW S, NEW s \in Seq(S), NEW i \in 0 .. Len(s)
  PROVE  /\ Turned(s, i) \in Seq(S) /\ Len(Turned(s, i)) = Len(s) /\ Len(s) \in Nat
         /\ \A k \in 1 .. Len(s) : /\ Around(i, k, Len(s)) \in 1 .. Len(s)
                                   /\ Turned(s, i)[k] = s[Around(i, k, Len(s))]
<1>1. Len(s) \in Nat
  BY LenProperties
<1>2. \A k \in 1 .. Len(s) : Around(i, k, Len(s)) \in 1 .. Len(s)
  BY <1>1 DEF Around
<1> QED BY <1>1, <1>2, TurnedFacts DEF Around

LEMMA PastIs ==
  ASSUME NEW S, NEW s \in Seq(S), NEW p \in 1 .. Len(s)
  PROVE  /\ RemoveAt(s, p) \in Seq(S) /\ Len(RemoveAt(s, p)) = Len(s) - 1
         /\ \A k \in 1 .. Len(s) - 1 : RemoveAt(s, p)[k] = s[Past(p, k)]
BY RemoveAtFacts DEF Past

(* Where the index is after the p-th item of the list is taken out.        *)
IndexAfter(i, p) == IF p <= i THEN i - 1 ELSE i

(* An item that is taken out is taken out of the turns.                    *)
LEMMA TurnedRemove ==
  ASSUME NEW S, NEW s \in Seq(S), NEW i \in 0 .. Len(s), NEW p \in 1 .. Len(s),
         NEW j, j = IndexAfter(i, p)
  PROVE  /\ j \in 0 .. Len(s) - 1
         /\ \E q \in 1 .. Len(s) : /\ Turned(s, i)[q] = s[p]
                                   /\ Turned(RemoveAt(s, p), j) = RemoveAt(Turned(s, i), q)
<1>1. Len(s) \in Nat
  BY LenProperties
<1>2. j \in 0 .. Len(s) - 1 /\ j = IF p <= i THEN i - 1 ELSE i
  BY <1>1 DEF IndexAfter
<1>3. PICK q \in 1 .. Len(s) : q = IF p > i THEN p - i ELSE p - i + Len(s)
  <2>1. p > i => p - i \in 1 .. Len(s)
    BY <1>1
  <2>2. ~(p > i) => p - i + Len(s) \in 1 .. Len(s)
    BY <1>1
  <2> QED BY <2>1, <2>2
<1>4. PICK t : t = Turned(s, i)
  OBVIOUS
<1>5. /\ t \in Seq(S) /\ Len(t) = Len(s)
      /\ \A k \in 1 .. Len(s) : t[k] = s[Around(i, k, Len(s))]
  BY <1>4, AroundIs
<1>6. PICK u : u = RemoveAt(s, p)
  OBVIOUS
<1>7. u \in Seq(S) /\ Len(u) = Len(s) - 1 /\ \A k \in 1 .. Len(s) - 1 : u[k] = s[Past(p, k)]
  BY <1>6, PastIs
<1>8. PICK v : v = Turned(u, j)
  OBVIOUS
<1>9. /\ v \in Seq(S) /\ Len(v) = Len(s) - 1
      /\ \A k \in 1 .. Len(s) - 1 : v[k] = u[Around(j, k, Len(s) - 1)]
  <2>1. j \in 0 .. Len(u)
    BY <1>2, <1>7
  <2>2. v \in Seq(S) /\ Len(v) = Len(u) /\ \A k \in 1 .. Len(u) : v[k] = u[Around(j, k, Len(u))]
    BY <1>7, <1>8, <2>1, AroundIs
  <2>3. PICK n : n = Len(u)
    OBVIOUS
  <2> QED BY <1>7, <2>2, <2>3
<1>10. PICK w : w = RemoveAt(t, q)
  OBVIOUS
<1>11. w \in Seq(S) /\ Len(w) = Len(s) - 1 /\ \A k \in 1 .. Len(s) - 1 : w[k] = t[Past(q, k)]
  <2>1. q \in 1 .. Len(t)
    BY <1>5
  <2> QED BY <1>5, <1>10, <2>1, PastIs
<1>12. ASSUME NEW k \in 1 .. Len(s) - 1 PROVE v[k] = w[k]
  <2>1. PICK a : a = Around(j, k, Len(s) - 1)
    OBVIOUS
  <2>2. PICK b : b = Past(q, k)
    OBVIOUS
  <2>3. a \in 1 .. Len(s) - 1 /\ b \in 1 .. Len(s) /\ Past(p, a) = Around(i, b, Len(s))
    <3>1. PICK n \in Nat : n = Len(s)
      BY <1>1
    <3>2. /\ i \in 0 .. n /\ p \in 1 .. n /\ k \in 1 .. n - 1 /\ j \in Int /\ q \in Int
          /\ (p <= i => j = i - 1) /\ (p > i => j = i)
          /\ (p <= i => q = p - i + n) /\ (p > i => q = p - i)
      BY <1>1, <1>2, <1>3, <3>1
    <3>3. /\ Around(j, k, n - 1) \in 1 .. n - 1 /\ Past(q, k) \in 1 .. n
          /\ Past(p, Around(j, k, n - 1)) = Around(i, Past(q, k), n)
      BY <3>2, SMTT(30) DEF Around, Past
    <3> QED BY <2>1, <2>2, <3>1, <3>3
  <2>4. v[k] = s[Past(p, a)]
    BY <1>7, <1>9, <2>1, <2>3
  <2>5. w[k] = s[Around(i, b, Len(s))]
    BY <1>5, <1>11, <2>2, <2>3
  <2> QED BY <2>3, <2>4, <2>5
<1>13. v = w
  BY <1>9, <1>11, <1>12, SameSeq
<1>14. t[q] = s[p]
  <2>1. Around(i, q, Len(s)) = p
    BY <1>1, <1>3 DEF Around
  <2> QED BY <1>5, <2>1
<1> QED BY <1>2, <1>4, <1>6, <1>8, <1>10, <1>13, <1>14

(* The turns are those of the same items, each once.                       *)
LEMMA TurnedSet ==
  ASSUME NEW S, NEW s \in Seq(S), NEW i \in 0 .. Len(s)
  PROVE  /\ ToSet(Turned(s, i)) = ToSet(s)
         /\ IsInjective(s) => IsInjective(Turned(s, i))
<1>1. PICK t : t = Turned(s, i)
  OBVIOUS
<1>2. /\ t \in Seq(S) /\ Len(t) = Len(s) /\ Len(s) \in Nat
      /\ \A k \in 1 .. Len(s) : /\ Around(i, k, Len(s)) \in 1 .. Len(s)
                                /\ t[k] = s[Around(i, k, Len(s))]
  BY <1>1, AroundIs
<1>3. DOMAIN t = 1 .. Len(s) /\ DOMAIN s = 1 .. Len(s)
  BY <1>2, LenProperties
<1>4. \A a \in 1 .. Len(s) : \E k \in 1 .. Len(s) : Around(i, k, Len(s)) = a
  <2> SUFFICES ASSUME NEW a \in 1 .. Len(s) PROVE \E k \in 1 .. Len(s) : Around(i, k, Len(s)) = a
    OBVIOUS
  <2>1. CASE a > i
    <3>1. a - i \in 1 .. Len(s) /\ Around(i, a - i, Len(s)) = a
      BY <1>2, <2>1 DEF Around
    <3> QED BY <3>1
  <2>2. CASE ~(a > i)
    <3>1. a - i + Len(s) \in 1 .. Len(s) /\ Around(i, a - i + Len(s), Len(s)) = a
      BY <1>2, <2>2 DEF Around
    <3> QED BY <3>1
  <2> QED BY <2>1, <2>2
<1>5. \A k, m \in 1 .. Len(s) : Around(i, k, Len(s)) = Around(i, m, Len(s)) => k = m
  BY <1>2 DEF Around
<1>6. ToSet(t) = ToSet(s)
  <2>1. ToSet(t) \subseteq ToSet(s)
    BY <1>2, <1>3 DEF ToSet
  <2>2. ToSet(s) \subseteq ToSet(t)
    BY <1>2, <1>3, <1>4 DEF ToSet
  <2> QED BY <2>1, <2>2
<1>7. IsInjective(s) => IsInjective(t)
  BY <1>2, <1>3, <1>5 DEF IsInjective
<1> QED BY <1>1, <1>6, <1>7

(* Removing an element by its value.                                       *)
LEMMA RemoveFirstIs ==
  ASSUME NEW S, NEW s \in Seq(S), IsInjective(s), NEW x
  PROVE  /\ \A q \in 1 .. Len(s) : s[q] = x => RemoveFirst(s, x) = RemoveAt(s, q)
         /\ x \notin ToSet(s) => RemoveFirst(s, x) = s
<1>1. Len(s) \in Nat /\ DOMAIN s = 1 .. Len(s)
  BY LenProperties
<1>2. ASSUME NEW q \in 1 .. Len(s), s[q] = x PROVE RemoveFirst(s, x) = RemoveAt(s, q)
  <2> DEFINE I == {i \in 1 .. Len(s) : s[i] = x}
  <2>1. I = {q}
    BY <1>1, <1>2 DEF IsInjective
  <2>2. I \in SUBSET Nat /\ I # {}
    BY <1>1, <2>1
  <2> HIDE DEF I
  <2>3. Min(I) = q
    BY <2>1, <2>2, Smallest
  <2> USE DEF I
  <2>4. SelectInSeq(s, LAMBDA v : v = x) = q
    BY <2>2, <2>3 DEF SelectInSeq
  <2> QED BY <1>2, <2>4 DEF RemoveFirst
<1>3. ASSUME x \notin ToSet(s) PROVE RemoveFirst(s, x) = s
  BY <1>1, <1>3 DEF RemoveFirst, ToSet
<1> QED BY <1>2, <1>3

-----------------------------------------------------------------------------
(* Walking a ring.                                                         *)

LEMMA NextItemIs ==
  ASSUME NEW markers, NEW r, IsMemory(r, markers), NEW l \in markers,
         NEW S, NEW s \in Seq(S), Holds(r, l, s), NEW i \in 0 .. Len(s), Len(s) # 0
  PROVE  NextItem(r, l, Node(l, s, i)) = s[IF i < Len(s) THEN i + 1 ELSE 1]
<1>1. Len(s) \in Nat \ {0} /\ 0 \in 0 .. Len(s) /\ 1 \in 1 .. Len(s) /\ 0 + 1 = 1
  BY LenProperties
<1>2. /\ l \notin ToSet(s)
      /\ r.pxNext[Node(l, s, i)] = Node(l, s, i + 1)
      /\ r.pxNext[Node(l, s, 0)] = Node(l, s, 0 + 1)
  BY <1>1, RingNodes
<1>3. /\ Node(l, s, 0) = l /\ Node(l, s, Len(s) + 1) = l
      /\ \A k \in 1 .. Len(s) : Node(l, s, k) = s[k] /\ s[k] \in ToSet(s)
  BY NodesAre
<1>4. r.pxNext[l] = s[1]
  BY <1>1, <1>2, <1>3
<1>5. CASE i < Len(s)
  <2>1. i + 1 \in 1 .. Len(s)
    BY <1>1, <1>5
  <2>2. r.pxNext[Node(l, s, i)] = s[i + 1] /\ s[i + 1] # l
    BY <2>1, <1>2, <1>3
  <2> QED BY <2>2, <1>5 DEF NextItem
<1>6. CASE ~(i < Len(s))
  <2>1. i + 1 = Len(s) + 1
    BY <1>1, <1>6
  <2>2. r.pxNext[Node(l, s, i)] = l
    BY <2>1, <1>2, <1>3
  <2> QED BY <2>2, <1>4, <1>6 DEF NextItem
<1> QED BY <1>5, <1>6

Steps(r, l, n, length, f) ==
  f = [i \in 0 .. length |-> IF i = 0 THEN n ELSE NextItem(r, l, f[i - 1])]

(* From the node with number i on come the items behind it.                *)
LEMMA ItemsFromRing ==
  ASSUME NEW markers, NEW r, IsMemory(r, markers), NEW l \in markers,
         NEW S, NEW s \in Seq(S), Holds(r, l, s), NEW i \in 0 .. Len(s)
  PROVE  ItemsFrom(r, l, Node(l, s, i)) = Turned(s, i)
<1>1. Len(s) \in Nat /\ r.uxNumberOfItems[l] = Len(s)
  BY LenProperties DEF Holds
<1>2. PICK n : n = Node(l, s, i)
  OBVIOUS
<1>3. PICK t : t = Turned(s, i)
  OBVIOUS
<1>4. /\ t \in Seq(S) /\ Len(t) = Len(s)
      /\ \A k \in 1 .. Len(s) : t[k] = s[Around(i, k, Len(s))]
  BY <1>3, AroundIs
<1>5. ASSUME NEW k \in 1 .. Len(s)
      PROVE  t[k] = NextItem(r, l, IF k = 1 THEN n ELSE t[k - 1])
  <2>1. Len(s) # 0
    BY <1>1
  <2>2. CASE k = 1
    <3>1. NextItem(r, l, n) = s[IF i < Len(s) THEN i + 1 ELSE 1]
      BY <1>2, <2>1, NextItemIs
    <3>2. Around(i, 1, Len(s)) = IF i < Len(s) THEN i + 1 ELSE 1
      BY <1>1 DEF Around
    <3> QED BY <1>4, <2>2, <3>1, <3>2
  <2>3. CASE k # 1
    <3>1. k - 1 \in 1 .. Len(s)
      BY <1>1, <2>3
    <3>2. PICK m \in 1 .. Len(s) : m = Around(i, k - 1, Len(s))
      BY <1>1, <3>1, AroundIs
    <3>3. t[k - 1] = s[m]
      BY <1>4, <3>1, <3>2
    <3>4. s[m] = Node(l, s, m) /\ m \in 0 .. Len(s)
      BY <1>1 DEF Node
    <3>5. NextItem(r, l, s[m]) = s[IF m < Len(s) THEN m + 1 ELSE 1]
      BY <2>1, <3>4, NextItemIs
    <3>6. Around(i, k, Len(s)) = IF m < Len(s) THEN m + 1 ELSE 1
      BY <1>1, <3>1, <3>2 DEF Around
    <3> QED BY <1>4, <2>3, <3>3, <3>5, <3>6
  <2> QED BY <2>2, <2>3
<1> DEFINE g == [k \in 0 .. Len(s) |-> IF k = 0 THEN n ELSE t[k]]
           item == CHOOSE f : f = [k \in 0 .. Len(s) |->
                                     IF k = 0 THEN n ELSE NextItem(r, l, f[k - 1])]
<1>6. ASSUME NEW k \in 0 .. Len(s)
      PROVE  g[k] = IF k = 0 THEN n ELSE NextItem(r, l, g[k - 1])
  <2>1. CASE k = 0
    BY <2>1
  <2>2. CASE k # 0
    <3>1. k \in 1 .. Len(s) /\ k - 1 \in 0 .. Len(s) /\ (k - 1 = 0 <=> k = 1)
      BY <1>1, <2>2
    <3>2. g[k - 1] = IF k = 1 THEN n ELSE t[k - 1]
      BY <3>1
    <3> QED BY <1>5, <2>2, <3>1, <3>2
  <2> QED BY <2>1, <2>2
<1>7. Steps(r, l, n, Len(s), g)
  BY <1>6 DEF Steps
<1>8. Steps(r, l, n, Len(s), item)
  BY <1>7 DEF Steps
<1>9. ItemsFrom(r, l, n) = [k \in 1 .. Len(s) |-> item[k]]
  BY <1>1 DEF ItemsFrom
<1> HIDE DEF item
<1>10. /\ item[0] = n
       /\ \A k \in 1 .. Len(s) : item[k] = NextItem(r, l, item[k - 1])
  <2>1. item = [k \in 0 .. Len(s) |-> IF k = 0 THEN n ELSE NextItem(r, l, item[k - 1])]
    BY <1>8 DEF Steps
  <2>2. \A k \in 0 .. Len(s) : item[k] = IF k = 0 THEN n ELSE NextItem(r, l, item[k - 1])
    BY <2>1
  <2>3. 0 \in 0 .. Len(s) /\ \A k \in 1 .. Len(s) : k \in 0 .. Len(s) /\ k # 0
    BY <1>1
  <2> QED BY <2>2, <2>3
<1>11. ASSUME NEW k \in 1 .. Len(s), item[k] # t[k] PROVE FALSE
  <2> DEFINE I == {j \in 1 .. Len(s) : item[j] # t[j]}
  <2>1. k \in I /\ I \in SUBSET Nat
    BY <1>1, <1>11
  <2>2. PICK q \in I : \A j \in I : q <= j
    BY <2>1, Smallest
  <2>3. q \in 1 .. Len(s) /\ item[q] # t[q]
    BY <2>2
  <2>4. item[q - 1] = IF q = 1 THEN n ELSE t[q - 1]
    <3>1. CASE q = 1
      BY <3>1, <1>10
    <3>2. CASE q # 1
      <4>1. q - 1 \in 1 .. Len(s) /\ ~(q <= q - 1)
        BY <1>1, <2>3, <3>2
      <4>2. q - 1 \notin I
        BY <2>2, <4>1
      <4> QED BY <4>1, <4>2, <3>2
    <3> QED BY <3>1, <3>2
  <2> QED BY <1>5, <1>10, <2>3, <2>4
<1>12. ItemsFrom(r, l, n) = t
  <2>1. \A k \in 1 .. Len(s) : item[k] = t[k]
    BY <1>11
  <2>2. t = [k \in 1 .. Len(s) |-> t[k]]
    BY <1>4, LenProperties
  <2> QED BY <1>9, <2>1, <2>2
<1> QED BY <1>2, <1>3, <1>12

-----------------------------------------------------------------------------
(* The ready list, with its index at the i-th node, and the sorted list,   *)
(* whose index stays at the marker.                                        *)

KernelMarkers == {ReadyList, SortedList}

TwoRings(r, ready, sorted, i) ==
  /\ IsMemory(r, KernelMarkers)
  /\ Holds(r, ReadyList, ready) /\ Holds(r, SortedList, sorted)
  /\ DOMAIN r.pvContainer = ToSet(ready) \cup ToSet(sorted)
  /\ r.pxIndex[ReadyList] = Node(ReadyList, ready, i)
  /\ r.pxIndex[SortedList] = SortedList

LEMMA KernelApart ==
  /\ ReadyList \in KernelMarkers /\ SortedList \in KernelMarkers /\ ReadyList # SortedList
  /\ \A t \in KernelTasks : t \notin KernelMarkers
  /\ MaxValue \in Nat /\ \A v \in Values : v \in 0 .. MaxValue
BY KernelListsAssumption DEF KernelMarkers

(* Putting an item in behind a node.                                       *)
LEMMA InsertBehind ==
  ASSUME NEW markers, NEW r, IsMemory(r, markers), NEW l \in markers, NEW m \in markers, l # m,
         NEW S, NEW s \in Seq(S), Holds(r, l, s), NEW u \in Seq(S), Holds(r, m, u),
         NEW x \in S, x \notin DOMAIN r.pxNext, NEW p \in 0 .. Len(s),
         NEW t, t = InsertAfter(r, l, Node(l, s, p), x)
  PROVE  /\ IsMemory(t, markers) /\ t.pxIndex = r.pxIndex
         /\ Holds(t, l, InsertAt(s, p + 1, x)) /\ Holds(t, m, u)
         /\ DOMAIN t.pvContainer = DOMAIN r.pvContainer \cup {x}
<1>1. Len(s) \in Nat
  BY LenProperties
<1>2. Holds(t, l, InsertAt(s, p + 1, x)) /\ Holds(t, m, u)
  BY InsertInRing, InsertOtherRing
<1>3. PICK n : n = Node(l, s, p)
  OBVIOUS
<1>4. n \in DOMAIN r.pxNext /\ r.pxNext[n] \in DOMAIN r.pxNext
  <2>1. r.pxNext[Node(l, s, p)] = Node(l, s, p + 1)
    BY RingNodes
  <2>2. \A k \in Int : Node(l, s, k) \in DOMAIN r.pxNext
    BY RingNodes
  <2> QED BY <1>1, <1>3, <2>1, <2>2
<1>5. t = InsertAfter(r, l, n, x)
  BY <1>3
<1>6. IsMemory(t, markers) /\ t.pxIndex = r.pxIndex /\ DOMAIN t.pvContainer = DOMAIN r.pvContainer \cup {x}
  BY <1>4, <1>5, InsertLinks
<1> QED BY <1>2, <1>6

(* Elements of a sequence before and behind the one that is put in or      *)
(* taken out have their nodes.                                             *)
LEMMA NodeInserted ==
  ASSUME NEW S, NEW s \in Seq(S), NEW p \in 1 .. Len(s) + 1, NEW x \in S, NEW l
  PROVE  Node(l, InsertAt(s, p, x), p) = x
<1>1. /\ Len(InsertAt(s, p, x)) = Len(s) + 1 /\ p \in 1 .. Len(s) + 1
      /\ InsertAt(s, p, x)[p] = IF p < p THEN s[p] ELSE IF p = p THEN x ELSE s[p - 1]
  BY InsertAtFacts
<1>2. ~(p < p)
  BY LenProperties
<1> QED BY <1>1, <1>2 DEF Node

LEMMA NodeRemoved ==
  ASSUME NEW S, NEW s \in Seq(S), NEW p \in 1 .. Len(s), NEW l, NEW i \in 0 .. Len(s)
  PROVE  /\ p = i => Node(l, RemoveAt(s, p), i - 1) = Node(l, s, i - 1)
         /\ p < i => Node(l, RemoveAt(s, p), i - 1) = Node(l, s, i)
         /\ p > i => Node(l, RemoveAt(s, p), i) = Node(l, s, i)
<1>1. PICK u : u = RemoveAt(s, p)
  OBVIOUS
<1>2. u \in Seq(S) /\ Len(u) = Len(s) - 1 /\ Len(s) \in Nat
      /\ \A k \in 1 .. Len(s) - 1 : u[k] = s[Past(p, k)]
  BY <1>1, PastIs, LenProperties
<1>3. p = i => Node(l, u, i - 1) = Node(l, s, i - 1)
  <2> SUFFICES ASSUME p = i PROVE Node(l, u, i - 1) = Node(l, s, i - 1)
    OBVIOUS
  <2>1. CASE i = 1
    BY <1>2, <2>1 DEF Node
  <2>2. CASE i # 1
    <3>1. i - 1 \in 1 .. Len(s) - 1 /\ i - 1 \in 1 .. Len(s) /\ i - 1 < p
      BY <1>2, <2>2
    <3>2. u[i - 1] = s[i - 1]
      BY <1>2, <3>1 DEF Past
    <3> QED BY <1>2, <3>1, <3>2 DEF Node
  <2> QED BY <2>1, <2>2
<1>4. p < i => Node(l, u, i - 1) = Node(l, s, i)
  <2> SUFFICES ASSUME p < i PROVE Node(l, u, i - 1) = Node(l, s, i)
    OBVIOUS
  <2>1. i - 1 \in 1 .. Len(s) - 1 /\ i \in 1 .. Len(s) /\ ~(i - 1 < p) /\ (i - 1) + 1 = i
    BY <1>2
  <2>2. u[i - 1] = s[i]
    BY <1>2, <2>1 DEF Past
  <2> QED BY <1>2, <2>1, <2>2 DEF Node
<1>5. p > i => Node(l, u, i) = Node(l, s, i)
  <2> SUFFICES ASSUME p > i PROVE Node(l, u, i) = Node(l, s, i)
    OBVIOUS
  <2>1. CASE i = 0
    BY <1>2, <2>1 DEF Node
  <2>2. CASE i # 0
    <3>1. i \in 1 .. Len(s) - 1 /\ i \in 1 .. Len(s) /\ i < p
      BY <1>2, <2>2
    <3>2. u[i] = s[i]
      BY <1>2, <3>1 DEF Past
    <3> QED BY <1>2, <3>1, <3>2 DEF Node
  <2> QED BY <2>1, <2>2
<1> QED BY <1>1, <1>3, <1>4, <1>5

(* Only the index of the ready list is set.                                *)
IndexSet(r, x) == [r EXCEPT !.pxIndex[ReadyList] = x]

LEMMA ReadyIndexSet ==
  ASSUME NEW r, IsMemory(r, KernelMarkers), NEW ready, NEW sorted,
         Holds(r, ReadyList, ready), Holds(r, SortedList, sorted), NEW x,
         NEW t, t = IndexSet(r, x)
  PROVE  /\ IsMemory(t, KernelMarkers) /\ t.pvContainer = r.pvContainer
         /\ Holds(t, ReadyList, ready) /\ Holds(t, SortedList, sorted)
         /\ t.pxIndex[ReadyList] = x /\ t.pxIndex[SortedList] = r.pxIndex[SortedList]
<1>1. ReadyList \in KernelMarkers /\ SortedList \in KernelMarkers /\ ReadyList # SortedList
  BY KernelApart
<1>2. /\ t.pxNext = r.pxNext /\ t.pxPrevious = r.pxPrevious
      /\ t.pvContainer = r.pvContainer /\ t.uxNumberOfItems = r.uxNumberOfItems
      /\ t.pxIndex = [r.pxIndex EXCEPT ![ReadyList] = x]
      /\ DOMAIN t = DOMAIN r
  BY DEF IsMemory, Fields, IndexSet
<1>3. IsMemory(t, KernelMarkers)
  BY <1>2 DEF IsMemory
<1>4. Holds(t, ReadyList, ready) /\ Holds(t, SortedList, sorted)
  BY <1>2 DEF Holds, Linked, ItemsOf
<1>5. t.pxIndex[ReadyList] = x /\ t.pxIndex[SortedList] = r.pxIndex[SortedList]
  BY <1>1, <1>2 DEF IsMemory
<1> QED BY <1>2, <1>3, <1>4, <1>5

(* vListInsertEnd: the item goes behind the index, which moves to it.      *)
LEMMA AddReady ==
  ASSUME NEW ready \in Seq(KernelTasks), NEW sorted \in Seq(KernelTasks), NEW i \in 0 .. Len(ready),
         NEW r, TwoRings(r, ready, sorted, i), NEW x \in KernelTasks, x \notin DOMAIN r.pvContainer,
         NEW t, t = ListInsertEnd(r, ReadyList, x)
  PROVE  TwoRings(t, InsertAt(ready, i + 1, x), sorted, i + 1)
<1>1. /\ IsMemory(r, KernelMarkers)
      /\ Holds(r, ReadyList, ready) /\ Holds(r, SortedList, sorted)
      /\ DOMAIN r.pvContainer = ToSet(ready) \cup ToSet(sorted)
      /\ r.pxIndex[ReadyList] = Node(ReadyList, ready, i)
      /\ r.pxIndex[SortedList] = SortedList
  BY DEF TwoRings
<1>2. x \notin DOMAIN r.pxNext
  BY <1>1, KernelApart DEF IsMemory
<1>3. PICK v : v = InsertAfter(r, ReadyList, Node(ReadyList, ready, i), x)
  OBVIOUS
<1>4. PICK p \in 1 .. Len(ready) + 1 : p = i + 1
  BY LenProperties
<1>5. PICK u : u = InsertAt(ready, p, x)
  OBVIOUS
<1>6. /\ IsMemory(v, KernelMarkers) /\ v.pxIndex = r.pxIndex
      /\ Holds(v, ReadyList, InsertAt(ready, i + 1, x)) /\ Holds(v, SortedList, sorted)
      /\ DOMAIN v.pvContainer = DOMAIN r.pvContainer \cup {x}
  BY <1>1, <1>2, <1>3, KernelApart, InsertBehind
<1>7. t = IndexSet(v, x)
  BY <1>1, <1>3 DEF ListInsertEnd, IndexSet
<1>8. Holds(v, ReadyList, u)
  BY <1>4, <1>5, <1>6
<1>9. /\ IsMemory(t, KernelMarkers) /\ t.pvContainer = v.pvContainer
      /\ Holds(t, ReadyList, u) /\ Holds(t, SortedList, sorted)
      /\ t.pxIndex[ReadyList] = x /\ t.pxIndex[SortedList] = SortedList
  BY <1>1, <1>6, <1>7, <1>8, ReadyIndexSet
<1>10. Node(ReadyList, u, p) = x
  BY <1>4, <1>5, NodeInserted
<1>11. ToSet(u) = ToSet(ready) \cup {x}
  BY <1>4, <1>5, InsertAtSet
<1>12. TwoRings(t, u, sorted, p)
  BY <1>1, <1>6, <1>9, <1>10, <1>11 DEF TwoRings
<1> QED BY <1>4, <1>5, <1>12

(* vListRemove of a ready task: the index steps back if it was there.      *)
LEMMA TakeReady ==
  ASSUME NEW ready \in Seq(KernelTasks), NEW sorted \in Seq(KernelTasks), NEW i \in 0 .. Len(ready),
         NEW r, TwoRings(r, ready, sorted, i), NEW p \in 1 .. Len(ready),
         NEW t, t = ListRemove(r, ready[p])
  PROVE  /\ TwoRings(t, RemoveAt(ready, p), sorted, IndexAfter(i, p))
         /\ ready[p] \notin DOMAIN t.pvContainer
<1>1. /\ IsMemory(r, KernelMarkers)
      /\ Holds(r, ReadyList, ready) /\ Holds(r, SortedList, sorted)
      /\ DOMAIN r.pvContainer = ToSet(ready) \cup ToSet(sorted)
      /\ r.pxIndex[ReadyList] = Node(ReadyList, ready, i)
      /\ r.pxIndex[SortedList] = SortedList
  BY DEF TwoRings
<1>2. PICK x : x = ready[p]
  OBVIOUS
<1>3. /\ x \in ItemsOf(r, ReadyList) /\ x = Node(ReadyList, ready, p)
      /\ r.pxPrevious[x] = Node(ReadyList, ready, p - 1)
      /\ r.pxNext[x] \in DOMAIN r.pxNext \ {x} /\ r.pxPrevious[x] \in DOMAIN r.pxNext \ {x}
  BY <1>1, <1>2, KernelApart, Neighbours
<1>4. Holds(t, ReadyList, RemoveAt(ready, p)) /\ Holds(t, SortedList, sorted)
  BY <1>1, KernelApart, RemoveFromRing, RemoveOtherRing
<1>5. /\ IsMemory(t, KernelMarkers) /\ DOMAIN t.pvContainer = DOMAIN r.pvContainer \ {x}
      /\ t.pxIndex[ReadyList] = (IF r.pxIndex[ReadyList] = x THEN r.pxPrevious[x] ELSE r.pxIndex[ReadyList])
      /\ t.pxIndex[SortedList] = r.pxIndex[SortedList]
  BY <1>1, <1>2, <1>3, KernelApart, RemoveLinks
<1>6. r.pxIndex[ReadyList] = x <=> i = p
  <2>1. IsInjective(ready) /\ ReadyList \notin ToSet(ready)
    BY <1>1, KernelApart, RingNodes DEF Holds
  <2>2. i = p <=> Node(ReadyList, ready, i) = Node(ReadyList, ready, p)
    <3>1. \A a, b \in 0 .. Len(ready) : Node(ReadyList, ready, a) = Node(ReadyList, ready, b) => a = b
      BY <2>1, NodesDiffer
    <3>2. p \in 0 .. Len(ready)
      BY LenProperties
    <3> QED BY <3>1, <3>2
  <2> QED BY <1>1, <1>3, <2>2
<1>7. PICK u : u = RemoveAt(ready, p)
  OBVIOUS
<1>8. PICK j : j = IndexAfter(i, p)
  OBVIOUS
<1>9. t.pxIndex[ReadyList] = Node(ReadyList, u, j)
  <2>1. /\ p = i => Node(ReadyList, u, i - 1) = Node(ReadyList, ready, i - 1)
        /\ p < i => Node(ReadyList, u, i - 1) = Node(ReadyList, ready, i)
        /\ p > i => Node(ReadyList, u, i) = Node(ReadyList, ready, i)
    BY <1>7, NodeRemoved
  <2>2. p \in Int /\ i \in Int
    BY LenProperties
  <2>3. CASE p = i
    <3>1. j = i - 1
      BY <1>8, <2>2, <2>3 DEF IndexAfter
    <3> QED BY <1>3, <1>5, <1>6, <2>1, <2>3, <3>1
  <2>4. CASE p < i
    <3>1. j = i - 1 /\ i # p
      BY <1>8, <2>2, <2>4 DEF IndexAfter
    <3> QED BY <1>1, <1>5, <1>6, <2>1, <2>4, <3>1
  <2>5. CASE p > i
    <3>1. j = i /\ i # p
      BY <1>8, <2>2, <2>5 DEF IndexAfter
    <3> QED BY <1>1, <1>5, <1>6, <2>1, <2>5, <3>1
  <2> QED BY <2>2, <2>3, <2>4, <2>5
<1>10. ToSet(u) = ToSet(ready) \ {x} /\ x \notin ToSet(sorted)
  <2>1. IsInjective(ready)
    BY <1>1 DEF Holds
  <2>2. ToSet(u) = ToSet(ready) \ {x}
    BY <1>2, <1>7, <2>1, RemoveAtSet
  <2>3. x \notin ToSet(sorted)
    BY <1>1, <1>3, KernelApart DEF Holds, ItemsOf
  <2> QED BY <2>2, <2>3
<1>11. DOMAIN t.pvContainer = ToSet(u) \cup ToSet(sorted)
  BY <1>1, <1>5, <1>10
<1>12. TwoRings(t, u, sorted, j)
  BY <1>1, <1>4, <1>5, <1>7, <1>9, <1>11 DEF TwoRings
<1> QED BY <1>2, <1>5, <1>7, <1>8, <1>12

(* vListRemove of a task of the sorted list.                               *)
LEMMA TakeSorted ==
  ASSUME NEW ready \in Seq(KernelTasks), NEW sorted \in Seq(KernelTasks), NEW i \in 0 .. Len(ready),
         NEW r, TwoRings(r, ready, sorted, i), NEW p \in 1 .. Len(sorted),
         NEW t, t = ListRemove(r, sorted[p])
  PROVE  /\ TwoRings(t, ready, RemoveAt(sorted, p), i)
         /\ sorted[p] \notin DOMAIN t.pvContainer
<1>1. /\ IsMemory(r, KernelMarkers)
      /\ Holds(r, ReadyList, ready) /\ Holds(r, SortedList, sorted)
      /\ DOMAIN r.pvContainer = ToSet(ready) \cup ToSet(sorted)
      /\ r.pxIndex[ReadyList] = Node(ReadyList, ready, i)
      /\ r.pxIndex[SortedList] = SortedList
  BY DEF TwoRings
<1>2. PICK x : x = sorted[p]
  OBVIOUS
<1>3. /\ x \in ItemsOf(r, SortedList)
      /\ r.pxNext[x] \in DOMAIN r.pxNext \ {x} /\ r.pxPrevious[x] \in DOMAIN r.pxNext \ {x}
  BY <1>1, <1>2, KernelApart, Neighbours
<1>4. Holds(t, SortedList, RemoveAt(sorted, p)) /\ Holds(t, ReadyList, ready)
  BY <1>1, KernelApart, RemoveFromRing, RemoveOtherRing
<1>5. /\ IsMemory(t, KernelMarkers) /\ DOMAIN t.pvContainer = DOMAIN r.pvContainer \ {x}
      /\ t.pxIndex[SortedList] = (IF r.pxIndex[SortedList] = x THEN r.pxPrevious[x] ELSE r.pxIndex[SortedList])
      /\ t.pxIndex[ReadyList] = r.pxIndex[ReadyList]
  BY <1>1, <1>2, <1>3, KernelApart, RemoveLinks
<1>6. t.pxIndex[SortedList] = SortedList
  <2>1. SortedList # x
    BY <1>1, <1>3, KernelApart DEF ItemsOf, IsMemory
  <2> QED BY <1>1, <1>5, <2>1
<1>7. PICK u : u = RemoveAt(sorted, p)
  OBVIOUS
<1>8. ToSet(u) = ToSet(sorted) \ {x} /\ x \notin ToSet(ready)
  <2>1. IsInjective(sorted)
    BY <1>1 DEF Holds
  <2>2. ToSet(u) = ToSet(sorted) \ {x}
    BY <1>2, <1>7, <2>1, RemoveAtSet
  <2>3. x \notin ToSet(ready)
    BY <1>1, <1>3, KernelApart DEF Holds, ItemsOf
  <2> QED BY <2>2, <2>3
<1>9. DOMAIN t.pvContainer = ToSet(ready) \cup ToSet(u)
  BY <1>1, <1>5, <1>8
<1>10. TwoRings(t, ready, u, i)
  BY <1>1, <1>4, <1>5, <1>6, <1>7, <1>9 DEF TwoRings
<1> QED BY <1>2, <1>5, <1>7, <1>10

(* vListInsert behind the p-th task.                                       *)
LEMMA AddSorted ==
  ASSUME NEW ready \in Seq(KernelTasks), NEW sorted \in Seq(KernelTasks), NEW i \in 0 .. Len(ready),
         NEW r, TwoRings(r, ready, sorted, i), NEW x \in KernelTasks, x \notin DOMAIN r.pvContainer,
         NEW p \in 0 .. Len(sorted), NEW t, t = InsertAfter(r, SortedList, Node(SortedList, sorted, p), x)
  PROVE  TwoRings(t, ready, InsertAt(sorted, p + 1, x), i)
<1>1. /\ IsMemory(r, KernelMarkers)
      /\ Holds(r, ReadyList, ready) /\ Holds(r, SortedList, sorted)
      /\ DOMAIN r.pvContainer = ToSet(ready) \cup ToSet(sorted)
      /\ r.pxIndex[ReadyList] = Node(ReadyList, ready, i)
      /\ r.pxIndex[SortedList] = SortedList
  BY DEF TwoRings
<1>2. x \notin DOMAIN r.pxNext
  BY <1>1, KernelApart DEF IsMemory
<1>3. PICK q \in 1 .. Len(sorted) + 1 : q = p + 1
  BY LenProperties
<1>4. PICK u : u = InsertAt(sorted, q, x)
  OBVIOUS
<1>5. SortedList # ReadyList
  BY KernelApart
<1>6. /\ IsMemory(t, KernelMarkers) /\ t.pxIndex = r.pxIndex
      /\ Holds(t, SortedList, InsertAt(sorted, p + 1, x)) /\ Holds(t, ReadyList, ready)
      /\ DOMAIN t.pvContainer = DOMAIN r.pvContainer \cup {x}
  BY <1>1, <1>2, <1>5, KernelApart, InsertBehind
<1>7. Holds(t, SortedList, u)
  BY <1>3, <1>4, <1>6
<1>8. ToSet(u) = ToSet(sorted) \cup {x}
  BY <1>3, <1>4, InsertAtSet
<1>9. TwoRings(t, ready, u, i)
  BY <1>1, <1>6, <1>7, <1>8 DEF TwoRings
<1> QED BY <1>3, <1>4, <1>9

(* The index of the ready list moves on.                                   *)
LEMMA MoveIndex ==
  ASSUME NEW ready \in Seq(KernelTasks), NEW sorted \in Seq(KernelTasks), NEW i \in 0 .. Len(ready),
         NEW r, TwoRings(r, ready, sorted, i), Len(ready) # 0,
         NEW t, t = NextEntry(r, ReadyList)
  PROVE  TwoRings(t, ready, sorted, IF i < Len(ready) THEN i + 1 ELSE 1)
<1>1. /\ IsMemory(r, KernelMarkers)
      /\ Holds(r, ReadyList, ready) /\ Holds(r, SortedList, sorted)
      /\ DOMAIN r.pvContainer = ToSet(ready) \cup ToSet(sorted)
      /\ r.pxIndex[ReadyList] = Node(ReadyList, ready, i)
      /\ r.pxIndex[SortedList] = SortedList
  BY DEF TwoRings
<1>2. PICK j \in 1 .. Len(ready) : j = IF i < Len(ready) THEN i + 1 ELSE 1
  BY LenProperties
<1>3. PICK x : x = NextItem(r, ReadyList, r.pxIndex[ReadyList])
  OBVIOUS
<1>4. x = ready[j]
  BY <1>1, <1>2, <1>3, KernelApart, NextItemIs
<1>5. Node(ReadyList, ready, j) = x
  BY <1>4 DEF Node
<1>6. t = IndexSet(r, x)
  BY <1>1, <1>3, KernelApart DEF NextEntry, IsMemory, Fields, IndexSet
<1>7. /\ IsMemory(t, KernelMarkers) /\ t.pvContainer = r.pvContainer
      /\ Holds(t, ReadyList, ready) /\ Holds(t, SortedList, sorted)
      /\ t.pxIndex[ReadyList] = x /\ t.pxIndex[SortedList] = SortedList
  BY <1>1, <1>6, ReadyIndexSet
<1>8. TwoRings(t, ready, sorted, j)
  BY <1>1, <1>5, <1>7 DEF TwoRings
<1> QED BY <1>2, <1>8

-----------------------------------------------------------------------------
(* The lists by their tasks. *)

AreValues(values) == values \in [KernelTasks -> 0 .. MaxValue]

(* xItemValue never falls from one task of the sorted list to the next.    *)
Ascending(sorted, values) ==
  \A a, b \in 1 .. Len(sorted) : a < b => values[sorted[a]] <= values[sorted[b]]

(* What AsideOf makes of the sorted list.                                  *)
WithValues(sorted, values) ==
  [k \in 1 .. Len(sorted) |-> [task |-> sorted[k], value |-> values[sorted[k]]]]

Inputs == [task : KernelTasks, value : 0 .. MaxValue]

(* The place vListInsert finds in the sorted list.                         *)
LEMMA SortedPosition ==
  ASSUME NEW ready \in Seq(KernelTasks), NEW sorted \in Seq(KernelTasks), NEW i \in 0 .. Len(ready),
         NEW r, TwoRings(r, ready, sorted, i), AreValues(xItemValue),
         Ascending(sorted, xItemValue), NEW v \in Values, NEW x
  PROVE  \E p \in 0 .. Len(sorted) :
           /\ ListInsert(r, x, v) = InsertAfter(r, SortedList, Node(SortedList, sorted, p), x)
           /\ \A j \in 1 .. Len(sorted) : j <= p <=> xItemValue[sorted[j]] <= v
<1>1. /\ IsMemory(r, KernelMarkers) /\ Holds(r, SortedList, sorted)
      /\ SortedList \in KernelMarkers /\ SortedList \notin KernelTasks
      /\ MaxValue \in Nat /\ v \in 0 .. MaxValue /\ Len(sorted) \in Nat
      /\ \A j \in 1 .. Len(sorted) : sorted[j] \in KernelTasks /\ xItemValue[sorted[j]] \in 0 .. MaxValue
  BY KernelApart, ElementOfSeq, LenProperties DEF TwoRings, AreValues
<1> DEFINE value(y) == IF y = SortedList THEN MaxValue ELSE xItemValue[y]
           before == {y \in KernelTasks \cup {SortedList} : value(y) <= v}
<1>2. CASE v = MaxValue
  <2>1. ListInsert(r, x, v) = InsertAfter(r, SortedList, r.pxPrevious[SortedList], x)
    BY <1>2 DEF ListInsert
  <2>2. r.pxPrevious[SortedList] = Node(SortedList, sorted, Len(sorted))
    BY <1>1, RingEnds
  <2>3. Len(sorted) \in 0 .. Len(sorted)
        /\ \A j \in 1 .. Len(sorted) : j <= Len(sorted) /\ xItemValue[sorted[j]] <= v
    BY <1>1, <1>2
  <2> QED BY <2>1, <2>2, <2>3
<1>3. CASE v # MaxValue
  <2>1. ListInsert(r, x, v) = InsertAfter(r, SortedList, PositionIn(r, SortedList, before), x)
    BY <1>3 DEF ListInsert
  <2>2. SortedList \notin before
    BY <1>1, <1>3
  <2>3. \A j \in 1 .. Len(sorted) : sorted[j] \in before <=> xItemValue[sorted[j]] <= v
    BY <1>1
  <2> HIDE DEF before
  <2>4. PICK p \in 0 .. Len(sorted) :
           /\ PositionIn(r, SortedList, before) = Node(SortedList, sorted, p)
           /\ Node(SortedList, sorted, p + 1) \notin before
           /\ \A k \in 1 .. p : sorted[k] \in before
    BY <1>1, <2>2, PositionInRing
  <2>5. ASSUME NEW j \in 1 .. Len(sorted) PROVE j <= p <=> xItemValue[sorted[j]] <= v
    <3>1. CASE j <= p
      <4>1. j \in 1 .. p
        BY <1>1, <3>1
      <4> QED BY <2>3, <2>4, <3>1, <4>1
    <3>2. CASE ~(j <= p)
      <4>1. PICK q \in 1 .. Len(sorted) : q = p + 1
        BY <1>1, <3>2
      <4>2. Node(SortedList, sorted, q) = sorted[q]
        BY DEF Node
      <4>3. ~(xItemValue[sorted[q]] <= v)
        BY <2>3, <2>4, <4>1, <4>2
      <4>4. q = j \/ q < j
        BY <1>1, <3>2, <4>1
      <4>5. xItemValue[sorted[q]] <= xItemValue[sorted[j]]
        BY <1>1, <4>4 DEF Ascending
      <4>6. xItemValue[sorted[q]] \in Int /\ xItemValue[sorted[j]] \in Int /\ v \in Int
        BY <1>1
      <4> QED BY <3>2, <4>3, <4>5, <4>6
    <3> QED BY <3>1, <3>2
  <2> QED BY <2>1, <2>4, <2>5
<1> QED BY <1>2, <1>3

(* A task put in behind those of no higher value.                          *)
WithValue(values, x, v) == [values EXCEPT ![x] = v]

IsPlace(sorted, values, p, v) ==
  \A j \in 1 .. Len(sorted) : j < p <=> values[sorted[j]] <= v

LEMMA InsertAscending ==
  ASSUME NEW sorted \in Seq(KernelTasks), NEW old, AreValues(old),
         Ascending(sorted, old), NEW x \in KernelTasks, x \notin ToSet(sorted),
         NEW v \in 0 .. MaxValue, NEW new, new = WithValue(old, x, v),
         NEW p \in 1 .. Len(sorted) + 1, IsPlace(sorted, old, p, v)
  PROVE  /\ Ascending(InsertAt(sorted, p, x), new)
         /\ WithValues(InsertAt(sorted, p, x), new)
              = InsertAt(WithValues(sorted, old), p, [task |-> x, value |-> v])
<1>0. PICK u : u = InsertAt(sorted, p, x)
  OBVIOUS
<1>1. /\ Len(sorted) \in Nat /\ DOMAIN sorted = 1 .. Len(sorted) /\ MaxValue \in Nat /\ p \in Int
      /\ \A j \in 1 .. Len(sorted) : sorted[j] \in KernelTasks /\ sorted[j] # x
  BY KernelApart, ElementOfSeq, LenProperties DEF ToSet
<1>2. /\ new[x] = v
      /\ \A j \in 1 .. Len(sorted) : new[sorted[j]] = old[sorted[j]] /\ old[sorted[j]] \in 0 .. MaxValue
  BY <1>1 DEF AreValues, WithValue
<1>3. /\ u \in Seq(KernelTasks) /\ Len(u) = Len(sorted) + 1
      /\ \A k \in 1 .. Len(sorted) + 1 :
           u[k] = IF k < p THEN sorted[k] ELSE IF k = p THEN x ELSE sorted[k - 1]
  <2>1. /\ InsertAt(sorted, p, x) \in Seq(KernelTasks)
        /\ Len(InsertAt(sorted, p, x)) = Len(sorted) + 1
        /\ \A k \in 1 .. Len(sorted) + 1 :
             InsertAt(sorted, p, x)[k] = IF k < p THEN sorted[k] ELSE IF k = p THEN x ELSE sorted[k - 1]
    BY InsertAtFacts
  <2> QED BY <1>0, <2>1
<1>4. \A k \in 1 .. Len(sorted) + 1 : /\ k < p => k \in 1 .. Len(sorted)
                                      /\ k > p => k - 1 \in 1 .. Len(sorted) /\ ~(k - 1 < p)
  BY <1>1
<1>5. Ascending(u, new)
  <2> SUFFICES ASSUME NEW a \in 1 .. Len(sorted) + 1, NEW b \in 1 .. Len(sorted) + 1, a < b
               PROVE  new[u[a]] <= new[u[b]]
    BY <1>3 DEF Ascending
  <2>1. CASE b < p
    <3>1. a < p /\ a \in 1 .. Len(sorted) /\ b \in 1 .. Len(sorted)
      BY <1>1, <2>1
    <3>2. u[a] = sorted[a] /\ u[b] = sorted[b]
      BY <1>3, <2>1, <3>1
    <3>3. old[sorted[a]] <= old[sorted[b]]
      BY <3>1 DEF Ascending
    <3>4. new[u[a]] = old[sorted[a]] /\ new[u[b]] = old[sorted[b]]
      BY <1>2, <3>1, <3>2
    <3> QED BY ONLY <3>3, <3>4
  <2>2. CASE b = p
    <3>1. u[b] = x /\ u[a] = sorted[a] /\ a \in 1 .. Len(sorted) /\ a < p
      BY <1>1, <1>3, <1>4, <2>2
    <3> QED BY <1>2, <3>1 DEF IsPlace
  <2>3. CASE b > p
    <3>1. u[b] = sorted[b - 1] /\ b - 1 \in 1 .. Len(sorted) /\ ~(b - 1 < p)
      BY <1>1, <1>3, <1>4, <2>3
    <3>2. PICK c \in 1 .. Len(sorted) : c = b - 1
      BY <3>1
    <3>3. new[u[b]] = old[sorted[c]] /\ ~(old[sorted[c]] <= v) /\ old[sorted[c]] \in 0 .. MaxValue
      BY <1>2, <3>1, <3>2 DEF IsPlace
    <3>4. CASE a < p
      <4>1. u[a] = sorted[a] /\ a \in 1 .. Len(sorted) /\ a < c
        BY <1>1, <1>3, <1>4, <2>3, <3>2, <3>4
      <4> QED BY <1>2, <3>3, <4>1 DEF Ascending
    <3>5. CASE a = p
      <4>1. u[a] = x
        BY <1>1, <1>3, <3>5
      <4> QED BY <1>1, <1>2, <3>3, <4>1
    <3>6. CASE a > p
      <4>1. PICK d \in 1 .. Len(sorted) : d = a - 1
        BY <1>4, <3>6
      <4>2. u[a] = sorted[d] /\ d < c
        BY <1>1, <1>3, <3>2, <3>6, <4>1
      <4> QED BY <1>2, <3>3, <4>2 DEF Ascending
    <3> QED BY <1>1, <3>4, <3>5, <3>6
  <2> QED BY <1>1, <2>1, <2>2, <2>3
<1>6. WithValues(u, new) = InsertAt(WithValues(sorted, old), p, [task |-> x, value |-> v])
  <2>1. PICK s : s = WithValues(sorted, old)
    OBVIOUS
  <2>2. PICK w : w = WithValues(u, new)
    OBVIOUS
  <2>3. PICK e : e = [task |-> x, value |-> v]
    OBVIOUS
  <2>4. PICK y : y = InsertAt(s, p, e)
    OBVIOUS
  <2>5. /\ s \in Seq(Inputs) /\ Len(s) = Len(sorted) /\ e \in Inputs
        /\ \A k \in 1 .. Len(sorted) : s[k] = [task |-> sorted[k], value |-> old[sorted[k]]]
    <3>1. /\ DOMAIN s = 1 .. Len(sorted)
          /\ \A k \in 1 .. Len(sorted) : s[k] = [task |-> sorted[k], value |-> old[sorted[k]]]
                                         /\ s[k] \in Inputs
      BY <1>1, <1>2, <2>1 DEF WithValues, Inputs
    <3>2. s = [k \in 1 .. Len(sorted) |-> s[k]]
      BY <2>1, <3>1 DEF WithValues
    <3>3. s \in Seq(Inputs)
      BY <1>1, <3>1, <3>2, IsASeq
    <3> QED BY <1>1, <2>3, <3>1, <3>3, LenProperties DEF Inputs
  <2>6. /\ DOMAIN w = 1 .. Len(sorted) + 1
        /\ w = [k \in 1 .. Len(sorted) + 1 |-> w[k]]
        /\ \A k \in 1 .. Len(sorted) + 1 : w[k] = [task |-> u[k], value |-> new[u[k]]]
    BY <1>3, <2>2 DEF WithValues
  <2>7. /\ y \in Seq(Inputs) /\ Len(y) = Len(sorted) + 1
        /\ \A k \in 1 .. Len(sorted) + 1 : y[k] = IF k < p THEN s[k] ELSE IF k = p THEN e ELSE s[k - 1]
    <3>1. p \in 1 .. Len(s) + 1
      BY <2>5
    <3>2. /\ InsertAt(s, p, e) \in Seq(Inputs) /\ Len(InsertAt(s, p, e)) = Len(s) + 1
          /\ \A k \in 1 .. Len(s) + 1 :
               InsertAt(s, p, e)[k] = IF k < p THEN s[k] ELSE IF k = p THEN e ELSE s[k - 1]
      BY <2>5, <3>1, InsertAtFacts
    <3>3. PICK n : n = Len(s)
      OBVIOUS
    <3> QED BY <2>4, <2>5, <3>2, <3>3
  <2>8. ASSUME NEW k \in 1 .. Len(sorted) + 1 PROVE y[k] = w[k]
    <3>1. CASE k < p
      <4>1. k \in 1 .. Len(sorted) /\ u[k] = sorted[k] /\ y[k] = s[k]
        BY <1>3, <1>4, <2>7, <3>1
      <4> QED BY <1>2, <2>5, <2>6, <4>1
    <3>2. CASE k = p
      <4>1. ~(k < p)
        BY <1>1, <3>2
      <4>2. u[k] = x /\ y[k] = e
        BY <1>3, <2>7, <3>2, <4>1
      <4> QED BY <1>2, <2>3, <2>6, <4>2
    <3>3. CASE k > p
      <4>1. ~(k < p) /\ k # p /\ k - 1 \in 1 .. Len(sorted)
        BY <1>1, <1>4, <3>3
      <4>2. PICK d \in 1 .. Len(sorted) : d = k - 1
        BY <4>1
      <4>3. u[k] = sorted[d] /\ y[k] = s[d]
        BY <1>3, <2>7, <4>1, <4>2
      <4> QED BY <1>2, <2>5, <2>6, <4>3
    <3> QED BY <1>1, <3>1, <3>2, <3>3
  <2>9. y = [k \in 1 .. Len(sorted) + 1 |-> y[k]]
    BY <2>7, LenProperties
  <2>10. y = w
    BY <2>6, <2>8, <2>9
  <2> QED BY <2>1, <2>2, <2>3, <2>4, <2>10
<1> QED BY <1>0, <1>5, <1>6

(* The tasks of the sorted list with their values.                         *)
Shows(s, sorted, values) ==
  /\ s \in Seq(Inputs) /\ Len(s) = Len(sorted) /\ Len(sorted) \in Nat
  /\ DOMAIN s = 1 .. Len(sorted) /\ DOMAIN sorted = 1 .. Len(sorted)
  /\ \A k \in 1 .. Len(sorted) :
       /\ s[k] = [task |-> sorted[k], value |-> values[sorted[k]]]
       /\ s[k].task = sorted[k] /\ s[k].value = values[sorted[k]]
       /\ sorted[k] \in KernelTasks

LEMMA WithValuesFacts ==
  ASSUME NEW sorted \in Seq(KernelTasks), NEW values, AreValues(values)
  PROVE  Shows(WithValues(sorted, values), sorted, values)
<1>0. PICK s : s = WithValues(sorted, values)
  OBVIOUS
<1>1. /\ Len(sorted) \in Nat /\ DOMAIN sorted = 1 .. Len(sorted) /\ MaxValue \in Nat
      /\ \A k \in 1 .. Len(sorted) : sorted[k] \in KernelTasks /\ values[sorted[k]] \in 0 .. MaxValue
  BY KernelApart, ElementOfSeq, LenProperties DEF AreValues
<1>2. /\ DOMAIN s = 1 .. Len(sorted)
      /\ \A k \in 1 .. Len(sorted) : /\ s[k] = [task |-> sorted[k], value |-> values[sorted[k]]]
                                     /\ s[k].task = sorted[k] /\ s[k].value = values[sorted[k]]
                                     /\ s[k] \in Inputs
  BY <1>0, <1>1 DEF WithValues, Inputs
<1>3. s = [k \in 1 .. Len(sorted) |-> s[k]]
  BY <1>0, <1>2 DEF WithValues
<1>4. s \in Seq(Inputs)
  <2>1. PICK n \in Nat : n = Len(sorted)
    BY <1>1
  <2>2. PICK w : w = s
    OBVIOUS
  <2>3. w = [k \in 1 .. n |-> w[k]] /\ \A k \in 1 .. n : w[k] \in Inputs
    BY <1>2, <1>3, <2>1, <2>2
  <2>4. w \in Seq(Inputs)
    BY ONLY <2>1, <2>3, IsASeq
  <2> QED BY <2>2, <2>4
<1> QED BY <1>0, <1>1, <1>2, <1>4, LenProperties DEF Shows

(* Taking one out.                                                         *)
TaskTakenOut(s, t) == RemoveFirstMatch(s, LAMBDA e : e.task = t)

LEMMA TakenOutIs ==
  ASSUME NEW sorted \in Seq(KernelTasks), IsInjective(sorted),
         NEW values, AreValues(values), NEW x
  PROVE  /\ \A q \in 1 .. Len(sorted) : sorted[q] = x =>
              TaskTakenOut(WithValues(sorted, values), x) = WithValues(RemoveAt(sorted, q), values)
         /\ x \notin ToSet(sorted) =>
              TaskTakenOut(WithValues(sorted, values), x) = WithValues(sorted, values)
<1>1. PICK s : s = WithValues(sorted, values)
  OBVIOUS
<1>2. /\ s \in Seq(Inputs) /\ Len(s) = Len(sorted) /\ Len(sorted) \in Nat
      /\ DOMAIN s = 1 .. Len(sorted) /\ DOMAIN sorted = 1 .. Len(sorted)
      /\ \A k \in 1 .. Len(sorted) :
           /\ s[k] = [task |-> sorted[k], value |-> values[sorted[k]]]
           /\ s[k].task = sorted[k]
  BY <1>1, WithValuesFacts DEF Shows
<1>3. ASSUME NEW q \in 1 .. Len(sorted), sorted[q] = x
      PROVE  TaskTakenOut(s, x) = WithValues(RemoveAt(sorted, q), values)
  <2> DEFINE I == {i \in 1 .. Len(s) : s[i].task = x}
  <2>1. I = {q}
    BY <1>2, <1>3 DEF IsInjective
  <2>2. I \in SUBSET Nat /\ I # {}
    BY <1>2, <2>1
  <2> HIDE DEF I
  <2>3. Min(I) = q
    BY <2>1, <2>2, Smallest
  <2> USE DEF I
  <2>4. SelectInSeq(s, LAMBDA e : e.task = x) = q
    BY <2>2, <2>3 DEF SelectInSeq
  <2>5. TaskTakenOut(s, x) = RemoveAt(s, q)
    BY <1>2, <1>3, <2>4 DEF TaskTakenOut, RemoveFirstMatch
  <2> HIDE DEF I
  <2>6. PICK u : u = RemoveAt(sorted, q)
    OBVIOUS
  <2>7. u \in Seq(KernelTasks) /\ Len(u) = Len(sorted) - 1
        /\ \A k \in 1 .. Len(sorted) - 1 : u[k] = sorted[Past(q, k)]
    BY <2>6, PastIs
  <2>8. PICK w : w = RemoveAt(s, q)
    OBVIOUS
  <2>9. w \in Seq(Inputs) /\ Len(w) = Len(sorted) - 1
        /\ \A k \in 1 .. Len(sorted) - 1 : w[k] = s[Past(q, k)]
    <3>1. q \in 1 .. Len(s)
      BY <1>2
    <3>2. RemoveAt(s, q) \in Seq(Inputs) /\ Len(RemoveAt(s, q)) = Len(s) - 1
          /\ \A k \in 1 .. Len(s) - 1 : RemoveAt(s, q)[k] = s[Past(q, k)]
      <4>1. s \in Seq(Inputs)
        BY <1>2
      <4> QED BY ONLY <3>1, <4>1, PastIs
    <3>3. PICK n : n = Len(s)
      OBVIOUS
    <3> QED BY <1>2, <2>8, <3>2, <3>3
  <2>10. \A k \in 1 .. Len(sorted) - 1 : Past(q, k) \in 1 .. Len(sorted)
    BY <1>2 DEF Past
  <2>11. \A k \in 1 .. Len(sorted) - 1 : w[k] = [task |-> u[k], value |-> values[u[k]]]
    BY <1>2, <2>7, <2>9, <2>10
  <2>12. w = [k \in 1 .. Len(sorted) - 1 |-> w[k]]
    BY <2>9, LenProperties
  <2>13. WithValues(u, values) = [k \in 1 .. Len(sorted) - 1 |-> [task |-> u[k], value |-> values[u[k]]]]
    BY <2>7 DEF WithValues
  <2>14. w = WithValues(u, values)
    BY <2>11, <2>12, <2>13
  <2> QED BY <2>5, <2>6, <2>8, <2>14
<1>4. ASSUME x \notin ToSet(sorted) PROVE TaskTakenOut(s, x) = s
  BY <1>2, <1>4 DEF TaskTakenOut, RemoveFirstMatch, ToSet
<1> QED BY <1>1, <1>3, <1>4

(* What stays is in the same order.                                        *)
LEMMA RemoveAscending ==
  ASSUME NEW sorted \in Seq(KernelTasks), NEW values, Ascending(sorted, values),
         NEW p \in 1 .. Len(sorted)
  PROVE  Ascending(RemoveAt(sorted, p), values)
<1>1. PICK u : u = RemoveAt(sorted, p)
  OBVIOUS
<1>2. u \in Seq(KernelTasks) /\ Len(u) = Len(sorted) - 1 /\ Len(sorted) \in Nat
      /\ \A k \in 1 .. Len(sorted) - 1 : u[k] = sorted[Past(p, k)]
  BY <1>1, PastIs, LenProperties
<1>3. \A a, b \in 1 .. Len(sorted) - 1 :
        a < b => Past(p, a) \in 1 .. Len(sorted) /\ Past(p, b) \in 1 .. Len(sorted) /\ Past(p, a) < Past(p, b)
  BY <1>2 DEF Past
<1>4. Ascending(u, values)
  BY <1>2, <1>3 DEF Ascending
<1> QED BY <1>1, <1>4

-----------------------------------------------------------------------------
(* The invariant of the two lists. *)

TasksHeld(r, values, ready, sorted, i) ==
  /\ ready \in Seq(KernelTasks) /\ sorted \in Seq(KernelTasks) /\ i \in 0 .. Len(ready)
  /\ AreValues(values)
  /\ TwoRings(r, ready, sorted, i)
  /\ Ascending(sorted, values)

KernelInv == \E ready, sorted, i : TasksHeld(links, xItemValue, ready, sorted, i)

AsideIs(r, values) ==
  [k \in 1 .. r.uxNumberOfItems[SortedList] |->
     LET t == ItemsFrom(r, SortedList, SortedList)[k]
     IN  [task |-> t, value |-> values[t]]]

LEMMA WalkedLists ==
  ASSUME NEW r, NEW values, NEW ready, NEW sorted, NEW i, TasksHeld(r, values, ready, sorted, i)
  PROVE  TurnsOf(r) = Turned(ready, i) /\ AsideIs(r, values) = WithValues(sorted, values)
<1>1. /\ ready \in Seq(KernelTasks) /\ sorted \in Seq(KernelTasks) /\ i \in 0 .. Len(ready)
      /\ IsMemory(r, KernelMarkers)
      /\ Holds(r, ReadyList, ready) /\ Holds(r, SortedList, sorted)
      /\ r.pxIndex[ReadyList] = Node(ReadyList, ready, i)
  BY DEF TasksHeld, TwoRings
<1>2. TurnsOf(r) = Turned(ready, i)
  <2>1. ItemsFrom(r, ReadyList, Node(ReadyList, ready, i)) = Turned(ready, i)
    BY <1>1, KernelApart, ItemsFromRing
  <2> QED BY <1>1, <2>1 DEF TurnsOf
<1>3. Len(sorted) \in Nat /\ 0 \in 0 .. Len(sorted) /\ Node(SortedList, sorted, 0) = SortedList
      /\ r.uxNumberOfItems[SortedList] = Len(sorted)
  BY <1>1, LenProperties DEF Node, Holds
<1>4. Turned(sorted, 0) = sorted
  <2>1. PICK t : t = Turned(sorted, 0)
    OBVIOUS
  <2>2. /\ t \in Seq(KernelTasks) /\ Len(t) = Len(sorted)
        /\ \A k \in 1 .. Len(sorted) : t[k] = sorted[Around(0, k, Len(sorted))]
    BY <1>1, <1>3, <2>1, AroundIs
  <2>3. \A k \in 1 .. Len(sorted) : Around(0, k, Len(sorted)) = k
    BY <1>3 DEF Around
  <2>4. t = sorted
    BY <1>1, <2>2, <2>3, SameSeq
  <2> QED BY <2>1, <2>4
<1>5. ItemsFrom(r, SortedList, SortedList) = sorted
  <2>1. ItemsFrom(r, SortedList, Node(SortedList, sorted, 0)) = Turned(sorted, 0)
    BY <1>1, <1>3, KernelApart, ItemsFromRing
  <2> QED BY <1>3, <1>4, <2>1
<1>6. AsideIs(r, values) = WithValues(sorted, values)
  BY <1>3, <1>5 DEF AsideIs, WithValues
<1> QED BY <1>2, <1>6

(* Which tasks are in which list.                                          *)
LEMMA TasksIn ==
  ASSUME NEW r, NEW ready \in Seq(KernelTasks), NEW sorted \in Seq(KernelTasks), NEW i,
         TwoRings(r, ready, sorted, i), NEW x
  PROVE  /\ IsInjective(ready) /\ IsInjective(sorted) /\ ToSet(ready) \cap ToSet(sorted) = {}
         /\ x \in DOMAIN r.pvContainer /\ r.pvContainer[x] = ReadyList
              <=> \E p \in 1 .. Len(ready) : ready[p] = x
         /\ x \in DOMAIN r.pvContainer /\ r.pvContainer[x] = SortedList
              <=> \E p \in 1 .. Len(sorted) : sorted[p] = x
         /\ x \in DOMAIN r.pvContainer <=> x \in ToSet(ready) \cup ToSet(sorted)
         /\ x \in ToSet(ready) <=> \E p \in 1 .. Len(ready) : ready[p] = x
         /\ x \in ToSet(sorted) <=> \E p \in 1 .. Len(sorted) : sorted[p] = x
<1>1. /\ IsInjective(ready) /\ IsInjective(sorted)
      /\ ItemsOf(r, ReadyList) = ToSet(ready) /\ ItemsOf(r, SortedList) = ToSet(sorted)
      /\ DOMAIN r.pvContainer = ToSet(ready) \cup ToSet(sorted)
  BY DEF TwoRings, Holds
<1>2. ToSet(ready) \cap ToSet(sorted) = {}
  BY <1>1, KernelApart DEF ItemsOf
<1>3. DOMAIN ready = 1 .. Len(ready) /\ DOMAIN sorted = 1 .. Len(sorted)
  BY LenProperties
<1>4. /\ x \in ToSet(ready) <=> \E p \in 1 .. Len(ready) : ready[p] = x
      /\ x \in ToSet(sorted) <=> \E p \in 1 .. Len(sorted) : sorted[p] = x
  BY <1>3 DEF ToSet
<1> QED BY <1>1, <1>2, <1>4 DEF ItemsOf

(* The operators of the abstract specification are those of the lists.     *)
LEMMA SchedulingOperators ==
  ASSUME NEW s, NEW x, NEW k
  PROVE  /\ Scheduling!ToSet(s) = ToSet(s)
         /\ Scheduling!RemoveFirst(s, x) = RemoveFirst(s, x)
         /\ Scheduling!InsertAt(s, k, x) = InsertAt(s, k, x)
<1>1. Scheduling!ToSet(s) = ToSet(s) /\ Scheduling!InsertAt(s, k, x) = InsertAt(s, k, x)
  BY DEF Scheduling!ToSet, ToSet, Scheduling!InsertAt, InsertAt
<1>2. Scheduling!RemoveFirst(s, x) = RemoveFirst(s, x)
  BY DEF Scheduling!RemoveFirst, Scheduling!RemoveAt, Scheduling!SelectInSeq, Scheduling!Min,
         RemoveFirst, RemoveAt, SelectInSeq, Min
<1> QED BY <1>1, <1>2

LEMMA SchedulingTakesOut ==
  ASSUME NEW x
  PROVE  Scheduling!AsideWithout(x) = TaskTakenOut(AsideOf(links), x)
BY DEF Scheduling!AsideWithout, Scheduling!RemoveFirstMatch, Scheduling!RemoveAt,
       Scheduling!SelectInSeq, Scheduling!Min,
       TaskTakenOut, RemoveFirstMatch, RemoveAt, SelectInSeq, Min

(* The abstract state before and after a step.                             *)
LEMMA KernelView ==
  ASSUME NEW ready, NEW sorted, NEW i, TasksHeld(links, xItemValue, ready, sorted, i),
         NEW ready2, NEW sorted2, NEW i2, TasksHeld(links', xItemValue', ready2, sorted2, i2)
  PROVE  /\ TurnsOf(links) = Turned(ready, i) /\ TurnsOf(links)' = Turned(ready2, i2)
         /\ AsideOf(links) = WithValues(sorted, xItemValue)
         /\ AsideOf(links)' = WithValues(sorted2, xItemValue')
<1>1. TurnsOf(links) = Turned(ready, i) /\ AsideIs(links, xItemValue) = WithValues(sorted, xItemValue)
  BY WalkedLists
<1>2. TurnsOf(links') = Turned(ready2, i2) /\ AsideIs(links', xItemValue') = WithValues(sorted2, xItemValue')
  BY WalkedLists
<1>3. AsideOf(links) = AsideIs(links, xItemValue) /\ AsideOf(links)' = AsideIs(links', xItemValue')
  BY DEF AsideOf, AsideIs
<1>4. TurnsOf(links)' = TurnsOf(links')
  BY DEF TurnsOf
<1> QED BY <1>1, <1>2, <1>3, <1>4

(* The tasks of the abstract state are those of the lists.                 *)
LEMMA AbstractTasks ==
  ASSUME NEW ready, NEW sorted, NEW i, NEW values, NEW r, TasksHeld(r, values, ready, sorted, i), NEW x
  PROVE  /\ x \in ToSet(Turned(ready, i)) <=> x \in ToSet(ready)
         /\ (\E k \in DOMAIN WithValues(sorted, values) : WithValues(sorted, values)[k].task = x)
              <=> x \in ToSet(sorted)
<1>1. /\ ready \in Seq(KernelTasks) /\ sorted \in Seq(KernelTasks) /\ i \in 0 .. Len(ready)
      /\ AreValues(values)
  BY DEF TasksHeld
<1>2. PICK s : s = WithValues(sorted, values)
  OBVIOUS
<1>3. DOMAIN s = 1 .. Len(sorted) /\ \A k \in 1 .. Len(sorted) : s[k].task = sorted[k]
  BY <1>1, <1>2, WithValuesFacts DEF Shows
<1>4. DOMAIN sorted = 1 .. Len(sorted)
  BY <1>1, LenProperties
<1>5. (\E k \in DOMAIN s : s[k].task = x) <=> x \in ToSet(sorted)
  BY <1>3, <1>4 DEF ToSet
<1>6. ToSet(Turned(ready, i)) = ToSet(ready)
  BY <1>1, TurnedSet
<1> QED BY <1>2, <1>5, <1>6

(* prvAddTaskToReadyQueue: the new task has the last turn.                 *)
LEMMA AddToReadyStep ==
  ASSUME KernelInv, NEW x \in KernelTasks, AddToReady(x)
  PROVE  KernelInv' /\ Scheduling!AddTurn(x)
<1>1. PICK ready, sorted, i : TasksHeld(links, xItemValue, ready, sorted, i)
  BY DEF KernelInv
<1>2. /\ ready \in Seq(KernelTasks) /\ sorted \in Seq(KernelTasks) /\ i \in 0 .. Len(ready)
      /\ AreValues(xItemValue)
      /\ TwoRings(links, ready, sorted, i) /\ Ascending(sorted, xItemValue)
  BY <1>1 DEF TasksHeld
<1>3. /\ x \notin DOMAIN links.pvContainer /\ links' = ListInsertEnd(links, ReadyList, x)
      /\ xItemValue' = xItemValue
  BY DEF AddToReady
<1>4. PICK p \in 1 .. Len(ready) + 1 : p = i + 1
  BY <1>2, LenProperties
<1>5. PICK u : u = InsertAt(ready, p, x)
  OBVIOUS
<1>6. TwoRings(links', u, sorted, p)
  <2>1. TwoRings(links', InsertAt(ready, i + 1, x), sorted, i + 1)
    BY <1>2, <1>3, AddReady
  <2> QED BY <1>4, <1>5, <2>1
<1>7. u \in Seq(KernelTasks) /\ p \in 0 .. Len(u)
  <2>1. InsertAt(ready, p, x) \in Seq(KernelTasks) /\ Len(InsertAt(ready, p, x)) = Len(ready) + 1
    BY <1>2, InsertAtFacts
  <2> QED BY <1>2, <1>5, <2>1, LenProperties
<1>8. TasksHeld(links', xItemValue', u, sorted, p)
  BY <1>2, <1>3, <1>6, <1>7 DEF TasksHeld
<1>9. KernelInv'
  BY <1>8 DEF KernelInv
<1>10. /\ TurnsOf(links) = Turned(ready, i) /\ TurnsOf(links)' = Turned(u, p)
       /\ AsideOf(links) = WithValues(sorted, xItemValue)
       /\ AsideOf(links)' = WithValues(sorted, xItemValue')
  BY <1>1, <1>8, KernelView
<1>11. Turned(u, p) = Append(Turned(ready, i), x)
  <2>1. Turned(InsertAt(ready, i + 1, x), i + 1) = Append(Turned(ready, i), x)
    BY <1>2, TurnedInsert
  <2> QED BY <1>4, <1>5, <2>1
<1>12. /\ x \notin ToSet(TurnsOf(links))
       /\ ~\E k \in DOMAIN AsideOf(links) : AsideOf(links)[k].task = x
  <2>1. x \notin ToSet(ready) /\ x \notin ToSet(sorted)
    BY <1>2, <1>3, TasksIn
  <2> QED BY <1>1, <1>10, <2>1, AbstractTasks
<1>13. Scheduling!AddTurn(x)
  BY <1>3, <1>10, <1>11, <1>12, SchedulingOperators DEF Scheduling!AddTurn, Scheduling!Ready, Scheduling!Aside
<1> QED BY <1>9, <1>13

(* vTaskSwitchContext: the first turn is taken and is the last then.       *)
LEMMA SwitchTurnStep ==
  ASSUME KernelInv, SwitchTurn
  PROVE  KernelInv' /\ Scheduling!TakeTurn
<1>1. PICK ready, sorted, i : TasksHeld(links, xItemValue, ready, sorted, i)
  BY DEF KernelInv
<1>2. /\ ready \in Seq(KernelTasks) /\ sorted \in Seq(KernelTasks) /\ i \in 0 .. Len(ready)
      /\ AreValues(xItemValue)
      /\ TwoRings(links, ready, sorted, i) /\ Ascending(sorted, xItemValue)
      /\ links.uxNumberOfItems[ReadyList] = Len(ready)
  BY <1>1 DEF TasksHeld, TwoRings, Holds
<1>3. Len(ready) # 0 /\ links' = NextEntry(links, ReadyList) /\ xItemValue' = xItemValue
  BY <1>2 DEF SwitchTurn
<1>4. PICK j \in 0 .. Len(ready) : j = IF i < Len(ready) THEN i + 1 ELSE 1
  BY <1>2, <1>3, LenProperties
<1>5. TwoRings(links', ready, sorted, j)
  BY <1>2, <1>3, <1>4, MoveIndex
<1>6. TasksHeld(links', xItemValue', ready, sorted, j)
  BY <1>2, <1>3, <1>5 DEF TasksHeld
<1>7. KernelInv'
  BY <1>6 DEF KernelInv
<1>8. /\ TurnsOf(links) = Turned(ready, i) /\ TurnsOf(links)' = Turned(ready, j)
      /\ AsideOf(links) = WithValues(sorted, xItemValue)
      /\ AsideOf(links)' = WithValues(sorted, xItemValue')
  BY <1>1, <1>6, KernelView
<1>9. /\ Turned(ready, i) # <<>>
      /\ Turned(ready, j) = Append(Tail(Turned(ready, i)), Head(Turned(ready, i)))
  BY <1>2, <1>3, <1>4, TurnedNext
<1>10. Scheduling!TakeTurn
  BY <1>3, <1>8, <1>9 DEF Scheduling!TakeTurn
<1> QED BY <1>7, <1>10

(* What vListRemove of a ready task leaves.                                *)
LEMMA ReadyTaskTaken ==
  ASSUME NEW ready, NEW sorted, NEW i, TasksHeld(links, xItemValue, ready, sorted, i),
         NEW x \in ToSet(ready)
  PROVE  \E u, j : /\ TasksHeld(ListRemove(links, x), xItemValue, u, sorted, j)
                   /\ x \notin DOMAIN ListRemove(links, x).pvContainer
                   /\ Turned(u, j) = RemoveFirst(Turned(ready, i), x)
<1>1. /\ ready \in Seq(KernelTasks) /\ sorted \in Seq(KernelTasks) /\ i \in 0 .. Len(ready)
      /\ AreValues(xItemValue)
      /\ TwoRings(links, ready, sorted, i) /\ Ascending(sorted, xItemValue)
      /\ Len(ready) \in Nat
  BY LenProperties DEF TasksHeld
<1>2. PICK p \in 1 .. Len(ready) : ready[p] = x
  BY <1>1, TasksIn
<1>3. PICK j : j = IndexAfter(i, p)
  OBVIOUS
<1>4. j \in 0 .. Len(ready) - 1
  BY <1>1, <1>3 DEF IndexAfter
<1>5. PICK t : t = ListRemove(links, x)
  OBVIOUS
<1>6. PICK u : u = RemoveAt(ready, p)
  OBVIOUS
<1>7. TwoRings(t, u, sorted, j) /\ x \notin DOMAIN t.pvContainer
  <2>1. t = ListRemove(links, ready[p])
    BY <1>2, <1>5
  <2>2. TwoRings(t, RemoveAt(ready, p), sorted, IndexAfter(i, p)) /\ ready[p] \notin DOMAIN t.pvContainer
    BY <1>1, <2>1, TakeReady
  <2> QED BY <1>2, <1>3, <1>6, <2>2
<1>8. u \in Seq(KernelTasks) /\ Len(u) = Len(ready) - 1
  BY <1>1, <1>6, PastIs
<1>9. TasksHeld(t, xItemValue, u, sorted, j)
  BY <1>1, <1>4, <1>7, <1>8 DEF TasksHeld
<1>10. Turned(u, j) = RemoveFirst(Turned(ready, i), x)
  <2>1. PICK s : s = Turned(ready, i)
    OBVIOUS
  <2>2. s \in Seq(KernelTasks) /\ Len(s) = Len(ready) /\ IsInjective(s)
    <3>1. IsInjective(ready)
      BY <1>1, TasksIn
    <3> QED BY <1>1, <2>1, <3>1, TurnedSet, AroundIs
  <2>3. PICK q \in 1 .. Len(ready) : /\ Turned(ready, i)[q] = ready[p]
                                     /\ Turned(RemoveAt(ready, p), j) = RemoveAt(Turned(ready, i), q)
    BY <1>1, <1>3, TurnedRemove
  <2>4. q \in 1 .. Len(s) /\ s[q] = x /\ Turned(u, j) = RemoveAt(s, q)
    BY <1>2, <1>6, <2>1, <2>2, <2>3
  <2>5. RemoveFirst(s, x) = RemoveAt(s, q)
    BY <2>2, <2>4, RemoveFirstIs
  <2> QED BY <2>1, <2>4, <2>5
<1> QED BY <1>5, <1>7, <1>9, <1>10

(* And of a task of the sorted list.                                       *)
LEMMA SortedTaskTaken ==
  ASSUME NEW ready, NEW sorted, NEW i, TasksHeld(links, xItemValue, ready, sorted, i),
         NEW x \in ToSet(sorted)
  PROVE  \E u : /\ TasksHeld(ListRemove(links, x), xItemValue, ready, u, i)
                /\ x \notin DOMAIN ListRemove(links, x).pvContainer
                /\ WithValues(u, xItemValue) = TaskTakenOut(WithValues(sorted, xItemValue), x)
<1>1. /\ ready \in Seq(KernelTasks) /\ sorted \in Seq(KernelTasks) /\ i \in 0 .. Len(ready)
      /\ AreValues(xItemValue)
      /\ TwoRings(links, ready, sorted, i) /\ Ascending(sorted, xItemValue)
  BY DEF TasksHeld
<1>2. PICK p \in 1 .. Len(sorted) : sorted[p] = x
  BY <1>1, TasksIn
<1>3. PICK t : t = ListRemove(links, x)
  OBVIOUS
<1>4. PICK u : u = RemoveAt(sorted, p)
  OBVIOUS
<1>5. TwoRings(t, ready, u, i) /\ x \notin DOMAIN t.pvContainer
  <2>1. t = ListRemove(links, sorted[p])
    BY <1>2, <1>3
  <2>2. TwoRings(t, ready, RemoveAt(sorted, p), i) /\ sorted[p] \notin DOMAIN t.pvContainer
    BY <1>1, <2>1, TakeSorted
  <2> QED BY <1>2, <1>4, <2>2
<1>6. u \in Seq(KernelTasks) /\ Ascending(u, xItemValue)
  BY <1>1, <1>4, PastIs, RemoveAscending
<1>7. TasksHeld(t, xItemValue, ready, u, i)
  BY <1>1, <1>5, <1>6 DEF TasksHeld
<1>8. WithValues(u, xItemValue) = TaskTakenOut(WithValues(sorted, xItemValue), x)
  <2>1. IsInjective(sorted)
    BY <1>1, TasksIn
  <2> QED BY <1>1, <1>2, <1>4, <2>1, TakenOutIs
<1> QED BY <1>3, <1>5, <1>7, <1>8

(* prvAddCurrentTaskToDelayedList: behind those of no higher value.        *)
LEMMA AddToSortedStep ==
  ASSUME KernelInv, NEW x \in KernelTasks, NEW v \in Values, AddToSorted(x, v)
  PROVE  KernelInv' /\ Scheduling!PutAside(x, v)
<1>1. PICK ready, sorted, i : TasksHeld(links, xItemValue, ready, sorted, i)
  BY DEF KernelInv
<1>2. /\ ready \in Seq(KernelTasks) /\ sorted \in Seq(KernelTasks) /\ i \in 0 .. Len(ready)
      /\ AreValues(xItemValue)
      /\ TwoRings(links, ready, sorted, i) /\ v \in 0 .. MaxValue
  BY <1>1, KernelApart DEF TasksHeld
<1>3. /\ x \in DOMAIN links.pvContainer /\ links.pvContainer[x] = ReadyList
      /\ links' = ListInsert(ListRemove(links, x), x, v)
      /\ xItemValue' = [xItemValue EXCEPT ![x] = v]
  BY DEF AddToSorted, In
<1>4. x \in ToSet(ready) /\ x \notin ToSet(sorted)
  BY <1>2, <1>3, TasksIn
<1>5. PICK t : t = ListRemove(links, x)
  OBVIOUS
<1>6. PICK u, j : /\ TasksHeld(t, xItemValue, u, sorted, j)
                  /\ x \notin DOMAIN t.pvContainer
                  /\ Turned(u, j) = RemoveFirst(Turned(ready, i), x)
  BY <1>1, <1>4, <1>5, ReadyTaskTaken
<1>7. /\ u \in Seq(KernelTasks) /\ j \in 0 .. Len(u)
      /\ TwoRings(t, u, sorted, j) /\ Ascending(sorted, xItemValue)
  BY <1>6 DEF TasksHeld
<1>8. PICK p \in 0 .. Len(sorted) :
        /\ ListInsert(t, x, v) = InsertAfter(t, SortedList, Node(SortedList, sorted, p), x)
        /\ \A k \in 1 .. Len(sorted) : k <= p <=> xItemValue[sorted[k]] <= v
  BY <1>2, <1>7, SortedPosition
<1>9. PICK q \in 1 .. Len(sorted) + 1 : q = p + 1
  BY <1>2, LenProperties
<1>10. PICK w : w = InsertAt(sorted, q, x)
  OBVIOUS
<1>11. TwoRings(links', u, w, j)
  <2>1. links' = InsertAfter(t, SortedList, Node(SortedList, sorted, p), x)
    BY <1>3, <1>5, <1>8
  <2>2. TwoRings(links', u, InsertAt(sorted, p + 1, x), j)
    BY <1>2, <1>6, <1>7, <2>1, AddSorted
  <2> QED BY <1>9, <1>10, <2>2
<1>12. IsPlace(sorted, xItemValue, q, v)
  BY <1>2, <1>8, <1>9, LenProperties DEF IsPlace
<1>13. /\ Ascending(w, xItemValue')
       /\ WithValues(w, xItemValue')
            = InsertAt(WithValues(sorted, xItemValue), q, [task |-> x, value |-> v])
  <2>1. /\ Ascending(InsertAt(sorted, q, x), xItemValue')
        /\ WithValues(InsertAt(sorted, q, x), xItemValue')
            = InsertAt(WithValues(sorted, xItemValue), q, [task |-> x, value |-> v])
    <3>1. xItemValue' = WithValue(xItemValue, x, v)
      BY <1>3 DEF WithValue
    <3> QED BY <1>2, <1>4, <1>7, <1>12, <3>1, InsertAscending
  <2> QED BY <1>10, <2>1
<1>14. w \in Seq(KernelTasks)
  <2>1. InsertAt(sorted, q, x) \in Seq(KernelTasks)
    BY <1>2, InsertAtFacts
  <2> QED BY <1>10, <2>1
<1>15. TasksHeld(links', xItemValue', u, w, j)
  BY <1>2, <1>3, <1>7, <1>11, <1>13, <1>14 DEF TasksHeld, AreValues
<1>16. KernelInv'
  BY <1>15 DEF KernelInv
<1>17. /\ TurnsOf(links) = Turned(ready, i) /\ TurnsOf(links)' = Turned(u, j)
       /\ AsideOf(links) = WithValues(sorted, xItemValue)
       /\ AsideOf(links)' = WithValues(w, xItemValue')
  BY <1>1, <1>15, KernelView
<1>18. x \in ToSet(TurnsOf(links))
  BY <1>1, <1>4, <1>17, AbstractTasks
<1>19. PICK s : s = AsideOf(links)
  OBVIOUS
<1>20. /\ Len(s) = Len(sorted) /\ DOMAIN s = 1 .. Len(sorted)
       /\ \A k \in 1 .. Len(sorted) : s[k].value = xItemValue[sorted[k]]
  <2>1. sorted \in Seq(KernelTasks) /\ AreValues(xItemValue)
    BY <1>2
  <2>2. Shows(WithValues(sorted, xItemValue), sorted, xItemValue)
    BY ONLY <2>1, WithValuesFacts
  <2> QED BY <1>17, <1>19, <2>2 DEF Shows
<1>21. /\ q \in 1 .. Len(s) + 1
       /\ \A k \in DOMAIN s : k < q <=> s[k].value <= v
       /\ AsideOf(links)' = InsertAt(s, q, [task |-> x, value |-> v])
  BY <1>12, <1>13, <1>17, <1>19, <1>20 DEF IsPlace
<1>22. Scheduling!PutAside(x, v)
  BY <1>6, <1>17, <1>18, <1>19, <1>21, SchedulingOperators DEF Scheduling!PutAside, Scheduling!Ready, Scheduling!Without
<1> QED BY <1>16, <1>22

(* prvCheckDelayedTasks: the task has the last turn.                       *)
LEMMA BackToReadyStep ==
  ASSUME KernelInv, NEW x \in KernelTasks, BackToReady(x)
  PROVE  KernelInv' /\ Scheduling!ComeBack(x)
<1>1. PICK ready, sorted, i : TasksHeld(links, xItemValue, ready, sorted, i)
  BY DEF KernelInv
<1>2. /\ ready \in Seq(KernelTasks) /\ sorted \in Seq(KernelTasks) /\ i \in 0 .. Len(ready)
      /\ AreValues(xItemValue)
      /\ TwoRings(links, ready, sorted, i)
  BY <1>1 DEF TasksHeld
<1>3. /\ x \in DOMAIN links.pvContainer /\ links.pvContainer[x] = SortedList
      /\ links' = ListInsertEnd(ListRemove(links, x), ReadyList, x)
      /\ xItemValue' = xItemValue
  BY DEF BackToReady, In
<1>4. x \in ToSet(sorted)
  BY <1>2, <1>3, TasksIn
<1>5. PICK t : t = ListRemove(links, x)
  OBVIOUS
<1>6. PICK w : /\ TasksHeld(t, xItemValue, ready, w, i)
               /\ x \notin DOMAIN t.pvContainer
               /\ WithValues(w, xItemValue) = TaskTakenOut(WithValues(sorted, xItemValue), x)
  BY <1>1, <1>4, <1>5, SortedTaskTaken
<1>7. w \in Seq(KernelTasks) /\ TwoRings(t, ready, w, i) /\ Ascending(w, xItemValue)
  BY <1>6 DEF TasksHeld
<1>8. PICK p \in 1 .. Len(ready) + 1 : p = i + 1
  BY <1>2, LenProperties
<1>9. PICK u : u = InsertAt(ready, p, x)
  OBVIOUS
<1>10. TwoRings(links', u, w, p)
  <2>1. links' = ListInsertEnd(t, ReadyList, x)
    BY <1>3, <1>5
  <2>2. TwoRings(links', InsertAt(ready, i + 1, x), w, i + 1)
    BY <1>2, <1>6, <1>7, <2>1, AddReady
  <2> QED BY <1>8, <1>9, <2>2
<1>11. u \in Seq(KernelTasks) /\ p \in 0 .. Len(u)
  <2>1. InsertAt(ready, p, x) \in Seq(KernelTasks) /\ Len(InsertAt(ready, p, x)) = Len(ready) + 1
    BY <1>2, InsertAtFacts
  <2> QED BY <1>2, <1>9, <2>1, LenProperties
<1>12. TasksHeld(links', xItemValue', u, w, p)
  BY <1>2, <1>3, <1>7, <1>10, <1>11 DEF TasksHeld
<1>13. KernelInv'
  BY <1>12 DEF KernelInv
<1>14. /\ TurnsOf(links) = Turned(ready, i) /\ TurnsOf(links)' = Turned(u, p)
       /\ AsideOf(links) = WithValues(sorted, xItemValue)
       /\ AsideOf(links)' = WithValues(w, xItemValue')
  BY <1>1, <1>12, KernelView
<1>15. Turned(u, p) = Append(Turned(ready, i), x)
  <2>1. Turned(InsertAt(ready, i + 1, x), i + 1) = Append(Turned(ready, i), x)
    BY <1>2, TurnedInsert
  <2> QED BY <1>8, <1>9, <2>1
<1>16. \E k \in DOMAIN AsideOf(links) : AsideOf(links)[k].task = x
  BY <1>1, <1>4, <1>14, AbstractTasks
<1>17. AsideOf(links)' = TaskTakenOut(AsideOf(links), x)
  BY <1>3, <1>6, <1>14
<1>18. Scheduling!ComeBack(x)
  BY <1>14, <1>15, <1>16, <1>17, SchedulingTakesOut DEF Scheduling!ComeBack, Scheduling!Aside
<1> QED BY <1>13, <1>18

(* vTaskDelete and vTaskSuspend, of a task of either list.                 *)
LEMMA RemoveTaskStep ==
  ASSUME KernelInv, NEW x \in KernelTasks, RemoveTask(x)
  PROVE  KernelInv' /\ Scheduling!Drop(x)
<1>1. PICK ready, sorted, i : TasksHeld(links, xItemValue, ready, sorted, i)
  BY DEF KernelInv
<1>2. /\ ready \in Seq(KernelTasks) /\ sorted \in Seq(KernelTasks) /\ i \in 0 .. Len(ready)
      /\ AreValues(xItemValue)
      /\ TwoRings(links, ready, sorted, i)
  BY <1>1 DEF TasksHeld
<1>3. x \in DOMAIN links.pvContainer /\ links' = ListRemove(links, x) /\ xItemValue' = xItemValue
  BY DEF RemoveTask
<1>4. /\ x \in ToSet(ready) \cup ToSet(sorted) /\ ToSet(ready) \cap ToSet(sorted) = {}
      /\ IsInjective(ready) /\ IsInjective(sorted)
  BY <1>2, <1>3, TasksIn
<1>5. CASE x \in ToSet(ready)
  <2>1. PICK u, j : /\ TasksHeld(links', xItemValue', u, sorted, j)
                    /\ Turned(u, j) = RemoveFirst(Turned(ready, i), x)
    BY <1>1, <1>3, <1>5, ReadyTaskTaken
  <2>2. /\ TurnsOf(links) = Turned(ready, i) /\ TurnsOf(links)' = Turned(u, j)
        /\ AsideOf(links) = WithValues(sorted, xItemValue)
        /\ AsideOf(links)' = WithValues(sorted, xItemValue')
    BY <1>1, <2>1, KernelView
  <2>3. TaskTakenOut(WithValues(sorted, xItemValue), x) = WithValues(sorted, xItemValue)
    BY <1>2, <1>4, <1>5, TakenOutIs
  <2>4. AsideOf(links)' = TaskTakenOut(AsideOf(links), x)
    BY <1>3, <2>2, <2>3
  <2>5. Scheduling!Drop(x)
    BY <2>1, <2>2, <2>4, SchedulingOperators, SchedulingTakesOut DEF Scheduling!Drop, Scheduling!Without
  <2> QED BY <2>1, <2>5 DEF KernelInv
<1>6. CASE x \notin ToSet(ready)
  <2>1. PICK w : /\ TasksHeld(links', xItemValue', ready, w, i)
                 /\ WithValues(w, xItemValue) = TaskTakenOut(WithValues(sorted, xItemValue), x)
    BY <1>1, <1>3, <1>4, <1>6, SortedTaskTaken
  <2>2. /\ TurnsOf(links) = Turned(ready, i) /\ TurnsOf(links)' = Turned(ready, i)
        /\ AsideOf(links) = WithValues(sorted, xItemValue)
        /\ AsideOf(links)' = WithValues(w, xItemValue')
    BY <1>1, <2>1, KernelView
  <2>3. RemoveFirst(Turned(ready, i), x) = Turned(ready, i)
    <3>1. PICK s : s = Turned(ready, i)
      OBVIOUS
    <3>2. s \in Seq(KernelTasks) /\ IsInjective(s) /\ ToSet(s) = ToSet(ready)
      BY <1>2, <1>4, <3>1, TurnedSet, AroundIs
    <3>3. RemoveFirst(s, x) = s
      BY <1>6, <3>2, RemoveFirstIs
    <3> QED BY <3>1, <3>3
  <2>4. AsideOf(links)' = TaskTakenOut(AsideOf(links), x)
    BY <1>3, <2>1, <2>2
  <2>5. Scheduling!Drop(x)
    BY <2>2, <2>3, <2>4, SchedulingOperators, SchedulingTakesOut DEF Scheduling!Drop, Scheduling!Without
  <2> QED BY <2>1, <2>5 DEF KernelInv
<1> QED BY <1>5, <1>6

(* prvInitialiseTaskLists leaves both lists empty.                         *)
LEMMA KernelInitially ==
  ASSUME KernelListsInit
  PROVE  KernelInv /\ Scheduling!TurnInit
<1>1. links = Initialised(KernelMarkers) /\ xItemValue = [t \in KernelTasks |-> 0]
  BY DEF KernelListsInit, KernelMarkers
<1>2. IsMemory(links, KernelMarkers) /\ DOMAIN links.pvContainer = {}
  BY <1>1 DEF Initialised, IsMemory, Fields
<1>3. /\ \A l \in KernelMarkers : /\ links.pxNext[l] = l /\ links.pxPrevious[l] = l
                                  /\ links.pxIndex[l] = l /\ links.uxNumberOfItems[l] = 0
  BY <1>1 DEF Initialised
<1>4. /\ <<>> \in Seq(KernelTasks) /\ Len(<<>>) = 0 /\ ToSet(<<>>) = {} /\ IsInjective(<<>>)
      /\ 0 \in 0 .. Len(<<>>)
  BY DEF ToSet, IsInjective
<1>5. ASSUME NEW l \in KernelMarkers PROVE Holds(links, l, <<>>)
  <2>1. Linked(links, l, <<>>)
    BY <1>3, <1>4, <1>5 DEF Linked, Node
  <2> QED BY <1>2, <1>3, <1>4, <2>1 DEF Holds, ItemsOf
<1>6. TwoRings(links, <<>>, <<>>, 0)
  BY <1>2, <1>3, <1>4, <1>5, KernelApart DEF TwoRings, Node
<1>7. AreValues(xItemValue) /\ Ascending(<<>>, xItemValue)
  BY <1>1, KernelApart DEF AreValues, Ascending
<1>8. TasksHeld(links, xItemValue, <<>>, <<>>, 0)
  BY <1>4, <1>6, <1>7 DEF TasksHeld
<1>9. TurnsOf(links) = Turned(<<>>, 0) /\ AsideIs(links, xItemValue) = WithValues(<<>>, xItemValue)
  BY <1>8, WalkedLists
<1>10. TurnsOf(links) = <<>> /\ AsideOf(links) = <<>>
  BY <1>9 DEF AsideOf, AsideIs, Turned, WithValues
<1> QED BY <1>8, <1>10 DEF KernelInv, Scheduling!TurnInit

LEMMA KernelStep ==
  KernelInv /\ [KernelListsNext]_kernelVars
    => KernelInv' /\ [Scheduling!TurnNext]_<<TurnsOf(links), AsideOf(links)>>
<1> SUFFICES ASSUME KernelInv, [KernelListsNext]_kernelVars
             PROVE  KernelInv' /\ [Scheduling!TurnNext]_<<TurnsOf(links), AsideOf(links)>>
  OBVIOUS
<1>1. CASE SwitchTurn
  BY <1>1, SwitchTurnStep DEF Scheduling!TurnNext
<1>2. ASSUME NEW x \in KernelTasks, AddToReady(x)
      PROVE  KernelInv' /\ [Scheduling!TurnNext]_<<TurnsOf(links), AsideOf(links)>>
  BY <1>2, AddToReadyStep DEF Scheduling!TurnNext
<1>3. ASSUME NEW x \in KernelTasks, BackToReady(x)
      PROVE  KernelInv' /\ [Scheduling!TurnNext]_<<TurnsOf(links), AsideOf(links)>>
  BY <1>3, BackToReadyStep DEF Scheduling!TurnNext
<1>4. ASSUME NEW x \in KernelTasks, RemoveTask(x)
      PROVE  KernelInv' /\ [Scheduling!TurnNext]_<<TurnsOf(links), AsideOf(links)>>
  BY <1>4, RemoveTaskStep DEF Scheduling!TurnNext
<1>5. ASSUME NEW x \in KernelTasks, NEW v \in Values, AddToSorted(x, v)
      PROVE  KernelInv' /\ [Scheduling!TurnNext]_<<TurnsOf(links), AsideOf(links)>>
  BY <1>5, AddToSortedStep DEF Scheduling!TurnNext
<1>6. CASE UNCHANGED kernelVars
  <2>1. links' = links /\ xItemValue' = xItemValue
    BY <1>6 DEF kernelVars
  <2>2. KernelInv'
    BY <2>1 DEF KernelInv
  <2>3. TurnsOf(links)' = TurnsOf(links) /\ AsideOf(links)' = AsideOf(links)
    BY <2>1 DEF TurnsOf, AsideOf
  <2> QED BY <2>2, <2>3
<1> QED BY <1>1, <1>2, <1>3, <1>4, <1>5, <1>6 DEF KernelListsNext

(* The links of a ready list and of a list sorted by xItemValue, for any   *)
(* number of tasks and any series of insertions, removals and switches,    *)
(* give tasks of equal priority their turns in order, the new one last,    *)
(* and keep those put aside by value and by arrival (list.c:103-201,       *)
(* list.h:203-214).                                                        *)
THEOREM RingsImplementTurns == KernelListsSpec => ImplementsTurns
<1>1. KernelListsInit => KernelInv /\ Scheduling!TurnInit
  BY KernelInitially
<1>2. KernelInv /\ [KernelListsNext]_kernelVars
        => KernelInv' /\ [Scheduling!TurnNext]_<<TurnsOf(links), AsideOf(links)>>
  BY KernelStep
<1> QED BY <1>1, <1>2, PTL DEF KernelListsSpec, ImplementsTurns, Scheduling!TurnSpec
=============================================================================
