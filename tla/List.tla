-------------------------------- MODULE List --------------------------------
(***************************************************************************)
(* list.c and the macros of list.h: doubly linked rings, each closed by    *)
(* the marker xListEnd of its list.                                        *)
(*                                                                         *)
(* A memory r of rings has the links of the markers and of the items that  *)
(* are linked.  A list stands for its marker, an item for what owns it.    *)
(* The links of an item that is not in a list are left out: they are       *)
(* written before they are read again.                                     *)
(***************************************************************************)
EXTENDS Integers, Sequences, SequencesExt, Functions

(* vListInitialise, of each list of S.                                     *)
Initialised(S) ==
  [pxNext |-> [l \in S |-> l], pxPrevious |-> [l \in S |-> l],
   pxIndex |-> [l \in S |-> l], uxNumberOfItems |-> [l \in S |-> 0],
   pvContainer |-> [x \in {} |-> x]]

(* f with v at x, which may be new to it.                                  *)
With(f, x, v) == [y \in DOMAIN f \cup {x} |-> IF y = x THEN v ELSE f[y]]

(* Mutant: the item that follows is not told.                              *)
InsertAfterOneWay(r, l, n, x) ==
  [r EXCEPT !.pxNext = With(With(@, n, x), x, r.pxNext[n]),
            !.pxPrevious = With(@, x, n),
            !.pvContainer = With(@, x, l),
            !.uxNumberOfItems[l] = @ + 1]

(* The end of vListInsert: x goes behind n in the list l.                  *)
InsertAfter(r, l, n, x) ==
  [r EXCEPT !.pxNext = With(With(@, n, x), x, r.pxNext[n]),
            !.pxPrevious = With(With(@, r.pxNext[n], x), x, n),
            !.pvContainer = With(@, x, l),
            !.uxNumberOfItems[l] = @ + 1]

(* Mutant: the index stays where it is.                                    *)
InsertEndKeepIndex(r, l, x) == InsertAfter(r, l, r.pxIndex[l], x)

(* vListInsertEnd: behind the item whose turn it was last.                 *)
ListInsertEnd(r, l, x) == [InsertAfter(r, l, r.pxIndex[l], x) EXCEPT !.pxIndex[l] = x]

(* The items whose container is the list l.                                *)
ItemsOf(r, l) == {x \in DOMAIN r.pvContainer : r.pvContainer[x] = l}

(* The loop of vListInsert: from the marker on, as long as the next node   *)
(* is one of those that come before the new item.                          *)
PositionIn(r, l, before) ==
  LET stop[n \in {l} \cup ItemsOf(r, l)] ==
        IF r.pxNext[n] \in before THEN stop[r.pxNext[n]] ELSE n
  IN  stop[l]

(* vListRemove, which knows the list from the item.                        *)
ListRemove(r, x) ==
  LET linked == DOMAIN r.pxNext \ {x}
      next == [r.pxNext EXCEPT ![r.pxPrevious[x]] = r.pxNext[x]]
      previous == [r.pxPrevious EXCEPT ![r.pxNext[x]] = r.pxPrevious[x]]
      l == r.pvContainer[x]
  IN  [r EXCEPT !.pxNext = Restrict(next, linked),
                !.pxPrevious = Restrict(previous, linked),
                !.pvContainer = Restrict(@, DOMAIN @ \ {x}),
                !.pxIndex[l] = IF @ = x THEN r.pxPrevious[x] ELSE @,
                !.uxNumberOfItems[l] = @ - 1]

(* The item behind n, over the marker.                                     *)
NextItem(r, l, n) == IF r.pxNext[n] = l THEN r.pxNext[l] ELSE r.pxNext[n]

(* listGET_OWNER_OF_NEXT_ENTRY                                             *)
NextEntry(r, l) == [r EXCEPT !.pxIndex[l] = NextItem(r, l, @)]

HeadEntry(r, l) == r.pxNext[l]      \* listGET_OWNER_OF_HEAD_ENTRY

-----------------------------------------------------------------------------
(* What the rings stand for. *)

(* The items behind n, round the ring to n itself.                         *)
ItemsFrom(r, l, n) ==
  LET item[i \in 0 .. r.uxNumberOfItems[l]] ==
        IF i = 0 THEN n ELSE NextItem(r, l, item[i - 1])
  IN  [i \in 1 .. r.uxNumberOfItems[l] |-> item[i]]

(* The ring of l goes through the items of seq, both ways, and their       *)
(* containers and the length say so.                                       *)
IsRing(r, l, seq) ==
  LET ring == <<l>> \o seq
      n == Len(ring)
  IN  /\ \A i \in 1 .. n :
           /\ {ring[i], ring[(i % n) + 1]} \subseteq DOMAIN r.pxNext
           /\ r.pxNext[ring[i]] = ring[(i % n) + 1]
           /\ r.pxPrevious[ring[(i % n) + 1]] = ring[i]
      /\ r.uxNumberOfItems[l] = Len(seq)
      /\ ItemsOf(r, l) = ToSet(seq)
=============================================================================
