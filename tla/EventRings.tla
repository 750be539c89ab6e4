----------------------------- MODULE EventRings -----------------------------
(***************************************************************************)
(* The two lists of eventlist.c as the rings they are.  Each operation of  *)
(* EventList is joined by what the code does to the links: it decides by   *)
(* the links and lengths alone, and the sequences of EventList say what    *)
(* should come of it.  An event stands for its block of the heap.          *)
(***************************************************************************)
EXTENDS EventList, List

CONSTANTS
  EventEnd, ReadyEnd    \* the markers of xEventList and of xEventReadyList[0]

ASSUME RingAssumption ==
  EventEnd # ReadyEnd /\ {EventEnd, ReadyEnd} \cap (Event \cup {EndFlag}) = {}

VARIABLE ring           \* the links of both lists

ringVars == <<vars, ring>>

(* Before prvInitialiseEventLists the memory of the lists is zero.         *)
RingInit ==
  Init /\ ring = [Initialised({EventEnd, ReadyEnd}) EXCEPT
                    !.pxNext = [l \in {EventEnd, ReadyEnd} |-> None]]

(* prvEventListGenericInsert                                               *)
InsertSorted(r, e) ==
  LET n == IF e.xTime = MaxDelay THEN r.pxPrevious[EventEnd]
           ELSE PositionIn(r, EventEnd, {f \in DOMAIN r.pvContainer : Before(f, e)})
  IN  InsertAfter(r, EventEnd, n, e)

RingCreate(s, d, last, nextPeriod, time) ==
  LET r == IF isFirst THEN ListInsertEnd(Initialised({EventEnd, ReadyEnd}), EventEnd, EndFlag)
                      ELSE ring
      used == Cardinality(DOMAIN r.pvContainer) + Cardinality(received)
  IN  ring' = IF used < HeapEvents
              THEN InsertSorted(r, NewEvent(s, d, last, nextPeriod, time, Signed(serial)))
              ELSE r

RingTransit ==
  LET x == HeadEntry(ring, EventEnd)
  IN  ring' = IF ring.uxNumberOfItems[EventEnd] # 1 /\ x.xTime <= now
              THEN ListInsertEnd(ListRemove(ring, x), ReadyEnd, x)
              ELSE ring

(* The search of vEventGenericReceive, which looks at the last item after  *)
(* the loop.                                                               *)
RingReceive(d, s) ==
  LET Matches(x) == x.src = s /\ x.dst = d
      flag[x \in ItemsOf(ring, ReadyEnd)] ==
        IF x = ring.pxPrevious[ReadyEnd] \/ Matches(x) THEN x ELSE flag[ring.pxNext[x]]
      found == flag[HeadEntry(ring, ReadyEnd)]
  IN  ring' = IF ring.uxNumberOfItems[ReadyEnd] # 0 /\ Matches(found)
              THEN ListRemove(ring, found) ELSE ring

RingNext ==
  \/ \E r \in Relations, last \in BOOLEAN,
        nextPeriod \in Deadlines, time \in DueTimes :
       /\ CreateEvent(r[1], r[2], last, nextPeriod, time)
       /\ RingCreate(r[1], r[2], last, nextPeriod, time)
  \/ TransitEvent /\ RingTransit
  \/ \E r \in Relations : ReceiveEvent(r[2], r[1]) /\ RingReceive(r[2], r[1])
  \/ (Tick \/ \E e \in received : DeleteEvent(e)) /\ UNCHANGED ring

RingSpec == RingInit /\ [][RingNext]_ringVars

-----------------------------------------------------------------------------
(* The links of both lists agree with the sequences, in both directions,   *)
(* after any series of insertions and removals at both ends and in the     *)
(* middle; and the index, which nobody moves on, is at the last item, so   *)
(* that vListInsertEnd appends (eventlist.c:330-338, list.c:103-201).      *)
RingsFollow ==
  ~isFirst => /\ IsRing(ring, EventEnd, xEventList) /\ ring.pxIndex[EventEnd] = EndFlag
              /\ IsRing(ring, ReadyEnd, xReadyList)
              /\ ring.pxIndex[ReadyEnd] = ring.pxPrevious[ReadyEnd]
=============================================================================
