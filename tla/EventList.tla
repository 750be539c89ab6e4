------------------------------ MODULE EventList ------------------------------
(***************************************************************************)
(* eventlist.c: xEventList, the sorted list of the events created, closed  *)
(* by an End Flag event, and xEventReadyList[0], the list of the events    *)
(* that are due.  Any servant may create, receive and delete events in any *)
(* order; the R-Servant moves them.                                        *)
(*                                                                         *)
(* The lists are sequences of the events of their items, in the order of   *)
(* pxNext.  Widths: ticks have the values 0 .. MaxDelay and the serial     *)
(* number has Levels values, which xLevel reads as a signed number.        *)
(***************************************************************************)
EXTENDS EventOrder, FiniteSets, Sequences, SequencesExt

CONSTANTS
  Relations,   \* the pairs of servants of xRelations
  Deadlines,   \* bound: the deadlines given to new events
  DueTimes,    \* bound: the ends of LETs given to new events
  MaxDelay,    \* portMAX_DELAY
  Levels,      \* the number of values of xEventSerialNumber
  HeapEvents,  \* how many eveECB blocks the heap can hold
  None         \* a NULL or uninitialised pointer

ASSUME ListAssumption ==
  /\ MaxDelay \in Nat /\ Deadlines \cup DueTimes \subseteq 0 .. MaxDelay
  /\ HeapEvents \in Nat \ {0}
  /\ Levels \in Nat /\ HeapEvents < Levels /\ Levels % 2 = 0
  /\ \A r \in Relations : None \notin {r[1], r[2]}

VARIABLES
  now,            \* xTickCount
  isFirst,        \* IS_FIRST_EVENT
  xEventList,     \* the events of xEventList, the End Flag event among them
  xReadyList,     \* the events of xEventReadyList[0]
  currentList,    \* pxCurrentReadyList is not NULL
  received,       \* events received and not yet deleted
  serial          \* xEventSerialNumber

vars == <<now, isFirst, xEventList, xReadyList, currentList, received, serial>>

NextSerial(n) == (n + 1) % Levels

(* xLevel is a signed portBASE_TYPE.                                       *)
Signed(n) == IF n < Levels \div 2 THEN n ELSE n - Levels

EndFlag == [src |-> None, dst |-> None, xSlackTime |-> MaxDelay,
            xTime |-> MaxDelay, xLevel |-> Signed(Levels - 1)]

Flags == UNION {{r[1], r[2]} : r \in Relations}

Event == [src : Flags, dst : Flags, xSlackTime : Deadlines,
          xTime : Deadlines \cup DueTimes,
          xLevel : {Signed(n) : n \in 0 .. Levels - 1}]

TypeOK ==
  /\ now \in 0 .. MaxDelay
  /\ isFirst \in BOOLEAN /\ currentList \in BOOLEAN
  /\ xEventList \in Seq(Event \cup {EndFlag})
  /\ xReadyList \in Seq(Event \cup {EndFlag})
  /\ received \in SUBSET Event
  /\ serial \in 0 .. Levels - 1

Init ==
  /\ now \in 0 .. MaxDelay
  /\ isFirst = TRUE
  /\ xEventList = <<>> /\ xReadyList = <<>>
  /\ currentList = FALSE
  /\ received = {}
  /\ serial = 0

-----------------------------------------------------------------------------
(* Mutant: the new event goes to the end.                                  *)
InsertEnd(list, e) == Append(list, e)

(* Mutant: the search does not stop at the first event that goes after.    *)
InsertBeforeLast(list, e) ==
  IF e.xTime = MaxDelay
  THEN Append(list, e)
  ELSE InsertAt(list, Len(list), e)

(* prvEventListGenericInsert: before the first event that does not go      *)
(* before e, and an event due at portMAX_DELAY after all others.           *)
Insert(list, e) ==
  IF e.xTime = MaxDelay
  THEN Append(list, e)
  ELSE InsertAt(list, SelectInSeq(list, LAMBDA f : ~Before(f, e)), e)

(* Bound: no event is kept while Levels others are created.                *)
LevelIsFree ==
  \A e \in ToSet(xEventList) \cup ToSet(xReadyList) \cup received :
    e # EndFlag => e.xLevel # Signed(serial)

(* vEventGenericCreate: the first call puts the End Flag event into the    *)
(* list; an event for which there is no block is not created.              *)
CreateEvent(s, d, last, nextPeriod, time) ==
  LET list == IF isFirst THEN <<EndFlag>> ELSE xEventList
      used == Len(list) + Len(xReadyList) + Cardinality(received)
  IN  /\ LevelIsFree
      /\ isFirst' = FALSE
      /\ IF used < HeapEvents
         THEN /\ xEventList' = Insert(list, NewEvent(s, d, last, nextPeriod,
                                                     time, Signed(serial)))
              /\ serial' = NextSerial(serial)
         ELSE xEventList' = list /\ UNCHANGED serial
      /\ UNCHANGED <<now, xReadyList, currentList, received>>

(* Mutant: the only event is taken for the End Flag event.                 *)
TransitEventLate ==
  /\ ~isFirst
  /\ IF Len(xEventList) > 2 /\ Head(xEventList).xTime <= now
     THEN /\ xEventList' = Tail(xEventList)
          /\ xReadyList' = Append(xReadyList, Head(xEventList))
          /\ currentList' = TRUE
     ELSE currentList' = FALSE /\ UNCHANGED <<xEventList, xReadyList>>
  /\ UNCHANGED <<now, isFirst, received, serial>>

(* Mutant: the due time of the first event is not looked at.               *)
TransitEventEarly ==
  /\ ~isFirst
  /\ IF Len(xEventList) > 1
     THEN /\ xEventList' = Tail(xEventList)
          /\ xReadyList' = Append(xReadyList, Head(xEventList))
          /\ currentList' = TRUE
     ELSE currentList' = FALSE /\ UNCHANGED <<xEventList, xReadyList>>
  /\ UNCHANGED <<now, isFirst, received, serial>>

(* xEventListGenericTransit: nothing is moved when the End Flag event is   *)
(* alone, or when the first event is not due.  It is not called before the *)
(* lists are initialised.                                                  *)
TransitEvent ==
  /\ ~isFirst
  /\ IF Len(xEventList) # 1 /\ Head(xEventList).xTime <= now
     THEN /\ xEventList' = Tail(xEventList)
          /\ xReadyList' = Append(xReadyList, Head(xEventList))
          /\ currentList' = TRUE
     ELSE currentList' = FALSE /\ UNCHANGED <<xEventList, xReadyList>>
  /\ UNCHANGED <<now, isFirst, received, serial>>

(* vEventGenericReceive by d: the first event of the ready list from s to  *)
(* d is unlinked.  It is called with a list.                               *)
ReceiveEvent(d, s) ==
  LET i == SelectInSeq(xReadyList, LAMBDA e : e.src = s /\ e.dst = d)
  IN  /\ currentList
      /\ IF i # 0
         THEN /\ xReadyList' = RemoveAt(xReadyList, i)
              /\ received' = received \cup {xReadyList[i]}
         ELSE UNCHANGED <<xReadyList, received>>
      /\ UNCHANGED <<now, isFirst, xEventList, currentList, serial>>

(* vEventGenericDelete, of an event that has been received.                *)
DeleteEvent(e) ==
  /\ received' = received \ {e}
  /\ UNCHANGED <<now, isFirst, xEventList, xReadyList, currentList, serial>>

(* The clock; the bound stops it before it wraps.                          *)
Tick ==
  /\ now < MaxDelay
  /\ now' = now + 1
  /\ UNCHANGED <<isFirst, xEventList, xReadyList, currentList, received, serial>>

Next ==
  \/ \E r \in Relations, last \in BOOLEAN,
        nextPeriod \in Deadlines, time \in DueTimes :
       CreateEvent(r[1], r[2], last, nextPeriod, time)
  \/ TransitEvent
  \/ \E r \in Relations : ReceiveEvent(r[2], r[1])
  \/ \E e \in received : DeleteEvent(e)
  \/ Tick

Spec == Init /\ [][Next]_vars

-----------------------------------------------------------------------------
(* Properties.                                                             *)

(* "The End Flag Event can be the last Event to be processed, and new      *)
(* events are inserted before it in xEventList" (eventlist.c:320-323).     *)
EndFlagLast == ~isFirst => Last(xEventList) = EndFlag

(* The list is sorted by xCompareFunction after any series of creations    *)
(* and moves, also where the serial number changes its sign, so that its   *)
(* first item is the one to look at (eventlist.c:305-339, 420).            *)
Sorted ==
  \A i, j \in DOMAIN xEventList :
    i < j => ~Before(xEventList[j], xEventList[i])

(* The lists implement the pool: no event gets lost, is moved before it is *)
(* due or out of turn, or is received twice, and the End Flag event is     *)
(* never handed out (eventlist.c:351-497).                                 *)
Pool == INSTANCE EventPool WITH
  eventList <- ToSet(xEventList) \ {EndFlag},
  readyList <- ToSet(xReadyList)

ImplementsPool == Pool!PoolSpec

(* The R-Servant is sent back to sleep only when there is nothing to move: *)
(* the results -1 and 0 of xEventListGenericTransit (eventlist.c:412-435). *)
SleepsOnlyIfNothingDue ==
  [][currentList /\ ~currentList' => Pool!NothingDue]_vars
=============================================================================
