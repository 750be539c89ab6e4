------------------------------ MODULE EventPool ------------------------------
(***************************************************************************)
(* What eventlist.c offers to the servants, without its linked lists: a    *)
(* pool of events waiting for their time, of which only a first one can be *)
(* moved, once it is due, to the events that are ready to be received.     *)
(*                                                                         *)
(* SEFM builds the runtime from these operations, and EventList shows that *)
(* the linked lists, with their End Flag event, implement them.            *)
(***************************************************************************)
EXTENDS EventOrder, FiniteSets

VARIABLES
  now,        \* xTickCount
  eventList,  \* the events of xEventList, without its End Flag event
  readyList   \* the events of xEventReadyList[0]

(* vEventGenericCreate, once for each event of the set new.                *)
Create(new) == eventList' = eventList \cup new

(* xEventListGenericTransit returns 1: e is the first event, and due.      *)
Transit(e) ==
  /\ IsHead(e, eventList) /\ e.xTime <= now
  /\ eventList' = eventList \ {e}
  /\ readyList' = readyList \cup {e}

(* It returns -1 or 0: there is no event, or the first is not due yet.     *)
NothingDue == \A e \in eventList : IsHead(e, eventList) => e.xTime > now

(* vEventGenericReceive, once for each event of the set got.               *)
Receive(got) == got \subseteq readyList /\ readyList' = readyList \ got

-----------------------------------------------------------------------------
PoolInit == eventList = {} /\ readyList = {}

PoolNext ==
  \/ /\ \E e \in eventList' \ (eventList \cup readyList) : Create({e})
     /\ UNCHANGED <<now, readyList>>
  \/ \E e \in eventList : Transit(e) /\ UNCHANGED now
  \/ \E e \in readyList : Receive({e}) /\ UNCHANGED <<now, eventList>>
  \/ now' = now + 1 /\ UNCHANGED <<eventList, readyList>>

PoolSpec == PoolInit /\ [][PoolNext]_<<now, eventList, readyList>>
=============================================================================
