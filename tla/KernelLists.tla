----------------------------- MODULE KernelLists -----------------------------
(***************************************************************************)
(* How tasks.c uses list.c: the ready list of one priority, walked by its  *)
(* index, and a list sorted by xItemValue, as the delayed lists and the    *)
(* lists of tasks that wait for an event are.                              *)
(***************************************************************************)
EXTENDS List

CONSTANTS
  KernelTasks,
  ReadyList,        \* the marker of a list of pxReadyTasksLists
  SortedList,       \* the marker of a list vListInsert is used on
  Values,       \* values of items
  MaxValue      \* portMAX_DELAY, the value of markers

ASSUME KernelListsAssumption ==
  /\ MaxValue \in Values \cap Nat /\ Values \subseteq 0 .. MaxValue
  /\ ReadyList # SortedList /\ {ReadyList, SortedList} \cap KernelTasks = {}

VARIABLES
  links,        \* the links of both lists
  xItemValue    \* the value of each task's item

kernelVars == <<links, xItemValue>>

In(t, l) == t \in DOMAIN links.pvContainer /\ links.pvContainer[t] = l

(* prvInitialiseTaskLists                                                  *)
KernelListsInit ==
  links = Initialised({ReadyList, SortedList}) /\ xItemValue = [t \in KernelTasks |-> 0]

(* vListInsert, which does not look for the place of the highest value:    *)
(* the loop would not end at the marker.                                   *)
ListInsert(r, t, v) ==
  LET value(x) == IF x = SortedList THEN MaxValue ELSE xItemValue[x]
      n == IF v = MaxValue THEN r.pxPrevious[SortedList]
           ELSE PositionIn(r, SortedList, {x \in KernelTasks \cup {SortedList} : value(x) <= v})
  IN  InsertAfter(r, SortedList, n, t)

(* prvAddTaskToReadyQueue, of a new task                                   *)
AddToReady(t) ==
  /\ t \notin DOMAIN links.pvContainer
  /\ links' = ListInsertEnd(links, ReadyList, t)
  /\ UNCHANGED xItemValue

(* vTaskSwitchContext, at this priority                                    *)
SwitchTurn ==
  /\ links.uxNumberOfItems[ReadyList] # 0
  /\ links' = NextEntry(links, ReadyList)
  /\ UNCHANGED xItemValue

(* prvAddCurrentTaskToDelayedList: xItemValue is set between the two.      *)
AddToSorted(t, v) ==
  /\ In(t, ReadyList)
  /\ links' = ListInsert(ListRemove(links, t), t, v)
  /\ xItemValue' = [xItemValue EXCEPT ![t] = v]

(* prvCheckDelayedTasks and xTaskRemoveFromEventList, which take the first *)
(* task, or vTaskResume and a time-out of another list, which take any.    *)
BackToReady(t) ==
  /\ In(t, SortedList)
  /\ links' = ListInsertEnd(ListRemove(links, t), ReadyList, t)
  /\ UNCHANGED xItemValue

(* vTaskDelete and vTaskSuspend                                            *)
RemoveTask(t) ==
  /\ t \in DOMAIN links.pvContainer
  /\ links' = ListRemove(links, t)
  /\ UNCHANGED xItemValue

KernelListsNext ==
  \/ SwitchTurn
  \/ \E t \in KernelTasks : \/ AddToReady(t) \/ BackToReady(t) \/ RemoveTask(t)
                            \/ \E v \in Values : AddToSorted(t, v)

KernelListsSpec == KernelListsInit /\ [][KernelListsNext]_kernelVars

-----------------------------------------------------------------------------
(* The lists are what the scheduler takes them for: walked from behind the *)
(* index, whatever was put in or taken out at any place in between, tasks  *)
(* get their turns in order and a new one comes last; and the sorted list  *)
(* keeps the order of arrival among equal values (list.c:103-201,          *)
(* list.h:203-214).                                                        *)
TurnsOf(r) == ItemsFrom(r, ReadyList, r.pxIndex[ReadyList])
AsideOf(r) == [i \in 1 .. r.uxNumberOfItems[SortedList] |->
                 LET t == ItemsFrom(r, SortedList, SortedList)[i]
                 IN  [task |-> t, value |-> xItemValue[t]]]

Scheduling == INSTANCE TurnQueue WITH turns <- TurnsOf(links), aside <- AsideOf(links)

ImplementsTurns == Scheduling!TurnSpec
=============================================================================
