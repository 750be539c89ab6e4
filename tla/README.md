# T-SEFM in TLA+

T-SEFM runs real-time applications written as graphs of *servants* on FreeRTOS.
A servant fires when an event has arrived on each of its input relations, runs
for its *logical execution time* (LET), and sends an event to each of its
outputs; an event that ends a round of its task waits for the deadline. This
directory holds TLA+ modules of that runtime, the TLC configurations that check
them, and theorems about them that TLAPS checks.

Paths below are relative to the repository; `servant.c`, `eventlist.c`,
`app.c`, `tasks.c`, `queue.c` and `list.c` are in
`src/freertos/libraries/FreeRTOS/`, `main.c` is `src/freertos/main.c`. Of the shell
system, `fio.c`, `romfs.c`, `filesystem.c` and `shell.c` are in `src/src/`, and its
`main.c` is written `src/src/main.c`.

## The system

The repository holds two programs that share a FreeRTOS V7.1.1 tree.

* **The servant system** (`freertos/Makefile`, `configUSE_PREEMPTION 0`,
  1000 Hz tick): 21 S-Servants in 13 tasks (the PapaBench autopilot) and one
  R-Servant. This is the repository's own contribution and the core of this
  project.
* **The shell system** (top-level `Makefile`, preemptive): a shell with a serial
  line, a table of file descriptors and a read-only file system.

| Component | State | Operations | Interacts with |
|---|---|---|---|
| Servant runtime (`servant.c`) | where each servant is in its loop, `xCount`, `pxEvent`, `xDatas`, the relations' `xFlag`, `pxCurrentReadyList` | `vSensor`, `vServant`, `vR_Servant`, `vTaskDelayLET`, `vEventReceiveAll`, `vEventDeleteAll`, `vEventCreateAll` | event list (calls), one binary semaphore per servant, the tick hook |
| Event list (`eventlist.c`) | `xEventList` sorted by deadline and closed by an End Flag event, `xEventReadyList[0]`, `xEventSerialNumber`, `IS_FIRST_EVENT` | `vEventGenericCreate`, `xEventListGenericTransit`, `vEventGenericReceive`, `vEventGenericDelete` | heap, tick count |
| Tables (`app.c`) and start, tick hook (`main.c`) | `xRelations`, `xTaskOfServant`, `xLetOfServant`, `xPeriodOfTask`; `IS_INIT` | `main`, `vApplicationTickHook` | gives the semaphores of the sensors and of the R-Servant from the tick interrupt |
| Kernel scheduler (`tasks.c`, `port.c`) | `pxCurrentTCB`, ready, delayed, suspended and pending lists, `uxSchedulerSuspended`, `uxMissedTicks`, `xMissedYield`, `xTickCount` | `vTaskSwitchContext`, `vTaskSuspendAll`, `xTaskResumeAll`, `vTaskIncrementTick`, `xTaskRemoveFromEventList`, delays, suspension, priorities | queues, list |
| Queues and semaphores (`queue.c`) | messages, waiting lists, locks, mutex holder | send and receive from tasks and from interrupts, lock and unlock, priority inheritance | scheduler |
| Critical sections (`port.c`, `portmacro.h`, `FreeRTOSConfig.h`) | `basepri`, `uxCriticalNesting`, the pending PendSV | `vPortEnterCritical`, `vPortExitCritical`, `xPortPendSVHandler`, `xPortSysTickHandler` | every function of the kernel |
| Lists (`list.c`, `list.h`) | doubly linked rings with a marker and an index | insert sorted, insert at the index, remove, move the index on | used by all of the above |
| Heaps (`heap_2.c`, `heap_ww.c`) | free blocks by size, by address | `pvPortMalloc`, `vPortFree` | suspend the scheduler |
| Serial line (`src/src/main.c`, `stm32_p103.c`) | `serial_tx_wait_sem`, `serial_rx_queue`, the USART's `DR` and `CR1` | `USART2_IRQHandler`, `send_byte`, `recv_byte` | the terminal, the shell's task |
| Files (`fio.c`, `romfs.c`, `filesystem.c`) | `fio_fds` under the mutex `fio_sem`, `romfs_fds` | `fs_open`, `romfs_open`, `fio_open/read/seek/close`, `fio_set_opaque` | any task |
| Shell (`src/src/main.c`, `fio.c`, `shell.c`) | the line buffer, the state of the escape sequences | `command_prompt`, `stdin_read`, `stdout_write`, `filedump` | serial line, files |

What is hard in the servant system:

* *Interleaving.* Servants of 13 tasks share one ready list, one pointer to it,
  one sorted list, one heap and one R-Servant. A job takes the processor
  for its whole LET; ticks, and with them the hook's gives, come at any point.
* *Merged and lost wake-ups.* The R-Servant's semaphore is binary. It is given
  by the end of every job and by the hook at multiples of four of the periods.
  While a task blocks, or the heap is used, the scheduler is suspended and a
  tick is put off.
* *Ordering.* Only the first event of the list is ever looked at; the flags of a
  destination are reset when it is triggered, before it has received.
* *Interrupts.* The tick hook gives semaphores from an interrupt with the call for
  tasks, which ignores the locks of queues, and the interrupt is not held back by
  critical sections.
* *Limits.* The End Flag event, the serial number that breaks ties, the heap,
  the width of the tick count.

In the shell system: the transmit interrupt disables itself in `CR1` while a task
enables it there, a read and a write; the receive queue has room for one byte;
descriptors are tested outside the mutex that guards them, and `romfs_open` fills
one in after it has given the mutex back; lines are edited while they are
echoed.

For each component, what makes it correct:

* runtime: no event is lost, duplicated or met twice; a job has all its inputs,
  all due and all of one round; jobs and the R-Servant's decisions are not
  disturbed; rounds keep their period and end; deadlines are met when code takes
  no more than its LET; altogether, tasks run in rounds (`LetRounds`);
* event list: it is a sorted pool, closed by its End Flag event, that hands out
  the first event when it is due, and nothing else;
* kernel: a task is in exactly one list; the running task has the highest
  priority when preemption is on, and tasks of equal priority take turns; delays
  and time-outs end on time across the overflow of the tick count and with
  missed ticks; nobody waits for a queue that could serve them; a call has its
  effect once or not at all, and messages leave a queue in its order; a mutex's
  holder inherits and gives back priorities;
* critical sections: no other task touches what one changes inside a section,
  and closing the last open section, and no other, lets interrupts in;
* lists: the links agree both ways and with the lengths; the index gives tasks
  their turns whatever is put in and taken out; equal values stay in the order of
  arrival;
* heaps: blocks never overlap, free bytes are accounted for, freeing
  restores what allocation took; memory that is free can be allocated;
* serial line: no byte the shell has taken or sent is lost, shown twice or out of order;
* files: a descriptor is its task's own and leads to the file it opened; none is
  lost; no read goes past the end of the file;
* shell: what is in the line buffer is what the terminal shows; lines end with a zero
  byte; a file that is printed arrives whole; the shell comes back for the next key.

## The modules

| Module | Models | Notes |
|---|---|---|
| `EventOrder` | the fields of an event (`struct timeStamp`) and `xCompareFunction` | shared by the modules with events |
| `EventPool` | what `eventlist.c` offers, as two sets | abstract specification of `EventList`; its operations are the ones `SEFM` calls |
| `EventList` | `eventlist.c` on sequences: sorted insertion, End Flag event, transit, first match in the ready list, serial numbers of a fixed width, heap | implements `EventPool` |
| `EventListProofs` | theorems about `EventList`: order, End Flag event, the refinement of `EventPool`; and about `EventRings`: the links of both lists | |
| `List` | `list.c` and the macros of `list.h` on a memory of links | operators, no state of its own |
| `EventRings` | the two lists of `eventlist.c` as rings of links | extends `EventList`, whose operations it joins |
| `KernelLists` | the lists of `tasks.c` as rings: a ready list with its index, a list sorted by `xItemValue` | implements `TurnQueue` |
| `TurnQueue` | tasks take turns; others wait aside, sorted | abstract specification of `KernelLists` |
| `Heap2` | `heap_2.c` with its list of free blocks by size | as the servant system uses it |
| `LetRounds` | the promise to the application: rounds of a task | abstract specification of `SEFM` |
| `SEFM` | `servant.c`, the hook of `main.c`, and the parts of `tasks.c`, `queue.c` and `heap_2.c` they go through | composes the servants, the R-Servant, the hook, the semaphores, the scheduler and `EventPool` |
| `App` | the tables of `app.c`, the priorities of `main()`, the hook's periods | constants of `MCSEFMApp` |
| `SEFMInv` | the inductive invariant of `SEFM`, in named parts | |
| `SEFMProofs` | theorems about `SEFM`: types, the processor, events, rounds, the refinement of `LetRounds`, wake-ups, deadlines | |
| `Tasks` | `tasks.c` and the context switch and tick of `port.c`: lists by state, delays, the tick count, suspension of tasks and of the scheduler, priorities, creation, deletion, the idle task, waiting for events | on sequences, as the lists of `list.c` order them |
| `Queue` | `queue.c`: queues, semaphores, mutexes, for tasks and for interrupts | extends `Tasks`, whose state it shares; implements `BlockingQueue` |
| `BlockingQueue` | what `queue.c` promises to tasks: a call waits, has its effect or gives up | abstract specification of `Queue` |
| `QueueStorage` | the items of one queue: a ring with the pointers `pcWriteTo` and `pcReadFrom` | implements `MessageBuffer` |
| `MessageBuffer` | messages in a sequence, put at either end | abstract specification of `QueueStorage` |
| `QueueProofs` | theorems about `Queue`: who locks a queue, bounds, holders of mutexes; that it implements `BlockingQueue` | |
| `TaskListProofs` | theorems about `Tasks` and `Queue`: every task is in one list; the running task is one of the highest priority | extends `QueueProofs`, whose invariant it uses |
| `WaitingProofs` | theorems about `Tasks` and `Queue`: types and times, delays and time-outs that are neither too short nor too long, the order of those that wait and what wakes them, the inheritance of priorities | extends `TaskListProofs`, whose invariant it uses |
| `KernelDataProofs` | theorems about `Heap2`, `QueueStorage` and `KernelLists`: blocks do not overlap and may be counted; the refinements of `MessageBuffer` and `TurnQueue` | uses the lemmas on rings of `EventListProofs` |
| `Critical` | critical sections, one access at a time, under binary semaphores | what `Tasks`, `Queue` and `SEFM` take for one step |
| `CriticalProofs` | what is left of sections the tick interrupts, in the servant system | |
| `Serial` | the serial line with the USART and the terminal | |
| `Fio` | file descriptors and the read-only file system, used by any tasks | |
| `Shell` | the task of the shell | composes `Serial` and `Fio` |
| `ShellProofs` | theorems about `Fio` and `Shell`: descriptors, lines, what the terminal shows | |
| `HeapWw` | `heap_ww.c`: the two lists of free blocks through their links, sizes in the headers | the headers of allocated blocks keep their old links, as in memory |
| `MC*` | instances for TLC | |

### How `SEFM` corresponds to the code

A task of the code is in one of a few places, which `pc` and `rpc` name: at the
take of its semaphore (`"first"`: a sensor's first take, `servant.c:306-312`;
`"take"`), in its job between the take and the creation of the events
(`"exec"`), in `vTaskDelayLET` (`"let"`); the R-Servant at its take, at the
call of `xEventListGenericTransit`, in the loop over the relations
(`"match"`), and at the trigger (`"fire"`).

* `SensorFirst`, `SensorReceive`, `SensorExec` and `Finish` are the loop of
  `vSensor`; `ServantReceive`, `ServantExec` and `Finish` that of `vServant`.
  `WaitForTrigger` and `RWait` are the path of `xQueueGenericReceive` that finds
  the semaphore empty: it suspends the scheduler outside of any critical section
  (`WaitBegin`), looks again (`WaitTest`), and waits or tries again (`WaitEnd`). A give of
  the hook after the second look leaves the task asleep with its semaphore given
  (`SleepsGiven`).
* `HeapBegin` and `HeapEnd` are the suspension in `pvPortMalloc` and
  `vPortFree`. A job makes several such calls in a row, with no test of shared
  state between them but the heap's; they are one stretch, in which at most
  `MaxMissed` ticks are missed.
* `RTransit`, `RMatch`, `RFire` are the loop of `vR_Servant`. An event met on a
  relation whose flag is 2 goes to `dangling`: the code frees it and leaves it in
  the list.
* `Tick` is `vTaskIncrementTick` with `vApplicationTickHook`. With the scheduler
  suspended it counts a missed tick, and the hook is called with the old tick
  count; `ResumeAll` catches up without calling the hook, as `tasks.c:1506` does.
* `Give` is `xQueueGenericSend` on a binary semaphore, from a task or from the
  hook, with `xTaskRemoveFromEventList`: the waiting task becomes ready and a
  switch is requested if it has at least the priority of the running one.
* Among tasks of equal priority `vTaskSwitchContext` takes turns; the model
  leaves the choice open, which covers every turn.
* The idle task yields (`prvIdleTask`, `configUSE_PREEMPTION 0`).

Events are sets of records, told apart by `xLevel`, the serial number. That
lists may be taken for sets is what `EventList` shows.

Left open or left out: the data of events except for the deadline they carry,
the servants' functions, printing. Each critical section is one step. That leaves out one
thing `Critical` shows: a give of the hook in the middle of a servant's give of the
R-Servant's semaphore makes it count to 2, after which the R-Servant looks at the list
once more than it would.
`vServant` pairs the i-th output with the i-th input; `ServantExec` lets any of
the inputs be paired with each output, which includes the code's choice.

### How `Tasks` and `Queue` correspond to the code

`SEFM` has the kernel as far as servants go through it, in the configuration of the
servant system. `Tasks` and `Queue` have it on its own, for both
configurations: tasks call any function their code contains (the constant `Calls`) in
any order, and interrupts come at any point outside of critical sections.

* A ready list is the order in which its tasks get their turn: `vListInsertEnd`
  inserts behind the list's index, so the new item is last, and
  `listGET_OWNER_OF_NEXT_ENTRY` moves the index on, which makes the first task the
  running one and the last of the list (`NextTurn`). The other lists are in
  the order of `vListInsert` or of arrival.
* `pendSV` is the request for a context switch. Code runs only while there is
  none (`Executes`), since PendSV comes before the next instruction. With the
  scheduler suspended `Switch` sets `xMissedYield`.
* `xTaskResumeAll` is `ResumeAll` and, for each missed tick, `CatchUp`; both are in one
  critical section, so no interrupt comes while `resuming` is not `"no"`.
* `vTaskDelay`, `vTaskDelayUntil` and the idle task's
  `prvCheckTasksWaitingTermination` suspend the scheduler and resume it; these are
  steps of their own, named by `pc`. What happens in between is one step
  where interrupts can neither see nor change what it uses.
* `xQueueGenericSend` and `xQueueGenericReceive` (also a peek) are a loop. `Begin` and
  `Again` are the critical section at its head (`Test`); `CallSuspendAll`,
  `LockQueue`, `Check`, `Inherit`, `Place`, `UnlockTx`, `UnlockRx` and `CallResumeAll`
  are the rest, between any two of which interrupts send and
  receive. A queue that is locked only counts what they do, and the two halves
  of `prvUnlockQueue` wake a task for each.
* `left` and `since` are history variables that measure real time in ticks:
  `left` is what remains of a delay or of a wait, `since` the time since the
  moment `vTaskDelayUntil` counts from. Properties about time compare the
  code's wrapping counters with them.

### How `Critical` corresponds to the code

A call of `xQueueGenericSend` or `xQueueGenericReceive` on a binary semaphore is cut into
its accesses of shared variables: `Mask` writes `basepri`, `Load` and `Enter` are
the read and the write of `++uxCriticalNesting`, `Test`, `Fetch`, `Store` and `WakeStep` the
body of the section, `Load`, `Exit` and `Open` `vPortExitCritical`. `SysTick` and
`PendSV` may come between any two of them unless `basepri` masks them, and the masks of
`FreeRTOSConfig.h` do not. Both handlers end by setting `basepri` to 0, which is
`portCLEAR_INTERRUPT_MASK`. The tick asks for a switch by itself only with
`configUSE_PREEMPTION` (`Preemption`, `port.c:272-275`), which the servant system has not;
the hook's give and those of tasks ask for one if they wake a task of at least the priority
of the running one. The hook's give has a section of its own, which leaves the count as it found
it. A take that finds the semaphore empty suspends the scheduler (`SuspendAll`), tests again in a
second section and waits (`Place`, `ResumeAll`); a switch that is due meanwhile is made by
`ResumeAll` (`yieldDue`, which is `xMissedYield`).

Left out: the gives to the sensors at tick 100, when every task but the idle task waits; the
locks on the queue, which calls for tasks do not look at; the sections of `prvLockQueue`,
`prvUnlockQueue` and `xTaskResumeAll`, which open and close before the next step; the suspensions
of the heap; the idle task's yield. `Place` is one step, the insertion into a list included.

### How the abstract queues correspond to the code

`BlockingQueue` has no lists, locks, priorities or clock, and a task that waits is
its call (`pending`). In `Queue` a call is pending from the moment it is about to wait
(`Pending`, `InACall`): what its first look at the queue decides is a `Call` or a
`Wait`, a later look that finds room or a message is `Complete`, and a time-out is
`GiveUp`. All that lies between (the locks, the second test, the switch, the wake-up, the
way back to the start of the loop) is a stutter. A task deleted while it waits loses its
call when it is created again (`Recreated`).

`Queue` takes the messages of a queue for a sequence; `QueueStorage` shows that the
memory of the queue holds one. Positions count items of `uxItemSize` bytes from `pcHead`.
Its actions are the copies of `prvCopyDataToQueue` and `prvCopyDataFromQueue` with the
tests and counts of the calls around them; a peek puts `pcReadFrom` back in
the same critical section. `GenericReset` is the reset of a queue no task waits for.
That `pcReadFrom` is before the first item, and starts at the last position, makes an empty
and a full ring look alike but for `uxMessagesWaiting`.

### How `List`, `EventRings`, `KernelLists` and `Heap2` correspond to the code

A list stands for its marker `xListEnd` and an item for its owner, so the memory of
links is a record of functions on lists and tasks, or lists and events. The links of an
item that is in no list are dropped: the code writes them before it reads them
again, and TLC would report a read. `EventRings` decides by links and lengths alone,
as the code does, and runs side by side with the sequences of `EventList`;
`RingsFollow` compares the two. Before the first event the marker's link is `None`.

`Heap2` has every allocation of the servant system: the tasks and semaphores that
`main()` creates, which are kept, and, once the scheduler runs, the blocks of events,
the only memory that is ever freed (`eventlist.c:503`). Sizes are in units of the
alignment; `pvPortMalloc` rounds requests up to it. What a failed creation at the start
would free is left out, and so is the idle task's freeing of deleted tasks, of which the
system has none.

### How `Serial`, `Fio` and `Shell` correspond to the code

The terminal is the environment: `Type` presses a key, at any time, and a key is lost if the
receiver still has one; `Transmit` sends the byte in the data register and the terminal shows it on its
last line. An interrupt that is raised is taken before any task goes on
(`TasksRun`), as the hardware does; kernel calls are one step. The handler freezes the system
(`frozen`, `Spin`) when it finds the queue full, and when it finds neither of the interrupts it knows:
the receiver raises its interrupt for an overrun as well, and a key that arrives between the
handler's read of the status and that of the data leaves only that (`overrun`,
`OtherInterrupt`). `USART_ITConfig` is the read and
the write of `CR1` (`LoadCR1`, `StoreCR1`), with the handler possible in between.

`Fio` has, for each task, the step of `fs_open` or `fio_close` it is at: to take the
mutex, to look for a free descriptor, to fill it in, to give the mutex, and then, outside
of it, romfs's entry and `fio_set_opaque`. Paths stand for the hashes the code
compares. Tasks close what they opened.

In `Shell`, `cli` is where `command_prompt` is and `out` what it is sending; `Prompt`,
`ReadNext`, `EndOfLine`, `Escape`, `SkipByte`, `Backspace` and `Character` are the prompt and
`stdin_read`, `DumpOpen` to `DumpClose` are `filedump`. A line is a command by the constant
`Dumps`, messages are one byte each. In the build the shell's task is the only one that
uses files (`system_logger` is under `#if 0`); the other task is there to exercise
`fio_sem`. `last_chr_is_esc` is not initialised: any value.

Memory is not part of `Tasks` and `Queue` (a created task always gets its stack), nor
is the stack itself or the saved registers.

### The assumptions on constants

`TablesAssumption` gives the types. `TopologyAssumption` says what the tables of
`app.c` look like: each task has one sensor; relations join servants of one
task; exactly those that do not lead to a later flag lead back to the sensor;
and every servant of a task is needed to end its round (`TaskIsRound`).
`HeapAssumption`: one block for each relation and one for the End Flag event.
`DegreeAssumption`: the arrays `pxEvent` are long enough for the way they are
indexed. `StartupAssumption`: all tasks have come to wait before the first tick
the hook reacts to (100 ms after the start). TLC evaluates all of them on every
run of their module, so `MCSEFMApp` shows that the tables of `app.c` satisfy them.

The other modules assume what the types of the code give and little more. `ListAssumption`: there are more serial
numbers than blocks for events. `RingAssumption` and `KernelListsAssumption`: markers are neither
each other nor items; no value is above `portMAX_DELAY`. `Heap2Assumption`: an event is larger than
the header of a block, as an `eveECB` with its list item is, and one fits into the heap. `StorageAssumption`: a
queue has room for an item. `TasksAssumption`: there is a priority, and the
idle task has the lowest. `QueueAssumption`: a mutex has length 1 and no interrupt uses it. `FioAssumption`: there are
descriptors for the three standard files. `ShellAssumption`: `fio_read` is asked for more than one byte.

## The runs

| Run | Instance | Distinct states | Shows |
|---|---|---|---|
| `fork` | three tasks: a sensor with two successors joined by a fourth servant, a sensor with two successors that both end the round, a sensor that is its own successor; 80 ticks, code may take time at twelve of them, so that rounds miss their deadlines; 1 missed tick per suspension; `FairSpec` | 114 000 | `IInv` (the inductive invariant of the proofs, with `TypeOK`), `EventPerRelation`, `NoArrivedTwice`, `RunToCompletion`, `NoNullTransit`, `InputsComplete`, `RoundsKeepPeriod`, `ImplementsRounds`, `RoundsComplete` |
| `app` | the application of `app.c`, 5200 ticks, code takes its LET | 10 500 | `MeetsDeadline`, `NoLostWakeup` |
| `lost_wakeup` | a ring of two servants and a self-loop, code may take time at every tick | violated | `NoLostWakeup` does not hold when a tick is missed |
| `lists` | two sources, one destination, three events and the End Flag event, six serial numbers; four tasks, values 1 to 3; a heap of 31 units, event blocks of 6; a ring of three items, of two kinds | 742 000 | `EndFlagLast`, `Sorted`, `RingsFollow`, `ImplementsPool`, `SleepsOnlyIfNothingDue`; `ImplementsTurns`; `BlocksFillHeap`, `HeapIsCounter`; `ImplementsBuffer` |
| `heap_ww` | a heap of 12 units, blocks of 2 and 3 units | violated | `FreeListsComplete` does not hold once blocks are joined |
| `tasks_delay` | three tasks that delay, one with `vTaskDelayUntil`, one that also suspends the scheduler; tick count of four values, 2 missed ticks; `FairTaskSpec` | 85 000 | `NoLateWake`, `NoEarlyWake`, `EqualShare` |
| `tasks_api` | a task that creates, deletes, resumes and sets priorities of two others, one of which suspends itself and is resumed by an interrupt, the other suspends the scheduler | 1 013 000 | `OneList`, `HighestPriorityRuns` |
| `queue` | a sender, a receiver, a task that receives and peeks, interrupts that do both; queue of length 2 | 779 000 | `QueueTypeOK`, `WokenForEach`, `LockedBySuspender`, `HighestFirst` |
| `mutex` | three tasks of different priorities at a mutex, one that never waits, one that waits for 2 ticks, one for as long as it takes; tick count of four values, 1 missed tick | 1 060 000 | `Inheritance`, `NoEarlyTimeout`, `ImplementsBlockingQueue` |
| `mutex_give` | as `mutex`, waiting with a time limit | violated | `HighestPriorityRuns` does not hold when a mutex is given back |
| `critical` | a sensor and a servant of equal priority, the R-Servant, the hook; scheduling and priorities of `src/freertos/FreeRTOSConfig.h` | violated | `NobodySleepsGiven` does not hold |
| `shell` | three keys of six kinds, typed at any time; a line of 3 bytes, a file of 3 bytes read by 2; another task at the same file, one descriptor for both; `ShellSpec` | 2 376 000 | `OwnDescriptors`, `NoneLeaked`, `CursorInFile`, `EchoShowsLine`, `LineEnds`, `DumpShowsFile`, `Answers` |

The four systems of `lists` share no state, so a behaviour follows one of them
(the variable `user` of `MCLists`) and leaves the others as they start.

`EndFlagLast` is checked with events due before `portMAX_DELAY`. One due at exactly
that tick would go after the End Flag event (`eventlist.c:313`), contrary to
`eventlist.c:320`; the tick count comes that far after 49 days.

The bounds, and why they are enough:

* `MaxTick` stops the clock. The fork's 80 ticks cover four periods of its slower tasks
  and eight of the faster, with overload in the first; the ring's 24 cover two
  rounds with every interleaving; the application's 5200 cover its hyperperiod of
  1000 ticks five times, which is also what `RoundsComplete` cannot cover at that size.
* `SlowTicks` are the ticks at which code other than a LET may take time. In
  `fork` they are 11 to 22, past the first deadline, which a round may then miss, and rounds
  recover; in `lost_wakeup` all ticks after the start; `app` has none,
  since `MeetsDeadline` is about code that takes no more than its LET.
* `MaxMissed` bounds the ticks one suspension spans; one is enough to lose a
  wake-up.
* `HeapEvents` is one more than the number of relations, the least the
  assumption allows, so an event too many would be lost.
* In `lists`, `Deadlines`, `DueTimes` and `MaxDelay` give all orders of
  deadline and due time, ties included. `Levels` is small so that the serial
  number passes the sign change of `xLevel`; `LevelIsFree` keeps it from coming
  round to a number in use, for which the code would need 2^32 events. Four tasks put one in between two others
  on either side of the index; a value of 3 is that of the marker. The heap leaves, with what is
  kept at the start, every remainder an event block may leave, a last block that is
  too small to split among them. Three items let both pointers of the ring wrap at
  different times, with the ring full, empty and in between.
* `mutex` has a waiter of each kind: the one that may not give up, the one that may after
  a time, the one that never waits; each may be overtaken between its wake-up and
  its next look.
* In `shell`, three keys are what a line of three bytes takes, with its end; they give a byte that is
  deleted before the line ends, and, since `last_chr_is_esc` may start with any value, an escape
  sequence to its end. Keys that are lost in the receiver are not counted. `MAX_FDS` of 4 leaves one
  descriptor for two tasks. `LineFits` keeps somebody from typing more than the buffer takes:
  see the hazards below.
* `Tasks` and `Queue` have no bound on time: `TickWidth` is the number of values of
  the tick count, which wraps, as `OverflowWidth` is that of `xNumOfOverflows`. Four
  values distinguish a delay that ends before the overflow, at it, and after it,
  for each of the two lists. `since` stops at a full cycle, after which
  `vTaskDelayUntil` cannot tell the time and is not called.
* `MaxMissed` there bounds the ticks of one suspension, `MaxLock` what interrupts do
  while a queue is locked: 2, so that one unlocking has to wake both receivers.
* Tasks do not wait or call anything else of the kernel while they have the scheduler
  suspended, as the API demands, except for one nested suspension, as
  `pvPortMalloc` makes one.

Fairness (`FairTaskSpec`): the tick keeps coming, a requested switch happens,
`xTaskResumeAll` ends and a task that has suspended the scheduler resumes it. Which
functions tasks call, and whether they ever call one, is left open. In
`EqualShare` tasks of higher priority may preempt at any time.

Fairness (`ShellSpec`): the transmitter sends, interrupts are taken and other tasks go on
(weak fairness); the shell's task goes on if it can again and again (strong fairness),
since whoever gives `fio_sem` wakes the task that waits and yields to it
(`tasks.c:1775`). Nobody has to type.

Fairness (`FairSpec`): the processor executes the running task and the clock
does not stop, that is weak fairness of all tasks' steps together and of `Tick`.
No fairness among tasks is assumed: which one runs is the scheduler's doing.
The clock reaches `MaxTick`, where `RoundsComplete` looks only at rounds whose
next period begins before.

Deadlock is checked in all runs. At `MaxTick` the idle task, or a job that waits
for its LET, still takes steps.

### Findings

1. *A wake-up of the R-Servant can be lost* (`lost_wakeup`, `tasks.c:1506`). The
   hook compares `xTaskGetTickCount()` with the periods. A tick that comes while
   the scheduler is suspended calls the hook with the count of before, and when
   it is caught up the hook is not called. If the R-Servant is going to sleep at
   that moment, an event that is due at that tick stays in `xEventList` until the
   next multiple of some period, one period late; `RoundsComplete` shows that it
   is then found, unless finding 4 happens.
2. *The heap of the shell system loses free blocks* (`heap_ww`, `heap_ww.c:286`).
   A block that is joined with its neighbour is taken out of the list by size at the
   place of the first block that is as large, which need not be the neighbour. That
   block, and those up to the neighbour, leave the list; or a block that was joined
   already stays in it. In the run a block of 3 units gets lost when one of 2 is joined
   with another of 3. (`vPortFree` also counts the neighbour's bytes a second time in
   `xFreeBytesRemaining`, `heap_ww.c:335`.)
3. *A task may run on at too low a priority* (`mutex_give`, `queue.c:597`).
   `tasks.c:1908` says that with preemption "any task becoming available will
   automatically get the processor anyway". A holder that inherited its priority from
   a task whose wait then timed out gives the mutex: `vTaskPriorityDisinherit` lowers it
   below a task that is ready, and as nobody waits `xQueueGenericSend` does not
   yield. The more important task runs after the next tick.

4. *The R-Servant may sleep with its semaphore given* (`critical`, `main.c:172`). `main.c:164` says
   that the hook sends the semaphore to the R-Servant to trigger it, and `tasks.c:1751` that
   an event for a queue that is locked goes to the lock's count. The hook gives with the call
   for tasks, which ignores the lock. Between the R-Servant's second test of its semaphore, with the
   scheduler suspended, and its entry into the list of waiting tasks (`queue.c:1063-1080`), a give
   of the hook wakes nobody; the R-Servant goes to sleep, and since the semaphore now
   is full, no later give wakes it: servants that wait are never triggered again. It takes a
   tick at that place whose hook gives, for instance the one after a start of a period: the
   hook is called with the tick count of before while the scheduler is suspended. `xSemaphoreGiveFromISR` would
   have found the lock.

   The tick interrupts critical sections too, in both configurations: a section raises `basepri`
   to 191, and SysTick and PendSV have priority 127 (`FreeRTOSConfig.h:111`). In the servant system
   the tick asks for no switch, so all that comes of it is a hook's give in the middle of a task's
   (theorems of `CriticalProofs`). In the shell system, which has preemption, the tick switches
   tasks inside sections, contrary to `task.h:157`; `Tasks` and `Queue`, which take sections
   for one step, describe it with priorities of the kernel that a section masks.

Hazards that a property covers only on a condition, or none covers:

* Two keys typed before the shell takes the first stop the system: the handler loops for
  ever on a full queue (`src/src/main.c:50-59`). The code means it to, so no property forbids it;
  `Answers` says that the shell comes back for the next key unless that happened, and that nothing
  else stops it.
* A line of 127 bytes is not terminated (`fio.c:23`); `LineEnds` assumes lines that fit.
* An event due at tick 0xffffffff breaks `EndFlagLast` (above); no run has one.
* After 2^31 events the order of events of one deadline and one time turns round
  (`eventlist.c:230`, `xLevel` is signed). `Sorted` and `EventPool` order events by the code's
  own comparison and would not notice.
* `NoLostWakeup` is checked where no tick is missed (`app`); where one is, it does not hold
  (`lost_wakeup`).
* The receive interrupt is enabled before `serial_rx_queue` exists (`src/src/main.c:153`,
  `166`), and the fields of `USART2`'s interrupt priority are not all set
  (`stm32_p103.c:114-117`).
* `CR1` is changed without protection. One task and one handler do so safely, as `shell`
  shows; a second task that writes could lose the transmit interrupt.
* If descriptor 0 is closed and opened again for a file, `romfs_open` does not fill in its
  entry (`romfs.c:93`). The tasks of `Fio` do not close what they did not open.
* `fs_open` returns -2 for a path under no mount point, and `filedump` compares with
  -1 only: it reads from descriptor -2, gets an error, and prints an empty line.

`HighestFirst` depends on priorities that stay while tasks wait: `vTaskPrioritySet`
(`tasks.c:844`) and priority inheritance change the value of the event item of a
task that waits and leave it at its place. The runs give no task that call at a
queue; nothing in the repository makes it either.

## The proofs

All proofs are checked by TLAPS. The theorems of `SEFMProofs` hold for every choice of the
constants that satisfies the assumptions of `SEFM`: any number of tasks, any
graphs of servants, any LETs, periods and priorities, and code that takes any
time.

* `TypeCorrect`: `Spec => []TypeOK`. `TypeOK` is not inductive: `RMatch` looks at
  the relation of `moved`, so `TypeInv` adds that `moved` is an event from the
  transit to the trigger (`MovedIsEvent`). It rests on `CreateAllType` (what
  `vEventCreateAll` does to the list) and on one lemma for each operation of
  the kernel.
* `NoPreemption`: `Spec => []RunToCompletion`. The inductive invariant is
  `TypeInv /\ SchedInv`, where `SchedInv` has six parts: `Startup` (nothing
  happens before the first tick the hook reacts to), `Starting` (a sensor that has not
  begun then has its semaphore), `Suspension`, `Waiting` (a task waits only where
  it takes its semaphore, while it is empty), `Taken` (a servant in its job has taken
  its semaphore) and `OneAtATime` (the R-Servant runs
  only when all servants wait; a servant that is triggered or in its job is the
  running one). `RunToCompletion` by itself says nothing of semaphores and
  waiting tasks and is not preserved. The argument rests on the R-Servant's
  priority, the lowest of all: `SwitchFacts` says that the scheduler turns to it
  only when every servant waits, `FireSched` that the servant it triggers gets
  the processor at once, `TickSched` that the hook can then wake nobody but the
  R-Servant.

* `Invariant`: `Spec => []IInv`, where `IInv` adds to these three parts about
  events. It is the heart of the project; the properties below follow from it.
  * `RoundInv`: a sensor's deadline is that of the round it began last
    (`Deadlines`); a servant that has run has had its inputs (`RanClosed`); a sensor
    is in its job only when its whole task has run and the deadline has passed
    (`RoundDone`). That last servants depend on all servants of the task
    (`TaskIsRound`) is used here.
  * `EventInv`: an event carries the deadline of its round (`Stamped`); it is in one
    place, and due once it has left `xEventList` (`Placed`); a job has an
    event from each source (`HeldInputs`); and `EventPerRelation` and
    `NoArrivedTwice` themselves. `EventPerRelation` is used against itself: that an
    event is the only one on its relation makes the R-Servant's flag 1 when it is
    matched (`MatchStep`), and with at most one event for each relation the heap
    has a block for each event a job creates (`HeapSuffices`), which is
    why a job creates all its events (`CreatesAll`).
  * `MatchInv`: a flag of 2 says that the event of its relation is in the
    ready list and was matched (`FlagReady`); an event in the ready list was matched,
    or is being matched, or its servant is triggered (`ReadyFlag`); a servant that is
    triggered finds all its inputs and its flags reset (`TriggerComplete`);
    `Matching` is what the R-Servant knows on its way to the trigger.

  There is one lemma for each action that moves events or flags (`TransitStep`,
  `MatchStep`, `FireStep`, `SensorReceiveStep`, ...); `QuietStep` covers the others.
* `NoEventLost`, `NeverArrivesTwice`, `InputsArrive`, `PeriodKept`: the properties
  `EventPerRelation`, `NoArrivedTwice`, `InputsComplete` and `RoundsKeepPeriod`.
* `Refinement`: `Spec => ImplementsRounds`. A sensor's job maps to `BeginRound`
  (`RoundDone` is its guard), a servant's to `Run` (its inputs have run, by
  `BeforeCreate`), and every other step to a stutter (`RoundSteps`).

* `ListIsInitialised`: `Servants # {} => (Spec => []NoNullTransit)`. While no event was
  created (`Unborn`) nobody has begun a job, time has not reached `FirstTick`, or some
  sensor has its semaphore and a higher priority than the R-Servant, which therefore does
  not run (`UnbornStep`). With no servant at all the hook would wake the R-Servant to
  a list that nothing initialised.

The last two theorems of `SEFMProofs` are about time, and need that the tables allow what they say
(`SEFMInv` has the conditions and the invariants):

* `NoWakeupLost`: `Spec => []NoLostWakeup`, if no tick is missed (`NoTickMissed`: code takes no time
  but its LET, or it suspends the scheduler for less than a tick) and the hook tests, early enough, a divisor of each
  task's period (`HookCovers`). The run `lost_wakeup` shows what a missed tick does. The invariant `WakeInv`
  says that an event that is not due ends a round, or its sender is in its LET (`DueWhenSent`),
  so that the hook or the end of that job wakes the R-Servant when it falls due; and that
  nothing is due while everybody is on the way to waiting with its semaphore empty (`Asleep`), which
  is where a give that merges with another could have been lost;
  and that nobody sleeps with its semaphore given (`SleepsEmpty`), since a tick that comes after the second
  look is one that is missed.
* `DeadlinesMet`: `Spec => []MeetsDeadline`, for any `p` with `Schedulable(p)`: code takes no time but its LET, `p`
  is one of the periods the hook tests and divides the periods of all tasks and `FirstTick`, and the
  LETs of all servants (`Load`) come to at most `p`. The invariant `TimeInv` looks at frames of `p` ticks.
  Every servant begins at most one job in a frame (`RoundDeadline`: the deadline of the job it is to
  begin is not in the frame, that of its last one is not after it), and the
  processor does not rest in a frame while there is work: what of the frame is over is no more than
  the load of the jobs begun in it (`WorkConserved`). So every job that begins ends in its frame
  (`ExecTime`). The step that needs most is the tick while everybody waits (`IdleTick`):
  by `WakeInv` no event is due, so every servant
  whose round ends at the next tick has run (`IdleFrame`). Were some missing, take the one of
  the lowest number in the round: the events within a round go from lower to higher numbers, so all its inputs are there and due,
  and the R-Servant would have triggered it (`IdleInputs`). The tables of `app.c` are of this kind with `p` = 100 and a load of 98: TLC evaluates
  the assumption `MCSchedulable` in the run `app`. The condition is sufficient, not necessary: jobs are not
  preempted, and a longer frame would need a bound on how long one can hold up another.

`EventListProofs`, for any relations, times, widths of the counters and size of the heap, on
the condition `DueBeforeEnd` (no event is due at `portMAX_DELAY`, see `EndFlagLast`
above). The invariant is `ListInv`: types, `Started` (the list has its End Flag
event from the first creation on), `EndFlagLast`, `Sorted` and `Distinct` (no event is in two
places). The work is in the insertion: that the search stops, at a position before
the End Flag event, in front of the first event that does not come before the new one, and that
`xCompareFunction` is an order (`Order`). Then `ListTypes`, `ListIsSorted`,
`EndFlagStaysLast`; `NothingDueIsLeft`, that no event of the list is due when the first is not
to be moved, which needs that the R-Servant looks at the event with the earliest time;
and `ListImplementsPool`, by which `SEFM` may use sets.

On the same condition, and for any two markers that are not events, the module shows
`LinksFollowLists`: `RingSpec => []RingsFollow`. The operations of `list.c` are first proved to do to
the links of any rings what they should. A ring through a sequence is looked at by numbers
(`Node`): the marker is node 0 and again the one behind the last, so that "the next of each
node" and "the one before" need no case for the ends (`Linked`), and no two nodes with different numbers
are the same item (`NodesDiffer`). `InsertInRing` and `RemoveFromRing` say what `vListInsert`,
`vListInsertEnd` and `vListRemove` make of the ring they work on, `InsertOtherRing` and
`RemoveOtherRing` that a ring of the same memory stays as it is; an item that is put in must not be
linked already. The two loops, over recursive functions, are searches along the nodes:
`SearchExists` gives a function that solves the recursion, `SearchEnds` shows that any such function
ends at the first stop, which the marker (`PositionInRing`) or the last item (`FoundInRing`) is at
the latest. The invariant `RingInv` adds to `ListInv` that the memory holds both rings and nothing
else, and where the indexes are; from it, the heap's limit is the same for links and
sequences (`RingsSize`), and each operation ends with the rings of what `EventList` says
(`InsertRings`, `TransitRings`, `ReceiveRings`).

`QueueProofs`, for any tasks, queues and interrupts. The invariant `QueueInv` is about who has the
scheduler suspended: a task inside the second half of a blocking call is the running one
and has suspended it once (`InSuspension`, `SuspendedByRunning`), and only such a task
has its queue locked (`LockedInCall`). Each action of `Tasks` and `Queue` is one
of a few kinds of step (`Enters`, `Leaves`, `Nests`, `SchedulerStep`).
`LockedBySuspenderHolds` is the property of that name, `QueuesBounded` that no
queue holds more than its length, `MutexesHeld` that a mutex is taken just when it has a
holder.

It also shows `QueueRefinement`: `Spec => ImplementsBlockingQueue`, for any tasks,
queues, calls and interrupts. Besides `QueueInv` it needs `Patience`: the tick count is
a number, a call that has timed out was not to wait for `portMAX_DELAY`, and giving a mutex
never waits. The last one follows from `MutexesHeld`: a task that holds a mutex finds
it empty. With it every step of a call is a `Call`, `Wait`, `Complete`, `GiveUp` or
a stutter, every function for interrupts is an `Interrupt`, and the steps of
`Tasks` are stutters except where a deleted task is created again.

`TaskListProofs` shows `OneListHolds`: `Spec => []OneList`, where `Spec` is that of `Queue` and so
has every function of `Tasks` too, for any tasks, priorities, queues, calls and interrupts.
Five layers lead to it:
* Sequences: what is left of a list, what is put into it at a place or at its end, the first of
  it and its rest are again lists in which nobody is twice (`Good`). `Those` picks the k-th
  task that stays by the number of those before it, so `GoodThose` is an argument about
  cardinalities.
* Steps as sets. A step that moves tasks does one of three things: they become ready
  (`Readies`), one task leaves the ready list for another (`Parks`), or tasks
  become pending (`Pends`). Each kind keeps what `OneList` says of each task (`Apart`), once
  for all (`ReadiesApart`, `ParksApart`, `PendsApart`).
* Operators of `Tasks`: `AddToReadyFacts`, `RemoveFromEventListFacts` and the like say what
  they do to the sets of tasks.
* The invariant `ListInv`. `OneList` is not inductive: a function puts the task that calls it into a
  list to wait, and so that task has to be ready. `CurrentReady` says that it is, unless it has
  just left its list, and then the scheduler is suspended or a switch is requested, so
  nothing else is called before the switch. That the switch finds a task needs `IdleReady`.
  A task that is pending must not be made ready twice: `NonePending` when the scheduler runs, and
  `Apart` says it waits for no event. `Freeing` is the idle task's look at
  `xTasksWaitingTermination`. For queues: a holder is a task (`Holders`), locks are numbers
  (`Locks`), and a task on its way into a waiting list has found that it has to wait, for
  the holder of the mutex if it is one (`Placing`).
* One lemma for each action, and `QueueInv` for who has the scheduler suspended.

It then shows `HighestPriorityHolds`: `Mutexes = {} => (Spec => []HighestPriorityRuns)`. The
condition is needed: the finding of `mutex_give` is a state with mutexes in which it fails. `HighestInv`
adds to `ListInv` that `uxTopReadyPriority` is no lower than any ready task (`Top`), from
where `vTaskSwitchContext` looks for the next one; that `xTaskResumeAll` yields after missed
ticks (`TicksYield`); and that no ready task is above the running one (`NoneHigher`) while
no switch is on its way (`Settled`). The scheduler counts as settled during the whole of a
suspension: what is woken then is pending, not ready, and `xTaskResumeAll` compares it before the
suspension ends. `StepHighest` states once what a step has to keep: the tasks it makes ready, or
gives another priority, are not above the running one, or a switch is requested. Every
action has its lemma; giving a mutex back is the one that would fail, `Inherit` is not. `Top` and `TicksYield` hold with mutexes too;
`SwitchTakesHighest`, that a switch turns to a ready task no other is above, is used again below.

`WaitingProofs` is about time, with the same generality and for every width of the tick count and of
its overflow counter. Its invariant is `WaitingInv`, which adds three parts to `QueueInv`,
`ListInv` and `Patience`:
* `TypeInv`: flags, arrays of lists, ticks that are missed only during a suspension, times that are
  ticks, the counts of locks. `QueueTypes` is `Spec => []QueueTypeOK`. `QueueTypeOK` by itself is not
  inductive: that a list holds tasks needs that the idle task is always ready.
* `AllAges`, for calls that wait for a limited time. The model keeps in `left` the real time a call still has
  to wait; the code keeps the time the call began (`xTimeOut`), the overflow count at that
  time and the ticks to wait, which `xTaskCheckForTimeOut` reduces. `Ages` relates them: what is left
  is at most the wait less the ticks counted since (`Age`) and the ticks missed, and the tick
  count has not been all the way round. `TimeoutsNotEarly` (`Spec => []NoEarlyTimeout`) follows.
* `TimeInv`, for tasks that sleep. Both lists of delayed tasks are in the order of the times to wake
  (`Ascending`); a task in the one wakes in this cycle of the tick count, after
  `xNextTaskUnblockTime` at the earliest, one in the other in the next; and the real time a delay has
  left is the distance to its time to wake, less the missed ticks (`Timely`). For
  `vTaskDelayUntil`, `Periodic` says that the time it was called for last and now differ by the ticks that
  passed and whole cycles of the tick count, as long as less than a cycle passed; that is when its
  comparisons with the overflow are right. The steps are sorted as before: those that only wake tasks
  (`OnlyWakes`, `QuietTimes`), the tick, which exchanges the lists when the count overflows
  (`TickInTime`), and beginning to sleep (`SleepInTime`).

`DelaysNotShort` is `Spec => []NoEarlyWake`. `NoLateWake` says that nobody is in a list of
delayed tasks once its time is over and no tick is outstanding. For delays that is so without a condition
(`DelaysNotLongHolds`). For calls of queues it is `NobodyOversleeps`, on the condition `Untimed`:
every call waits not at all or for `portMAX_DELAY`, as all calls of `servant.c` do (lines 133, 195, 310, 460).
A call with a limit that is held up by more important tasks between noting the time and entering the list
for more than a whole cycle of the tick count sleeps longer than it was to: the comparison in
`xTaskCheckForTimeOut` cannot tell the cycles apart.

Its last two parts are about the lists of those that wait for an event. `HighestIsFirst` is
`FixedPriorities => (Spec => []HighestFirst)`, where `FixedPriorities` says that there are no mutexes and nobody
calls `vTaskPrioritySet`: the kernel changes the value of the item of a task that waits without
moving the item (`tasks.c`:844), so without the condition it does not hold. The invariant `InTurn` says that
the items follow the priorities and the lists the items; only `vTaskPlaceOnEventList` adds to a list, and
inserts in order.

`EachMessageWakes` is `TasksStay => (Spec => []WokenForEach)`: while tasks wait, every message or
free slot has a task that was woken and will test the queue, or is counted by the lock
of the queue, so that unlocking wakes one. Its invariant `ServedInv` adds who is in a list and why (`Waiters`), that a task
on its way into the list has the queue locked (`LockedHere`) and that what came since it found the queue
empty or full is counted (`NothingYet`). One lemma says what one call more or less does to the count on
both sides of a queue; the actions are its instances. `TasksStay` (no task is created or deleted after
the start) is needed because a deleted task takes its wake-up with it (`tasks.c`:892).

The last two theorems are about mutexes. `MutexesHeld` above is the first part of `Inheritance`. The third is
`PrioritiesGivenBack`: `Spec => []PriorityGivenBack`, for any number of mutexes and calls: who holds no
mutex has its own priority. A priority is raised only for the holder of a mutex that is taken, and giving one back
sets the task's own priority, whichever was inherited (`vTaskPriorityDisinherit`); `MutexCalls` says that a call that
waits for a mutex is that of a task that does not hold it.

`InheritanceHolds` is `OneMutex => (Spec => []Inheritance)`. `OneMutex` says that there is one mutex and that
nobody calls `vTaskPrioritySet`, `xTaskCreate`, `vTaskDelete` or `vTaskSuspend`, as in the instance of the run `mutex`.
With two mutexes the second part does not hold: giving one back takes away what was inherited
through the other; and a task of a lower priority may take a free mutex in front of those that wait
if the one that was woken for it is suspended or deleted. The invariant has, besides the earlier ones, these parts:
* `Values`: the items of the lists follow the priorities, so that the list of those that wait is in the
  order of their priorities, and the one that is woken is one of the highest.
* `Inheriting`: who is about to enter the list has found the mutex taken and left its holder a priority no lower than its own
  (`vTaskPriorityInherit` comes before `vTaskPlaceOnEventList`, with the scheduler suspended).
* `Handed`: a mutex that is free while tasks wait has an heir (`Heir`), a task that was woken for it, is ready and at
  its test, and is no lower than those that still wait; and `Near`: the running task is no lower than the heir,
  or a switch is on its way, and it turns to the highest (`SwitchTakesHighest`). So nobody who takes the mutex now is
  lower than those who wait; without it, a new holder would have had to inherit from them, and the code does not do that when a
  mutex is taken.

Each action keeps the mutex, the priorities and the heirs (`CalmShares`), or is one of those
that have a lemma: taking, giving, inheriting, entering the list, giving up, waking and switching.

`KernelDataProofs` is about the data of the kernel, for any sizes. Its first part is the heap. `BlocksAreApart`
is `Heap2Spec => []BlocksFillHeap`: `HeapInv` says that the blocks of the list, of the start and of
events are each a block of their own and fill the heap one behind the other (`Fill`), and that
the free bytes are those of the free blocks (`Units`). A block that is split is two blocks (`IsSplit`), whose
units are those of the one; nothing else changes a size.
`HeapCounts` is `Heap2Spec => []HeapIsCounter`. Blocks are never joined, so the first fit might
in general find nothing though memory is left. `CountInv` says why not here: before the start there is at
most one free block, and from then on all pieces of it have exactly the size of an event, except the last
(`InPieces`; the last one in use may be larger, by no more than is too little to split off). A block that comes
back therefore fits the next event, and when none does, all pieces but a last one that is too small are in use.

The second part is `RingImplementsBuffer`, for rings of any length and any items. The
invariant `StorageInv` says that `pcWriteTo` is `uxMessagesWaiting` items after `pcReadFrom`'s
successor, counted round the ring; the rest is what each copy does to the slots of the
other messages.

The third part is `RingsImplementTurns`, `KernelListsSpec => ImplementsTurns`: what `list.c` does to the
links of a ready list and of a sorted list comes to turns and an order, for any number of tasks
and any values. The invariant `KernelInv` says that there are two sequences of tasks
whose rings the links are (`TwoRings`, which uses `IsMemory` and `Holds` of `EventListProofs`), that
`pxIndex` is at the `i`-th node of the ready list, and that the values of the sorted list ascend. The
turns are then the ready list read from behind the index (`Turned`); an item that is put in at the index comes
last (`TurnedInsert`), one that is taken out at any place leaves the others in their order, also when
it is the one at the index, which steps back (`TurnedRemove`, `IndexAfter`), and moving the
index on takes the first turn (`TurnedNext`). The loop of `vListInsert` stops behind those of no higher value
(`SortedPosition`); for `portMAX_DELAY`, the value of the marker itself, it is not entered, and the
task goes to the end.

`CriticalProofs` is about the system of the servants as it is configured (`ServantSystem`): no
preemption, kernel interrupts that sections do not mask, and a task that takes what the hook gives
only at a priority below all others. It holds for any tasks, semaphores, calls and priorities besides. A task other
than the running one is between calls, about to begin a section, or has yielded inside the section of a give
(`Away`). A switch is only due while the running task is where it gives, waits, or is not in a call
(`Asked`): for what the hook gives waits a task that is too low to ask for one. `OnlyYieldsSwitch`
follows: tasks leave a section early only by the yield `queue.c:600` allows, with nothing left to do in it but to
close it, so what `SEFM` does in one step is one step for the other tasks. `Counting` says
what a test or a fetch that the hook came after still tells; `CountsStayBounded` follows. `Nesting` adds to
`OneCountIsEnough` that a count that was loaded is still right when it is stored: the hook's section
leaves it as it was, and nobody else comes in between.

`ShellProofs` begins with the files. For any tasks, files and number of descriptors, `FioInv` says
that the steps under the mutex are its holder's (`Mutex`), that a descriptor that is
claimed is open from the moment it is filled in (`ClaimsOpen`), by one task (`Unshared`), that
an open one is claimed (`OpenClaimed`), and that the entry behind it is the task's file
(`FilesKept`), though it is filled in outside of the mutex. `DescriptorsAreOwn`,
`NoDescriptorLost` and `CursorsInFiles` follow.

The shell adds five invariants for any keys, lines and files. `SerialInv` is the protocol
of the serial line: a byte is in the data register only while the semaphore is taken, and the receive interrupt
stays enabled whatever the handler and a task write to `CR1`, so that a task that runs finds the receiver
empty (`TasksFindNone`). `OutInv` is what is
sent and when, `LineInv` that the line has room (`LinesEnd`), `DumpInv` at which step the
dumped file is. The last, `ShowInv`, is about the terminal. It compares the buffer
with what the terminal will show, not with what it shows: `Soon` is the line once the data register is
sent, `Rest` the bytes that are not yet there, and `Final` the line once a message of at most
three bytes is shown. While a line is typed, the prompt and the bytes of the buffer are before the
cursor of `Final` and blanks behind it (`Typed`); while a file is dumped, the line and `Rest` together are what was
read (`Dumped`), for pieces of any size. Then a step of the transmitter or of `send_byte`
changes neither, and a byte that is received changes both alike (`CharacterShown`,
`RubbedOut`). `EchoIsLine` and `DumpIsFile` are `Legible => (ShellSpec => []EchoShowsLine)` and
the same with `DumpShowsFile`. `Legible` says that no key and no byte of a file is a zero byte, a new line or the byte
that moves the cursor back: those the terminal does not show as a character (`fio.c`:28 takes a new line that is
typed for the end of the line, which is the key `CR`). `ShellDescriptors` carries the results on
descriptors over to the whole system.

The proof showed that `Count`, what `fio_read` is asked for, must be more than 1: with 1 nothing fits before
the zero byte and `LineEnds` fails. It is 127 in the code.

Every invariant, every action property and every refinement that a passing run checks is stated by a theorem. Only model-checked
are the liveness properties (`RoundsComplete`, `EqualShare`, `Answers`), which need fairness and are out of the prover's reach.
Where a theorem has a condition, the instances of the passing runs that check its property satisfy it.

## What is not modelled

* The wrap of the 32-bit tick count: the models' clock stops before it.
* Context switches inside critical sections in the shell system, and in both systems a hook's give
  inside the section of a task: every module but `Critical` takes a critical section as one step. In the
  servant system `SEFM` has the one effect of it that lasts (finding 4).
* A tick in the middle of a list operation of `vTaskPlaceOnEventList`, whose list the hook's give reads.
* In the kernel: `xQueueGenericReset` among other tasks (only the creation of queues
  calls it; it has no critical section, and `QueueStorage` takes it for one step); queues
  created and deleted while tasks run; recursive mutexes, the alternative API,
  software timers and co-routines, which are not configured; `vTaskEndScheduler`,
  tracing, statistics and the MPU.
* `vTaskSuspend` and `vTaskDelete` of tasks at queues. A task that is suspended after
  it was woken for a message takes the wake-up with it, so `WokenForEach` would
  not hold.
* Starting the first task, stack frames and saved registers, and the assembler of the
  handlers beyond the masks they set.
* In the shell system: devfs, which nothing registers; `register_fs`, called once; the
  computation of the hashes of names; the commands `ls`, `ps` and `help`, which only print; `host` and
  `test`, which ask the debugger's host; `mmtest`, which allocates and frees at random
  (`HeapWw` has its heap). Keys other than the editing keys are one key; a zero byte is never
  typed.
* Vendored code that neither program's logic depends on: PapaBench's
  computations, the STM32 and CMSIS libraries with their register headers, ports to other
  processors, example configurations. They are nearly all of the repository's lines; the code
  of the two programs and of the kernel is what the modules map.
* `HeapWw` leaves the pointer `successor`, which
  `vPortFree` does not initialise when no block is free, to the constant
  `StackGarbage`; in the run it points nowhere into the heap.

## Plan

Done: the servant system from its rounds down to the links of its lists and the blocks of
its heap, the kernel's tasks and queues, critical sections, the shell system; theorems
about the servants and their deadlines, the event list and its links, the heap, the rings, lists, priorities and times of tasks, mutexes, queues
with what they promise and how they store it, critical sections, descriptors and the terminal.

What remains, in this order:

1. `EachMessageWakes` with tasks created after the start.
2. `InheritanceHolds` with tasks whose priority is set while nobody waits for the mutex.
3. Recursive mutexes, should a program configure them.
