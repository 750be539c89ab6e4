------------------------------- MODULE SEFMInv -------------------------------
(***************************************************************************)
(* Why the runtime is correct: an inductive invariant of SEFM, in parts    *)
(* named after what they say, and what the clock adds to it.  SEFMProofs   *)
(* proves both and, from them, the safety properties of SEFM; the runs     *)
(* check the first on their instances.                                     *)
(***************************************************************************)
EXTENDS SEFM

Triggered(d) == pc[d] = "take" /\ sem[d] = 1

(* What the R-Servant matches is an event.                                 *)
MovedIsEvent == rpc \in {"match", "fire"} => moved \in Event

-----------------------------------------------------------------------------
(* The processor.                                                          *)

(* Until the first tick the hook reacts to, nothing happens.               *)
Startup ==
  isInit =>
    /\ now < FirstTick /\ missed = 0
    /\ \A t \in Servants \cup {R} : sem[t] = 0
    /\ \A s \in Servants : pc[s] = (IF s \in Sensors THEN "first" ELSE "take")
    /\ \A s \in Servants : deadline[s] = 0
    /\ rpc = "take"

(* A sensor that has not begun then has its semaphore.                     *)
Starting ==
  \A s \in Servants : pc[s] = "first" =>
    s \in Sensors /\ deadline[s] = 0 /\ (isInit \/ sem[s] = 1)

(* Nobody with a claim to the processor waits for it while the scheduler   *)
(* is suspended.                                                           *)
Suspension ==
  /\ ~yieldDue
  /\ missed # 0 => suspended
  /\ suspended => current # Idle

(* A task waits only where it takes its semaphore, a servant only while    *)
(* its semaphore is empty.                                                 *)
Waiting ==
  /\ current \notin blocked
  /\ \A s \in Servants \cap blocked : sem[s] = 0 /\ pc[s] \in {"first", "take"}
  /\ R \in blocked => rpc = "take"
  /\ placing => suspended
  /\ placing /\ current \in Servants => sem[current] = 0 /\ pc[current] \in {"first", "take"}

(* A servant in its job has taken its semaphore, and nobody gives it.      *)
Taken == \A s \in Servants : pc[s] \in {"exec", "let"} => sem[s] = 0

(* The R-Servant runs when no servant can, and jobs run to completion.     *)
OneAtATime ==
  /\ current = R => Servants \subseteq blocked
  /\ rpc # "take" => current = R /\ ~suspended
  /\ \A s \in Servants : pc[s] \in {"exec", "let"} \/ Triggered(s) => current = s

-----------------------------------------------------------------------------
(* Rounds.                                                                 *)

(* The deadline of a sensor belongs to the round it has begun last, and    *)
(* its servants do not run ahead of it.                                    *)
Deadlines ==
  /\ \A x \in Sensors :
       /\ count[x] >= 2
       /\ deadline[x] = IF count[x] = 2 THEN 0 ELSE count[x] * Period[TaskOf[x]]
  /\ \A s \in Servants : deadline[s] <= deadline[SensorOf(s)]

(* Who has run has had its inputs.                                         *)
RanClosed ==
  \A r \in Relations : ~IsLast(r[1], r[2]) /\ Ran(r[2]) => Ran(r[1])

(* A sensor begins a round when all servants of the task are done, and not *)
(* before the deadline.                                                    *)
RoundDone ==
  \A x \in Sensors : pc[x] = "exec" /\ deadline[x] # 0 =>
    now >= deadline[x] /\ \A s \in Member(x) : Ran(s)

-----------------------------------------------------------------------------
(* Events.                                                                 *)

(* An event is on a relation, carries the deadline of its task's round,    *)
(* and waits for it if it ends the round.                                  *)
Stamped ==
  \A e \in Live :
    /\ <<e.src, e.dst>> \in Relations
    /\ e.xSlackTime = deadline[SensorOf(e.src)]
    /\ IsLast(e.src, e.dst) => e.xTime = e.xSlackTime

(* An event is in one place, and due once it has left xEventList.          *)
Placed ==
  /\ eventList \cap readyList = {}
  /\ \A s \in Servants : held[s] \cap (eventList \cup readyList) = {}
  /\ \A e \in readyList : e.xTime <= now
  /\ \A s \in Servants : \A e \in held[s] : e.xTime <= now /\ e.dst = s

(* A servant holds events, one from each source, only while it executes.   *)
HeldInputs ==
  \A s \in Servants :
    IF s \notin Sensors /\ pc[s] = "exec"
    THEN Inputs(s) \subseteq {e.src : e \in held[s]}
    ELSE held[s] = {}

(* A relation's flag says that its event is ready and has been matched.    *)
FlagReady ==
  \A r \in Relations : flag[r] = 2 =>
    \E e \in readyList \cap On(r[1], r[2]) : rpc = "match" => moved # e

(* An event that is ready has been matched, or its servant is triggered,   *)
(* or the R-Servant is about to match it.                                  *)
ReadyFlag ==
  \A e \in readyList :
    \/ flag[<<e.src, e.dst>>] = 2
    \/ Triggered(e.dst)
    \/ rpc = "match" /\ moved = e

(* A servant that is triggered finds all its inputs.                       *)
TriggerComplete ==
  \A d \in Servants : Triggered(d) =>
    /\ listSet
    /\ \A s \in Inputs(d) : flag[<<s, d>>] = 1 /\ readyList \cap On(s, d) # {}

(* What the R-Servant matches is in the ready list, and what it triggers   *)
(* has all its inputs.                                                     *)
Matching ==
  /\ rpc \in {"match", "fire"} => listSet /\ moved \in readyList
  /\ rpc = "fire" => \A s \in Inputs(moved.dst) : flag[<<s, moved.dst>>] = 2

TypeInv == TypeOK /\ MovedIsEvent
SchedInv == Startup /\ Starting /\ Suspension /\ Waiting /\ Taken /\ OneAtATime
RoundInv == Deadlines /\ RanClosed /\ RoundDone
EventInv == Stamped /\ Placed /\ HeldInputs /\ EventPerRelation /\ NoArrivedTwice
MatchInv == FlagReady /\ ReadyFlag /\ TriggerComplete /\ Matching

(* The runtime's bookkeeping agrees with itself at every step: processor,  *)
(* rounds, events and the R-Servant's flags (servant.c, eventlist.c).      *)
IInv == TypeInv /\ SchedInv /\ RoundInv /\ EventInv /\ MatchInv
-----------------------------------------------------------------------------
(* Time.  Deadlines, the hook's first tick and the periods are multiples   *)
(* of the shortest period p, so no round ends within a frame, the p ticks  *)
(* from one multiple to the next; and p ticks hold a job of every servant. *)

Multiple(p, a) == a % p = 0

(* The ticks the jobs of the servants of S take.                           *)
Work(S) == UNION {{s} \X (1 .. Let[s]) : s \in S}
Load(S) == Cardinality(Work(S))

(* No tick falls into a suspension of the scheduler: code takes no time    *)
(* but its LET, or is never caught by two ticks while it suspends.         *)
NoTickMissed == SlowTicks = {} \/ MaxMissed = 0

(* The hook tests a period that divides a task's, and in time.             *)
HookCovers(t) ==
  HookStart <= 3 * Period[t] /\ \E p \in HookPeriods : Multiple(p, Period[t])

(* The tables can be scheduled: app.c's can, with p = 100.                 *)
Schedulable(p) ==
  /\ SlowTicks = {}
  /\ p \in HookPeriods /\ Multiple(p, FirstTick)
  /\ \A t \in Tasks : /\ Multiple(p, Period[t])
                      /\ FirstTick < 3 * Period[t] /\ HookStart <= 3 * Period[t]
  /\ Load(Servants) <= p

(* An event that is not yet due ends a round, or the job that sent it is   *)
(* not over: it will wake the R-Servant when it is.                        *)
DueWhenSent ==
  \A e \in eventList : ~IsLast(e.src, e.dst) =>
    e.xTime <= now \/ (pc[e.src] = "let" /\ e.xTime = start[e.src] + Let[e.src])

Asleep ==
  /\ rpc = "take" /\ sem[R] = 0
  /\ \A s \in Servants : pc[s] \in {"first", "take"} /\ sem[s] = 0

(* Who sleeps, or is about to, has not been given its semaphore.           *)
SleepsEmpty == (R \in blocked => sem[R] = 0) /\ (placing => sem[current] = 0)

(* When nobody is about to do anything, no event is due.                   *)
WakeInv == missed = 0 /\ DueWhenSent /\ SleepsEmpty /\ (Asleep => NothingDue)

(* The frame the clock is in, and who has begun a job in it.               *)
Frame(p) == p * (now \div p)
Done(p)  == {s \in Servants : deadline[s] # 0 /\ start[s] >= Frame(p)}

(* There is something to do now.                                           *)
Busy ==
  \/ ~NothingDue \/ rpc \in {"match", "fire"}
  \/ \E s \in Servants : pc[s] = "exec" \/ sem[s] = 1

(* A job ends by the deadline of its round.                                *)
JobsFit(p) ==
  \A s \in Servants : /\ Multiple(p, deadline[s])
                      /\ deadline[s] # 0 => start[s] + Let[s] <= deadline[s]

(* A servant that has not run in a round has time to, and has not run      *)
(* since the round before ended.                                           *)
TimeToRun ==
  \A s \in Servants : ~Ran(s) =>
    /\ deadline[s] # 0 => deadline[s] <= now
    /\ deadline[SensorOf(s)] # 0 => deadline[SensorOf(s)] > now

(* A sensor begins its next round in the frame that follows the deadline.  *)
BeginsInTime(p) ==
  \A x \in Sensors :
    IF deadline[x] # 0 THEN now < deadline[x] + p
                       ELSE pc[x] \in {"first", "exec"} /\ (isInit \/ now < FirstTick + p)

(* The flags of a servant are all set only while it is triggered.          *)
FiresAtOnce ==
  \A d \in Servants :
    (\A q \in Inputs(d) : flag[<<q, d>>] = 2) => rpc = "fire" /\ moved.dst = d

InLet ==
  \A s \in Servants : pc[s] = "let" => now <= start[s] + Let[s] /\ deadline[s] # 0

(* Within a frame the processor never rests before the work is done: what  *)
(* has been done took no more than the jobs begun in the frame take.       *)
WorkConserved(p) ==
  /\ \A s \in Servants : pc[s] = "let" => start[s] + Let[s] <= Frame(p) + Load(Done(p))
  /\ Busy /\ (\A s \in Servants : pc[s] # "let") => now <= Frame(p) + Load(Done(p))

IdleWaits == current = Idle => Servants \cup {R} \subseteq blocked

TimeInv(p) ==
  /\ JobsFit(p) /\ TimeToRun /\ BeginsInTime(p)
  /\ FiresAtOnce /\ InLet /\ WorkConserved(p) /\ IdleWaits
=============================================================================
