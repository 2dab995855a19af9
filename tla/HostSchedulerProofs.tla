------------------------ MODULE HostSchedulerProofs ------------------------
(***************************************************************************)
(* Theorems about HostScheduler for every set of timers, limit and delay,  *)
(* and for every instant of the clock: TimerInvariant holds in every       *)
(* reachable state, a cancelled timer stays cancelled and silent, and the  *)
(* events of an interval keep to the grid of its period.                   *)
(***************************************************************************)
EXTENDS HostScheduler, FiniteSetTheorems, SequenceTheorems,
        WellFoundedInduction, TLAPS

-----------------------------------------------------------------------------
(* The inductive invariant *)

Started(t) == owner[t] \in {"idle", "blocked", "dropped"}
Before(t) == owner[t] \in {"new", "counted", "reserved"}

Busy == {"deliver", "send", "renew", "release"}
Ending == {"drain", "ending", "gone"}

Ops(op) == {i \in DOMAIN commands : commands[i].op = op}
Queued(t) == \E i \in Ops("add") : commands[i].task.timer = t
HasTask(t) == \E task \in tasks : task.timer = t
HasEntry(t) == \E e \in due : e.timer = t

\* A timer nobody has scheduled yet has left no trace, and one that was
\* refused is not with the worker.
Untouched ==
  \A t \in Timers :
    /\ Before(t) => state[t] = "none" /\ t \notin released
    /\ ~Started(t) => /\ state[t] \in {"none", "shutdown"}
                      /\ queue[t] = << >> /\ last[t] = NoEvent
                      /\ t \notin cancelling
    /\ Started(t) => state[t] # "none"

\* What the worker has in hand suits where it is.
HandSuits ==
  /\ worker.pc \in Busy =>
       /\ worker.task \in Task /\ Started(worker.task.timer)
       /\ worker.task.at <= worker.observed
  /\ worker.pc \notin Busy => worker.task = NoTask
  /\ worker.pc = "send" => /\ state[worker.task.timer] = "completed"
                           /\ worker.task.timer \notin Intervals
  /\ worker.pc = "renew" => worker.task.timer \in Intervals
  /\ worker.pc = "release" => state[worker.task.timer] # "active"

\* The task of a timer is in at most one place: on its way to the worker, in
\* its hands, or among its tasks with the timer's only entry in the heap.
OnePlace ==
  /\ \A i \in Ops("add") :
       LET t == commands[i].task.timer IN
       /\ commands[i].task \in Task /\ Started(t)
       /\ ~HasTask(t) /\ ~HasEntry(t) /\ ~InHand(t)
  /\ \A i, j \in Ops("add") :
       commands[i].task.timer = commands[j].task.timer => i = j
  /\ \A task \in tasks :
       /\ Started(task.timer) /\ ~InHand(task.timer)
       /\ [instant |-> task.at, timer |-> task.timer] \in due
  /\ \A a, b \in tasks : a.timer = b.timer => a = b
  /\ \A e \in due : Started(e.timer) /\ ~InHand(e.timer)
  /\ \A e, f \in due : e.timer = f.timer => e = f

\* Who is told of a cancellation is told of a timer that was cancelled.
CancelsAreMarked ==
  /\ \A t \in cancelling : Started(t) /\ state[t] # "active"
  /\ \A i \in Ops("cancel") :
       LET t == commands[i].task.timer IN
       t \in Timers /\ Started(t) /\ state[t] # "active"

\* A timer that keeps its slot has its task somewhere, unless its Add was
\* dropped with the channel.
SlotHasTask ==
  \A t \in Timers :
    /\ state[t] = "active" => t \notin released
    /\ state[t] # "none" /\ t \notin released =>
         Queued(t) \/ InHand(t) \/ HasTask(t) \/ (t \in late /\ worker.pc = "gone")

\* The worker stops once, at the Shutdown, and what it does not take from the
\* channel was sent behind it.
StopsOnce ==
  /\ \A i \in Ops("shutdown") :
       /\ stopper = "joining" /\ worker.pc \notin Ending
       /\ \A j \in Ops("add") : j > i => commands[j].task.timer \in late
       /\ \A j \in Ops("shutdown") : i = j
  /\ worker.pc \in Ending =>
       /\ stopper \in {"joining", "done"}
       /\ \A j \in Ops("add") : commands[j].task.timer \in late
  /\ worker.pc \in {"ending", "gone"} => tasks = {}
  /\ worker.pc = "gone" => commands = << >>
  /\ stopper = "done" => worker.pc = "gone"

\* A deadline has no event before it is completed, none is sent to a timer
\* that was dropped, and every event has a number.
OneEvent ==
  /\ \A t \in Timers \ Intervals :
       state[t] # "completed" => queue[t] = << >> /\ last[t] = NoEvent
  /\ worker.pc = "send" =>
       LET t == worker.task.timer IN
       queue[t] = << >> /\ last[t] = NoEvent /\ owner[t] # "dropped"
  /\ \A t \in Intervals : state[t] # "completed"
  /\ \A t \in Timers : owner[t] = "dropped" => state[t] # "active"
  /\ \A t \in Timers : queue[t] # << >> => queue[t][1].sequence > 0
  /\ \A task \in tasks : task.sequence > 0
  /\ worker.pc \in Busy => worker.task.sequence > 0
  /\ \A i \in Ops("add") : commands[i].task.sequence > 0

\* An occasion of an interval comes behind an event, by whole periods.
Follows(at, sequence, e) ==
  /\ sequence > e.sequence + e.skipped
  /\ e # NoEvent => at - e.scheduled = Delay * (sequence - e.sequence)

\* ... and behind every event its owner has received or may still receive.
ComesNext(t, at, sequence) ==
  /\ Follows(at, sequence, last[t])
  /\ queue[t] # << >> => Follows(at, sequence, queue[t][1])

\* An event in the channel is sound: not early, and for an interval it counts
\* the periods skipped and comes behind the last one received.
SoundEvent(t, e) ==
  /\ e.scheduled <= e.observed
  /\ t \in Intervals =>
       /\ Follows(e.scheduled, e.sequence, last[t])
       /\ e.observed - e.scheduled >= Delay * e.skipped
       /\ e.observed - e.scheduled < Delay * (e.skipped + 1)

OnTheGrid ==
  /\ \A i \in Ops("add") :
       LET k == commands[i].task IN
       k.timer \in Intervals => ComesNext(k.timer, k.at, k.sequence)
  /\ \A k \in tasks : k.timer \in Intervals => ComesNext(k.timer, k.at, k.sequence)
  /\ LET k == worker.task IN
     /\ worker.pc = "deliver" /\ k.timer \in Intervals =>
          ComesNext(k.timer, k.at, k.sequence)
     /\ worker.pc = "renew" =>
          ComesNext(k.timer, k.at + Delay * Elapsed, k.sequence + Elapsed)
  /\ \A t \in Timers : queue[t] # << >> => SoundEvent(t, queue[t][1])

SchedulerInvariant ==
  /\ TypeOK
  /\ SlotsBalance
  /\ Untouched
  /\ HandSuits
  /\ OnePlace
  /\ CancelsAreMarked
  /\ SlotHasTask
  /\ StopsOnce
  /\ OneEvent
  /\ CompletedHasItsEvent
  /\ OnTheGrid

-----------------------------------------------------------------------------
(* The heap, the command channel and the fields of tasks *)

Less == {p \in Nat \X Nat : p[1] < p[2]}

(* A nonempty set of numbers has a least one.                              *)
LEMMA LeastNumber ==
  ASSUME NEW S, S \subseteq Nat, S # {}
  PROVE  \E x \in S : \A y \in S : x <= y
<1>1. IsWellFoundedOn(Less, Nat)
  BY Zenon, NatLessThanWellFounded DEF Less, OpToRel
<1>2. PICK x \in S : \A y \in S : <<y, x>> \notin Less
  BY <1>1, WFMin
<1>3. ASSUME NEW y \in S PROVE x <= y
  <2>1. x \in Nat /\ y \in Nat /\ <<y, x>> \in Nat \X Nat
    OBVIOUS
  <2>2. ~(y < x)
    BY <1>2, <2>1 DEF Less
  <2> QED BY <2>1, <2>2
<1> QED BY <1>3

(* The heap's peek returns one of its entries: the order on instants and   *)
(* timer ids has a least element in every heap that is not empty.          *)
LEMMA FirstDueIsDue ==
  ASSUME due \subseteq DueEntry, due # {}
  PROVE  FirstDue \in due
<1> DEFINE instants == {e.instant : e \in due}
<1>1. PICK i \in instants : \A j \in instants : i <= j
  <2> instants \subseteq Nat /\ instants # {}
    BY DEF DueEntry
  <2> HIDE DEF instants
  <2> QED BY LeastNumber
<1> DEFINE ids == {e.timer : e \in {f \in due : f.instant = i}}
<1>2. PICK u \in ids : \A v \in ids : u <= v
  <2> ids \subseteq Nat /\ ids # {}
    BY <1>1, ConstantsAssumption DEF DueEntry
  <2> HIDE DEF ids
  <2> QED BY LeastNumber
<1>3. PICK e \in due : e.instant = i /\ e.timer = u
  BY <1>2
<1>4. ASSUME NEW f \in due
      PROVE  e.instant < f.instant \/ (e.instant = f.instant /\ e.timer <= f.timer)
  <2>1. f.instant \in Nat /\ e.instant \in Nat /\ e.instant <= f.instant
    BY <1>1, <1>3 DEF DueEntry
  <2>2. e.instant = f.instant => e.timer <= f.timer
    BY <1>2, <1>3
  <2> QED BY <2>1, <2>2
<1> QED BY <1>4 DEF FirstDue

(* The fields of a task; a model value no timer has stands for no task.    *)
LEMMA TaskFields ==
  /\ \A k \in Task : k.timer \in Timers /\ k.at \in Nat /\ k.sequence \in Nat
  /\ \A e \in DueEntry : e.timer \in Timers /\ e.instant \in Nat
  /\ NoTask.timer \notin Timers /\ NoTask \notin Task
BY ConstantsAssumption DEF Task, NoTask, DueEntry

\* A command is sent: the channel has one more, the last one.
Sends(c) ==
  /\ commands' \in Seq(SystemCommand)
  /\ Len(commands) \in Nat
  /\ DOMAIN commands' = DOMAIN commands \cup {Len(commands) + 1}
  /\ commands'[Len(commands) + 1] = c
  /\ \A i \in DOMAIN commands :
       i \in Nat /\ i <= Len(commands) /\ commands'[i] = commands[i]

\* A command is taken: the first one is gone, the others move up.
Takes ==
  /\ commands' \in Seq(SystemCommand)
  /\ 1 \in DOMAIN commands /\ Head(commands) = commands[1]
  /\ commands[1] \in SystemCommand
  /\ \A i \in DOMAIN commands : i \in Nat \ {0}
  /\ \A i \in DOMAIN commands' :
       /\ i \in Nat \ {0} /\ i + 1 \in DOMAIN commands
       /\ commands'[i] = commands[i + 1]
  /\ \A i \in DOMAIN commands :
       i # 1 => i - 1 \in DOMAIN commands' /\ commands'[i - 1] = commands[i]

(* A send on the command channel, by position.                             *)
LEMMA AppendSends ==
  ASSUME TypeOK, NEW c \in SystemCommand, commands' = Append(commands, c)
  PROVE  Sends(c)
BY DEF Sends, TypeOK

(* A receive from the command channel, by position.                        *)
LEMMA TailTakes ==
  ASSUME TypeOK, NEW op, TakesCommand(op)
  PROVE  Takes /\ commands[1].op = op
BY DEF Takes, TypeOK, TakesCommand

(* What is left after a command was taken was there before, one further    *)
(* down.                                                                   *)
LEMMA TakesOps ==
  ASSUME Takes, NEW op
  PROVE  \A i \in Ops(op)' :
           /\ i \in Nat \ {0} /\ i + 1 \in Ops(op)
           /\ commands'[i] = commands[i + 1]
BY DEF Takes, Ops

(* schedule sends one Add, with the timer's first task.                    *)
LEMMA SendAddSends ==
  ASSUME TypeOK, NEW t \in Timers, SendAdd(t), ~ReceiverGone
  PROVE  /\ [timer |-> t, at |-> now + Delay, sequence |-> 1] \in Task
         /\ Sends(Add([timer |-> t, at |-> now + Delay, sequence |-> 1]))
<1> DEFINE k == [timer |-> t, at |-> now + Delay, sequence |-> 1]
<1>1. k \in Task
  BY ConstantsAssumption DEF TypeOK, Task
<1>2. Add(k) \in SystemCommand
  BY <1>1 DEF Add, SystemCommand
<1>3. commands' = Append(commands, Add(k))
  BY DEF SendAdd
<1> HIDE DEF k
<1> QED BY <1>1, <1>2, <1>3, AppendSends DEF k

(* cancel sends one Cancel.                                                *)
LEMMA SendCancelSends ==
  ASSUME TypeOK, NEW t \in Timers, SendCancel(t), ~ReceiverGone
  PROVE  Sends(Cancel(t))
<1>1. Cancel(t) \in SystemCommand
  BY DEF Cancel, SystemCommand, Task
<1> QED BY <1>1, AppendSends DEF SendCancel

(* shutdown sends one Shutdown.                                            *)
LEMMA SendShutdownSends ==
  ASSUME TypeOK, SendShutdown
  PROVE  Sends(Shutdown)
<1>1. Shutdown \in SystemCommand
  BY DEF Shutdown, SystemCommand
<1> QED BY <1>1, AppendSends DEF SendShutdown

-----------------------------------------------------------------------------
(* What every step may do *)

\* The actions that leave the command channel, the tasks, the heap and the
\* task in hand alone, and those that change where the worker is and no more.
Aside ==
  \/ BeginShutdown \/ JoinWorker \/ Tick
  \/ \E t \in Timers :
       \/ TakeSlot(t) \/ RecheckRunning(t) \/ Own(t) \/ MarkCancelled(t)
       \/ (SendAdd(t) /\ ReceiverGone) \/ (SendCancel(t) /\ ReceiverGone)

(* Every step is one that leaves what the worker owns alone, or sends it a *)
(* command, or is the worker's.                                            *)
LEMMA StepKinds ==
  ASSUME Next
  PROVE  \/ Worker
         \/ Aside
         \/ SendShutdown
         \/ \E t \in Timers : (SendAdd(t) \/ SendCancel(t)) /\ ~ReceiverGone
BY DEF Next, Schedule, Aside

(* What an Aside step leaves alone.                                        *)
LEMMA AsideFrame ==
  ASSUME Aside
  PROVE  UNCHANGED <<commands, worker, tasks, due, late>>
BY DEF Aside, TakeSlot, RecheckRunning, Own, Receive, Wake, Drop, MarkCancelled,
       SendAdd, SendCancel, BeginShutdown, JoinWorker, Tick

\* Nothing is undone: a timer that was scheduled stays so, a state that is
\* not active any more is final, and a slot is released once.
Irrevocable ==
  \A t \in Timers :
    /\ Started(t) => Started(t)'
    /\ state[t] \notin {"none", "active"} => state'[t] = state[t]
    /\ Started(t) /\ state[t] # "active" => state'[t] = state[t]
    /\ Started(t) => state'[t] # "none"

(* Every step is irrevocable in this sense.                                *)
LEMMA StepsAreIrrevocable ==
  ASSUME TypeOK, Untouched, HandSuits, Next
  PROVE  Irrevocable
<1>0. \A t \in Timers : Started(t) => state[t] # "none"
  BY DEF Untouched
<1> USE <1>0 DEF Irrevocable, Started, TypeOK
<1>1. ASSUME NEW t \in Timers, Schedule(t) \/ Own(t) \/ MarkCancelled(t) \/ SendCancel(t)
      PROVE  Irrevocable
  <2>1. CASE SendAdd(t)
    BY <2>1 DEF SendAdd, Moves, Untouched, Before
  <2>2. CASE TakeSlot(t) \/ RecheckRunning(t)
    BY <2>2 DEF TakeSlot, RecheckRunning, Moves
  <2>3. CASE Own(t)
    BY <2>3 DEF Own, Receive, Wake, Drop, Moves
  <2>4. CASE MarkCancelled(t) \/ SendCancel(t)
    BY <2>4 DEF MarkCancelled, SendCancel
  <2> QED BY <1>1, <2>1, <2>2, <2>3, <2>4 DEF Schedule
<1>2. CASE CompleteDeadline
  BY <1>2 DEF CompleteDeadline
<1>3. CASE HandleAdd
  BY <1>3 DEF HandleAdd, MarkShutdown
<1>4. CASE DrainTask
  BY <1>4 DEF DrainTask, MarkShutdown
<1>5. CASE UNCHANGED <<owner, state>>
  BY <1>5
<1>6. CASE Worker /\ ~(CompleteDeadline \/ HandleAdd \/ DrainTask)
  <2>1. UNCHANGED <<owner, state>>
    BY <1>6 DEF Worker, PopStale, PopDue, Wait, Timeout, SendDeadline, DeliverInterval,
           Renew, ReleaseTask, HandleCancel, HandleShutdown, StopWorker, EndWorker
  <2> QED BY <1>5, <2>1
<1>7. CASE BeginShutdown \/ SendShutdown \/ JoinWorker \/ Tick
  BY <1>5, <1>7 DEF BeginShutdown, SendShutdown, JoinWorker, Tick
<1> QED BY <1>1, <1>2, <1>3, <1>4, <1>6, <1>7 DEF Next

-----------------------------------------------------------------------------
(* The parts of the invariant, one by one *)

(* The worker has in hand the task of a timer that was scheduled, due when *)
(* it was taken, and nothing when it waits.                                *)
LEMMA HandStep ==
  ASSUME TypeOK, Untouched, HandSuits, OnePlace, Next
  PROVE  HandSuits'
<1>1. Irrevocable
  BY StepsAreIrrevocable
<1> USE <1>1, TaskFields DEF Irrevocable, HandSuits, Busy
<1>2. CASE UNCHANGED worker
  <2>1. worker.pc \in Busy => worker.task.timer \in Timers
    OBVIOUS
  <2>2. worker.pc = "release" => state[worker.task.timer] # "none"
    BY <2>1 DEF Untouched
  <2> QED BY <1>2, <2>1, <2>2
<1>3. CASE PopDue
  <2>1. PICK task \in tasks :
          /\ task.at = FirstDue.instant
          /\ worker' = [pc |-> IF state[task.timer] = "active" THEN "deliver" ELSE "release",
                        task |-> task, observed |-> now]
    BY <1>3 DEF PopDue, TasksOf
  <2>2. task.at <= now
    BY <1>3, <2>1 DEF PopDue, IsDue
  <2>3. task \in Task /\ Started(task.timer) /\ UNCHANGED <<owner, state>>
    BY <1>3 DEF PopDue, OnePlace, TypeOK
  <2> QED BY <2>1, <2>2, <2>3
<1>4. CASE CompleteDeadline
  <2>1. worker.task.timer \in Timers
    BY <1>4 DEF CompleteDeadline
  <2>2. /\ worker'.task = worker.task /\ worker'.observed = worker.observed
        /\ \/ worker'.pc = "send" /\ state'[worker.task.timer] = "completed"
           \/ worker'.pc = "release" /\ state'[worker.task.timer] # "active"
    BY <1>4, <2>1 DEF CompleteDeadline, To, TypeOK
  <2>3. worker.pc = "deliver" /\ worker.task.timer \notin Intervals
    BY <1>4 DEF CompleteDeadline
  <2> QED BY <2>1, <2>2, <2>3
<1>5. CASE SendDeadline \/ DeliverInterval
  BY <1>5 DEF SendDeadline, DeliverInterval, To, TypeOK
<1>6. CASE Renew
  <2>1. CASE state[worker.task.timer] = "active"
    BY <1>6, <2>1 DEF Renew, PutDown
  <2>2. CASE state[worker.task.timer] # "active"
    <3>1. /\ worker'.task = worker.task /\ worker'.observed = worker.observed
          /\ worker'.pc = "release" /\ UNCHANGED <<state, owner>>
      BY <1>6, <2>2 DEF Renew, To, TypeOK
    <3> QED BY <1>6, <2>2, <3>1 DEF Renew
  <2> QED BY <2>1, <2>2
<1>7. CASE ReleaseTask
  BY <1>7 DEF ReleaseTask, PutDown
<1>8. CASE \/ Wait \/ Timeout \/ StopWorker \/ EndWorker
           \/ HandleAdd \/ HandleCancel \/ HandleShutdown
  BY <1>8 DEF Wait, Timeout, StopWorker, EndWorker, HandleAdd, HandleCancel,
              HandleShutdown, TakesCommand, To, TypeOK
<1>9. CASE Aside \/ SendShutdown \/ \E t \in Timers : SendAdd(t) \/ SendCancel(t)
  BY <1>2, <1>9, AsideFrame DEF SendShutdown, SendAdd, SendCancel
<1>10. CASE PopStale \/ DrainTask
  BY <1>2, <1>10 DEF PopStale, DrainTask
<1> QED BY <1>3, <1>4, <1>5, <1>6, <1>7, <1>8, <1>9, <1>10, StepKinds DEF Worker

(* A timer that was not scheduled has no state, no slot given back and no  *)
(* event.                                                                  *)
LEMMA UntouchedStep ==
  ASSUME TypeOK, Untouched, HandSuits, OnePlace, CancelsAreMarked, Next
  PROVE  Untouched'
<1> USE DEF Untouched, Before, Started, TypeOK
<1>1. ASSUME NEW t \in Timers, Schedule(t) \/ Own(t) \/ MarkCancelled(t) \/ SendCancel(t)
      PROVE  Untouched'
  <2>1. CASE TakeSlot(t) \/ RecheckRunning(t)
    BY <2>1 DEF TakeSlot, RecheckRunning, Moves
  <2>2. CASE SendAdd(t)
    BY SMTT(60), <2>2 DEF SendAdd, Moves, ReleaseSlot
  <2>3. CASE Own(t)
    BY <2>3 DEF Own, Receive, Wake, Drop, Moves, Take
  <2>4. CASE MarkCancelled(t)
    BY <2>4 DEF MarkCancelled
  <2>5. CASE SendCancel(t)
    BY <2>5 DEF SendCancel, ReleaseSlot, CancelsAreMarked
  <2> QED BY <1>1, <2>1, <2>2, <2>3, <2>4, <2>5 DEF Schedule
<1>2. CASE CompleteDeadline \/ SendDeadline \/ DeliverInterval \/ ReleaseTask
  <2>1. worker.task.timer \in Timers /\ Started(worker.task.timer)
    BY <1>2, TaskFields DEF CompleteDeadline, SendDeadline, DeliverInterval, ReleaseTask,
                HandSuits, Busy
  <2> QED BY <1>2, <2>1 DEF CompleteDeadline, SendDeadline, DeliverInterval, ReleaseTask,
                            TrySend, ReleaseSlot
<1>3. CASE HandleAdd
  <2> DEFINE u == Head(commands).task.timer
  <2>1. u \in Timers /\ Started(u)
    BY <1>3, TailTakes, TaskFields DEF HandleAdd, Takes, OnePlace, Ops
  <2> QED BY <1>3, <2>1 DEF HandleAdd, MarkShutdown, ReleaseSlot
<1>4. CASE HandleCancel
  <2> DEFINE u == Head(commands).task.timer
  <2>1. u \in Timers /\ Started(u)
    BY <1>4, TailTakes, TaskFields DEF HandleCancel, Takes, CancelsAreMarked, Ops
  <2> QED BY <1>4, <2>1 DEF HandleCancel, ReleaseSlot
<1>5. CASE DrainTask
  <2>1. PICK task \in tasks : MarkShutdown(task.timer)
    BY <1>5 DEF DrainTask
  <2>2. task.timer \in Timers /\ Started(task.timer)
    BY TaskFields DEF OnePlace
  <2> QED BY <1>5, <2>1, <2>2 DEF DrainTask, MarkShutdown, ReleaseSlot
<1>6. CASE UNCHANGED <<owner, state, released, queue, last, cancelling>>
  BY <1>6
<1>7. CASE \/ PopStale \/ PopDue \/ Wait \/ Timeout \/ Renew \/ HandleShutdown
           \/ StopWorker \/ EndWorker \/ BeginShutdown \/ SendShutdown \/ JoinWorker \/ Tick
  BY <1>6, <1>7 DEF PopStale, PopDue, Wait, Timeout, Renew, HandleShutdown, StopWorker,
                    EndWorker, BeginShutdown, SendShutdown, JoinWorker, Tick
<1> QED BY <1>1, <1>2, <1>3, <1>4, <1>5, <1>7 DEF Next, Worker

(* The task of a timer is in at most one place, whatever the order in      *)
(* which commands are sent and taken and tasks become due.                 *)
LEMMA PlaceStep ==
  ASSUME TypeOK, Untouched, HandSuits, OnePlace, CancelsAreMarked, Next
  PROVE  OnePlace'
<1>1. \A t \in Timers : Started(t) => Started(t)'
  BY StepsAreIrrevocable DEF Irrevocable
<1>2. /\ \A k \in tasks : k.timer \in Timers
      /\ \A e \in due : e.timer \in Timers /\ e \in DueEntry
      /\ \A i \in Ops("add") : commands[i].task.timer \in Timers
      /\ worker.pc \in Busy => worker.task.timer \in Timers
      /\ worker.pc \notin Busy => worker.task.timer \notin Timers
  BY TaskFields DEF TypeOK, OnePlace, HandSuits
<1> USE <1>1, <1>2 DEF OnePlace, Ops, HasTask, HasEntry, InHand
<1>3. CASE UNCHANGED <<commands, tasks, due, worker.task>>
  BY <1>3
<1>4. CASE /\ UNCHANGED <<tasks, due, worker>>
           /\ \E c : Sends(c) /\ c.op # "add"
  BY <1>4 DEF Sends
<1>5. ASSUME NEW t \in Timers, SendAdd(t), ~ReceiverGone
      PROVE  OnePlace'
  <2> DEFINE k == [timer |-> t, at |-> now + Delay, sequence |-> 1]
  <2>1. k \in Task /\ Sends(Add(k)) /\ UNCHANGED <<tasks, due, worker>>
    BY <1>5, SendAddSends DEF SendAdd
  <2>2. k.timer = t /\ Add(k).op = "add" /\ Add(k).task = k
    BY DEF Add
  <2>3. ~Started(t) /\ Started(t)'
    BY <1>5 DEF SendAdd, Moves, Started, TypeOK, ReceiverGone
  <2>4. ~HasTask(t) /\ ~HasEntry(t) /\ ~InHand(t) /\ ~Queued(t)
    BY ZenonT(60), <2>3 DEF HandSuits, Queued
  <2> HIDE DEF k
  <2> QED BY <2>1, <2>2, <2>3, <2>4 DEF Sends, Queued
<1>6. CASE HandleAdd
  <2> DEFINE k == commands[1].task
  <2>1. /\ Takes /\ k \in Task /\ 1 \in Ops("add") /\ k.timer \in Timers
        /\ UNCHANGED owner /\ worker'.task = worker.task
    BY <1>6, TailTakes DEF HandleAdd, TakesCommand, Takes, To, TypeOK
  <2>2. \/ UNCHANGED <<tasks, due>>
        \/ /\ tasks' = tasks \cup {k}
           /\ due' = due \cup {[instant |-> k.at, timer |-> k.timer]}
    BY <1>6, <2>1 DEF HandleAdd, Takes
  <2>3. ~HasTask(k.timer) /\ ~HasEntry(k.timer) /\ ~InHand(k.timer) /\ Started(k.timer)
    BY <2>1
  <2> HIDE DEF k
  <2>4. \A i \in Ops("add")' :
          /\ i \in Nat \ {0} /\ i + 1 \in Ops("add") /\ commands'[i] = commands[i + 1]
    BY <2>1, TakesOps
  <2>5. \A i \in Ops("add")' : commands'[i].task.timer # k.timer
    BY <2>1, <2>4 DEF k
  <2>6. \A i, j \in Ops("add")' :
          commands'[i].task.timer = commands'[j].task.timer => i = j
    <3> TAKE i, j \in Ops("add")'
    <3>1. i \in Nat /\ j \in Nat /\ (i + 1 = j + 1 => i = j)
      BY <2>4
    <3> QED BY <2>4, <3>1
  <2> HIDE DEF Ops
  <2> QED BY <2>1, <2>2, <2>3, <2>4, <2>5, <2>6
<1>7. CASE HandleCancel \/ HandleShutdown
  <2>1. /\ Takes /\ UNCHANGED <<owner, due>> /\ worker'.task = worker.task
        /\ tasks' \subseteq tasks
    BY <1>7, TailTakes DEF HandleCancel, HandleShutdown, TakesCommand, To, TypeOK
  <2>2. \A i \in Ops("add")' :
          /\ i \in Nat \ {0} /\ i + 1 \in Ops("add") /\ commands'[i] = commands[i + 1]
    BY <2>1, TakesOps
  <2>3. \A i, j \in Ops("add")' :
          commands'[i].task.timer = commands'[j].task.timer => i = j
    <3> TAKE i, j \in Ops("add")'
    <3>1. i \in Nat /\ j \in Nat /\ (i + 1 = j + 1 => i = j)
      BY <2>2
    <3> QED BY <2>2, <3>1
  <2> HIDE DEF Ops
  <2> QED BY <2>1, <2>2, <2>3
<1>8. CASE DrainTask
  <2>1. tasks' \subseteq tasks /\ UNCHANGED <<commands, due, worker, owner>>
    BY <1>8 DEF DrainTask
  <2> QED BY <2>1
<1>9. CASE EndWorker
  <2>1. UNCHANGED <<tasks, due, owner>> /\ worker'.task = worker.task /\ commands' = << >>
    BY <1>9 DEF EndWorker, To, TypeOK
  <2> QED BY <2>1
<1>10. CASE PopStale
  <2>1. FirstDue \in due /\ \A k \in tasks : k.timer # FirstDue.timer
    BY <1>10, FirstDueIsDue DEF PopStale, IsDue, TasksOf, TypeOK
  <2> QED BY <1>10, <2>1 DEF PopStale
<1>11. CASE PopDue
  <2>1. FirstDue \in due
    BY <1>11, FirstDueIsDue DEF PopDue, IsDue, TypeOK
  <2>2. PICK k \in tasks : /\ k.timer = FirstDue.timer /\ worker'.task = k
                           /\ tasks' = tasks \ {k}
    BY <1>11 DEF PopDue, TasksOf
  <2> QED BY <1>11, <2>1, <2>2 DEF PopDue
<1>12. CASE Renew
  <2> DEFINE t == worker.task.timer
  <2> DEFINE next == worker.task.at + Delay * Elapsed
  <2>1. CASE state[t] # "active"
    BY <1>3, <1>12, <2>1 DEF Renew, To, TypeOK
  <2>2. CASE state[t] = "active"
    <3>1. t \in Timers /\ Started(t)
      BY <1>12 DEF Renew, HandSuits, Busy
    <3> DEFINE n == worker.task.sequence + Elapsed
    <3>2. /\ tasks' = tasks \cup {[timer |-> t, at |-> next, sequence |-> n]}
          /\ due' = due \cup {[instant |-> next, timer |-> t]}
          /\ worker' = [pc |-> "fire", task |-> NoTask, observed |-> 0]
          /\ UNCHANGED <<commands, owner>>
      BY <1>12, <2>2 DEF Renew, PutDown
    <3>4. worker'.task.timer \notin Timers
      BY <3>2, TaskFields
    <3>3. ~HasTask(t) /\ ~HasEntry(t) /\ ~Queued(t)
      BY DEF Queued
    <3> HIDE DEF t, next, n
    <3> QED BY <3>1, <3>2, <3>3, <3>4 DEF Queued
  <2> QED BY <2>1, <2>2
<1>13. CASE ReleaseTask
  BY <1>13, TaskFields DEF ReleaseTask, PutDown
<1>14. CASE \/ Wait \/ Timeout \/ StopWorker
            \/ CompleteDeadline \/ SendDeadline \/ DeliverInterval
  BY <1>3, <1>14 DEF Wait, Timeout, StopWorker, CompleteDeadline, SendDeadline,
                     DeliverInterval, To, TypeOK
<1>15. CASE Aside
  BY <1>3, <1>15, AsideFrame
<1>16. CASE SendShutdown
  BY <1>4, <1>16, SendShutdownSends DEF SendShutdown, Shutdown
<1>17. ASSUME NEW t \in Timers, SendCancel(t), ~ReceiverGone
       PROVE  OnePlace'
  BY <1>4, <1>17, SendCancelSends DEF SendCancel, Cancel
<1> QED BY <1>5, <1>6, <1>7, <1>8, <1>9, <1>10, <1>11, <1>12, <1>13, <1>14, <1>15,
           <1>16, <1>17, StepKinds DEF Worker

(* Only cancelled timers are on their way to being cancelled.              *)
LEMMA CancelStep ==
  ASSUME TypeOK, Untouched, HandSuits, OnePlace, CancelsAreMarked, Next
  PROVE  CancelsAreMarked'
<1>1. \A t \in Timers : /\ Started(t) => Started(t)'
                        /\ Started(t) /\ state[t] # "active" => state'[t] # "active"
  BY StepsAreIrrevocable DEF Irrevocable
<1> USE <1>1 DEF CancelsAreMarked, Ops
<1>2. cancelling \subseteq Timers
  BY DEF TypeOK
<1>3. ASSUME UNCHANGED cancelling, Takes \/ commands' = << >> \/ UNCHANGED commands
      PROVE  CancelsAreMarked'
  <2>1. CASE Takes
    <3>1. \A i \in Ops("cancel")' : i + 1 \in Ops("cancel") /\ commands'[i] = commands[i + 1]
      BY <2>1, TakesOps
    <3> HIDE DEF Ops
    <3> QED BY <1>2, <1>3, <3>1
  <2>2. CASE commands' = << >> \/ UNCHANGED commands
    BY <1>2, <1>3, <2>2
  <2> QED BY <1>3, <2>1, <2>2
<1>4. ASSUME NEW t \in Timers, SendAdd(t)
      PROVE  CancelsAreMarked'
  <2>1. CASE ReceiverGone
    BY <1>3, <1>4, <2>1 DEF SendAdd
  <2>2. CASE ~ReceiverGone
    BY <1>2, <1>4, <2>2, SendAddSends DEF SendAdd, Sends, Add
  <2> QED BY <2>1, <2>2
<1>5. ASSUME NEW t \in Timers, SendCancel(t)
      PROVE  CancelsAreMarked'
  <2>1. Started(t) /\ state[t] # "active"
    BY <1>5 DEF SendCancel
  <2>2. CASE ReceiverGone
    BY <1>2, <1>5, <2>2 DEF SendCancel
  <2>3. CASE ~ReceiverGone
    BY <1>2, <1>5, <2>1, <2>3, SendCancelSends DEF SendCancel, Sends, Cancel
  <2> QED BY <2>2, <2>3
<1>6. CASE SendShutdown
  BY <1>2, <1>6, SendShutdownSends DEF SendShutdown, Sends, Shutdown
<1>7. CASE HandleAdd \/ HandleCancel \/ HandleShutdown
  BY <1>3, <1>7, TailTakes DEF HandleAdd, HandleCancel, HandleShutdown
<1>8. ASSUME NEW t \in Timers, MarkCancelled(t)
      PROVE  CancelsAreMarked'
  <2>1. Started(t)
    BY <1>8 DEF MarkCancelled, Untouched
  <2> QED BY <1>2, <1>8, <2>1 DEF MarkCancelled, TypeOK
<1>9. ASSUME NEW t \in Timers, TakeSlot(t) \/ RecheckRunning(t) \/ Own(t)
      PROVE  CancelsAreMarked'
  BY <1>3, <1>9 DEF TakeSlot, RecheckRunning, Own, Receive, Wake, Drop
<1>10. CASE \/ PopStale \/ PopDue \/ Wait \/ Timeout \/ CompleteDeadline \/ SendDeadline
            \/ DeliverInterval \/ Renew \/ ReleaseTask \/ DrainTask \/ StopWorker
            \/ EndWorker \/ BeginShutdown \/ JoinWorker \/ Tick
  BY <1>3, <1>10 DEF PopStale, PopDue, Wait, Timeout, CompleteDeadline, SendDeadline,
       DeliverInterval, Renew, ReleaseTask, DrainTask, StopWorker, EndWorker,
       BeginShutdown, JoinWorker, Tick
<1> QED BY <1>4, <1>5, <1>6, <1>7, <1>8, <1>9, <1>10 DEF Next, Worker, Schedule

(* A timer that keeps its slot keeps its task somewhere: no order of       *)
(* cancellation, delivery and shutdown drops the one without the other.    *)
LEMMA SlotStep ==
  ASSUME TypeOK, Untouched, HandSuits, OnePlace, CancelsAreMarked, SlotHasTask,
         StopsOnce, Next
  PROVE  SlotHasTask'
<1>1. \A t \in Timers :
        /\ Started(t) /\ state[t] # "active" => state'[t] = state[t]
        /\ state[t] \notin {"none", "active"} => state'[t] = state[t]
  BY StepsAreIrrevocable DEF Irrevocable
<1> USE <1>1 DEF SlotHasTask, HasTask, InHand
<1>2. CASE /\ UNCHANGED <<state, released, tasks, late, worker.task>>
           /\ \A t \in Timers : Queued(t) => Queued(t)'
           /\ worker'.pc = "gone" <=> worker.pc = "gone"
  BY <1>2
<1>3. ASSUME UNCHANGED commands
      PROVE  \A t \in Timers : Queued(t) => Queued(t)'
  BY <1>3 DEF Queued, Ops
<1>4. ASSUME NEW c, Sends(c)
      PROVE  \A t \in Timers : Queued(t) => Queued(t)'
  BY <1>4 DEF Queued, Ops, Sends
<1>5. ASSUME Takes
      PROVE  \A t \in Timers :
               Queued(t) => \/ Queued(t)'
                            \/ 1 \in Ops("add") /\ commands[1].task.timer = t
  BY <1>5 DEF Queued, Ops, Takes
<1>6. ASSUME NEW t \in Timers, SendAdd(t)
      PROVE  SlotHasTask'
  <2>1. CASE ReceiverGone
    BY <1>3, <1>6, <2>1 DEF SendAdd, ReleaseSlot, TypeOK
  <2>2. CASE ~ReceiverGone
    <3> DEFINE k == [timer |-> t, at |-> now + Delay, sequence |-> 1]
    <3>1. Sends(Add(k))
      BY <1>6, <2>2, SendAddSends
    <3>2. Queued(t)'
      BY <3>1 DEF Queued, Ops, Sends, Add
    <3>3. /\ UNCHANGED <<released, tasks, worker>> /\ late \subseteq late'
          /\ state' = [state EXCEPT ![t] = "active"]
          /\ owner[t] = "reserved"
      BY <1>6, <2>2 DEF SendAdd, Moves
    <3>4. t \notin released
      BY <3>3 DEF Untouched, Before
    <3> HIDE DEF k
    <3> QED BY <1>4, <3>1, <3>2, <3>3, <3>4 DEF TypeOK
  <2> QED BY <2>1, <2>2
<1>7. ASSUME NEW t \in Timers, SendCancel(t)
      PROVE  SlotHasTask'
  <2>1. CASE ReceiverGone
    <3>1. state[t] # "active"
      BY <1>7 DEF SendCancel, CancelsAreMarked
    <3> QED BY <1>3, <1>7, <2>1, <3>1 DEF SendCancel, ReleaseSlot
  <2>2. CASE ~ReceiverGone
    BY <1>2, <1>4, <1>7, <2>2, SendCancelSends DEF SendCancel
  <2> QED BY <2>1, <2>2
<1>8. ASSUME NEW t \in Timers, MarkCancelled(t)
      PROVE  SlotHasTask'
  BY <1>3, <1>8 DEF MarkCancelled, TypeOK
<1>9. ASSUME NEW t \in Timers, TakeSlot(t) \/ RecheckRunning(t) \/ Own(t)
      PROVE  SlotHasTask'
  BY <1>2, <1>3, <1>9 DEF TakeSlot, RecheckRunning, Own, Receive, Wake, Drop
<1>10. CASE SendShutdown
  BY <1>2, <1>4, <1>10, SendShutdownSends DEF SendShutdown
<1>11. CASE HandleAdd
  <2> DEFINE k == commands[1].task
  <2>1. /\ Takes /\ Head(commands) = commands[1] /\ 1 \in Ops("add")
        /\ worker'.task = worker.task /\ worker.pc = "wait"
    BY <1>11, TailTakes DEF HandleAdd, TakesCommand, Takes, To, TypeOK, Ops
  <2>2. k.timer \in Timers
    BY <2>1, TaskFields DEF OnePlace
  <2>3. \/ tasks' = tasks \cup {k} /\ UNCHANGED <<state, released>>
        \/ MarkShutdown(k.timer) /\ UNCHANGED tasks
    BY <1>11, <2>1 DEF HandleAdd
  <2> HIDE DEF k
  <2>4. \A t \in Timers : Queued(t) => Queued(t)' \/ k.timer = t
    BY <1>5, <2>1 DEF k
  <2>5. CASE tasks' = tasks \cup {k} /\ UNCHANGED <<state, released>>
    BY <2>1, <2>4, <2>5
  <2>6. CASE MarkShutdown(k.timer) /\ UNCHANGED tasks
    BY <2>1, <2>2, <2>4, <2>6 DEF MarkShutdown, ReleaseSlot, TypeOK
  <2> QED BY <2>3, <2>5, <2>6
<1>12. CASE HandleCancel
  <2> DEFINE u == commands[1].task.timer
  <2>1. /\ Takes /\ Head(commands) = commands[1] /\ 1 \in Ops("cancel")
        /\ worker'.task = worker.task /\ worker.pc = "wait"
    BY <1>12, TailTakes DEF HandleCancel, TakesCommand, Takes, To, TypeOK, Ops
  <2>2. u \in Timers /\ state[u] # "active"
    BY <2>1 DEF CancelsAreMarked
  <2>3. /\ tasks' = tasks \ TasksOf(u) /\ UNCHANGED state
        /\ TasksOf(u) # {} => released' = released \cup {u}
        /\ TasksOf(u) = {} => released' = released
    BY <1>12, <2>1 DEF HandleCancel, ReleaseSlot
  <2>4. \A t \in Timers : Queued(t) => Queued(t)'
    BY <1>5, <2>1 DEF Ops
  <2> HIDE DEF u
  <2> QED BY <2>1, <2>2, <2>3, <2>4 DEF TasksOf
<1>13. CASE HandleShutdown
  <2>1. /\ Takes /\ 1 \in Ops("shutdown") /\ worker'.task = worker.task
        /\ worker.pc = "wait" /\ worker'.pc = "drain"
    BY <1>13, TailTakes DEF HandleShutdown, TakesCommand, Takes, To, TypeOK, Ops
  <2>2. \A t \in Timers : Queued(t) => Queued(t)'
    BY <1>5, <2>1 DEF Ops
  <2> QED BY <1>2, <1>13, <2>1, <2>2 DEF HandleShutdown
<1>14. CASE DrainTask
  <2>1. PICK k \in tasks : MarkShutdown(k.timer) /\ tasks' = tasks \ {k}
    BY <1>14 DEF DrainTask
  <2>2. k.timer \in Timers
    BY TaskFields DEF TypeOK
  <2> QED BY <1>3, <1>14, <2>1, <2>2 DEF DrainTask, MarkShutdown, ReleaseSlot, TypeOK
<1>15. CASE PopDue
  <2>1. PICK k \in tasks : tasks' = tasks \ {k} /\ worker'.task = k
    BY <1>15 DEF PopDue, TasksOf
  <2>2. worker.pc = "fire" /\ worker.task.timer \notin Timers
    BY <1>15, TaskFields DEF PopDue, HandSuits, Busy
  <2> QED BY <1>3, <1>15, <2>1, <2>2 DEF PopDue
<1>16. CASE CompleteDeadline
  <2>1. worker'.task = worker.task /\ worker.pc = "deliver" /\ worker'.pc # "gone"
    BY <1>16 DEF CompleteDeadline, To, TypeOK
  <2>2. worker.task.timer \in Timers
    BY <2>1, TaskFields DEF HandSuits, Busy
  <2> QED BY <1>3, <1>16, <2>1, <2>2 DEF CompleteDeadline, TypeOK
<1>17. CASE Renew
  <2>1. CASE state[worker.task.timer] = "active"
    <3> DEFINE k == [timer |-> worker.task.timer, at |-> worker.task.at + Delay * Elapsed,
                     sequence |-> worker.task.sequence + Elapsed]
    <3>1. tasks' = tasks \cup {k} /\ k.timer = worker.task.timer
      BY <1>17, <2>1 DEF Renew
    <3>2. worker.pc # "gone" /\ UNCHANGED <<state, released, commands, late>>
      BY <1>17 DEF Renew
    <3> HIDE DEF k
    <3> QED BY <1>3, <3>1, <3>2
  <2>2. CASE state[worker.task.timer] # "active"
    BY <1>2, <1>3, <1>17, <2>2 DEF Renew, To, TypeOK
  <2> QED BY <2>1, <2>2
<1>18. CASE ReleaseTask
  <2>1. state[worker.task.timer] # "active" /\ worker.pc = "release"
    BY <1>18 DEF ReleaseTask, HandSuits
  <2> QED BY <1>3, <1>18, <2>1 DEF ReleaseTask, ReleaseSlot, PutDown
<1>19. CASE EndWorker
  <2>1. worker'.task = worker.task /\ worker'.pc = "gone" /\ worker.pc = "ending"
    BY <1>19 DEF EndWorker, To, TypeOK
  <2>2. \A t \in Timers : Queued(t) => t \in late
    BY <2>1 DEF Queued, StopsOnce, Ending
  <2> QED BY <1>19, <2>1, <2>2 DEF EndWorker
<1>20. CASE \/ PopStale \/ Wait \/ Timeout \/ SendDeadline \/ DeliverInterval \/ StopWorker
            \/ BeginShutdown \/ JoinWorker \/ Tick
  BY <1>2, <1>3, <1>20 DEF PopStale, Wait, Timeout, SendDeadline, DeliverInterval,
                           StopWorker, BeginShutdown, JoinWorker, Tick, To, TypeOK
<1> QED BY <1>6, <1>7, <1>8, <1>9, <1>10, <1>11, <1>12, <1>13, <1>14, <1>15, <1>16,
           <1>17, <1>18, <1>19, <1>20 DEF Next, Worker, Schedule

(* The worker stops at the one Shutdown, with no task left, and drops only *)
(* commands that were sent behind it.                                      *)
LEMMA StopStep ==
  ASSUME TypeOK, HandSuits, StopsOnce, Next
  PROVE  StopsOnce'
<1> USE DEF StopsOnce, Ending
<1>1. CASE UNCHANGED <<commands, worker.pc, tasks, late, stopper>>
  BY <1>1 DEF Ops
<1>2. CASE BeginShutdown \/ JoinWorker
  BY <1>2 DEF BeginShutdown, JoinWorker, ReceiverGone, Ops
<1>3. CASE SendShutdown
  <2>1. Sends(Shutdown) /\ Shutdown.op = "shutdown"
    BY <1>3, SendShutdownSends DEF Shutdown
  <2>2. worker.pc \notin Ending /\ Ops("shutdown") = {}
    BY <1>3 DEF SendShutdown
  <2>3. /\ Ops("shutdown")' = {Len(commands) + 1}
        /\ \A j \in Ops("add")' : j \in Nat /\ j <= Len(commands) /\ Len(commands) \in Nat
    BY <2>1, <2>2 DEF Ops, Sends
  <2>4. stopper' = "joining" /\ UNCHANGED worker
    BY <1>3 DEF SendShutdown
  <2> QED BY <2>2, <2>3, <2>4
<1>4. ASSUME NEW t \in Timers, SendAdd(t)
      PROVE  StopsOnce'
  <2>1. CASE ReceiverGone
    BY <1>1, <1>4, <2>1 DEF SendAdd
  <2>2. CASE ~ReceiverGone
    <3> DEFINE k == [timer |-> t, at |-> now + Delay, sequence |-> 1]
    <3>1. Sends(Add(k)) /\ Add(k).op = "add" /\ Add(k).task.timer = t
      BY <1>4, <2>2, SendAddSends DEF Add
    <3> HIDE DEF k
    <3>2. /\ Ops("shutdown")' = Ops("shutdown")
          /\ \A j \in Ops("add")' :
               \/ j \in Ops("add") /\ commands'[j] = commands[j]
               \/ commands'[j].task.timer = t
      BY <3>1 DEF Ops, Sends
    <3>3. /\ UNCHANGED <<worker, tasks, stopper>> /\ late \subseteq late'
          /\ stopper = "joining" => t \in late'
          /\ worker.pc # "gone"
      BY <1>4, <2>2 DEF SendAdd, ReceiverGone
    <3> QED BY <3>2, <3>3
  <2> QED BY <2>1, <2>2
<1>5. ASSUME NEW t \in Timers, SendCancel(t)
      PROVE  StopsOnce'
  <2>1. CASE ReceiverGone
    BY <1>1, <1>5, <2>1 DEF SendCancel
  <2>2. CASE ~ReceiverGone
    <3>1. Sends(Cancel(t)) /\ Cancel(t).op = "cancel"
      BY <1>5, <2>2, SendCancelSends DEF Cancel
    <3>2. /\ Ops("shutdown")' = Ops("shutdown") /\ Ops("add")' = Ops("add")
          /\ \A j \in Ops("add") : commands'[j] = commands[j]
      BY <3>1 DEF Ops, Sends
    <3>3. UNCHANGED <<worker, tasks, stopper, late>> /\ worker.pc # "gone"
      BY <1>5, <2>2 DEF SendCancel, ReceiverGone
    <3> QED BY <3>2, <3>3
  <2> QED BY <2>1, <2>2
<1>6. CASE HandleAdd \/ HandleCancel
  <2>1. Takes /\ worker'.pc = "fire" /\ UNCHANGED <<stopper, late>> /\ worker.pc = "wait"
    BY <1>6, TailTakes DEF HandleAdd, HandleCancel, TakesCommand, To, TypeOK
  <2>2. \A op \in {"add", "shutdown"} : \A i \in Ops(op)' :
          i \in Nat /\ i + 1 \in Ops(op) /\ commands'[i] = commands[i + 1]
    BY <2>1, TakesOps
  <2>3. ASSUME NEW i \in Ops("shutdown")'
        PROVE  /\ \A j \in Ops("add")' : j > i => commands'[j].task.timer \in late
               /\ \A j \in Ops("shutdown")' : i = j
    <3>1. i \in Nat /\ i + 1 \in Ops("shutdown")
      BY <2>2
    <3>2. ASSUME NEW j \in Ops("add")', j > i PROVE commands'[j].task.timer \in late
      <4>1. j \in Nat /\ j + 1 \in Ops("add") /\ j + 1 > i + 1 /\ commands'[j] = commands[j + 1]
        BY <2>2, <3>1, <3>2
      <4> QED BY <3>1, <4>1
    <3>3. ASSUME NEW j \in Ops("shutdown")' PROVE i = j
      <4>1. j \in Nat /\ j + 1 \in Ops("shutdown") /\ i + 1 = j + 1
        BY <2>2, <3>1
      <4> QED BY <3>1, <4>1
    <3> QED BY <3>2, <3>3
  <2>4. Ops("shutdown")' # {} => stopper = "joining"
    BY <2>2
  <2> QED BY <2>1, <2>3, <2>4
<1>7. CASE HandleShutdown
  <2>1. /\ Takes /\ worker'.pc = "drain" /\ UNCHANGED <<stopper, late>>
        /\ 1 \in Ops("shutdown")
    BY <1>7, TailTakes DEF HandleShutdown, TakesCommand, To, TypeOK, Takes, Ops
  <2>2. \A op \in {"add", "shutdown"} : \A i \in Ops(op)' :
          i \in Nat \ {0} /\ i + 1 \in Ops(op) /\ commands'[i] = commands[i + 1]
    BY <2>1, TakesOps
  <2>3. Ops("shutdown")' = {}
    <3>1. ASSUME NEW i \in Ops("shutdown")' PROVE FALSE
      <4>1. i \in Nat \ {0} /\ i + 1 \in Ops("shutdown") /\ i + 1 = 1
        BY <2>1, <2>2
      <4> QED BY <4>1
    <3> QED BY <3>1
  <2>4. ASSUME NEW j \in Ops("add")' PROVE commands'[j].task.timer \in late
    <3>1. j \in Nat \ {0} /\ j + 1 \in Ops("add") /\ j + 1 > 1 /\ commands'[j] = commands[j + 1]
      BY <2>2
    <3> QED BY <2>1, <3>1
  <2>5. stopper = "joining"
    BY <2>1
  <2> QED BY <2>1, <2>3, <2>4, <2>5
<1>8. CASE DrainTask
  <2>1. UNCHANGED <<commands, worker, late, stopper>> /\ worker.pc = "drain"
    BY <1>8 DEF DrainTask
  <2> QED BY <2>1 DEF Ops
<1>9. CASE StopWorker
  <2>1. worker'.pc = "ending" /\ worker.pc = "drain" /\ tasks' = {}
        /\ UNCHANGED <<commands, late, stopper>>
    BY <1>9 DEF StopWorker, To, TypeOK
  <2> QED BY <2>1 DEF Ops
<1>10. CASE EndWorker
  <2>1. worker'.pc = "gone" /\ worker.pc = "ending" /\ commands' = << >>
        /\ UNCHANGED <<tasks, late, stopper>>
    BY <1>10 DEF EndWorker, To, TypeOK
  <2> QED BY <2>1 DEF Ops
<1>11. CASE \/ PopStale \/ PopDue \/ Wait \/ Timeout \/ CompleteDeadline \/ SendDeadline
            \/ DeliverInterval \/ Renew \/ ReleaseTask
  <2>1. /\ UNCHANGED <<commands, late, stopper>>
        /\ worker.pc \notin Ending /\ worker'.pc \notin Ending
    BY <1>11 DEF PopStale, PopDue, Wait, Timeout, CompleteDeadline, SendDeadline,
       DeliverInterval, Renew, ReleaseTask, To, PutDown, TypeOK
  <2> QED BY <2>1 DEF Ops
<1>12. ASSUME NEW t \in Timers, TakeSlot(t) \/ RecheckRunning(t) \/ Own(t) \/ MarkCancelled(t)
       PROVE  StopsOnce'
  BY <1>1, <1>12 DEF TakeSlot, RecheckRunning, Own, Receive, Wake, Drop, MarkCancelled
<1>13. CASE Tick
  BY <1>1, <1>13 DEF Tick
<1> QED BY <1>2, <1>3, <1>4, <1>5, <1>6, <1>7, <1>8, <1>9, <1>10, <1>11, <1>12, <1>13
        DEF Next, Worker, Schedule

\* The parts of OneEvent that are about tasks, and those about events.
TasksAreNumbered ==
  /\ \A task \in tasks : task.sequence > 0
  /\ worker.pc \in Busy => worker.task.sequence > 0
  /\ \A i \in Ops("add") : commands[i].task.sequence > 0

(* Every task has a number from 1 on: renewing one adds the periods        *)
(* elapsed, which are not less than one.                                   *)
LEMMA NumberStep ==
  ASSUME TypeOK, HandSuits, OnePlace, TasksAreNumbered, Next
  PROVE  TasksAreNumbered'
<1> USE DEF TasksAreNumbered, Busy
<1>1. ASSUME UNCHANGED commands PROVE \A i \in Ops("add")' : commands'[i].task.sequence > 0
  BY <1>1 DEF Ops
<1>2. CASE Aside
  BY <1>1, <1>2, AsideFrame
<1>3. ASSUME NEW t \in Timers, SendAdd(t), ~ReceiverGone
      PROVE  TasksAreNumbered'
  <2>1. /\ Sends(Add([timer |-> t, at |-> now + Delay, sequence |-> 1]))
        /\ UNCHANGED <<tasks, worker>>
    BY <1>3, SendAddSends DEF SendAdd
  <2> QED BY <2>1 DEF Sends, Add, Ops
<1>4. ASSUME NEW t \in Timers, SendCancel(t), ~ReceiverGone
      PROVE  TasksAreNumbered'
  <2>1. Sends(Cancel(t)) /\ UNCHANGED <<tasks, worker>>
    BY <1>4, SendCancelSends DEF SendCancel
  <2> QED BY <2>1 DEF Sends, Cancel, Ops
<1>5. CASE SendShutdown
  <2>1. Sends(Shutdown) /\ UNCHANGED <<tasks, worker>>
    BY <1>5, SendShutdownSends DEF SendShutdown
  <2> QED BY <2>1 DEF Sends, Shutdown, Ops
<1>6. CASE HandleAdd \/ HandleCancel \/ HandleShutdown
  <2>1. Takes /\ worker'.pc \notin Busy
    BY <1>6, TailTakes DEF HandleAdd, HandleCancel, HandleShutdown, TakesCommand, To, TypeOK
  <2>2. \A i \in Ops("add")' : commands'[i].task.sequence > 0
    BY <2>1, TakesOps
  <2>3. \A k \in tasks' : k \in tasks \/ (1 \in Ops("add") /\ k = commands[1].task)
    BY <1>6, TailTakes DEF HandleAdd, HandleCancel, HandleShutdown, Takes, Ops
  <2> QED BY <2>1, <2>2, <2>3
<1>7. CASE EndWorker
  BY <1>7 DEF EndWorker, To, TypeOK, Ops
<1>8. CASE PopDue
  <2>1. PICK k \in tasks : tasks' \subseteq tasks /\ worker'.task = k
    BY <1>8 DEF PopDue, TasksOf
  <2> QED BY <1>1, <1>8, <2>1 DEF PopDue
<1>9. CASE Renew
  <2>1. /\ worker.task.sequence \in Nat \ {0} /\ worker.task.at \in Nat
        /\ worker.observed \in Nat /\ worker.task.at <= worker.observed
    BY <1>9, TaskFields DEF Renew, HandSuits, TypeOK
  <2>2. Elapsed \in Nat
    BY <2>1, ConstantsAssumption DEF Elapsed
  <2>3. worker.task.sequence + Elapsed > 0
    BY <2>1, <2>2
  <2> HIDE DEF Elapsed
  <2>4. \A k \in tasks' : k \in tasks \/ k.sequence = worker.task.sequence + Elapsed
    BY <1>9 DEF Renew
  <2>5. worker'.pc \in Busy => worker'.task = worker.task
    BY <1>9 DEF Renew, PutDown, To, TypeOK
  <2> QED BY <1>1, <1>9, <2>3, <2>4, <2>5 DEF Renew
<1>10. CASE ReleaseTask
  BY <1>1, <1>10 DEF ReleaseTask, PutDown
<1>11. CASE PopStale \/ DrainTask
  BY <1>1, <1>11 DEF PopStale, DrainTask
<1>12. CASE \/ Wait \/ Timeout \/ StopWorker
            \/ CompleteDeadline \/ SendDeadline \/ DeliverInterval
  BY <1>1, <1>12 DEF Wait, Timeout, StopWorker, CompleteDeadline, SendDeadline,
                     DeliverInterval, To, TypeOK
<1> QED BY <1>2, <1>3, <1>4, <1>5, <1>6, <1>7, <1>8, <1>9, <1>10, <1>11, <1>12, StepKinds
        DEF Worker

\* The parts of OneEvent and CompletedHasItsEvent that are about events.
EventsAreOnce ==
  /\ \A t \in Timers \ Intervals :
       state[t] # "completed" => queue[t] = << >> /\ last[t] = NoEvent
  /\ worker.pc = "send" =>
       LET t == worker.task.timer IN
       queue[t] = << >> /\ last[t] = NoEvent /\ owner[t] # "dropped"
  /\ \A t \in Intervals : state[t] # "completed"
  /\ \A t \in Timers : owner[t] = "dropped" => state[t] # "active"
  /\ \A t \in Timers : queue[t] # << >> => queue[t][1].sequence > 0

(* OneEvent is about the tasks and about the events.                       *)
LEMMA OneEventParts == OneEvent <=> TasksAreNumbered /\ EventsAreOnce
BY DEF OneEvent, TasksAreNumbered, EventsAreOnce

(* A deadline has one event: it is sent when the deadline completes, under *)
(* the lock, and received once.                                            *)
LEMMA EventStep ==
  ASSUME TypeOK, Untouched, HandSuits, OnePlace, CancelsAreMarked, TasksAreNumbered,
         EventsAreOnce, CompletedHasItsEvent, Next
  PROVE  EventsAreOnce' /\ CompletedHasItsEvent'
<1>1. Irrevocable /\ HandSuits'
  BY StepsAreIrrevocable, HandStep
<1>2. \A t \in Timers : Locked(t) => worker.pc = "send"
  BY DEF Locked
<1>3. worker.pc \in Busy => worker.task.timer \in Timers /\ Started(worker.task.timer)
  BY TaskFields DEF HandSuits
<1>4. \A t \in Timers : t \notin Intervals => t \in Timers \ Intervals
  OBVIOUS
<1> USE DEF EventsAreOnce, CompletedHasItsEvent, Locked
<1>5. CASE /\ UNCHANGED <<state, owner, queue, last>>
           /\ worker'.pc = "send" <=> worker.pc = "send"
           /\ worker'.pc = "send" => worker'.task = worker.task
  BY <1>5
<1>20. CASE /\ UNCHANGED <<state, queue, last, worker>>
            /\ \A u \in Timers : owner'[u] = "dropped" <=> owner[u] = "dropped"
  <2>1. worker.pc = "send" => worker.task.timer \in Timers
    BY <1>3 DEF Busy
  <2> QED BY <1>20, <2>1
<1>6. ASSUME NEW t \in Timers, TakeSlot(t) \/ RecheckRunning(t)
      PROVE  EventsAreOnce' /\ CompletedHasItsEvent'
  <2>1. \A u \in Timers : owner'[u] = "dropped" <=> owner[u] = "dropped"
    BY <1>6 DEF TakeSlot, RecheckRunning, Moves, TypeOK
  <2> QED BY <1>6, <1>20, <2>1 DEF TakeSlot, RecheckRunning
<1>7. ASSUME NEW t \in Timers, SendAdd(t)
      PROVE  EventsAreOnce' /\ CompletedHasItsEvent'
  <2>1. /\ ~Started(t) /\ state[t] = "none" /\ queue[t] = << >> /\ last[t] = NoEvent
        /\ UNCHANGED <<queue, last, worker>>
        /\ \A u \in Timers : owner'[u] = "dropped" <=> owner[u] = "dropped"
        /\ owner[t] # "dropped"
    BY <1>7 DEF SendAdd, Moves, TypeOK, Untouched, Before, Started
  <2>2. /\ state'[t] \in {"active", "shutdown"}
        /\ \A u \in Timers \ {t} : state'[u] = state[u]
    BY <1>7 DEF SendAdd, TypeOK
  <2>3. worker.pc = "send" => worker.task.timer \in Timers \ {t}
    BY <1>3, <2>1 DEF Busy
  <2>4. Intervals \subseteq Timers
    BY ConstantsAssumption
  <2> QED BY <2>1, <2>2, <2>3, <2>4
<1>8. ASSUME NEW t \in Timers, Receive(t) \/ Wake(t)
      PROVE  EventsAreOnce' /\ CompletedHasItsEvent'
  <2>1. CASE Take(t) /\ UNCHANGED <<state, worker>>
    <3>1. Head(queue[t]) # NoEvent
      BY <2>1 DEF Take, TypeOK, NoEvent
    <3>2. owner[t] # "dropped" /\ owner'[t] # "dropped"
          /\ \A u \in Timers \ {t} : owner'[u] = owner[u]
      BY <1>8 DEF Receive, Wake, Moves, TypeOK
    <3>3. /\ queue'[t] = << >> /\ last'[t] # NoEvent /\ queue[t] # << >>
          /\ \A u \in Timers \ {t} : queue'[u] = queue[u] /\ last'[u] = last[u]
      BY <2>1, <3>1 DEF Take, TypeOK
    <3>4. ~Locked(t)
      BY <3>3
    <3> QED BY <1>3, <2>1, <3>2, <3>3, <3>4 DEF Busy
  <2>2. CASE UNCHANGED <<queue, last, state, worker>>
    <3>1. \A u \in Timers : owner'[u] = "dropped" <=> owner[u] = "dropped"
      BY <1>8 DEF Receive, Wake, Moves, TypeOK
    <3> QED BY <1>20, <2>2, <3>1
  <2> QED BY <1>8, <2>1, <2>2 DEF Receive, Wake
<1>9. ASSUME NEW t \in Timers, Drop(t)
      PROVE  EventsAreOnce' /\ CompletedHasItsEvent'
  BY <1>3, <1>9 DEF Drop, Moves, TypeOK, Busy
<1>10. ASSUME NEW t \in Timers, MarkCancelled(t)
       PROVE  EventsAreOnce' /\ CompletedHasItsEvent'
  BY <1>10 DEF MarkCancelled, TypeOK
<1>11. ASSUME NEW t \in Timers, SendCancel(t)
       PROVE  EventsAreOnce' /\ CompletedHasItsEvent'
  BY <1>5, <1>11 DEF SendCancel
<1>12. CASE CompleteDeadline
  <2> DEFINE t == worker.task.timer
  <2>1. t \in Timers /\ t \notin Intervals
    BY <1>3, <1>12 DEF CompleteDeadline, Busy
  <2>2. /\ UNCHANGED <<owner, queue, last>> /\ worker'.task = worker.task
        /\ worker.pc = "deliver"
    BY <1>12 DEF CompleteDeadline, To, TypeOK
  <2>3. CASE state[t] = "active"
    <3>1. worker'.pc = "send" /\ state' = [state EXCEPT ![t] = "completed"]
      BY <1>12, <2>3 DEF CompleteDeadline, To, TypeOK
    <3> HIDE DEF t
    <3> QED BY <2>1, <2>2, <2>3, <3>1 DEF TypeOK, t
  <2>4. CASE state[t] # "active"
    <3>1. worker'.pc = "release" /\ UNCHANGED state
      BY <1>12, <2>4 DEF CompleteDeadline, To, TypeOK
    <3> QED BY <1>5, <2>2, <3>1
  <2> QED BY <2>3, <2>4
<1>13. CASE SendDeadline
  <2> DEFINE t == worker.task.timer
  <2>1. t \in Timers /\ t \notin Intervals /\ state[t] = "completed"
    BY <1>3, <1>13 DEF SendDeadline, HandSuits, Busy
  <2>2. /\ UNCHANGED <<owner, state, last>> /\ worker'.pc = "release"
        /\ queue' = [queue EXCEPT ![t] = IF @ = << >> THEN <<Event(0)>> ELSE @]
    BY <1>13 DEF SendDeadline, To, TypeOK, TrySend
  <2>3. queue[t] = << >> /\ last[t] = NoEvent
    BY <1>13 DEF SendDeadline
  <2>4. Event(0).sequence > 0
    BY <1>13 DEF Event, TasksAreNumbered, SendDeadline, Busy
  <2>5. /\ queue'[t] # << >> /\ queue'[t][1].sequence > 0
        /\ \A u \in Timers \ {t} : queue'[u] = queue[u]
    BY <2>1, <2>2, <2>3, <2>4 DEF TypeOK
  <2> HIDE DEF t
  <2> QED BY <1>13, <2>1, <2>2, <2>3, <2>5 DEF SendDeadline, t
<1>14. CASE DeliverInterval
  <2> DEFINE t == worker.task.timer
  <2>1. t \in Timers /\ t \in Intervals
    BY <1>3, <1>14 DEF DeliverInterval, Busy
  <2>2. /\ UNCHANGED <<owner, state, last>> /\ worker'.pc = "renew" /\ worker.pc = "deliver"
        /\ \/ UNCHANGED queue
           \/ queue' = [queue EXCEPT ![t] = IF @ = << >> THEN <<Event(Elapsed - 1)>> ELSE @]
    BY <1>14 DEF DeliverInterval, To, TypeOK, TrySend
  <2>3. Event(Elapsed - 1).sequence > 0
    BY <1>14 DEF Event, TasksAreNumbered, DeliverInterval, Busy
  <2>4. /\ queue[t] # << >> => queue'[t] = queue[t]
        /\ queue'[t] # << >> => queue'[t][1].sequence > 0
        /\ \A u \in Timers \ {t} : queue'[u] = queue[u]
    BY <2>1, <2>2, <2>3 DEF TypeOK
  <2> HIDE DEF t
  <2> QED BY <2>1, <2>2, <2>4
<1>15. CASE HandleAdd
  <2> DEFINE u == Head(commands).task.timer
  <2>1. /\ UNCHANGED <<owner, queue, last>> /\ worker'.pc = "fire" /\ worker.pc = "wait"
        /\ \/ UNCHANGED state
           \/ state' = [state EXCEPT ![u] = "shutdown"] /\ state[u] = "active"
    BY <1>15 DEF HandleAdd, TakesCommand, To, TypeOK, MarkShutdown
  <2>2. CASE UNCHANGED state
    BY <1>5, <2>1, <2>2
  <2>3. CASE state' = [state EXCEPT ![u] = "shutdown"] /\ state[u] = "active"
    <3> HIDE DEF u
    <3> QED BY <2>1, <2>3, ConstantsAssumption DEF TypeOK
  <2> QED BY <2>1, <2>2, <2>3
<1>16. CASE DrainTask
  <2>1. PICK k \in tasks : MarkShutdown(k.timer)
    BY <1>16 DEF DrainTask
  <2>2. UNCHANGED <<owner, queue, last, worker>>
    BY <1>16 DEF DrainTask
  <2> QED BY <1>16, <2>1, <2>2 DEF MarkShutdown, TypeOK, DrainTask
<1>17. CASE Renew
  BY <1>5, <1>17 DEF Renew, To, PutDown, TypeOK
<1>18. CASE \/ PopStale \/ PopDue \/ Wait \/ Timeout \/ ReleaseTask \/ HandleCancel
            \/ HandleShutdown \/ StopWorker \/ EndWorker
  BY <1>5, <1>18 DEF PopStale, PopDue, Wait, Timeout, ReleaseTask, HandleCancel,
       HandleShutdown, StopWorker, EndWorker, TakesCommand, To, PutDown, TypeOK
<1>19. CASE BeginShutdown \/ SendShutdown \/ JoinWorker \/ Tick
  BY <1>5, <1>19 DEF BeginShutdown, SendShutdown, JoinWorker, Tick
<1> QED BY <1>6, <1>7, <1>8, <1>9, <1>10, <1>11, <1>12, <1>13, <1>14, <1>15, <1>16, <1>17,
           <1>18, <1>19 DEF Next, Worker, Schedule, Own

-----------------------------------------------------------------------------
(* The grid of an interval *)

(* elapsed_interval_count: the occasion in hand and the periods that ended *)
(* since, so that the next occasion is the first one still to come.        *)
LEMMA ElapsedCounts ==
  ASSUME TypeOK, HandSuits, worker.pc \in Busy
  PROVE  /\ worker.task.at \in Nat /\ worker.task.sequence \in Nat
         /\ worker.observed \in Nat /\ worker.task.at <= worker.observed
         /\ Elapsed \in Nat \ {0}
         /\ Delay * (Elapsed - 1) <= worker.observed - worker.task.at
         /\ worker.observed - worker.task.at < Delay * Elapsed
<1> DEFINE x == worker.observed - worker.task.at
<1>1. /\ worker.task.at \in Nat /\ worker.task.sequence \in Nat
      /\ worker.observed \in Nat /\ worker.task.at <= worker.observed
  BY TaskFields DEF HandSuits, TypeOK
<1>2. x \in Nat /\ Delay \in Nat \ {0}
  BY <1>1, ConstantsAssumption
<1> HIDE DEF x
<1>3. /\ x \div Delay \in Nat
      /\ Delay * (x \div Delay) <= x /\ x < Delay * ((x \div Delay) + 1)
  BY <1>2
<1> DEFINE q == x \div Delay
<1>4. Elapsed = q + 1
  BY DEF Elapsed, x
<1>5. q \in Nat /\ Elapsed \in Nat \ {0} /\ Elapsed - 1 = q
  BY <1>3, <1>4
<1> QED BY <1>1, <1>3, <1>4, <1>5 DEF x

(* Multiplication distributes over addition.                               *)
LEMMA Distributes ==
  ASSUME NEW a \in Int, NEW b \in Int, NEW c \in Int
  PROVE  a * (b + c) = a * b + a * c /\ a * b \in Int /\ a * c \in Int
OBVIOUS

(* An occasion some periods later comes behind what this one comes behind. *)
LEMMA LaterFollows ==
  ASSUME NEW e \in ScheduleEvent, NEW at \in Nat, NEW s \in Nat, NEW n \in Nat,
         Follows(at, s, e)
  PROVE  Follows(at + Delay * n, s + n, e)
<1>1. /\ e.scheduled \in Nat /\ e.sequence \in Nat /\ e.skipped \in Nat /\ Delay \in Nat
  BY ConstantsAssumption DEF ScheduleEvent
<1>2. s + n > e.sequence + e.skipped
  BY <1>1 DEF Follows
<1>3. ASSUME e # NoEvent
      PROVE  (at + Delay * n) - e.scheduled = Delay * ((s + n) - e.sequence)
  <2>1. at - e.scheduled = Delay * (s - e.sequence)
    BY <1>3 DEF Follows
  <2> DEFINE d == s - e.sequence
  <2>2. d \in Int /\ (s + n) - e.sequence = d + n
    BY <1>1
  <2>3. Delay * (d + n) = Delay * d + Delay * n /\ Delay * d \in Int /\ Delay * n \in Int
    <3> HIDE DEF d
    <3> QED BY <1>1, <2>2, Distributes
  <2> QED BY <1>1, <2>1, <2>2, <2>3
<1> QED BY <1>2, <1>3 DEF Follows

(* The occasion behind an event comes behind it by the periods elapsed.    *)
LEMMA NextFollows ==
  ASSUME NEW at \in Nat, NEW s \in Nat, NEW n \in Nat \ {0}, NEW o \in Nat
  PROVE  Follows(at + Delay * n, s + n,
                 [scheduled |-> at, observed |-> o, sequence |-> s, skipped |-> n - 1])
<1>1. Delay * n \in Int /\ (at + Delay * n) - at = Delay * n /\ (s + n) - s = n
  BY ConstantsAssumption
<1>2. s + n > s + (n - 1)
  OBVIOUS
<1> QED BY <1>1, <1>2 DEF Follows

\* The tasks of intervals keep to the grid, wherever they are.
TasksKeepTheGrid ==
  /\ \A i \in Ops("add") :
       LET k == commands[i].task IN
       k.timer \in Intervals => ComesNext(k.timer, k.at, k.sequence)
  /\ \A k \in tasks : k.timer \in Intervals => ComesNext(k.timer, k.at, k.sequence)
  /\ LET k == worker.task IN
     /\ worker.pc = "deliver" /\ k.timer \in Intervals =>
          ComesNext(k.timer, k.at, k.sequence)
     /\ worker.pc = "renew" =>
          ComesNext(k.timer, k.at + Delay * Elapsed, k.sequence + Elapsed)

EventsAreSound == \A t \in Timers : queue[t] # << >> => SoundEvent(t, queue[t][1])

(* OnTheGrid is about the tasks and about the events.                      *)
LEMMA GridParts == OnTheGrid <=> TasksKeepTheGrid /\ EventsAreSound
BY DEF OnTheGrid, TasksKeepTheGrid, EventsAreSound

(* What an owner has received and may still receive are events.            *)
LEMMA EventTypes ==
  ASSUME TypeOK, NEW t \in Timers
  PROVE  /\ last[t] \in ScheduleEvent
         /\ queue[t] # << >> => queue[t][1] \in ScheduleEvent /\ Head(queue[t]) = queue[t][1]
BY DEF TypeOK

(* Whoever is next stays next when events are received or dropped.         *)
LEMMA NextStaysNext ==
  ASSUME TypeOK, NEW t \in Timers, NEW at, NEW s, ComesNext(t, at, s),
         \/ queue'[t] = queue[t] /\ last'[t] = last[t]
         \/ queue[t] # << >> /\ queue'[t] = << >> /\ last'[t] = Head(queue[t])
         \/ queue'[t] = << >> /\ last'[t] = last[t]
  PROVE  ComesNext(t, at, s)'
BY EventTypes DEF ComesNext, Follows

(* The tasks of an interval stay on its grid, behind every event it has.   *)
LEMMA GridStep ==
  ASSUME TypeOK, Untouched, HandSuits, OnePlace, TasksKeepTheGrid, EventsAreSound, Next
  PROVE  TasksKeepTheGrid'
<1>1. /\ \A k \in tasks : k.timer \in Timers /\ k.at \in Nat /\ k.sequence \in Nat
      /\ \A i \in Ops("add") : commands[i].task.timer \in Timers
      /\ worker.pc \in Busy => worker.task.timer \in Timers
  BY TaskFields DEF TypeOK, OnePlace, HandSuits
<1> USE <1>1 DEF TasksKeepTheGrid, Busy
<1>2. ASSUME UNCHANGED <<tasks, worker, commands>>,
             \A t \in Timers :
               \/ queue'[t] = queue[t] /\ last'[t] = last[t]
               \/ queue[t] # << >> /\ queue'[t] = << >> /\ last'[t] = Head(queue[t])
               \/ queue'[t] = << >> /\ last'[t] = last[t]
      PROVE  TasksKeepTheGrid'
  <2>1. \A t \in Timers : \A at, s : ComesNext(t, at, s) => ComesNext(t, at, s)'
    BY <1>2, NextStaysNext
  <2> QED BY <1>2, <2>1 DEF Ops, Elapsed
<1>3. CASE Aside
  <2>1. UNCHANGED <<tasks, worker, commands>>
    BY <1>3, AsideFrame
  <2>2. \A t \in Timers :
          \/ queue'[t] = queue[t] /\ last'[t] = last[t]
          \/ queue[t] # << >> /\ queue'[t] = << >> /\ last'[t] = Head(queue[t])
          \/ queue'[t] = << >> /\ last'[t] = last[t]
    BY <1>3 DEF Aside, TakeSlot, RecheckRunning, Own, Receive, Wake, Drop, Take, MarkCancelled,
         SendAdd, SendCancel, BeginShutdown, JoinWorker, Tick, TypeOK
  <2> QED BY <1>2, <2>1, <2>2
<1>4. ASSUME UNCHANGED <<queue, last>>
      PROVE  \A t, at, s : ComesNext(t, at, s)' <=> ComesNext(t, at, s)
  BY <1>4 DEF ComesNext
<1>5. ASSUME NEW t \in Timers, SendAdd(t), ~ReceiverGone
      PROVE  TasksKeepTheGrid'
  <2> DEFINE k == [timer |-> t, at |-> now + Delay, sequence |-> 1]
  <2>1. Sends(Add(k)) /\ UNCHANGED <<tasks, worker, queue, last>>
    BY <1>5, SendAddSends DEF SendAdd
  <2>2. ComesNext(t, now + Delay, 1)
    BY <1>5 DEF SendAdd, Moves, Untouched, Started, ComesNext, Follows, NoEvent
  <2>3. Add(k).op = "add" /\ Add(k).task = k /\ k.timer = t /\ k.at = now + Delay
        /\ k.sequence = 1
    BY DEF Add
  <2> HIDE DEF k
  <2>4. \A i \in Ops("add")' :
          \/ i \in Ops("add") /\ commands'[i] = commands[i]
          \/ commands'[i].task = k
    BY <2>1, <2>3 DEF Sends, Ops
  <2> QED BY <1>4, <2>1, <2>2, <2>3, <2>4 DEF Elapsed
<1>6. ASSUME NEW c, Sends(c), c.op # "add", UNCHANGED <<tasks, worker, queue, last>>
      PROVE  TasksKeepTheGrid'
  <2>1. \A i \in Ops("add")' : i \in Ops("add") /\ commands'[i] = commands[i]
    BY <1>6 DEF Sends, Ops
  <2> QED BY <1>4, <1>6, <2>1 DEF Elapsed
<1>7. CASE HandleAdd \/ HandleCancel \/ HandleShutdown
  <2>1. Takes /\ worker'.pc \notin Busy /\ UNCHANGED <<queue, last>>
    BY <1>7, TailTakes DEF HandleAdd, HandleCancel, HandleShutdown, TakesCommand, To, TypeOK
  <2>2. \A i \in Ops("add")' : i + 1 \in Ops("add") /\ commands'[i] = commands[i + 1]
    BY <2>1, TakesOps
  <2>3. \A k \in tasks' : k \in tasks \/ (1 \in Ops("add") /\ k = commands[1].task)
    BY <1>7, TailTakes DEF HandleAdd, HandleCancel, HandleShutdown, Takes, Ops
  <2> QED BY <1>4, <2>1, <2>2, <2>3
<1>8. CASE PopDue
  <2>1. PICK k \in tasks : tasks' \subseteq tasks /\ worker'.task = k
    BY <1>8 DEF PopDue, TasksOf
  <2>2. worker'.pc # "renew" /\ UNCHANGED <<queue, last, commands>>
    BY <1>8 DEF PopDue
  <2> QED BY <1>4, <2>1, <2>2 DEF Ops
<1>9. CASE DeliverInterval
  <2> DEFINE u == worker.task.timer
  <2> DEFINE event == Event(Elapsed - 1)
  <2> DEFINE at == worker.task.at
  <2> DEFINE s == worker.task.sequence
  <2>1. /\ worker.pc = "deliver" /\ u \in Intervals /\ u \in Timers
        /\ worker'.pc = "renew" /\ worker'.task = worker.task
        /\ worker'.observed = worker.observed
        /\ UNCHANGED <<tasks, commands, last>>
        /\ UNCHANGED queue \/ queue' = [queue EXCEPT ![u] = IF @ = << >> THEN <<event>> ELSE @]
    BY <1>9 DEF DeliverInterval, To, TypeOK, TrySend
  <2>2. /\ at \in Nat /\ s \in Nat /\ Elapsed \in Nat \ {0} /\ worker.observed \in Nat
        /\ Elapsed' = Elapsed
    BY <2>1, ElapsedCounts DEF Elapsed
  <2>3. ComesNext(u, at, s)
    BY <2>1
  <2>4. Follows(at + Delay * Elapsed, s + Elapsed, event)
    BY <2>2, NextFollows DEF Event
  <2>5. /\ Follows(at + Delay * Elapsed, s + Elapsed, last[u])
        /\ queue[u] # << >> => Follows(at + Delay * Elapsed, s + Elapsed, queue[u][1])
    BY <2>1, <2>2, <2>3, EventTypes, LaterFollows DEF ComesNext
  <2>6. /\ queue'[u] # << >> => queue'[u][1] = event \/ (queue[u] # << >> /\ queue'[u] = queue[u])
        /\ \A t \in Timers \ {u} : queue'[t] = queue[t]
    BY <2>1 DEF TypeOK
  <2>7. \A t \in Timers \ {u} : \A a, n : ComesNext(t, a, n) => ComesNext(t, a, n)'
    BY <2>1, <2>6 DEF ComesNext
  <2>8. ComesNext(u, at + Delay * Elapsed, s + Elapsed)'
    BY <2>1, <2>2, <2>4, <2>5, <2>6 DEF ComesNext
  <2>9. /\ \A k \in tasks : k.timer # u
        /\ \A i \in Ops("add") : commands[i].task.timer # u
    BY DEF OnePlace, InHand
  <2> HIDE DEF u, event, Elapsed
  <2> QED BY <2>1, <2>2, <2>7, <2>8, <2>9 DEF Ops, u
<1>10. CASE Renew
  <2>1. CASE state[worker.task.timer] = "active"
    <3> DEFINE k == [timer |-> worker.task.timer, at |-> worker.task.at + Delay * Elapsed,
                     sequence |-> worker.task.sequence + Elapsed]
    <3>1. /\ tasks' = tasks \cup {k} /\ worker'.pc = "fire" /\ worker.pc = "renew"
          /\ UNCHANGED <<queue, last, commands>>
      BY <1>10, <2>1 DEF Renew, PutDown
    <3>2. ComesNext(k.timer, k.at, k.sequence)
      BY <3>1
    <3> HIDE DEF k
    <3> QED BY <1>4, <3>1, <3>2 DEF Ops
  <2>2. CASE state[worker.task.timer] # "active"
    <3>1. worker'.pc = "release" /\ UNCHANGED <<queue, last, commands, tasks>>
      BY <1>10, <2>2 DEF Renew, To, TypeOK
    <3> QED BY <1>4, <3>1 DEF Ops
  <2> QED BY <2>1, <2>2
<1>11. CASE SendDeadline
  <2> DEFINE u == worker.task.timer
  <2>1. /\ u \in Timers \ Intervals /\ worker'.pc = "release"
        /\ UNCHANGED <<tasks, commands, last>>
        /\ \A t \in Timers \ {u} : queue'[t] = queue[t]
    BY <1>11 DEF SendDeadline, HandSuits, TrySend, TypeOK, To
  <2>2. \A t \in Intervals : \A a, n : ComesNext(t, a, n) => ComesNext(t, a, n)'
    BY <2>1, ConstantsAssumption DEF ComesNext
  <2> QED BY <2>1, <2>2 DEF Ops
<1>12. CASE \/ PopStale \/ Wait \/ Timeout \/ CompleteDeadline \/ ReleaseTask \/ DrainTask
            \/ StopWorker \/ EndWorker
  <2>1. /\ UNCHANGED <<queue, last>> /\ tasks' \subseteq tasks
        /\ UNCHANGED commands \/ commands' = << >>
        /\ UNCHANGED worker \/ worker'.pc \notin {"deliver", "renew"}
    BY <1>12 DEF PopStale, Wait, Timeout, CompleteDeadline, ReleaseTask, DrainTask,
         StopWorker, EndWorker, To, PutDown, TypeOK
  <2> QED BY <1>4, <2>1 DEF Ops, Elapsed
<1>13. CASE SendShutdown
  BY <1>6, <1>13, SendShutdownSends DEF SendShutdown, Shutdown
<1>14. ASSUME NEW t \in Timers, SendCancel(t), ~ReceiverGone
       PROVE  TasksKeepTheGrid'
  BY <1>6, <1>14, SendCancelSends DEF SendCancel, Cancel
<1> QED BY <1>3, <1>5, <1>7, <1>8, <1>9, <1>10, <1>11, <1>12, <1>13, <1>14, StepKinds
        DEF Worker

(* An event that is sent is sound: the worker takes a task when it is due  *)
(* and counts the periods that ended since.                                *)
LEMMA SoundStep ==
  ASSUME TypeOK, Untouched, HandSuits, OneEvent, TasksKeepTheGrid, EventsAreSound, Next
  PROVE  EventsAreSound'
<1> USE DEF EventsAreSound
<1>1. CASE \A t \in Timers : queue'[t] = << >> \/ (queue'[t] = queue[t] /\ last'[t] = last[t])
  BY <1>1 DEF SoundEvent
<1>2. CASE SendDeadline
  <2> DEFINE u == worker.task.timer
  <2>1. /\ u \in Timers \ Intervals /\ UNCHANGED last /\ queue[u] = << >>
        /\ queue' = [queue EXCEPT ![u] = <<Event(0)>>]
    BY <1>2, TaskFields DEF SendDeadline, HandSuits, TrySend, OneEvent, Busy
  <2>2. Event(0).scheduled <= Event(0).observed
    BY <1>2, ElapsedCounts DEF Event, SendDeadline, Busy
  <2>3. queue'[u][1] = Event(0) /\ \A t \in Timers \ {u} : queue'[t] = queue[t]
    BY <2>1 DEF TypeOK
  <2> HIDE DEF u
  <2> QED BY <2>1, <2>2, <2>3 DEF SoundEvent
<1>3. CASE DeliverInterval
  <2> DEFINE u == worker.task.timer
  <2> DEFINE event == Event(Elapsed - 1)
  <2>1. /\ worker.pc = "deliver" /\ u \in Intervals /\ u \in Timers /\ UNCHANGED last
        /\ UNCHANGED queue \/ queue' = [queue EXCEPT ![u] = IF @ = << >> THEN <<event>> ELSE @]
    BY <1>3, ConstantsAssumption DEF DeliverInterval, TrySend
  <2>2. /\ worker.task.at <= worker.observed /\ Elapsed \in Nat \ {0}
        /\ Delay * (Elapsed - 1) <= worker.observed - worker.task.at
        /\ worker.observed - worker.task.at < Delay * Elapsed
        /\ worker.observed \in Nat /\ worker.task.at \in Nat
    BY <2>1, ElapsedCounts DEF Busy
  <2>3. /\ event.scheduled = worker.task.at /\ event.observed = worker.observed
        /\ event.sequence = worker.task.sequence /\ event.skipped = Elapsed - 1
        /\ event.skipped + 1 = Elapsed
    BY <2>2 DEF Event
  <2>4. Follows(event.scheduled, event.sequence, last[u])
    BY <2>1, <2>3 DEF TasksKeepTheGrid, ComesNext
  <2> HIDE DEF event
  <2>5. event.observed - event.scheduled >= Delay * event.skipped
    BY <2>2, <2>3, ConstantsAssumption
  <2>6. event.observed - event.scheduled < Delay * (event.skipped + 1)
    BY <2>2, <2>3
  <2>7. SoundEvent(u, event)
    BY <2>2, <2>3, <2>4, <2>5, <2>6 DEF SoundEvent
  <2>8. /\ queue'[u] # << >> => queue'[u][1] = event \/ (queue[u] # << >> /\ queue'[u] = queue[u])
        /\ \A t \in Timers \ {u} : queue'[t] = queue[t]
    BY <2>1 DEF TypeOK
  <2>9. \A t, e : SoundEvent(t, e)' <=> SoundEvent(t, e)
    BY <2>1 DEF SoundEvent
  <2> HIDE DEF u
  <2> QED BY <2>1, <2>7, <2>8, <2>9
<1>4. ASSUME NEW t \in Timers, Own(t)
      PROVE  EventsAreSound'
  BY <1>1, <1>4 DEF Own, Receive, Wake, Drop, Take, TypeOK
<1>5. ASSUME NEW t \in Timers, Schedule(t) \/ MarkCancelled(t) \/ SendCancel(t)
      PROVE  EventsAreSound'
  BY <1>1, <1>5 DEF Schedule, TakeSlot, RecheckRunning, SendAdd, MarkCancelled, SendCancel
<1>6. CASE Worker /\ ~SendDeadline /\ ~DeliverInterval
  BY <1>1, <1>6 DEF Worker, PopStale, PopDue, Wait, Timeout, CompleteDeadline, Renew,
       ReleaseTask, HandleAdd, HandleCancel, HandleShutdown, DrainTask, StopWorker, EndWorker
<1>7. CASE BeginShutdown \/ SendShutdown \/ JoinWorker \/ Tick
  BY <1>1, <1>7 DEF BeginShutdown, SendShutdown, JoinWorker, Tick
<1> QED BY <1>2, <1>3, <1>4, <1>5, <1>6, <1>7 DEF Next

-----------------------------------------------------------------------------
(* The slots *)

InUse == {t \in Timers : Slotted(t) /\ t \notin released}

(* The slots in use are finitely many.                                     *)
LEMMA InUseIsFinite ==
  /\ IsFiniteSet(InUse) /\ Cardinality(InUse) \in Nat
  /\ IsFiniteSet(InUse') /\ Cardinality(InUse') \in Nat
<1>1. InUse \in SUBSET Timers /\ InUse' \in SUBSET Timers
  BY DEF InUse
<1> QED BY <1>1, FS_Subset, FS_CardinalityType, ConstantsAssumption

(* release_slot keeps the balance for a timer that has a slot.             *)
LEMMA ReleaseBalances ==
  ASSUME SlotsBalance, NEW t \in Timers, Started(t), Started(t)', ReleaseSlot({t}),
         \A u \in Timers : Slotted(u)' = Slotted(u)
  PROVE  SlotsBalance'
<1>1. InUse' = InUse \ {t}
  BY DEF InUse, ReleaseSlot
<1>2. Cardinality(InUse') = IF t \in InUse THEN Cardinality(InUse) - 1 ELSE Cardinality(InUse)
  BY <1>1, InUseIsFinite, FS_RemoveElement
<1>3. CASE t \in released
  <2>1. {t} \ released = {} /\ t \notin InUse
    BY <1>3 DEF InUse
  <2>2. activeCount = Cardinality(InUse) /\ activeCount \in Nat /\ activeCount <= MaxActive
    BY InUseIsFinite DEF SlotsBalance, InUse
  <2>3. activeCount' = activeCount - 0
    BY <2>1, FS_EmptySet DEF ReleaseSlot
  <2>4. activeCount' = Cardinality(InUse') /\ activeCount' <= MaxActive
    BY <1>2, <2>1, <2>2, <2>3
  <2> QED BY <2>4 DEF SlotsBalance, InUse
<1>4. CASE t \notin released
  <2>1. {t} \ released = {t} /\ t \in InUse
    BY <1>4 DEF InUse, Slotted, Started
  <2>2. Cardinality({t}) = 1
    BY FS_Singleton
  <2>3. activeCount' = activeCount - 1 /\ activeCount = Cardinality(InUse)
    BY <2>1, <2>2 DEF SlotsBalance, ReleaseSlot, InUse
  <2>4. activeCount' = Cardinality(InUse')
    BY <1>2, <2>1, <2>3
  <2>5. activeCount' <= MaxActive
    BY <2>3, InUseIsFinite, ConstantsAssumption DEF SlotsBalance
  <2> QED BY <2>4, <2>5 DEF SlotsBalance, InUse
<1> QED BY <1>3, <1>4

(* active_count is the number of slots in use and within the limit,        *)
(* whoever of the worker, a cancelling thread and the shutdown comes first.*)
LEMMA BalanceStep ==
  ASSUME TypeOK, SlotsBalance, Untouched, HandSuits, OnePlace, CancelsAreMarked, Next
  PROVE  SlotsBalance'
<1>1. \A t \in Timers : Started(t) => Started(t)'
  BY StepsAreIrrevocable DEF Irrevocable
<1>2. ASSUME UNCHANGED activeCount, InUse' = InUse
      PROVE  SlotsBalance'
  BY <1>2 DEF SlotsBalance, InUse
<1>3. ASSUME UNCHANGED <<activeCount, owner, released>>
      PROVE  SlotsBalance'
  BY <1>2, <1>3 DEF InUse, Slotted
<1>4. ASSUME UNCHANGED owner, NEW t \in Timers, Started(t), ReleaseSlot({t})
      PROVE  SlotsBalance'
  BY <1>1, <1>4, ReleaseBalances DEF Slotted
<1>5. ASSUME NEW t \in Timers, TakeSlot(t)
      PROVE  SlotsBalance'
  <2>1. CASE lifecycle = "running"
    <3>1. /\ activeCount < MaxActive /\ activeCount' = activeCount + 1
          /\ owner[t] = "new" /\ owner' = [owner EXCEPT ![t] = "counted"]
          /\ UNCHANGED released
      BY <1>5, <2>1 DEF TakeSlot, Moves
    <3>2. t \notin InUse /\ InUse' = InUse \cup {t}
      BY <3>1 DEF InUse, Slotted, TypeOK, Untouched, Before
    <3>3. Cardinality(InUse') = Cardinality(InUse) + 1
      BY <3>2, InUseIsFinite, FS_AddElement
    <3>4. activeCount = Cardinality(InUse) /\ activeCount \in Nat
      BY DEF SlotsBalance, InUse, TypeOK
    <3> QED BY <3>1, <3>3, <3>4, ConstantsAssumption DEF SlotsBalance, InUse
  <2>2. CASE lifecycle # "running"
    <3>1. /\ owner[t] = "new" /\ owner' = [owner EXCEPT ![t] = "refused"]
          /\ UNCHANGED <<released, activeCount>>
      BY <1>5, <2>2 DEF TakeSlot, Moves
    <3>2. InUse' = InUse
      BY <3>1 DEF InUse, Slotted, TypeOK
    <3> QED BY <1>2, <3>1, <3>2
  <2> QED BY <2>1, <2>2
<1>6. ASSUME NEW t \in Timers, owner[t] \in {"counted", "reserved"},
             owner' = [owner EXCEPT ![t] = "refused"], activeCount' = activeCount - 1,
             released' \in {released, released \cup {t}}
      PROVE  SlotsBalance'
  <2>1. t \in InUse /\ InUse' = InUse \ {t}
    BY <1>6 DEF InUse, Slotted, TypeOK, Untouched, Before
  <2>2. Cardinality(InUse') = Cardinality(InUse) - 1
    BY <2>1, InUseIsFinite, FS_RemoveElement
  <2>3. activeCount = Cardinality(InUse) /\ activeCount \in Nat /\ activeCount <= MaxActive
    BY DEF SlotsBalance, InUse, TypeOK
  <2> QED BY <1>6, <2>2, <2>3, ConstantsAssumption DEF SlotsBalance, InUse
<1>7. ASSUME NEW t \in Timers, RecheckRunning(t)
      PROVE  SlotsBalance'
  <2>1. CASE lifecycle = "running"
    <3>1. InUse' = InUse
      BY <1>7, <2>1 DEF RecheckRunning, Moves, InUse, Slotted, TypeOK
    <3> QED BY <1>2, <1>7, <2>1, <3>1 DEF RecheckRunning
  <2>2. CASE lifecycle # "running"
    BY <1>6, <1>7, <2>2 DEF RecheckRunning, Moves
  <2> QED BY <2>1, <2>2
<1>8. ASSUME NEW t \in Timers, SendAdd(t)
      PROVE  SlotsBalance'
  <2>1. CASE ReceiverGone
    <3>1. t \notin released /\ {t} \ released = {t}
      BY <1>8, <2>1 DEF SendAdd, Moves, Untouched, Before
    <3>2. activeCount' = activeCount - 1 /\ released' = released \cup {t}
      BY <1>8, <2>1, <3>1, FS_Singleton DEF SendAdd, ReleaseSlot
    <3> QED BY <1>6, <1>8, <2>1, <3>2 DEF SendAdd, Moves
  <2>2. CASE ~ReceiverGone
    <3>1. InUse' = InUse
      BY <1>8, <2>2 DEF SendAdd, Moves, InUse, Slotted, TypeOK
    <3> QED BY <1>2, <1>8, <2>2, <3>1 DEF SendAdd
  <2> QED BY <2>1, <2>2
<1>9. ASSUME NEW t \in Timers, Own(t)
      PROVE  SlotsBalance'
  <2>1. InUse' = InUse
    BY <1>9 DEF Own, Receive, Wake, Drop, Moves, InUse, Slotted, TypeOK
  <2> QED BY <1>2, <1>9, <2>1 DEF Own, Receive, Wake, Drop
<1>10. ASSUME NEW t \in Timers, MarkCancelled(t) \/ SendCancel(t)
       PROVE  SlotsBalance'
  BY <1>3, <1>4, <1>10 DEF MarkCancelled, SendCancel, CancelsAreMarked
<1>11. CASE ReleaseTask
  BY <1>4, <1>11, TaskFields DEF ReleaseTask, HandSuits, Busy
<1>12. CASE HandleAdd
  <2>1. Head(commands).task.timer \in Timers /\ Started(Head(commands).task.timer)
    BY <1>12, TailTakes, TaskFields DEF HandleAdd, Takes, OnePlace, Ops
  <2> QED BY <1>3, <1>4, <1>12, <2>1 DEF HandleAdd, MarkShutdown
<1>13. CASE HandleCancel
  <2>1. Head(commands).task.timer \in Timers /\ Started(Head(commands).task.timer)
    BY <1>13, TailTakes DEF HandleCancel, Takes, CancelsAreMarked, Ops
  <2> QED BY <1>3, <1>4, <1>13, <2>1 DEF HandleCancel
<1>14. CASE DrainTask
  <2>1. PICK k \in tasks : MarkShutdown(k.timer)
    BY <1>14 DEF DrainTask
  <2>2. k.timer \in Timers /\ Started(k.timer)
    BY TaskFields DEF OnePlace, TypeOK
  <2> QED BY <1>4, <1>14, <2>1, <2>2 DEF DrainTask, MarkShutdown
<1>15. CASE \/ PopStale \/ PopDue \/ Wait \/ Timeout \/ CompleteDeadline \/ SendDeadline
            \/ DeliverInterval \/ Renew \/ HandleShutdown \/ StopWorker \/ EndWorker
            \/ BeginShutdown \/ SendShutdown \/ JoinWorker \/ Tick
  BY <1>3, <1>15 DEF PopStale, PopDue, Wait, Timeout, CompleteDeadline, SendDeadline,
       DeliverInterval, Renew, HandleShutdown, StopWorker, EndWorker, BeginShutdown,
       SendShutdown, JoinWorker, Tick
<1> QED BY <1>5, <1>7, <1>8, <1>9, <1>10, <1>11, <1>12, <1>13, <1>14, <1>15
        DEF Next, Worker, Schedule

-----------------------------------------------------------------------------
(* Types, and the theorems *)

(* An event is an event, whatever it skips.                                *)
LEMMA EventIsEvent ==
  ASSUME TypeOK, HandSuits, worker.pc \in Busy, NEW n \in Nat
  PROVE  Event(n) \in ScheduleEvent
BY ElapsedCounts DEF Event, ScheduleEvent

(* What the worker keeps has its type in every step.                       *)
LEMMA WorkerTypes ==
  ASSUME TypeOK, HandSuits, OnePlace, Next
  PROVE  /\ commands' \in Seq(SystemCommand)
         /\ worker' \in [pc : WorkerPc, task : Task \cup {NoTask}, observed : Nat]
         /\ tasks' \subseteq Task
         /\ due' \subseteq DueEntry
<1> DEFINE Goal == /\ commands' \in Seq(SystemCommand)
                   /\ worker' \in [pc : WorkerPc, task : Task \cup {NoTask}, observed : Nat]
                   /\ tasks' \subseteq Task
                   /\ due' \subseteq DueEntry
<1>1. /\ commands \in Seq(SystemCommand)
      /\ worker \in [pc : WorkerPc, task : Task \cup {NoTask}, observed : Nat]
      /\ tasks \subseteq Task /\ due \subseteq DueEntry /\ now \in Nat
  BY DEF TypeOK
<1>2. ASSUME NEW pc \in WorkerPc
      PROVE  /\ [worker EXCEPT !.pc = pc] \in
                  [pc : WorkerPc, task : Task \cup {NoTask}, observed : Nat]
             /\ [pc |-> pc, task |-> NoTask, observed |-> 0] \in
                  [pc : WorkerPc, task : Task \cup {NoTask}, observed : Nat]
  BY <1>1
<1>3. CASE Aside
  BY <1>1, <1>3, AsideFrame
<1>4. CASE SendShutdown
  BY <1>1, <1>4, SendShutdownSends DEF SendShutdown, Sends
<1>5. ASSUME NEW t \in Timers, (SendAdd(t) \/ SendCancel(t)) /\ ~ReceiverGone
      PROVE  Goal
  BY <1>1, <1>5, SendAddSends, SendCancelSends DEF SendAdd, SendCancel, Sends
<1>6. CASE HandleAdd
  <2>1. Takes /\ commands[1].task \in Task
    BY <1>6, TailTakes DEF HandleAdd, OnePlace, Ops, Takes
  <2>2. [instant |-> commands[1].task.at, timer |-> commands[1].task.timer] \in DueEntry
    BY <2>1, TaskFields DEF DueEntry
  <2>3. worker' = [worker EXCEPT !.pc = "fire"]
    BY <1>6 DEF HandleAdd, TakesCommand, To
  <2>4. tasks' \subseteq Task /\ due' \subseteq DueEntry
    BY <1>1, <1>6, <2>1, <2>2 DEF HandleAdd, Takes
  <2> QED BY <1>2, <2>1, <2>3, <2>4 DEF WorkerPc, Takes
<1>7. CASE HandleCancel \/ HandleShutdown
  <2>1. Takes /\ tasks' \subseteq tasks /\ UNCHANGED due
    BY <1>7, TailTakes DEF HandleCancel, HandleShutdown
  <2>2. \/ worker' = [worker EXCEPT !.pc = "fire"]
        \/ worker' = [worker EXCEPT !.pc = "drain"]
    BY <1>7 DEF HandleCancel, HandleShutdown, TakesCommand, To
  <2> QED BY <1>1, <1>2, <2>1, <2>2 DEF WorkerPc, Takes
<1>8. CASE PopDue
  <2>1. PICK k \in tasks :
          worker' = [pc |-> IF state[k.timer] = "active" THEN "deliver" ELSE "release",
                     task |-> k, observed |-> now]
    BY <1>8 DEF PopDue, TasksOf
  <2> QED BY <1>1, <1>8, <2>1 DEF PopDue, WorkerPc
<1>9. CASE Renew
  <2>1. CASE state[worker.task.timer] = "active"
    <3> DEFINE at == worker.task.at + Delay * Elapsed
    <3> DEFINE s == worker.task.sequence + Elapsed
    <3>1. /\ tasks' = tasks \cup {[timer |-> worker.task.timer, at |-> at, sequence |-> s]}
          /\ due' = due \cup {[instant |-> at, timer |-> worker.task.timer]}
          /\ worker' = [pc |-> "fire", task |-> NoTask, observed |-> 0]
          /\ UNCHANGED commands /\ worker.pc = "renew"
      BY <1>9, <2>1 DEF Renew, PutDown
    <3>2. Elapsed \in Nat /\ Delay \in Nat /\ worker.task.at \in Nat /\ worker.task.sequence \in Nat
      BY <3>1, ElapsedCounts, ConstantsAssumption DEF Busy
    <3>3. at \in Nat /\ s \in Nat
      <4> HIDE DEF Elapsed
      <4> QED BY <3>2
    <3>4. worker.task.timer \in Timers
      BY <3>1, TaskFields DEF HandSuits, Busy
    <3> HIDE DEF at, s
    <3>5. /\ [timer |-> worker.task.timer, at |-> at, sequence |-> s] \in Task
          /\ [instant |-> at, timer |-> worker.task.timer] \in DueEntry
      BY <3>3, <3>4 DEF Task, DueEntry
    <3> QED BY <1>1, <1>2, <3>1, <3>5 DEF WorkerPc
  <2>2. CASE state[worker.task.timer] # "active"
    BY <1>1, <1>2, <1>9, <2>2 DEF Renew, To, WorkerPc
  <2> QED BY <2>1, <2>2
<1>10. CASE \/ PopStale \/ Wait \/ Timeout \/ CompleteDeadline \/ SendDeadline
            \/ DeliverInterval \/ ReleaseTask \/ DrainTask \/ StopWorker \/ EndWorker
  <2>1. /\ UNCHANGED commands \/ commands' = << >>
        /\ tasks' \subseteq tasks /\ due' \subseteq due
        /\ \/ UNCHANGED worker
           \/ \E pc \in WorkerPc : \/ worker' = [worker EXCEPT !.pc = pc]
                                   \/ worker' = [pc |-> pc, task |-> NoTask, observed |-> 0]
    BY <1>10 DEF PopStale, Wait, Timeout, CompleteDeadline, SendDeadline, DeliverInterval,
         ReleaseTask, DrainTask, StopWorker, EndWorker, To, PutDown, WorkerPc
  <2>2. worker' \in [pc : WorkerPc, task : Task \cup {NoTask}, observed : Nat]
    BY <1>1, <1>2, <2>1
  <2>3. commands' \in Seq(SystemCommand)
    BY <1>1, <2>1, EmptySeq
  <2> QED BY <1>1, <2>1, <2>2, <2>3
<1> QED BY <1>3, <1>4, <1>5, <1>6, <1>7, <1>8, <1>9, <1>10, StepKinds DEF Worker

(* What the timers share has its type in every step.                       *)
LEMMA TimerTypes ==
  ASSUME TypeOK, HandSuits, OnePlace, CancelsAreMarked, OneEvent, Next
  PROVE  /\ now' \in Nat /\ lifecycle' \in {"running", "shutting_down", "stopped"}
         /\ stopper' \in StopperPc
         /\ state' \in [Timers -> TimerState]
         /\ released' \subseteq Timers /\ cancelling' \subseteq Timers /\ late' \subseteq Timers
         /\ owner' \in [Timers -> OwnerPc]
         /\ queue' \in [Timers -> Seq(ScheduleEvent)]
         /\ \A t \in Timers : Len(queue'[t]) <= 1
         /\ last' \in [Timers -> ScheduleEvent]
<1>1. /\ UNCHANGED now \/ now' = now + 1
      /\ UNCHANGED lifecycle \/ lifecycle' \in {"shutting_down", "stopped"}
      /\ UNCHANGED stopper \/ stopper' \in {"sending", "joining", "done"}
  BY DEF Next, Worker, Schedule, Own, TakeSlot, RecheckRunning, SendAdd, Receive, Wake, Drop,
     MarkCancelled, SendCancel, PopStale, PopDue, Wait, Timeout, CompleteDeadline,
     SendDeadline, DeliverInterval, Renew, ReleaseTask, HandleAdd, HandleCancel,
     HandleShutdown, DrainTask, StopWorker, EndWorker, BeginShutdown, SendShutdown,
     JoinWorker, Tick
<1>2. owner' \in [Timers -> OwnerPc] /\ cancelling' \subseteq Timers
  BY DEF TypeOK, OwnerPc, Moves, Next, Worker, Schedule, Own, TakeSlot, RecheckRunning, SendAdd, Receive, Wake, Drop,
     MarkCancelled, SendCancel, PopStale, PopDue, Wait, Timeout, CompleteDeadline,
     SendDeadline, DeliverInterval, Renew, ReleaseTask, HandleAdd, HandleCancel,
     HandleShutdown, DrainTask, StopWorker, EndWorker, BeginShutdown, SendShutdown,
     JoinWorker, Tick
<1>3. late' \subseteq Timers
  <2>1. UNCHANGED late \/ \E t \in Timers : late' = late \cup {t}
    BY DEF Next, Worker, Schedule, Own, TakeSlot, RecheckRunning, SendAdd, Receive, Wake, Drop,
     MarkCancelled, SendCancel, PopStale, PopDue, Wait, Timeout, CompleteDeadline,
     SendDeadline, DeliverInterval, Renew, ReleaseTask, HandleAdd, HandleCancel,
     HandleShutdown, DrainTask, StopWorker, EndWorker, BeginShutdown, SendShutdown,
     JoinWorker, Tick
  <2> QED BY <2>1 DEF TypeOK
<1>4. state' \in [Timers -> TimerState]
  <2>1. UNCHANGED state \/ \E t \in Timers, x \in TimerState : state' = [state EXCEPT ![t] = x]
    <3>1. CASE CompleteDeadline
      BY <3>1, TaskFields DEF CompleteDeadline, HandSuits, Busy, TimerState
    <3>2. CASE HandleAdd
      <4>1. Head(commands).task.timer \in Timers
        BY <3>2, TailTakes, TaskFields DEF HandleAdd, Takes, OnePlace, Ops
      <4> QED BY <3>2, <4>1 DEF HandleAdd, MarkShutdown, TimerState
    <3>3. CASE DrainTask
      <4>1. PICK k \in tasks : MarkShutdown(k.timer)
        BY <3>3 DEF DrainTask
      <4>2. k.timer \in Timers
        BY TaskFields DEF TypeOK
      <4> QED BY <4>1, <4>2 DEF MarkShutdown, TimerState
    <3>4. ASSUME NEW t \in Timers, SendAdd(t) \/ MarkCancelled(t)
          PROVE  \E x \in TimerState : state' = [state EXCEPT ![t] = x]
      BY <3>4 DEF SendAdd, MarkCancelled, TimerState
    <3>5. CASE \/ PopStale \/ PopDue \/ Wait \/ Timeout \/ SendDeadline \/ DeliverInterval
               \/ Renew \/ ReleaseTask \/ HandleCancel \/ HandleShutdown \/ StopWorker
               \/ EndWorker \/ BeginShutdown \/ SendShutdown \/ JoinWorker \/ Tick
      BY <3>5 DEF PopStale, PopDue, Wait, Timeout, SendDeadline, DeliverInterval, Renew,
           ReleaseTask, HandleCancel, HandleShutdown, StopWorker, EndWorker, BeginShutdown,
           SendShutdown, JoinWorker, Tick
    <3>6. ASSUME NEW t \in Timers, TakeSlot(t) \/ RecheckRunning(t) \/ Own(t) \/ SendCancel(t)
          PROVE  UNCHANGED state
      BY <3>6 DEF TakeSlot, RecheckRunning, Own, Receive, Wake, Drop, SendCancel
    <3> QED BY <3>1, <3>2, <3>3, <3>4, <3>5, <3>6 DEF Next, Worker, Schedule
  <2> QED BY <2>1 DEF TypeOK
<1>5. released' \subseteq Timers
  <2>1. UNCHANGED released \/ \E t \in Timers : released' = released \cup {t}
    <3>1. CASE ReleaseTask
      BY <3>1, TaskFields DEF ReleaseTask, ReleaseSlot, HandSuits, Busy
    <3>2. CASE HandleAdd
      <4>1. Head(commands).task.timer \in Timers
        BY <3>2, TailTakes, TaskFields DEF HandleAdd, Takes, OnePlace, Ops
      <4> QED BY <3>2, <4>1 DEF HandleAdd, MarkShutdown, ReleaseSlot
    <3>3. CASE DrainTask
      <4>1. PICK k \in tasks : MarkShutdown(k.timer)
        BY <3>3 DEF DrainTask
      <4>2. k.timer \in Timers
        BY TaskFields DEF TypeOK
      <4> QED BY <4>1, <4>2 DEF MarkShutdown, ReleaseSlot
    <3>4. CASE HandleCancel
      <4>1. Head(commands).task.timer \in Timers
        BY <3>4, TailTakes DEF HandleCancel, Takes, CancelsAreMarked, Ops
      <4> QED BY <3>4, <4>1 DEF HandleCancel, ReleaseSlot
    <3>5. CASE \/ PopStale \/ PopDue \/ Wait \/ Timeout \/ CompleteDeadline \/ SendDeadline
               \/ DeliverInterval \/ Renew \/ HandleShutdown \/ StopWorker
               \/ EndWorker \/ BeginShutdown \/ SendShutdown \/ JoinWorker \/ Tick
      BY <3>5 DEF PopStale, PopDue, Wait, Timeout, CompleteDeadline, SendDeadline,
           DeliverInterval, Renew, HandleShutdown, StopWorker, EndWorker, BeginShutdown,
           SendShutdown, JoinWorker, Tick
    <3>6. ASSUME NEW t \in Timers, Schedule(t) \/ Own(t) \/ MarkCancelled(t) \/ SendCancel(t)
          PROVE  UNCHANGED released \/ released' = released \cup {t}
      BY <3>6 DEF Schedule, TakeSlot, RecheckRunning, SendAdd, Own, Receive, Wake, Drop,
           MarkCancelled, SendCancel, ReleaseSlot
    <3> QED BY <3>1, <3>2, <3>3, <3>4, <3>5, <3>6 DEF Next, Worker
  <2> QED BY <2>1 DEF TypeOK
<1>6. /\ queue' \in [Timers -> Seq(ScheduleEvent)]
      /\ \A t \in Timers : Len(queue'[t]) <= 1
      /\ last' \in [Timers -> ScheduleEvent]
  <2>1. CASE UNCHANGED <<queue, last>>
    BY <2>1 DEF TypeOK
  <2>2. ASSUME NEW t \in Timers, Own(t)
        PROVE  /\ queue' \in [Timers -> Seq(ScheduleEvent)]
               /\ \A u \in Timers : Len(queue'[u]) <= 1
               /\ last' \in [Timers -> ScheduleEvent]
    <3>1. queue[t] # << >> => Head(queue[t]) \in ScheduleEvent
      BY EventTypes
    <3>2. /\ queue' = queue \/ queue' = [queue EXCEPT ![t] = << >>]
          /\ \/ last' = last
             \/ queue[t] # << >> /\ last' = [last EXCEPT ![t] = Head(queue[t])]
      BY <2>2 DEF Own, Receive, Wake, Drop, Take
    <3>3. << >> \in Seq(ScheduleEvent) /\ Len(<< >>) = 0
      BY EmptySeq
    <3>4. last' \in [Timers -> ScheduleEvent]
      BY <3>1, <3>2 DEF TypeOK
    <3>5. \A u \in Timers : queue'[u] = queue[u] \/ queue'[u] = << >>
      BY <3>2 DEF TypeOK
    <3>6. queue' \in [Timers -> Seq(ScheduleEvent)]
      BY <3>2, <3>3 DEF TypeOK
    <3>7. \A u \in Timers : Len(queue'[u]) <= 1
      BY <3>3, <3>5 DEF TypeOK
    <3> QED BY <3>4, <3>6, <3>7
  <2>3. ASSUME NEW u \in Timers, NEW e \in ScheduleEvent, TrySend(u, e)
        PROVE  /\ queue' \in [Timers -> Seq(ScheduleEvent)]
               /\ \A t \in Timers : Len(queue'[t]) <= 1
    <3>1. <<e>> \in Seq(ScheduleEvent) /\ Len(<<e>>) = 1
      OBVIOUS
    <3> QED BY <2>3, <3>1 DEF TrySend, TypeOK
  <2>4. CASE SendDeadline
    <3>1. worker.task.timer \in Timers /\ Event(0) \in ScheduleEvent
      BY <2>4, EventIsEvent, TaskFields DEF SendDeadline, HandSuits, Busy
    <3> QED BY <2>3, <2>4, <3>1 DEF SendDeadline, TypeOK
  <2>5. CASE DeliverInterval
    <3>1. worker.pc \in Busy
      BY <2>5 DEF DeliverInterval, Busy
    <3>2. Elapsed - 1 \in Nat
      BY <3>1, ElapsedCounts
    <3> HIDE DEF Elapsed
    <3>3. worker.task.timer \in Timers /\ Event(Elapsed - 1) \in ScheduleEvent
      BY <3>1, <3>2, EventIsEvent, TaskFields DEF HandSuits
    <3> QED BY <2>1, <2>3, <2>5, <3>3 DEF DeliverInterval, TypeOK
  <2>6. CASE \/ PopStale \/ PopDue \/ Wait \/ Timeout \/ CompleteDeadline \/ HandleAdd
             \/ HandleCancel \/ Renew \/ ReleaseTask \/ DrainTask \/ HandleShutdown \/ StopWorker
             \/ EndWorker \/ BeginShutdown \/ SendShutdown \/ JoinWorker \/ Tick
    BY <2>1, <2>6 DEF PopStale, PopDue, Wait, Timeout, CompleteDeadline, HandleAdd,
         HandleCancel, Renew, ReleaseTask, DrainTask, HandleShutdown, StopWorker, EndWorker,
         BeginShutdown, SendShutdown, JoinWorker, Tick
  <2>7. ASSUME NEW t \in Timers, Schedule(t) \/ MarkCancelled(t) \/ SendCancel(t)
        PROVE  UNCHANGED <<queue, last>>
    BY <2>7 DEF Schedule, TakeSlot, RecheckRunning, SendAdd, MarkCancelled, SendCancel
  <2> QED BY <2>1, <2>2, <2>4, <2>5, <2>6, <2>7 DEF Next, Worker
<1>7. now' \in Nat /\ lifecycle' \in {"running", "shutting_down", "stopped"}
      /\ stopper' \in StopperPc
  BY <1>1 DEF TypeOK, StopperPc
<1> QED BY <1>2, <1>3, <1>4, <1>5, <1>6, <1>7

(* The invariant holds when the scheduler is made.                         *)
LEMMA SchedulerInit == Init => SchedulerInvariant
<1> SUFFICES ASSUME Init PROVE SchedulerInvariant
  OBVIOUS
<1> USE DEF Init
<1>1. NoEvent \in ScheduleEvent /\ << >> \in Seq(ScheduleEvent) /\ Len(<< >>) = 0
      /\ << >> \in Seq(SystemCommand)
  BY DEF NoEvent, ScheduleEvent
<1>2. TypeOK
  <2>1. state \in [Timers -> TimerState] /\ owner \in [Timers -> OwnerPc]
    BY DEF TimerState, OwnerPc
  <2>2. worker \in [pc : WorkerPc, task : Task \cup {NoTask}, observed : Nat]
    BY DEF WorkerPc
  <2>3. queue \in [Timers -> Seq(ScheduleEvent)] /\ last \in [Timers -> ScheduleEvent]
        /\ \A t \in Timers : Len(queue[t]) <= 1
    BY <1>1
  <2> QED BY <1>1, <2>1, <2>2, <2>3 DEF TypeOK, StopperPc
<1>3. SlotsBalance
  <2>1. {t \in Timers : Slotted(t) /\ t \notin released} = {}
    BY DEF Slotted
  <2>2. Cardinality({t \in Timers : Slotted(t) /\ t \notin released}) = 0 /\ activeCount = 0
    BY <2>1, FS_EmptySet
  <2>3. 0 <= MaxActive
    BY ConstantsAssumption
  <2> QED BY <2>2, <2>3 DEF SlotsBalance
<1>4. Untouched /\ HandSuits
  BY DEF Untouched, HandSuits, Before, Started, Busy
<1>5. OnePlace /\ CancelsAreMarked /\ StopsOnce
  BY DEF OnePlace, CancelsAreMarked, StopsOnce, Ops, Ending
<1>6. SlotHasTask /\ OneEvent /\ CompletedHasItsEvent
  <2>1. /\ Intervals \subseteq Timers
        /\ \A t \in Timers : /\ state[t] = "none" /\ owner[t] = "new"
                            /\ queue[t] = << >> /\ last[t] = NoEvent
        /\ worker.pc = "fire" /\ tasks = {} /\ commands = << >>
    BY ConstantsAssumption
  <2>2. SlotHasTask /\ CompletedHasItsEvent
    BY <2>1 DEF SlotHasTask, CompletedHasItsEvent
  <2>3. OneEvent
    BY <2>1 DEF OneEvent, Ops, Busy
  <2> QED BY <2>2, <2>3
<1>7. OnTheGrid
  BY DEF OnTheGrid, Ops
<1> QED BY <1>2, <1>3, <1>4, <1>5, <1>6, <1>7 DEF SchedulerInvariant

(* Every step keeps the invariant.                                         *)
LEMMA SchedulerStep == SchedulerInvariant /\ [Next]_vars => SchedulerInvariant'
<1> SUFFICES ASSUME SchedulerInvariant, [Next]_vars PROVE SchedulerInvariant'
  OBVIOUS
<1> USE DEF SchedulerInvariant
<1>1. CASE Next
  <2> USE <1>1
  <2>1. Untouched' /\ HandSuits' /\ OnePlace' /\ CancelsAreMarked'
    BY UntouchedStep, HandStep, PlaceStep, CancelStep
  <2>2. SlotHasTask' /\ StopsOnce'
    BY SlotStep, StopStep
  <2>3. OneEvent' /\ CompletedHasItsEvent'
    <3>1. TasksAreNumbered /\ EventsAreOnce
      BY OneEventParts
    <3>2. TasksAreNumbered' /\ EventsAreOnce' /\ CompletedHasItsEvent'
      BY <3>1, NumberStep, EventStep
    <3> QED BY <3>2 DEF OneEvent, TasksAreNumbered, EventsAreOnce
  <2>4. OnTheGrid'
    <3>1. TasksKeepTheGrid /\ EventsAreSound
      BY GridParts
    <3>2. TasksKeepTheGrid' /\ EventsAreSound'
      BY <3>1, GridStep, SoundStep
    <3> QED BY <3>2 DEF OnTheGrid, TasksKeepTheGrid, EventsAreSound
  <2>5. SlotsBalance'
    BY BalanceStep
  <2>6. activeCount' \in Nat
    BY <2>5, InUseIsFinite DEF SlotsBalance, InUse
  <2>7. TypeOK'
    BY <2>6, WorkerTypes, TimerTypes DEF TypeOK
  <2> QED BY <2>1, <2>2, <2>3, <2>4, <2>5, <2>7
<1>2. CASE UNCHANGED vars
  BY <1>2 DEF vars, TypeOK, SlotsBalance, Slotted, Untouched, Before, Started, HandSuits, Busy,
     OnePlace, HasTask, HasEntry, InHand, CancelsAreMarked, SlotHasTask, Queued, StopsOnce,
     Ending, OneEvent, CompletedHasItsEvent, Locked, OnTheGrid, ComesNext, SoundEvent, Elapsed,
     Ops
<1> QED BY <1>1, <1>2

(* The invariant of a run follows: an active timer has its task and its    *)
(* entry, and a scheduler that was joined has closed every timer.          *)
LEMMA TimerInvariantHolds == SchedulerInvariant => TimerInvariant
<1> SUFFICES ASSUME SchedulerInvariant PROVE TimerInvariant
  OBVIOUS
<1> USE DEF SchedulerInvariant
<1>1. ActiveIsScheduled
  <2> SUFFICES ASSUME worker.pc \notin {"drain", "ending", "gone"},
                      NEW t \in Timers, state[t] = "active",
                      ~Queued(t), ~InHand(t)
               PROVE  \E task \in TasksOf(t) :
                        /\ TasksOf(t) = {task}
                        /\ {e \in due : e.timer = t} = {[instant |-> task.at, timer |-> t]}
    BY DEF ActiveIsScheduled, Queued, Ops
  <2>1. PICK k \in tasks : k.timer = t
    BY DEF SlotHasTask, HasTask
  <2>2. TasksOf(t) = {k}
    BY <2>1 DEF TasksOf, OnePlace
  <2>3. {e \in due : e.timer = t} = {[instant |-> k.at, timer |-> t]}
    <3>1. [instant |-> k.at, timer |-> t] \in due
      BY <2>1 DEF OnePlace
    <3>2. \A e \in due : e.timer = t => e = [instant |-> k.at, timer |-> t]
      BY <3>1 DEF OnePlace
    <3> QED BY <3>1, <3>2
  <2> QED BY <2>2, <2>3
<1>2. ShutdownClosesTimers
  <2> SUFFICES ASSUME stopper = "done", NEW t \in Timers \ late
               PROVE  state[t] # "active" /\ (state[t] # "none" => t \in released)
    BY DEF ShutdownClosesTimers
  <2>1. worker.pc = "gone" /\ commands = << >> /\ tasks = {}
    BY DEF StopsOnce
  <2>2. ~Queued(t) /\ ~HasTask(t) /\ ~InHand(t)
    BY <2>1, TaskFields DEF Queued, Ops, HasTask, InHand, HandSuits, Busy
  <2> QED BY <2>2 DEF SlotHasTask
<1> QED BY <1>1, <1>2 DEF TimerInvariant

(* TimerInvariant, for any number of timers and any limit: active_count is *)
(* the number of slots in use and within the limit, an active timer is     *)
(* never forgotten by the worker, a completed deadline has its one event,  *)
(* and a scheduler that was shut down has closed every timer except those  *)
(* whose Add was sent behind the Shutdown.                                 *)
THEOREM TimersAlwaysAgree == Spec => []TimerInvariant
<1>1. Spec => []SchedulerInvariant
  BY SchedulerInit, SchedulerStep, PTL DEF Spec
<1> QED BY <1>1, TimerInvariantHolds, PTL

(* CancelIsFinal: no step takes a timer out of cancelled, completed or     *)
(* shutdown, and none delivers an event to a timer that was cancelled.     *)
THEOREM CancellationIsFinal == Spec => CancelIsFinal
<1>1. SchedulerInvariant /\ [Next]_vars =>
        [\A t \in Timers : state[t] \notin {"none", "active"} =>
           /\ state'[t] = state[t]
           /\ state[t] = "cancelled" => Len(queue'[t]) <= Len(queue[t])]_vars
  <2> SUFFICES ASSUME SchedulerInvariant, Next, NEW t \in Timers,
                      state[t] \notin {"none", "active"}
               PROVE  /\ state'[t] = state[t]
                      /\ state[t] = "cancelled" => Len(queue'[t]) <= Len(queue[t])
    OBVIOUS
  <2>1. TypeOK /\ HandSuits /\ Untouched
    BY DEF SchedulerInvariant
  <2>2. state'[t] = state[t]
    BY <2>1, StepsAreIrrevocable DEF Irrevocable
  <2>3. ASSUME state[t] = "cancelled" PROVE queue'[t] \in {queue[t], << >>}
    <3>1. CASE SendDeadline
      <4>1. worker.task.timer # t
        BY <2>1, <2>3, <3>1 DEF SendDeadline, HandSuits
      <4> QED BY <2>1, <3>1, <4>1 DEF SendDeadline, TrySend, TypeOK
    <3>2. CASE DeliverInterval
      BY <2>1, <2>3, <3>2 DEF DeliverInterval, TrySend, TypeOK
    <3>3. ASSUME NEW u \in Timers, Own(u)
          PROVE  queue'[t] \in {queue[t], << >>}
      BY <2>1, <3>3 DEF Own, Receive, Wake, Drop, Take, TypeOK
    <3>4. CASE UNCHANGED queue
      BY <3>4
    <3>5. ASSUME NEW u \in Timers, Schedule(u) \/ MarkCancelled(u) \/ SendCancel(u)
          PROVE  UNCHANGED queue
      BY <3>5 DEF Schedule, TakeSlot, RecheckRunning, SendAdd, MarkCancelled, SendCancel
    <3>6. CASE Worker /\ ~SendDeadline /\ ~DeliverInterval
      BY <3>4, <3>6 DEF Worker, PopStale, PopDue, Wait, Timeout, CompleteDeadline, Renew,
         ReleaseTask, HandleAdd, HandleCancel, HandleShutdown, DrainTask, StopWorker, EndWorker
    <3>7. CASE BeginShutdown \/ SendShutdown \/ JoinWorker \/ Tick
      BY <3>4, <3>7 DEF BeginShutdown, SendShutdown, JoinWorker, Tick
    <3> QED BY <3>1, <3>2, <3>3, <3>4, <3>5, <3>6, <3>7 DEF Next
  <2>4. Len(queue[t]) \in Nat /\ Len(<< >>) = 0
    BY <2>1 DEF TypeOK
  <2> QED BY <2>2, <2>3, <2>4
<1>2. Spec => []SchedulerInvariant
  BY SchedulerInit, SchedulerStep, PTL DEF Spec
<1> QED BY <1>1, <1>2, PTL DEF Spec, CancelIsFinal

(* EventsKeepTheGrid, for every delay and every instant: what an owner     *)
(* receives is never early, and the events of an interval come in order,   *)
(* on the grid of its period, accounting for every period skipped, though  *)
(* the worker may be late and events may find the channel full.            *)
THEOREM ReceivedOnTheGrid == Spec => EventsKeepTheGrid
<1> DEFINE Good(t) ==
      last'[t] # last[t] =>
       LET e == last'[t] IN
       /\ e.scheduled <= e.observed
       /\ t \in Intervals =>
            /\ e.sequence > last[t].sequence + last[t].skipped
            /\ last[t] # NoEvent =>
                 e.scheduled - last[t].scheduled = Delay * (e.sequence - last[t].sequence)
            /\ e.observed - e.scheduled >= Delay * e.skipped
            /\ e.observed - e.scheduled < Delay * (e.skipped + 1)
<1>1. SchedulerInvariant /\ [Next]_vars => [\A t \in Timers : Good(t)]_vars
  <2> SUFFICES ASSUME SchedulerInvariant, Next, NEW t \in Timers, last'[t] # last[t]
               PROVE  Good(t)
    OBVIOUS
  <2>1. TypeOK /\ EventsAreSound
    BY GridParts DEF SchedulerInvariant
  <2>2. queue[t] # << >> /\ last'[t] = Head(queue[t])
    <3>1. PICK u \in Timers : Own(u)
      BY DEF Next, Worker, Schedule, TakeSlot, RecheckRunning, SendAdd, MarkCancelled,
         SendCancel, PopStale, PopDue, Wait, Timeout, CompleteDeadline, SendDeadline,
         DeliverInterval, Renew, ReleaseTask, HandleAdd, HandleCancel, HandleShutdown,
         DrainTask, StopWorker, EndWorker, BeginShutdown, SendShutdown, JoinWorker, Tick
    <3> QED BY <2>1, <3>1 DEF Own, Receive, Wake, Drop, Take, TypeOK
  <2>3. SoundEvent(t, last'[t])
    BY <2>1, <2>2, EventTypes DEF EventsAreSound
  <2> QED BY <2>3 DEF SoundEvent, Follows
<1>2. Spec => []SchedulerInvariant
  BY SchedulerInit, SchedulerStep, PTL DEF Spec
<1> QED BY <1>1, <1>2, PTL DEF Spec, EventsKeepTheGrid
=============================================================================
