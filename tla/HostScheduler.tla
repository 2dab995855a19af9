--------------------------- MODULE HostScheduler ---------------------------
(***************************************************************************)
(* The timers of the host services (boon_host_services/src/scheduler.rs).  *)
(* Threads of the host schedule, receive from, cancel and drop timers and  *)
(* shut the scheduler down; one worker thread owns the tasks and the heap  *)
(* of due times and takes commands from an unbounded channel.              *)
(*                                                                         *)
(* A step is one access to what threads share: an atomic, a channel, or    *)
(* what is done under a timer's delivery lock.  Storing Completed and      *)
(* sending the event are two steps under one lock, because receiving and   *)
(* reading the state take no lock.  slot_released.swap and the fetch_sub   *)
(* that follows it are one step.                                           *)
(*                                                                         *)
(* A timer stands also for the thread that schedules it and then owns it;  *)
(* anybody may hold a handle that cancels it.  Durations are small         *)
(* numbers; the limits on them are left out.                               *)
(***************************************************************************)
EXTENDS Integers, Sequences, FiniteSets

CONSTANTS
  Timers,       \* timer ids, numbers
  Intervals,    \* the timers that are intervals; the others are deadlines
  Delay,        \* the delay of a deadline and the period of an interval
  MaxActive,    \* max_concurrent_scheduled_timers
  MaxTime       \* bound: the last instant of the clock

ASSUME ConstantsAssumption ==
  /\ Timers \subseteq Nat /\ IsFiniteSet(Timers)
  /\ Intervals \subseteq Timers
  /\ {Delay, MaxActive} \subseteq Nat \ {0}
  /\ MaxTime \in Nat

VARIABLES
  now,          \* the monotonic clock
  lifecycle,    \* SchedulerShared::lifecycle
  activeCount,  \* SchedulerShared::active_count
  state,        \* TimerControl::state of each timer
  released,     \* the timers whose slot_released is set
  queue,        \* the one-event channel of each timer
  owner,        \* where the thread that owns each timer is
  cancelling,   \* the timers somebody has cancelled and not yet sent Cancel for
  commands,     \* the command channel
  worker,       \* the worker: where it is, and the task it has in hand
  tasks,        \* the worker's tasks, a set of records
  due,          \* the worker's heap, a set of entries
  stopper,      \* where the thread that shuts the scheduler down is
  late,         \* history: the timers whose Add was sent behind the Shutdown
  last          \* history: the last event received of each timer

vars == <<now, lifecycle, activeCount, state, released, queue, owner, cancelling,
          commands, worker, tasks, due, stopper, late, last>>

-----------------------------------------------------------------------------
(* Types *)

TimerState == {"none", "active", "cancelled", "completed", "shutdown"}

\* scheduled_for and due_instant are the same time on two clocks.
Task == [timer : Timers, at : Nat, sequence : Nat]
NoTask == [timer |-> -1, at |-> 0, sequence |-> 0]

DueEntry == [instant : Nat, timer : Timers]

\* A deadline's event has sequence 1 and skips nothing.
ScheduleEvent == [scheduled : Nat, observed : Nat, sequence : Nat, skipped : Nat]
NoEvent == [scheduled |-> 0, observed |-> 0, sequence |-> 0, skipped |-> 0]

SystemCommand == [op : {"add", "cancel", "shutdown"}, task : Task \cup {NoTask}]
Add(task) == [op |-> "add", task |-> task]
Cancel(t) == [op |-> "cancel", task |-> [timer |-> t, at |-> 0, sequence |-> 0]]
Shutdown == [op |-> "shutdown", task |-> NoTask]

OwnerPc == {"new", "counted", "reserved", "idle", "blocked",
            "refused", "dropped"}
WorkerPc == {"fire", "wait", "deliver", "send", "renew", "release", "drain",
             "ending", "gone"}
StopperPc == {"idle", "sending", "joining", "done"}

\* Every variable has its type.
TypeOK ==
  /\ now \in Nat
  /\ lifecycle \in {"running", "shutting_down", "stopped"}
  /\ activeCount \in Nat
  /\ state \in [Timers -> TimerState]
  /\ released \subseteq Timers
  /\ queue \in [Timers -> Seq(ScheduleEvent)]
  /\ \A t \in Timers : Len(queue[t]) <= 1
  /\ owner \in [Timers -> OwnerPc]
  /\ cancelling \subseteq Timers
  /\ commands \in Seq(SystemCommand)
  /\ worker \in [pc : WorkerPc, task : Task \cup {NoTask}, observed : Nat]
  /\ tasks \subseteq Task
  /\ due \subseteq DueEntry
  /\ stopper \in StopperPc
  /\ late \subseteq Timers
  /\ last \in [Timers -> ScheduleEvent]

Init ==
  /\ now = 0
  /\ lifecycle = "running"
  /\ activeCount = 0
  /\ state = [t \in Timers |-> "none"]
  /\ released = {}
  /\ queue = [t \in Timers |-> << >>]
  /\ owner = [t \in Timers |-> "new"]
  /\ cancelling = {}
  /\ commands = << >>
  /\ worker = [pc |-> "fire", task |-> NoTask, observed |-> 0]
  /\ tasks = {}
  /\ due = {}
  /\ stopper = "idle"
  /\ late = {}
  /\ last = [t \in Timers |-> NoEvent]

-----------------------------------------------------------------------------
(* Shared operations *)

\* A faulty variant: a slot is given back as often as somebody asks for it.
ReleaseSlotAlways(ts) ==
  /\ released' = released \cup ts
  /\ activeCount' = activeCount - Cardinality(ts)

\* TimerControl::release_slot, for the timers in `ts'.
ReleaseSlot(ts) ==
  /\ released' = released \cup ts
  /\ activeCount' = activeCount - Cardinality(ts \ released)

\* The delivery lock of a timer is held by the worker between its two steps.
Locked(t) == worker.pc = "send" /\ worker.task.timer = t

ReceiverGone == worker.pc = "gone"

\* The task of a timer, wherever it is, holds the sender of its events.
HasSender(t) ==
  \/ owner[t] \in {"new", "counted", "reserved"}
  \/ \E task \in tasks : task.timer = t
  \/ worker.task.timer = t
  \/ \E i \in DOMAIN commands : commands[i].op = "add" /\ commands[i].task.timer = t

-----------------------------------------------------------------------------
(* schedule *)

Moves(t, from, to) == owner[t] = from /\ owner' = [owner EXCEPT ![t] = to]

\* reserve_slot: a running scheduler has a slot taken if there is one, ...
TakeSlot(t) ==
  /\ \/ /\ lifecycle = "running" /\ activeCount < MaxActive
        /\ Moves(t, "new", "counted")
        /\ activeCount' = activeCount + 1
     \/ /\ lifecycle # "running"
        /\ Moves(t, "new", "refused")
        /\ UNCHANGED activeCount
  /\ UNCHANGED <<now, lifecycle, state, released, queue, cancelling, commands,
                 worker, tasks, due, stopper, late, last>>

\* ... and the lifecycle is read again.
RecheckRunning(t) ==
  /\ IF lifecycle = "running"
       THEN Moves(t, "counted", "reserved") /\ UNCHANGED activeCount
       ELSE Moves(t, "counted", "refused") /\ activeCount' = activeCount - 1
  /\ UNCHANGED <<now, lifecycle, state, released, queue, cancelling, commands,
                 worker, tasks, due, stopper, late, last>>

\* schedule sends the task to the worker.  It has read the clock a little
\* before; a task may be overdue when the worker takes it all the same.
SendAdd(t) ==
  /\ \/ /\ ~ReceiverGone
        /\ Moves(t, "reserved", "idle")
        /\ state' = [state EXCEPT ![t] = "active"]
        /\ commands' = Append(commands, Add([timer |-> t, at |-> now + Delay, sequence |-> 1]))
        /\ late' = IF stopper = "joining" THEN late \cup {t} ELSE late
        /\ UNCHANGED <<activeCount, released>>
     \/ /\ ReceiverGone
        /\ Moves(t, "reserved", "refused")
        /\ state' = [state EXCEPT ![t] = "shutdown"]
        /\ ReleaseSlot({t})
        /\ UNCHANGED <<commands, late>>
  /\ UNCHANGED <<now, lifecycle, queue, cancelling, worker, tasks, due, stopper, last>>

-----------------------------------------------------------------------------
(* ScheduledTimer *)

Take(t) ==
  /\ queue[t] # << >>
  /\ queue' = [queue EXCEPT ![t] = << >>]
  /\ last' = [last EXCEPT ![t] = Head(queue[t])]

\* try_recv and recv: an event if there is one; if there is none and the timer
\* is active, recv waits.  Otherwise an error is returned (empty_error: by the
\* state, which is read after the channel), and nothing changes.
Receive(t) ==
  /\ \/ Take(t) /\ Moves(t, "idle", "idle")
     \/ /\ queue[t] = << >> /\ HasSender(t) /\ state[t] = "active"
        /\ Moves(t, "idle", "blocked")
        /\ UNCHANGED <<queue, last>>
  /\ UNCHANGED <<now, lifecycle, activeCount, state, released, cancelling,
                 commands, worker, tasks, due, stopper, late>>

\* The wait of recv ends.
Wake(t) ==
  /\ Moves(t, "blocked", "idle")
  /\ \/ Take(t)
     \/ queue[t] = << >> /\ ~HasSender(t) /\ UNCHANGED <<queue, last>>
  /\ UNCHANGED <<now, lifecycle, activeCount, state, released, cancelling,
                 commands, worker, tasks, due, stopper, late>>

\* CancellationHandle::cancel, by whoever holds a handle: the state, ...
MarkCancelled(t) ==
  /\ state[t] = "active" /\ ~Locked(t)
  /\ state' = [state EXCEPT ![t] = "cancelled"]
  /\ cancelling' = cancelling \cup {t}
  /\ UNCHANGED <<now, lifecycle, activeCount, released, queue, owner, commands,
                 worker, tasks, due, stopper, late, last>>

\* ... and then the worker is told, or the slot is released here.
SendCancel(t) ==
  /\ t \in cancelling
  /\ cancelling' = cancelling \ {t}
  /\ \/ /\ ~ReceiverGone
        /\ commands' = Append(commands, Cancel(t))
        /\ UNCHANGED <<activeCount, released>>
     \/ /\ ReceiverGone
        /\ ReleaseSlot({t})
        /\ UNCHANGED commands
  /\ UNCHANGED <<now, lifecycle, state, queue, owner, worker, tasks, due, stopper, late, last>>

\* Drop cancels first: here, once the timer is not active any more.
Drop(t) ==
  /\ Moves(t, "idle", "dropped")
  /\ state[t] # "active" /\ ~Locked(t)
  /\ queue' = [queue EXCEPT ![t] = << >>]
  /\ UNCHANGED <<now, lifecycle, activeCount, state, released, cancelling,
                 commands, worker, tasks, due, stopper, late, last>>

-----------------------------------------------------------------------------
(* The worker *)

To(pc) == worker' = [worker EXCEPT !.pc = pc]
PutDown(pc) == worker' = [pc |-> pc, task |-> NoTask, observed |-> 0]

\* The heap's first entry: the earliest, and of those the smallest id.
FirstDue ==
  CHOOSE e \in due : \A f \in due :
    e.instant < f.instant \/ (e.instant = f.instant /\ e.timer <= f.timer)
IsDue == due # {} /\ FirstDue.instant <= now
TasksOf(t) == {task \in tasks : task.timer = t}

\* fire_due_tasks pops an entry whose task is gone, ...
PopStale ==
  /\ worker.pc = "fire" /\ IsDue
  /\ TasksOf(FirstDue.timer) = {}
  /\ due' = due \ {FirstDue}
  /\ UNCHANGED <<now, lifecycle, activeCount, state, released, queue, owner,
                 cancelling, commands, worker, tasks, stopper, late, last>>

\* ... or one with its task, and looks at the timer's state.
PopDue ==
  /\ worker.pc = "fire" /\ IsDue
  /\ \E task \in TasksOf(FirstDue.timer) :
       /\ task.at = FirstDue.instant
       /\ tasks' = tasks \ {task}
       /\ worker' = [pc |-> IF state[task.timer] = "active" THEN "deliver" ELSE "release",
                     task |-> task, observed |-> now]
  /\ due' = due \ {FirstDue}
  /\ UNCHANGED <<now, lifecycle, activeCount, state, released, queue, owner,
                 cancelling, commands, stopper, late, last>>

\* elapsed_interval_count, when the task in hand was observed.
Elapsed == ((worker.observed - worker.task.at) \div Delay) + 1

Event(skipped) ==
  [scheduled |-> worker.task.at, observed |-> worker.observed,
   sequence |-> worker.task.sequence, skipped |-> skipped]

\* try_send: an event that finds the channel full is dropped.
TrySend(t, event) ==
  queue' = [queue EXCEPT ![t] = IF @ = << >> THEN <<event>> ELSE @]

\* A faulty variant: the state is not looked at again under the lock.
CompleteDeadlineUnchecked ==
  LET t == worker.task.timer IN
  /\ worker.pc = "deliver" /\ t \notin Intervals
  /\ state' = [state EXCEPT ![t] = "completed"]
  /\ To("send")
  /\ UNCHANGED <<now, lifecycle, activeCount, released, queue, owner, cancelling,
                 commands, tasks, due, stopper, late, last>>

\* deliver_deadline_event: the state, and then, still under the lock, the event.
CompleteDeadline ==
  LET t == worker.task.timer IN
  /\ worker.pc = "deliver" /\ t \notin Intervals
  /\ IF state[t] = "active"
       THEN state' = [state EXCEPT ![t] = "completed"] /\ To("send")
       ELSE To("release") /\ UNCHANGED state
  /\ UNCHANGED <<now, lifecycle, activeCount, released, queue, owner, cancelling,
                 commands, tasks, due, stopper, late, last>>

SendDeadline ==
  /\ worker.pc = "send"
  /\ TrySend(worker.task.timer, Event(0))
  /\ To("release")
  /\ UNCHANGED <<now, lifecycle, activeCount, state, released, owner, cancelling,
                 commands, tasks, due, stopper, late, last>>

\* deliver_interval_event.  The receiver cannot be gone: Drop cancels first.
DeliverInterval ==
  LET t == worker.task.timer IN
  /\ worker.pc = "deliver" /\ t \in Intervals
  /\ IF state[t] = "active" THEN TrySend(t, Event(Elapsed - 1)) ELSE UNCHANGED queue
  /\ To("renew")
  /\ UNCHANGED <<now, lifecycle, activeCount, state, released, owner, cancelling,
                 commands, tasks, due, stopper, late, last>>

\* A faulty variant: the sequence does not count skipped periods.
RenewByOne ==
  LET t == worker.task.timer
      next == worker.task.at + Delay * Elapsed
  IN
  /\ worker.pc = "renew"
  /\ \/ /\ state[t] = "active"
        /\ tasks' = tasks \cup
             {[timer |-> t, at |-> next, sequence |-> worker.task.sequence + 1]}
        /\ due' = due \cup {[instant |-> next, timer |-> t]}
        /\ PutDown("fire")
     \/ /\ state[t] # "active"
        /\ To("release")
        /\ UNCHANGED <<tasks, due>>
  /\ UNCHANGED <<now, lifecycle, activeCount, state, released, queue, owner,
                 cancelling, commands, stopper, late, last>>

\* An interval that is still active is due again after the periods elapsed.
Renew ==
  LET t == worker.task.timer
      next == worker.task.at + Delay * Elapsed
  IN
  /\ worker.pc = "renew"
  /\ \/ /\ state[t] = "active"
        /\ tasks' = tasks \cup
             {[timer |-> t, at |-> next, sequence |-> worker.task.sequence + Elapsed]}
        /\ due' = due \cup {[instant |-> next, timer |-> t]}
        /\ PutDown("fire")
     \/ /\ state[t] # "active"
        /\ To("release")
        /\ UNCHANGED <<tasks, due>>
  /\ UNCHANGED <<now, lifecycle, activeCount, state, released, queue, owner,
                 cancelling, commands, stopper, late, last>>

\* The task in hand is dropped and its slot released.
ReleaseTask ==
  /\ worker.pc = "release"
  /\ ReleaseSlot({worker.task.timer})
  /\ PutDown("fire")
  /\ UNCHANGED <<now, lifecycle, state, queue, owner, cancelling, commands, tasks,
                 due, stopper, late, last>>

\* Nothing is due: the worker waits for a command, until something is due.
Wait ==
  /\ worker.pc = "fire" /\ ~IsDue
  /\ To("wait")
  /\ UNCHANGED <<now, lifecycle, activeCount, state, released, queue, owner,
                 cancelling, commands, tasks, due, stopper, late, last>>

Timeout ==
  /\ worker.pc = "wait" /\ IsDue
  /\ To("fire")
  /\ UNCHANGED <<now, lifecycle, activeCount, state, released, queue, owner,
                 cancelling, commands, tasks, due, stopper, late, last>>

\* A command there is taken even if something has become due meanwhile.
TakesCommand(op) ==
  /\ worker.pc = "wait"
  /\ commands # << >>
  /\ Head(commands).op = op
  /\ commands' = Tail(commands)
  /\ To(IF op = "shutdown" THEN "drain" ELSE "fire")

\* mark_scheduler_shutdown, under the delivery lock.
MarkShutdown(t) ==
  /\ state' = IF state[t] = "active" THEN [state EXCEPT ![t] = "shutdown"] ELSE state
  /\ ReleaseSlot({t})

\* A faulty variant: the task has no entry in the heap.
HandleAddWithoutEntry ==
  LET task == Head(commands).task IN
  /\ TakesCommand("add")
  /\ \/ /\ lifecycle = "running" /\ state[task.timer] = "active"
        /\ tasks' = tasks \cup {task}
        /\ UNCHANGED <<state, released, activeCount, due>>
     \/ /\ ~(lifecycle = "running" /\ state[task.timer] = "active")
        /\ MarkShutdown(task.timer)
        /\ UNCHANGED <<tasks, due>>
  /\ UNCHANGED <<now, lifecycle, queue, owner, cancelling, stopper, late, last>>

\* A faulty variant: a timer that was cancelled before is ignored.
HandleAddIgnoring ==
  LET task == Head(commands).task IN
  /\ TakesCommand("add")
  /\ \/ /\ lifecycle = "running" /\ state[task.timer] = "active"
        /\ tasks' = tasks \cup {task}
        /\ due' = due \cup {[instant |-> task.at, timer |-> task.timer]}
        /\ UNCHANGED <<state, released, activeCount>>
     \/ /\ ~(lifecycle = "running" /\ state[task.timer] = "active")
        /\ UNCHANGED <<state, released, activeCount, tasks, due>>
  /\ UNCHANGED <<now, lifecycle, queue, owner, cancelling, stopper, late, last>>

HandleAdd ==
  LET task == Head(commands).task IN
  /\ TakesCommand("add")
  /\ \/ /\ lifecycle = "running" /\ state[task.timer] = "active"
        /\ tasks' = tasks \cup {task}
        /\ due' = due \cup {[instant |-> task.at, timer |-> task.timer]}
        /\ UNCHANGED <<state, released, activeCount>>
     \/ /\ ~(lifecycle = "running" /\ state[task.timer] = "active")
        /\ MarkShutdown(task.timer)
        /\ UNCHANGED <<tasks, due>>
  /\ UNCHANGED <<now, lifecycle, queue, owner, cancelling, stopper, late, last>>

\* A faulty variant: the task is left until it is due.
HandleCancelLater ==
  /\ TakesCommand("cancel")
  /\ UNCHANGED <<now, lifecycle, activeCount, state, released, queue, owner,
                 cancelling, tasks, due, stopper, late, last>>

\* The entry of a cancelled timer stays in the heap.
HandleCancel ==
  LET t == Head(commands).task.timer IN
  /\ TakesCommand("cancel")
  /\ tasks' = tasks \ TasksOf(t)
  /\ IF TasksOf(t) # {} THEN ReleaseSlot({t}) ELSE UNCHANGED <<released, activeCount>>
  /\ UNCHANGED <<now, lifecycle, state, queue, owner, cancelling, due, stopper,
                 late, last>>

HandleShutdown ==
  /\ TakesCommand("shutdown")
  /\ UNCHANGED <<now, lifecycle, activeCount, state, released, queue, owner,
                 cancelling, tasks, due, stopper, late, last>>

\* After the loop: every task left is marked, and the scheduler has stopped.
DrainTask ==
  /\ worker.pc = "drain"
  /\ \E task \in tasks :
       /\ MarkShutdown(task.timer)
       /\ tasks' = tasks \ {task}
  /\ UNCHANGED <<now, lifecycle, queue, owner, cancelling, commands, worker, due,
                 stopper, late, last>>

StopWorker ==
  /\ worker.pc = "drain" /\ tasks = {}
  /\ lifecycle' = "stopped"
  /\ To("ending")
  /\ UNCHANGED <<now, activeCount, state, released, queue, owner, cancelling,
                 commands, tasks, due, stopper, late, last>>

\* The worker returns: the receiver and the commands left in it are dropped.
EndWorker ==
  /\ worker.pc = "ending"
  /\ To("gone")
  /\ commands' = << >>
  /\ UNCHANGED <<now, lifecycle, activeCount, state, released, queue, owner,
                 cancelling, tasks, due, stopper, late, last>>

-----------------------------------------------------------------------------
(* shutdown: the first call does all, a second one waits for it *)

BeginShutdown ==
  /\ stopper = "idle"
  /\ lifecycle' = "shutting_down"
  /\ stopper' = "sending"
  /\ UNCHANGED <<now, activeCount, state, released, queue, owner, cancelling,
                 commands, worker, tasks, due, late, last>>

SendShutdown ==
  /\ stopper = "sending"
  /\ commands' = Append(commands, Shutdown)
  /\ stopper' = "joining"
  /\ UNCHANGED <<now, lifecycle, activeCount, state, released, queue, owner,
                 cancelling, worker, tasks, due, late, last>>

JoinWorker ==
  /\ stopper = "joining"
  /\ ReceiverGone
  /\ lifecycle' = "stopped"
  /\ stopper' = "done"
  /\ UNCHANGED <<now, activeCount, state, released, queue, owner, cancelling,
                 commands, worker, tasks, due, late, last>>

\* Once the worker is gone nobody reads the clock.
Tick ==
  /\ now < MaxTime /\ ~ReceiverGone
  /\ now' = now + 1
  /\ UNCHANGED <<lifecycle, activeCount, state, released, queue, owner, cancelling,
                 commands, worker, tasks, due, stopper, late, last>>

-----------------------------------------------------------------------------

Worker ==
  \/ PopStale \/ PopDue \/ Wait \/ Timeout
  \/ CompleteDeadline \/ SendDeadline \/ DeliverInterval \/ Renew \/ ReleaseTask
  \/ HandleAdd \/ HandleCancel \/ HandleShutdown
  \/ DrainTask \/ StopWorker \/ EndWorker

Schedule(t) == TakeSlot(t) \/ RecheckRunning(t) \/ SendAdd(t)
Own(t) == Receive(t) \/ Wake(t) \/ Drop(t)

Next ==
  \/ Worker
  \/ \E t \in Timers :
       Schedule(t) \/ Own(t) \/ MarkCancelled(t) \/ SendCancel(t)
  \/ BeginShutdown \/ SendShutdown \/ JoinWorker
  \/ Tick

Spec == Init /\ [][Next]_vars

\* The worker's thread and the clock go on, and a thread inside a call of the
\* scheduler finishes it.
FairSpec ==
  /\ Spec
  /\ WF_vars(Worker) /\ WF_vars(Tick)
  /\ \A t \in Timers : WF_vars(Wake(t)) /\ WF_vars(SendCancel(t))

-----------------------------------------------------------------------------
(* Properties *)

Slotted(t) ==
  owner[t] \in {"counted", "reserved", "idle", "blocked", "dropped"}

\* Safety: active_count, raised by whoever schedules and lowered by whoever
\* comes first of the worker, a cancelling thread and the shutdown, is at all
\* times the number of slots in use: none is given back twice, and the limit
\* of concurrent timers is kept.
SlotsBalance ==
  /\ activeCount = Cardinality({t \in Timers : Slotted(t) /\ t \notin released})
  /\ activeCount <= MaxActive

InHand(t) == worker.task.timer = t

\* Safety: until the worker is told to stop, a timer that is active is not
\* forgotten: it is on its way to the worker, in its hands, or among its tasks
\* with one entry in the heap, at the task's own time.
ActiveIsScheduled ==
  worker.pc \notin {"drain", "ending", "gone"} =>
    \A t \in Timers : state[t] = "active" =>
      \/ \E i \in DOMAIN commands : commands[i].op = "add" /\ commands[i].task.timer = t
      \/ InHand(t)
      \/ \E task \in TasksOf(t) :
           /\ TasksOf(t) = {task}
           /\ {e \in due : e.timer = t} = {[instant |-> task.at, timer |-> t]}

\* Safety: a deadline that has completed has its one event: received, waiting
\* in the channel, or about to be sent under the lock.
CompletedHasItsEvent ==
  \A t \in Timers : state[t] = "completed" /\ owner[t] # "dropped" =>
    \/ queue[t] # << >> /\ last[t] = NoEvent
    \/ queue[t] = << >> /\ last[t] # NoEvent
    \/ queue[t] = << >> /\ last[t] = NoEvent /\ Locked(t)

\* Safety: once the worker is joined no timer is active any more, and each has
\* given back its slot, whoever was scheduling or cancelling meanwhile.  The exception
\* is a timer whose Add was sent behind the Shutdown, because reserve_slot had
\* seen a running scheduler: it stays active and keeps its slot for ever.
ShutdownClosesTimers ==
  stopper = "done" =>
    \A t \in Timers \ late :
      /\ state[t] # "active"
      /\ state[t] # "none" => t \in released

\* Safety: the slots, the timers, their events and the worker's tasks agree, in
\* every order of scheduling, delivery, cancellation and shutdown.
TimerInvariant ==
  /\ TypeOK
  /\ SlotsBalance
  /\ ActiveIsScheduled
  /\ CompletedHasItsEvent
  /\ ShutdownClosesTimers

\* Action property: a timer's state leaves active once, and once cancel() has
\* returned nothing more is delivered.
CancelIsFinal ==
  [][\A t \in Timers : state[t] \notin {"none", "active"} =>
       /\ state'[t] = state[t]
       /\ state[t] = "cancelled" => Len(queue'[t]) <= Len(queue[t])]_vars

\* Action property: what an owner receives is never early; the events of an
\* interval come in order, on the grid of its period, and each accounts for
\* every period that ended before it was observed.
EventsKeepTheGrid ==
  [][\A t \in Timers : last'[t] # last[t] =>
       LET e == last'[t] IN
       /\ e.scheduled <= e.observed
       /\ t \in Intervals =>
            /\ e.sequence > last[t].sequence + last[t].skipped
            /\ last[t] # NoEvent =>
                 e.scheduled - last[t].scheduled = Delay * (e.sequence - last[t].sequence)
            /\ e.observed - e.scheduled >= Delay * e.skipped
            /\ e.observed - e.scheduled < Delay * (e.skipped + 1)]_vars

\* Liveness: a deadline whose time comes fires, is cancelled or is shut down.
DeadlinesFire ==
  \A t \in Timers \ Intervals :
    (state[t] = "active" /\ now + Delay < MaxTime) ~> (state[t] # "active" \/ stopper # "idle")

\* Liveness: nobody waits for ever in recv for a timer that has ended.
ReceiveEnds ==
  \A t \in Timers :
    (owner[t] = "blocked" /\ state[t] # "active") ~> owner[t] # "blocked"

\* Liveness: the slot of a timer that has ended is free again, as long as the
\* scheduler runs.
SlotsReturn ==
  \A t \in Timers :
    (state[t] \notin {"none", "active"}) ~> (t \in released \/ stopper # "idle")
=============================================================================
