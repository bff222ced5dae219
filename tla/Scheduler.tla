----------------------------- MODULE Scheduler -----------------------------
(***************************************************************************)
(* The event loop of src/Scheduler.cc: run() on its own thread, and other  *)
(* threads that call schedule(), schedule_at() and stop().                 *)
(*                                                                         *)
(* readyQueue_ and pendingTimers_ are the queues that FifoQueue specifies  *)
(* and MpscQueue implements: a push of another thread takes its place      *)
(* first and is linked later.  A push of the loop's own thread is one      *)
(* step, since nobody else pops.  Time is relative: Tick brings every  *)
(* deadline nearer, and an overdue timer has 0 left.                       *)
(***************************************************************************)
EXTENDS Integers, Sequences, FiniteSets

CONSTANTS Threads,         \* threads other than the loop's
          Tasks,           \* coroutine handles
          None,            \* no task; also the mark of a completed push
          LongSleepers,    \* tasks that sleep longer than an int can hold
          Delays,          \* how long the other tasks sleep, in ticks
          LongDelay,       \* how long the long sleepers do
          TicksPerMs,
          DefaultTimeout,  \* kDefaultTimeoutMs
          IntMax           \* INT_MAX

ASSUME SchedulerAssumption ==
    /\ None \notin Tasks \cup Threads
    /\ "wakeup" \notin Tasks
    /\ LongSleepers \subseteq Tasks
    /\ TicksPerMs \in Nat \ {0}
    /\ IntMax \in Nat
    /\ DefaultTimeout \in 0..IntMax
    /\ Delays \subseteq 0..(TicksPerMs * (IntMax + 1) - 1)
    /\ LongDelay \in Nat

VARIABLES
    phase,     \* where run() is
    running,   \* running_, 1 or 0
    ready,     \* readyQueue_
    pending,   \* pendingTimers_
    timers,    \* timers_
    left,      \* the ticks left until a task's deadline
    budget,    \* the ticks epoll_wait may still block, or Forever
    eventfd,   \* 1 while the counter behind wakeupFd_ is not zero
    waitingIo, \* the tasks that wait for their descriptor
    ioReady,   \* those of them whose descriptor is ready
    batch,     \* the events, or the due timers, the loop is going through
    cur,       \* the task being resumed
    pc,        \* what each other thread is in the middle of
    scheduled  \* history: the tasks handed to the scheduler to resume

vars == <<phase, running, ready, pending, timers, left, budget, eventfd,
          waitingIo, ioReady, batch, cur, pc, scheduled>>
loopVars == <<phase, running, budget, batch>>
ioVars == <<waitingIo, ioReady>>

Forever == -1

INSTANCE LinkedQueue WITH Linked <- None

(* A push by the loop's own thread. *)
BugPush(q, t) == <<[val |-> t, by |-> None]>> \o q

Push(q, t) == Exchanged(q, None, t)

DelaysOf(t) == IF t \in LongSleepers THEN {LongDelay} ELSE Delays

Init ==
    /\ phase = "init" /\ running = 0
    /\ ready = <<>> /\ pending = <<>> /\ timers = {}
    /\ left = [t \in Tasks |-> 0] /\ budget = 0
    /\ eventfd = 0
    /\ waitingIo = {} /\ ioReady = {} /\ batch = {}
    /\ cur = None
    /\ pc = [p \in Threads |-> "idle"]
    /\ scheduled = {}
-----------------------------------------------------------------------------
(* The other threads.  A task somebody else holds may be handed over once. *)

Free(t) == t \notin scheduled /\ t # cur

(* schedule(): readyQueue_.push, up to its exchange. *)
Schedule(p, t) ==
    /\ pc[p] = "idle"
    /\ Free(t)
    /\ ready' = Exchanged(ready, p, t)
    /\ pc' = [pc EXCEPT ![p] = "ready"]
    /\ scheduled' = scheduled \cup {t}
    /\ UNCHANGED <<loopVars, ioVars, pending, timers, left, eventfd, cur>>

(* schedule_at(): pendingTimers_.push, up to its exchange. *)
ScheduleAt(p, t) ==
    /\ pc[p] = "idle"
    /\ Free(t)
    /\ pending' = Exchanged(pending, p, t)
    /\ \E d \in DelaysOf(t) : left' = [left EXCEPT ![t] = d]
    /\ pc' = [pc EXCEPT ![p] = "pending"]
    /\ scheduled' = scheduled \cup {t}
    /\ UNCHANGED <<loopVars, ioVars, ready, timers, eventfd, cur>>

LinkReady(p) ==
    /\ pc[p] = "ready"
    /\ ready' = Completed(ready, p)
    /\ pc' = [pc EXCEPT ![p] = "wakeup"]
    /\ UNCHANGED <<loopVars, ioVars, pending, timers, left, eventfd, cur, scheduled>>

LinkPending(p) ==
    /\ pc[p] = "pending"
    /\ pending' = Completed(pending, p)
    /\ pc' = [pc EXCEPT ![p] = "wakeup"]
    /\ UNCHANGED <<loopVars, ioVars, ready, timers, left, eventfd, cur, scheduled>>

(* stop(): running_.store(false); not in the own thread, so wakeup() follows. *)
BugStop(p) ==
    /\ pc[p] = "idle"
    /\ running' = 0
    /\ UNCHANGED <<phase, budget, batch, ioVars, ready, pending, timers, left,
                   eventfd, cur, pc, scheduled>>

Stop(p) ==
    /\ pc[p] = "idle"
    /\ running' = 0
    /\ pc' = [pc EXCEPT ![p] = "wakeup"]
    /\ UNCHANGED <<phase, budget, batch, ioVars, ready, pending, timers, left,
                   eventfd, cur, scheduled>>

(* wakeup(): write(wakeupFd_). *)
Wakeup(p) ==
    /\ pc[p] = "wakeup"
    /\ eventfd' = 1
    /\ pc' = [pc EXCEPT ![p] = "idle"]
    /\ UNCHANGED <<loopVars, ioVars, ready, pending, timers, left, cur, scheduled>>

ThreadStep(p) == LinkReady(p) \/ LinkPending(p) \/ Wakeup(p)

(* The kernel finds a descriptor somebody waits for ready. *)
IoArrives(t) ==
    /\ t \in waitingIo \ ioReady
    /\ ioReady' = ioReady \cup {t}
    /\ UNCHANGED <<loopVars, ready, pending, timers, left, eventfd, waitingIo,
                   cur, pc, scheduled>>

(* steady_clock advances; an epoll_wait that blocks has less to wait. *)
Less(n) == IF n > 0 THEN n - 1 ELSE n

Tick ==
    /\ left' = [t \in Tasks |-> Less(left[t])]
    /\ budget' = IF phase = "wait" THEN Less(budget) ELSE budget
    /\ UNCHANGED <<phase, running, batch, ioVars, ready, pending, timers, eventfd,
                   cur, pc, scheduled>>
-----------------------------------------------------------------------------
(* The loop's own thread. *)

(* schedule() before run(): threadId_ is not set, so isInOwnThread() is    *)
(* false and wakeup() is called.                                           *)
ScheduleBeforeRun(t) ==
    /\ phase = "init"
    /\ Free(t)
    /\ ready' = Push(ready, t)
    /\ eventfd' = 1
    /\ scheduled' = scheduled \cup {t}
    /\ UNCHANGED <<loopVars, ioVars, pending, timers, left, cur, pc>>

(* run(): threadId_, wakeupChannel_ and running_ are set.  A stop() that   *)
(* came before is overwritten.                                             *)
Run ==
    /\ phase = "init"
    /\ running' = 1
    /\ phase' = "check"
    /\ UNCHANGED <<budget, batch, ioVars, ready, pending, timers, left, eventfd,
                   cur, pc, scheduled>>

(* while (running_.load()) *)
BugCheckRunning ==
    /\ phase = "check"
    /\ phase' = "timeout"
    /\ UNCHANGED <<running, budget, batch, ioVars, ready, pending, timers, left,
                   eventfd, cur, pc, scheduled>>

CheckRunning ==
    /\ phase = "check"
    /\ phase' = IF running = 1 THEN "timeout" ELSE "stopped"
    /\ UNCHANGED <<running, budget, batch, ioVars, ready, pending, timers, left,
                   eventfd, cur, pc, scheduled>>

(* get_next_timeout(): one iteration of the loop that pops pendingTimers_. *)
TakePending ==
    /\ phase = "timeout"
    /\ Visible(pending)
    /\ pending' = Tail(pending)
    /\ timers' = timers \cup {pending[1].val}
    /\ UNCHANGED <<loopVars, ioVars, ready, left, eventfd, cur, pc, scheduled>>

(* static_cast<int>: what epoll_wait makes of a number of milliseconds. *)
BugRoundUp(ms) == (ms + 1) * TicksPerMs
BugZeroBlocks(ms) == IF ms = 0 THEN Forever ELSE ms * TicksPerMs

BlockFor(ms) ==
    LET int == ((ms + IntMax + 1) % (2 * (IntMax + 1))) - (IntMax + 1)
    IN  IF int < 0 THEN Forever ELSE int * TicksPerMs

(* get_next_timeout(): the rest of it; epoll_wait is entered.  The time    *)
(* between now() and the system call is taken to be none.                  *)
EnterWait ==
    /\ phase = "timeout"
    /\ ~Visible(pending)
    /\ \/ timers = {} /\ budget' = BlockFor(DefaultTimeout)
       \/ \E t \in timers :
             /\ \A u \in timers : left[t] <= left[u]
             /\ budget' = BlockFor(left[t] \div TicksPerMs)
    /\ phase' = "wait"
    /\ UNCHANGED <<running, batch, ioVars, ready, pending, timers, left, eventfd,
                   cur, pc, scheduled>>

(* epoll_wait returns with the events of the ready descriptors, or because *)
(* its time is up.                                                         *)
Events == ioReady \cup (IF eventfd = 1 THEN {"wakeup"} ELSE {})

WaitReturns ==
    /\ phase = "wait"
    /\ Events # {} \/ budget = 0
    /\ batch' = Events
    /\ phase' = "events"
    /\ UNCHANGED <<running, budget, ioVars, ready, pending, timers, left, eventfd,
                   cur, pc, scheduled>>

(* epoll_wait returns -1: a signal was handled. *)
WaitInterrupted ==
    /\ phase = "wait"
    /\ batch' = {}
    /\ phase' = "events"
    /\ UNCHANGED <<running, budget, ioVars, ready, pending, timers, left, eventfd,
                   cur, pc, scheduled>>

(* process_io_events(): read(wakeupFd_) resets the counter. *)
ReadWakeup ==
    /\ phase = "events"
    /\ "wakeup" \in batch
    /\ eventfd' = 0
    /\ batch' = batch \ {"wakeup"}
    /\ UNCHANGED <<phase, running, budget, ioVars, ready, pending, timers, left,
                   cur, pc, scheduled>>

(* process_io_events(): a handler schedules the coroutine that waits. *)
HandleIo(t) ==
    /\ phase = "events"
    /\ t \in batch
    /\ batch' = batch \ {t}
    /\ waitingIo' = waitingIo \ {t}
    /\ ioReady' = ioReady \ {t}
    /\ ready' = Push(ready, t)
    /\ UNCHANGED <<phase, running, budget, pending, timers, left, eventfd, cur, pc,
                   scheduled>>

(* process_timers(): now() is read once. *)
EventsDone ==
    /\ phase = "events"
    /\ batch = {}
    /\ batch' = {t \in timers : left[t] = 0}
    /\ phase' = "timers"
    /\ UNCHANGED <<running, budget, ioVars, ready, pending, timers, left, eventfd,
                   cur, pc, scheduled>>

(* process_timers(): a due timer becomes ready. *)
BugFireTimer(t) ==
    /\ phase = "timers"
    /\ t \in batch
    /\ batch' = batch \ {t}
    /\ ready' = Push(ready, t)
    /\ UNCHANGED <<phase, running, budget, ioVars, pending, timers, left, eventfd,
                   cur, pc, scheduled>>

FireTimer(t) ==
    /\ phase = "timers"
    /\ t \in batch
    /\ batch' = batch \ {t}
    /\ timers' = timers \ {t}
    /\ ready' = Push(ready, t)
    /\ UNCHANGED <<phase, running, budget, ioVars, pending, left, eventfd, cur, pc,
                   scheduled>>

TimersDone ==
    /\ phase = "timers"
    /\ batch = {}
    /\ phase' = "ready"
    /\ UNCHANGED <<running, budget, batch, ioVars, ready, pending, timers, left,
                   eventfd, cur, pc, scheduled>>

(* process_ready_queue(): pop a function and call it. *)
Resume ==
    /\ phase = "ready"
    /\ cur = None
    /\ Visible(ready)
    /\ cur' = ready[1].val
    /\ ready' = Tail(ready)
    /\ scheduled' = scheduled \ {ready[1].val}
    /\ UNCHANGED <<loopVars, ioVars, pending, timers, left, eventfd, pc>>

ReadyDone ==
    /\ phase = "ready"
    /\ cur = None
    /\ ~Visible(ready)
    /\ phase' = "check"
    /\ UNCHANGED <<running, budget, batch, ioVars, ready, pending, timers, left,
                   eventfd, cur, pc, scheduled>>
-----------------------------------------------------------------------------
(* What the resumed coroutine does, on the loop's thread: no wakeup().     *)

(* It suspends on something other than the scheduler, or ends. *)
Suspend ==
    /\ cur # None
    /\ cur' = None
    /\ UNCHANGED <<loopVars, ioVars, ready, pending, timers, left, eventfd, pc,
                   scheduled>>

(* schedule() of itself, to let others run, and it suspends. *)
Yield ==
    /\ cur # None
    /\ ready' = Push(ready, cur)
    /\ scheduled' = scheduled \cup {cur}
    /\ cur' = None
    /\ UNCHANGED <<loopVars, ioVars, pending, timers, left, eventfd, pc>>

(* schedule() of another coroutine. *)
ScheduleOther(t) ==
    /\ cur # None
    /\ Free(t)
    /\ ready' = Push(ready, t)
    /\ scheduled' = scheduled \cup {t}
    /\ UNCHANGED <<loopVars, ioVars, pending, timers, left, eventfd, cur, pc>>

(* co_await sleep: TimerAwaiter calls schedule_at(). *)
Sleep ==
    /\ cur # None
    /\ pending' = Push(pending, cur)
    /\ \E d \in DelaysOf(cur) : left' = [left EXCEPT ![cur] = d]
    /\ scheduled' = scheduled \cup {cur}
    /\ cur' = None
    /\ UNCHANGED <<loopVars, ioVars, ready, timers, eventfd, pc>>

(* It waits for a descriptor. *)
AwaitIo ==
    /\ cur # None
    /\ waitingIo' = waitingIo \cup {cur}
    /\ scheduled' = scheduled \cup {cur}
    /\ cur' = None
    /\ UNCHANGED <<loopVars, ioReady, ready, pending, timers, left, eventfd, pc>>

(* stop() in the own thread. *)
StopHere ==
    /\ cur # None
    /\ running' = 0
    /\ UNCHANGED <<phase, budget, batch, ioVars, ready, pending, timers, left,
                   eventfd, cur, pc, scheduled>>

Coroutine == Suspend \/ Yield \/ Sleep \/ AwaitIo

Loop ==
    \/ CheckRunning \/ TakePending \/ EnterWait
    \/ WaitReturns \/ ReadWakeup \/ \E t \in Tasks : HandleIo(t)
    \/ EventsDone \/ (\E t \in Tasks : FireTimer(t)) \/ TimersDone
    \/ Resume \/ ReadyDone

Next ==
    \/ \E p \in Threads :
          \/ ThreadStep(p) \/ Stop(p)
          \/ \E t \in Tasks : Schedule(p, t) \/ ScheduleAt(p, t)
    \/ \E t \in Tasks : ScheduleBeforeRun(t) \/ ScheduleOther(t) \/ IoArrives(t)
    \/ Tick
    \/ Run \/ Loop \/ WaitInterrupted
    \/ Coroutine \/ StopHere

Spec == Init /\ [][Next]_vars

(* The loop's thread and a thread inside schedule() are not suspended for  *)
(* ever, coroutines come back to the loop, and time passes.  No signal, no *)
(* descriptor and no further call is counted on.                           *)
FairSpec ==
    /\ Spec
    /\ WF_vars(Run) /\ WF_vars(Loop) /\ WF_vars(Coroutine) /\ WF_vars(Tick)
    /\ \A p \in Threads : WF_vars(ThreadStep(p))
-----------------------------------------------------------------------------
Phases == {"init", "check", "timeout", "wait", "events", "timers", "ready", "stopped"}

Entries == [val : Tasks, by : Threads \cup {None}]

InReady(t) == {i \in 1..Len(ready) : ready[i].val = t}
InPending(t) == {i \in 1..Len(pending) : pending[i].val = t}

(* The variables have their types; cur is a task in process_ready_queue()  *)
(* only.                                                                   *)
TypeOK ==
    /\ phase \in Phases
    /\ running \in 0..1
    /\ ready \in Seq(Entries)
    /\ pending \in Seq(Entries)
    /\ timers \in SUBSET Tasks
    /\ left \in [Tasks -> Nat]
    /\ budget \in Nat \cup {Forever}
    /\ eventfd \in 0..1
    /\ waitingIo \in SUBSET Tasks
    /\ ioReady \in SUBSET waitingIo
    /\ batch \in SUBSET (Tasks \cup {"wakeup"})
    /\ cur \in Tasks \cup {None}
    /\ cur # None => phase = "ready"
    /\ pc \in [Threads -> {"idle", "ready", "pending", "wakeup"}]
    /\ scheduled \in SUBSET Tasks

(* While epoll_wait blocks, nothing is left to do unless the wakeup        *)
(* descriptor is readable or a thread inside schedule(), schedule_at() or  *)
(* stop() has yet to make it so: no order of push, link, wakeup, read and  *)
(* pop loses a wakeup, also when a push that is not linked yet hides       *)
(* completed ones.                                                         *)
NoLostWakeup ==
    phase = "wait" /\ (ready # <<>> \/ pending # <<>> \/ running = 0)
       => eventfd = 1 \/ \E p \in Threads : pc[p] # "idle"

(* A coroutine handle given to the scheduler is in exactly one of its      *)
(* containers, once, until it is resumed: it is neither dropped nor        *)
(* resumed twice.                                                          *)
HandlesAccounted ==
    \A t \in Tasks :
       Cardinality(InReady(t)) + Cardinality(InPending(t))
         + Cardinality({t} \cap timers) + Cardinality({t} \cap waitingIo)
       = (IF t \in scheduled THEN 1 ELSE 0)

(* epoll_wait never blocks past the deadline of a timer the loop knows of, *)
(* whatever is rounded, if it sleeps less than INT_MAX milliseconds.       *)
NoOversleep ==
    phase = "wait" => \A t \in timers \ LongSleepers :
                         budget # Forever /\ budget <= left[t]

(* Whatever is scheduled to run is resumed unless the loop stops, even if  *)
(* other coroutines reschedule themselves for ever.                        *)
ScheduledRuns ==
    \A t \in Tasks : []<>(InReady(t) = {} \/ cur = t \/ phase = "stopped")

(* A sleeping coroutine is resumed unless the loop stops, provided that    *)
(* the coroutines let process_ready_queue() come to an end.                *)
SleeperRuns ==
    []<>(phase # "ready") =>
       \A t \in Tasks :
          []<>(\/ t \notin timers /\ InPending(t) = {} /\ InReady(t) = {}
               \/ cur = t \/ phase = "stopped")

(* After stop() run() returns, under the same proviso. *)
StopEndsRun ==
    []<>(phase # "ready") =>
       []<>(phase = "init" \/ running = 1 \/ phase = "stopped")
=============================================================================
