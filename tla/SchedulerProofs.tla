-------------------------- MODULE SchedulerProofs --------------------------
(***************************************************************************)
(* The safety invariants of the event loop, for any threads, tasks and     *)
(* delays.                                                                 *)
(***************************************************************************)
EXTENDS Scheduler, TLAPS

LEMMA PushProps ==
    ASSUME NEW q \in Seq(Entries), NEW p \in Threads \cup {None}, NEW t \in Tasks
    PROVE  /\ Exchanged(q, p, t) \in Seq(Entries)
           /\ Len(q) \in Nat
           /\ Len(Exchanged(q, p, t)) = Len(q) + 1
           /\ \A i \in 1..Len(q) : Exchanged(q, p, t)[i] = q[i]
           /\ Exchanged(q, p, t)[Len(q) + 1] = [val |-> t, by |-> p]
BY DEF Exchanged, Entries

LEMMA LinkProps ==
    ASSUME NEW q \in Seq(Entries), NEW p \in Threads
    PROVE  /\ Completed(q, p) \in Seq(Entries)
           /\ Len(Completed(q, p)) = Len(q)
           /\ \A i \in 1..Len(q) :
                 /\ Completed(q, p)[i].val = q[i].val
                 /\ Completed(q, p)[i].by = (IF q[i].by = p THEN None ELSE q[i].by)
           /\ q = <<>> => Completed(q, p) = <<>>
<1> DEFINE e(i) == [val |-> q[i].val, by |-> IF q[i].by = p THEN None ELSE q[i].by]
<1>1. Completed(q, p) = [i \in 1..Len(q) |-> e(i)]
  BY DEF Completed
<1>2. \A i \in 1..Len(q) :
         e(i) \in Entries /\ e(i).val = q[i].val
           /\ e(i).by = (IF q[i].by = p THEN None ELSE q[i].by)
  <2> SUFFICES ASSUME NEW i \in 1..Len(q)
               PROVE  e(i) \in Entries /\ e(i).val = q[i].val
                        /\ e(i).by = (IF q[i].by = p THEN None ELSE q[i].by)
    OBVIOUS
  <2>1. q[i] \in Entries
    OBVIOUS
  <2>2. q[i].val \in Tasks /\ q[i].by \in Threads \cup {None}
    BY <2>1 DEF Entries
  <2> QED
    BY <2>2 DEF Entries
<1> HIDE DEF e
<1>3. Completed(q, p) \in Seq(Entries) /\ Len(Completed(q, p)) = Len(q)
  BY <1>1, <1>2
<1>4. \A i \in 1..Len(q) : Completed(q, p)[i] = e(i)
  BY <1>1
<1>5. q = <<>> => Completed(q, p) = <<>>
  BY <1>3
<1> QED
  BY <1>2, <1>3, <1>4, <1>5

LEMMA PopProps ==
    ASSUME NEW q \in Seq(Entries), q # <<>>
    PROVE  /\ Tail(q) \in Seq(Entries)
           /\ Len(q) \in Nat \ {0}
           /\ q[1] \in Entries
           /\ Len(Tail(q)) = Len(q) - 1
           /\ \A i \in 1..Len(q) - 1 : Tail(q)[i] = q[i + 1]
OBVIOUS

LEMMA DivProps ==
    ASSUME NEW n \in Nat, NEW d \in Nat \ {0}
    PROVE  n \div d \in Nat /\ (n \div d) * d <= n
<1>1. n \div d \in Nat
  OBVIOUS
<1>2. (n \div d) * d <= n
  OBVIOUS
<1> QED
  BY <1>1, <1>2

LEMMA BlockForType == \A ms \in Nat : BlockFor(ms) \in Nat \cup {Forever}
BY SchedulerAssumption DEF BlockFor, Forever
-----------------------------------------------------------------------------
LEMMA InitType == Init => TypeOK
BY SchedulerAssumption DEF Init, TypeOK, Phases, Entries

LEMMA ThreadType ==
    ASSUME TypeOK, NEW p \in Threads,
           ThreadStep(p) \/ Stop(p) \/ \E t \in Tasks : Schedule(p, t) \/ ScheduleAt(p, t)
    PROVE  TypeOK'
<1> USE DEF TypeOK, loopVars, ioVars
<1>1. CASE LinkReady(p)
  BY <1>1, LinkProps DEF LinkReady
<1>2. CASE LinkPending(p)
  BY <1>2, LinkProps DEF LinkPending
<1>3. CASE Wakeup(p)
  BY <1>3 DEF Wakeup
<1>4. CASE Stop(p)
  BY <1>4 DEF Stop
<1>5. ASSUME NEW t \in Tasks, Schedule(p, t) PROVE TypeOK'
  BY ZenonT(40), <1>5, PushProps DEF Schedule
<1>6. ASSUME NEW t \in Tasks, ScheduleAt(p, t) PROVE TypeOK'
  <2>1. PICK d \in DelaysOf(t) : left' = [left EXCEPT ![t] = d]
    BY ZenonT(40), <1>6 DEF ScheduleAt
  <2>2. d \in Nat
    BY SchedulerAssumption DEF DelaysOf
  <2>3. pending' \in Seq(Entries)
    BY ZenonT(40), <1>6, PushProps DEF ScheduleAt
  <2> QED
    BY <1>6, <2>1, <2>2, <2>3 DEF ScheduleAt
<1> QED
  BY ZenonT(40), <1>1, <1>2, <1>3, <1>4, <1>5, <1>6 DEF ThreadStep

LEMMA EnvironmentType ==
    ASSUME TypeOK,
           Tick \/ Run \/ WaitInterrupted
             \/ \E t \in Tasks : ScheduleBeforeRun(t) \/ ScheduleOther(t) \/ IoArrives(t)
    PROVE  TypeOK'
<1> USE DEF TypeOK, Phases, loopVars, ioVars
<1>1. CASE Tick
  BY <1>1 DEF Tick, Less, Forever
<1>2. CASE Run
  BY <1>2 DEF Run
<1>3. CASE WaitInterrupted
  BY <1>3 DEF WaitInterrupted
<1>4. ASSUME NEW t \in Tasks, ScheduleBeforeRun(t) PROVE TypeOK'
  <2>1. ready' \in Seq(Entries)
    BY ZenonT(40), <1>4, PushProps DEF ScheduleBeforeRun, Push
  <2> QED
    BY <1>4, <2>1 DEF ScheduleBeforeRun
<1>5. ASSUME NEW t \in Tasks, ScheduleOther(t) PROVE TypeOK'
  BY ZenonT(40), <1>5, PushProps DEF ScheduleOther, Push
<1>6. ASSUME NEW t \in Tasks, IoArrives(t) PROVE TypeOK'
  BY <1>6 DEF IoArrives
<1> QED
  BY ZenonT(40), <1>1, <1>2, <1>3, <1>4, <1>5, <1>6

LEMMA LoopType == TypeOK /\ Loop => TypeOK'
<1> SUFFICES ASSUME TypeOK, Loop PROVE TypeOK'
  OBVIOUS
<1> USE DEF TypeOK, Phases, loopVars, ioVars
<1>1. CASE CheckRunning
  BY <1>1 DEF CheckRunning
<1>2. CASE TakePending
  BY ZenonT(40), <1>2, PopProps DEF TakePending, Visible, Entries
<1>3. CASE EnterWait
  <2>1. budget' \in Nat \cup {Forever}
    <3>1. DefaultTimeout \in Nat
      BY SchedulerAssumption
    <3>2. \A t \in Tasks : left[t] \div TicksPerMs \in Nat
      BY SchedulerAssumption, DivProps
    <3> QED
      BY <1>3, <3>1, <3>2, BlockForType DEF EnterWait
  <2> QED
    BY <1>3, <2>1 DEF EnterWait
<1>4. CASE WaitReturns
  BY <1>4 DEF WaitReturns, Events
<1>5. CASE ReadWakeup
  BY <1>5 DEF ReadWakeup
<1>6. ASSUME NEW t \in Tasks, HandleIo(t) PROVE TypeOK'
  BY ZenonT(40), <1>6, PushProps DEF HandleIo, Push
<1>7. CASE EventsDone
  BY <1>7 DEF EventsDone
<1>8. ASSUME NEW t \in Tasks, FireTimer(t) PROVE TypeOK'
  BY ZenonT(40), <1>8, PushProps DEF FireTimer, Push
<1>9. CASE TimersDone
  BY <1>9 DEF TimersDone
<1>10. CASE Resume
  BY ZenonT(40), <1>10, PopProps DEF Resume, Visible, Entries
<1>11. CASE ReadyDone
  BY ZenonT(40), <1>11 DEF ReadyDone
<1> QED
  BY ZenonT(40), <1>1, <1>2, <1>3, <1>4, <1>5, <1>6, <1>7, <1>8, <1>9, <1>10, <1>11 DEF Loop

LEMMA CoroutineType == TypeOK /\ (Coroutine \/ StopHere) => TypeOK'
<1> SUFFICES ASSUME TypeOK, Coroutine \/ StopHere PROVE TypeOK'
  OBVIOUS
<1> USE DEF TypeOK, loopVars, ioVars
<1>1. CASE Suspend
  BY <1>1 DEF Suspend
<1>2. CASE Yield
  BY ZenonT(40), <1>2, PushProps DEF Yield, Push
<1>3. CASE Sleep
  <2>1. PICK d \in DelaysOf(cur) : left' = [left EXCEPT ![cur] = d]
    BY ZenonT(40), <1>3 DEF Sleep
  <2>2. d \in Nat
    BY SchedulerAssumption DEF DelaysOf
  <2> QED
    BY ZenonT(40), <1>3, <2>1, <2>2, PushProps DEF Sleep, Push
<1>4. CASE AwaitIo
  BY <1>4 DEF AwaitIo
<1>5. CASE StopHere
  BY <1>5 DEF StopHere
<1> QED
  BY ZenonT(40), <1>1, <1>2, <1>3, <1>4, <1>5 DEF Coroutine

LEMMA NextType == TypeOK /\ [Next]_vars => TypeOK'
<1> SUFFICES ASSUME TypeOK, [Next]_vars PROVE TypeOK'
  OBVIOUS
<1>1. CASE UNCHANGED vars
  BY <1>1 DEF vars, TypeOK
<1> QED
  BY <1>1, ThreadType, EnvironmentType, LoopType, CoroutineType DEF Next

(* The state of the loop keeps its types; a coroutine runs only inside     *)
(* process_ready_queue().                                                  *)
THEOREM TypeCorrect == Spec => []TypeOK
BY InitType, NextType, PTL DEF Spec
-----------------------------------------------------------------------------
(* Somebody has woken epoll_wait or is about to. *)
Alerted == eventfd = 1 \/ \E p \in Threads : pc[p] # "idle"

(* An entry that is not linked yet belongs to a thread inside that push. *)
Marks(q, f, where) == \A i \in 1..Len(q) : q[i].by # None => f[q[i].by] = where

Marked == Marks(ready, pc, "ready") /\ Marks(pending, pc, "pending")

(* What the loop has looked at since it read the eventfd needs a wakeup if *)
(* something is there: readyQueue_ from the end of process_ready_queue()   *)
(* on, running_ from its check on, pendingTimers_ while it blocks.         *)
Awaited ==
    /\ phase \in {"init", "check", "timeout", "wait"} /\ ready # <<>> => Alerted
    /\ phase \in {"timeout", "wait"} /\ running = 0 => Alerted
    /\ phase = "wait" /\ pending # <<>> => Alerted

(* The inductive invariant for NoLostWakeup. *)
WakeInv == TypeOK /\ Marked /\ Awaited

LEMMA InitWake == Init => WakeInv
BY InitType DEF Init, WakeInv, Marked, Marks, Awaited

LEMMA EntryOwner ==
    ASSUME NEW q \in Seq(Entries), NEW i \in 1..Len(q)
    PROVE  q[i].by \in Threads \cup {None}
<1>1. q[i] \in Entries
  OBVIOUS
<1> QED
  BY <1>1 DEF Entries

LEMMA MarksPush ==
    ASSUME NEW q \in Seq(Entries), NEW t \in Tasks, NEW f, NEW where, Marks(q, f, where)
    PROVE  Marks(Push(q, t), f, where)
<1> DEFINE r == Exchanged(q, None, t)
<1>1. /\ Len(q) \in Nat
      /\ Len(r) = Len(q) + 1
      /\ \A i \in 1..Len(q) : r[i] = q[i]
      /\ r[Len(q) + 1] = [val |-> t, by |-> None]
  BY PushProps
<1> HIDE DEF r
<1>2. \A i \in 1..Len(r) : i \in 1..Len(q) \/ r[i].by = None
  BY <1>1
<1>3. Marks(r, f, where)
  BY <1>1, <1>2 DEF Marks
<1> QED
  BY <1>3 DEF r, Push

LEMMA MarksPop ==
    ASSUME NEW q \in Seq(Entries), NEW f, NEW where, q # <<>>, Marks(q, f, where)
    PROVE  Marks(Tail(q), f, where)
<1>1. \A i \in 1..Len(Tail(q)) : i + 1 \in 1..Len(q) /\ Tail(q)[i] = q[i + 1]
  BY PopProps
<1> QED
  BY <1>1 DEF Marks

LEMMA MarksExchange ==
    ASSUME NEW q \in Seq(Entries), NEW t \in Tasks, NEW S, NEW f \in [Threads -> S],
           NEW p \in Threads, NEW where, f[p] # where, Marks(q, f, where)
    PROVE  Marks(Exchanged(q, p, t), [f EXCEPT ![p] = where], where)
<1> DEFINE r == Exchanged(q, p, t)
           g == [f EXCEPT ![p] = where]
<1>1. /\ Len(q) \in Nat
      /\ Len(r) = Len(q) + 1
      /\ \A i \in 1..Len(q) : r[i] = q[i]
      /\ r[Len(q) + 1] = [val |-> t, by |-> p]
  BY PushProps
<1>2. \A i \in 1..Len(q) : q[i].by \in Threads \cup {None}
  BY EntryOwner
<1>3. g[p] = where /\ \A x \in Threads : f[x] = where => g[x] = where
  OBVIOUS
<1> HIDE DEF r, g
<1>4. \A i \in 1..Len(r) : i \in 1..Len(q) \/ r[i].by = p
  BY <1>1
<1>5. \A i \in 1..Len(q) : q[i].by # None => g[q[i].by] = where
  BY <1>2, <1>3 DEF Marks
<1>6. Marks(r, g, where)
  BY <1>1, <1>3, <1>4, <1>5 DEF Marks
<1> QED
  BY <1>6 DEF r, g

LEMMA MarksLink ==
    ASSUME NEW q \in Seq(Entries), NEW S, NEW f \in [Threads -> S],
           NEW p \in Threads, NEW where, NEW to, Marks(q, f, where)
    PROVE  Marks(Completed(q, p), [f EXCEPT ![p] = to], where)
<1> DEFINE r == Completed(q, p)
           g == [f EXCEPT ![p] = to]
<1>1. /\ Len(r) = Len(q)
      /\ \A i \in 1..Len(q) : r[i].by = (IF q[i].by = p THEN None ELSE q[i].by)
  BY LinkProps
<1>2. \A i \in 1..Len(q) : q[i].by \in Threads \cup {None}
  BY EntryOwner
<1>3. \A x \in Threads : x # p => g[x] = f[x]
  OBVIOUS
<1> HIDE DEF r, g
<1>4. Marks(r, g, where)
  BY <1>1, <1>2, <1>3 DEF Marks
<1> QED
  BY <1>4 DEF r, g

(* A thread that is not inside a push to q may go anywhere. *)
LEMMA MarksOther ==
    ASSUME NEW q \in Seq(Entries), NEW S, NEW f \in [Threads -> S],
           NEW p \in Threads, NEW where, NEW to, f[p] # where, Marks(q, f, where)
    PROVE  Marks(q, [f EXCEPT ![p] = to], where)
<1> DEFINE g == [f EXCEPT ![p] = to]
<1>1. \A i \in 1..Len(q) : q[i].by \in Threads \cup {None}
  BY EntryOwner
<1>2. \A x \in Threads : x # p => g[x] = f[x]
  OBVIOUS
<1> HIDE DEF g
<1>3. Marks(q, g, where)
  BY <1>1, <1>2 DEF Marks
<1> QED
  BY <1>3 DEF g

LEMMA MarkedPush ==
    ASSUME TypeOK, Marked, NEW t \in Tasks, pc' = pc,
           \/ ready' = Push(ready, t) /\ pending' = pending
           \/ pending' = Push(pending, t) /\ ready' = ready
    PROVE  Marked'
BY MarksPush DEF TypeOK, Marked

LEMMA MarkedPop ==
    ASSUME TypeOK, Marked, pc' = pc,
           \/ ready # <<>> /\ ready' = Tail(ready) /\ pending' = pending
           \/ pending # <<>> /\ pending' = Tail(pending) /\ ready' = ready
    PROVE  Marked'
BY ZenonT(40), MarksPop DEF TypeOK, Marked

LEMMA ThreadWake ==
    ASSUME WakeInv, NEW p \in Threads,
           ThreadStep(p) \/ Stop(p) \/ \E t \in Tasks : Schedule(p, t) \/ ScheduleAt(p, t)
    PROVE  Marked' /\ Awaited'
<1> USE SchedulerAssumption DEF WakeInv, TypeOK, loopVars, ioVars
<1>1. Alerted'
  <2>1. CASE Wakeup(p)
    BY <2>1 DEF Wakeup, Alerted
  <2>2. CASE LinkReady(p) \/ LinkPending(p) \/ Stop(p)
    BY ZenonT(40), <2>2 DEF LinkReady, LinkPending, Stop, Alerted
  <2>3. CASE \E t \in Tasks : Schedule(p, t) \/ ScheduleAt(p, t)
    BY ZenonT(40), <2>3 DEF Schedule, ScheduleAt, Alerted
  <2> QED
    BY <2>1, <2>2, <2>3 DEF ThreadStep
<1>2. Marked'
  <2> USE DEF Marked
  <2>1. CASE LinkReady(p)
    BY ZenonT(40), <2>1, MarksLink, MarksOther DEF LinkReady
  <2>2. CASE LinkPending(p)
    BY ZenonT(40), <2>2, MarksLink, MarksOther DEF LinkPending
  <2>3. CASE Wakeup(p)
    BY ZenonT(40), <2>3, MarksOther DEF Wakeup
  <2>4. CASE Stop(p)
    BY ZenonT(40), <2>4, MarksOther DEF Stop
  <2>5. ASSUME NEW t \in Tasks, Schedule(p, t) PROVE Marked'
    BY ZenonT(40), <2>5, MarksExchange, MarksOther DEF Schedule, Free
  <2>6. ASSUME NEW t \in Tasks, ScheduleAt(p, t) PROVE Marked'
    BY ZenonT(40), <2>6, MarksExchange, MarksOther DEF ScheduleAt, Free
  <2> QED
    BY ZenonT(40), <2>1, <2>2, <2>3, <2>4, <2>5, <2>6 DEF ThreadStep
<1> QED
  BY <1>1, <1>2 DEF Awaited

LEMMA EnvironmentWake ==
    ASSUME WakeInv,
           Tick \/ Run \/ WaitInterrupted
             \/ \E t \in Tasks : ScheduleBeforeRun(t) \/ ScheduleOther(t) \/ IoArrives(t)
    PROVE  Marked' /\ Awaited'
<1> USE DEF WakeInv, loopVars, ioVars
<1>1. CASE Tick
  BY <1>1 DEF Tick, Marked, Awaited, Alerted
<1>2. CASE Run
  BY <1>2 DEF Run, Marked, Awaited, Alerted
<1>3. CASE WaitInterrupted
  BY <1>3 DEF WaitInterrupted, Marked, Awaited, Alerted
<1>4. ASSUME NEW t \in Tasks, ScheduleBeforeRun(t) PROVE Marked' /\ Awaited'
  BY ZenonT(40), <1>4, MarkedPush DEF ScheduleBeforeRun, Awaited, Alerted
<1>5. ASSUME NEW t \in Tasks, ScheduleOther(t) PROVE Marked' /\ Awaited'
  BY <1>5, MarkedPush DEF ScheduleOther, Awaited, Alerted, TypeOK
<1>6. ASSUME NEW t \in Tasks, IoArrives(t) PROVE Marked' /\ Awaited'
  BY <1>6 DEF IoArrives, Marked, Awaited, Alerted
<1> QED
  BY ZenonT(40), <1>1, <1>2, <1>3, <1>4, <1>5, <1>6

(* A thread whose push is not linked yet alerts the loop. *)
LEMMA HiddenAlerts ==
    ASSUME WakeInv
    PROVE  /\ ready # <<>> /\ ~Visible(ready) => Alerted
           /\ pending # <<>> /\ ~Visible(pending) => Alerted
<1>1. ASSUME NEW q \in Seq(Entries), NEW where, where # "idle", Marks(q, pc, where),
             q # <<>>, ~Visible(q)
      PROVE  Alerted
  <2>1. 1 \in 1..Len(q) /\ q[1] \in Entries
    BY <1>1, PopProps
  <2>2. q[1].by \in Threads /\ pc[q[1].by] = where
    BY <1>1, <2>1 DEF Visible, Marks, Entries
  <2> QED
    BY <1>1, <2>2 DEF Alerted
<1> QED
  BY <1>1 DEF WakeInv, TypeOK, Marked

LEMMA LoopWake == WakeInv /\ Loop => Marked' /\ Awaited'
<1> SUFFICES ASSUME WakeInv, Loop PROVE Marked' /\ Awaited'
  OBVIOUS
<1> USE DEF WakeInv, loopVars, ioVars
<1>1. CASE CheckRunning
  BY <1>1 DEF CheckRunning, Marked, Awaited, Alerted, TypeOK
<1>2. CASE TakePending
  <2>1. Marked'
    BY ZenonT(40), <1>2, MarkedPop DEF TakePending, Visible
  <2>2. Awaited'
    BY <1>2 DEF TakePending, Awaited, Alerted
  <2> QED
    BY <2>1, <2>2
<1>3. CASE EnterWait
  <2>1. Marked'
    BY <1>3 DEF EnterWait, Marked
  <2>2. Awaited'
    BY <1>3, HiddenAlerts DEF EnterWait, Awaited, Alerted
  <2> QED
    BY <2>1, <2>2
<1>4. CASE WaitReturns
  BY <1>4 DEF WaitReturns, Marked, Awaited, Alerted
<1>5. CASE ReadWakeup
  BY <1>5 DEF ReadWakeup, Marked, Awaited, Alerted
<1>6. ASSUME NEW t \in Tasks, HandleIo(t) PROVE Marked' /\ Awaited'
  BY ZenonT(40), <1>6, MarkedPush DEF HandleIo, Awaited, Alerted
<1>7. CASE EventsDone
  BY ZenonT(40), <1>7 DEF EventsDone, Marked, Awaited, Alerted
<1>8. ASSUME NEW t \in Tasks, FireTimer(t) PROVE Marked' /\ Awaited'
  BY ZenonT(40), <1>8, MarkedPush DEF FireTimer, Awaited, Alerted
<1>9. CASE TimersDone
  BY <1>9 DEF TimersDone, Marked, Awaited, Alerted
<1>10. CASE Resume
  BY <1>10, MarkedPop DEF Resume, Visible, Awaited, Alerted
<1>11. CASE ReadyDone
  <2>1. Marked'
    BY <1>11 DEF ReadyDone, Marked
  <2>2. Awaited'
    BY <1>11, HiddenAlerts DEF ReadyDone, Awaited, Alerted
  <2> QED
    BY <2>1, <2>2
<1> QED
  BY ZenonT(40), <1>1, <1>2, <1>3, <1>4, <1>5, <1>6, <1>7, <1>8, <1>9, <1>10, <1>11 DEF Loop

LEMMA CoroutineWake == WakeInv /\ (Coroutine \/ StopHere) => Marked' /\ Awaited'
<1> SUFFICES ASSUME WakeInv, Coroutine \/ StopHere PROVE Marked' /\ Awaited'
  OBVIOUS
<1> USE DEF WakeInv, loopVars, ioVars
<1>0. phase = "ready" /\ phase' = "ready" /\ cur \in Tasks
  BY DEF TypeOK, Coroutine, Suspend, Yield, Sleep, AwaitIo, StopHere
<1>1. Awaited'
  BY <1>0 DEF Awaited
<1>2. Marked'
  <2>1. CASE Suspend \/ AwaitIo \/ StopHere
    BY <2>1 DEF Suspend, AwaitIo, StopHere, Marked
  <2>2. CASE Yield
    BY <1>0, <2>2, MarkedPush DEF Yield
  <2>3. CASE Sleep
    BY <1>0, <2>3, MarkedPush DEF Sleep
  <2> QED
    BY <2>1, <2>2, <2>3 DEF Coroutine
<1> QED
  BY <1>1, <1>2

LEMMA NextWake == WakeInv /\ [Next]_vars => WakeInv'
<1> SUFFICES ASSUME WakeInv, [Next]_vars PROVE WakeInv'
  OBVIOUS
<1>1. TypeOK'
  BY NextType DEF WakeInv
<1>2. CASE UNCHANGED vars
  BY <1>1, <1>2 DEF vars, WakeInv, Marked, Awaited, Alerted
<1>3. CASE Next
  <2>1. Marked' /\ Awaited'
    BY <1>3, ThreadWake, EnvironmentWake, LoopWake, CoroutineWake DEF Next
  <2> QED
    BY <1>1, <2>1 DEF WakeInv
<1> QED
  BY <1>2, <1>3

(* The loop never blocks in epoll_wait with work to do unless a wakeup is  *)
(* there or on its way, for any number of threads and any interleaving of  *)
(* their pushes with the loop.                                             *)
THEOREM WakeupsKept == Spec => []NoLostWakeup
<1>1. WakeInv => NoLostWakeup
  BY DEF WakeInv, Awaited, Alerted, NoLostWakeup
<1> QED
  BY <1>1, InitWake, NextWake, PTL DEF Spec
-----------------------------------------------------------------------------
(* The handles in a queue, and that none is in it twice. *)
Held(q) == {q[i].val : i \in 1..Len(q)}
Once(q) == \A i, j \in 1..Len(q) : q[i].val = q[j].val => i = j

(* What process_io_events() and process_timers() go through is still       *)
(* waiting, so what they schedule was somewhere else before.               *)
BatchHeld ==
    /\ phase = "events" => batch \subseteq ioReady \cup {"wakeup"}
    /\ phase = "timers" => batch \subseteq timers

(* The inductive invariant for HandlesAccounted: the four containers are   *)
(* disjoint, hold a handle once, and hold together what was handed over.   *)
HandleInv ==
    /\ TypeOK
    /\ BatchHeld
    /\ Once(ready) /\ Once(pending)
    /\ Held(ready) \cap Held(pending) = {}
    /\ Held(ready) \cap timers = {} /\ Held(ready) \cap waitingIo = {}
    /\ Held(pending) \cap timers = {} /\ Held(pending) \cap waitingIo = {}
    /\ timers \cap waitingIo = {}
    /\ scheduled = Held(ready) \cup Held(pending) \cup timers \cup waitingIo
    /\ cur \notin scheduled

LEMMA HeldEmpty == Held(<<>>) = {} /\ Once(<<>>)
BY DEF Held, Once

LEMMA HeldPush ==
    ASSUME NEW q \in Seq(Entries), NEW p \in Threads \cup {None}, NEW t \in Tasks
    PROVE  /\ Held(Exchanged(q, p, t)) = Held(q) \cup {t}
           /\ Once(q) /\ t \notin Held(q) => Once(Exchanged(q, p, t))
<1> DEFINE r == Exchanged(q, p, t)
<1>1. /\ Len(q) \in Nat
      /\ Len(r) = Len(q) + 1
      /\ \A i \in 1..Len(q) : r[i] = q[i]
      /\ r[Len(q) + 1] = [val |-> t, by |-> p]
  BY ZenonT(40), PushProps
<1> HIDE DEF r
<1>2. r[Len(q) + 1].val = t
  BY <1>1
<1>3. \A i \in 1..Len(r) : i \in 1..Len(q) \/ i = Len(q) + 1
  BY <1>1
<1>4. 1..Len(q) \subseteq 1..Len(r) /\ Len(q) + 1 \in 1..Len(r)
  BY <1>1
<1>5. Held(r) = Held(q) \cup {t}
  BY <1>1, <1>2, <1>3, <1>4 DEF Held
<1>6. Once(q) /\ t \notin Held(q) => Once(r)
  BY <1>1, <1>2, <1>3 DEF Once, Held
<1> QED
  BY <1>5, <1>6 DEF r

LEMMA HeldLink ==
    ASSUME NEW q \in Seq(Entries), NEW p \in Threads
    PROVE  /\ Held(Completed(q, p)) = Held(q)
           /\ Once(q) => Once(Completed(q, p))
BY SMTT(40), LinkProps DEF Held, Once

LEMMA HeldPop ==
    ASSUME NEW q \in Seq(Entries), q # <<>>, Once(q)
    PROVE  /\ q[1].val \in Held(q)
           /\ Held(Tail(q)) = Held(q) \ {q[1].val}
           /\ Once(Tail(q))
<1>1. /\ Len(q) \in Nat \ {0}
      /\ Len(Tail(q)) = Len(q) - 1
      /\ \A i \in 1..Len(q) - 1 : Tail(q)[i] = q[i + 1]
  BY PopProps
<1>2. 1 \in 1..Len(q)
  BY <1>1
<1>3. \A i \in 1..Len(Tail(q)) : i + 1 \in 1..Len(q) /\ i + 1 # 1 /\ Tail(q)[i] = q[i + 1]
  BY <1>1
<1>4. \A i \in 1..Len(q) : i # 1 => i - 1 \in 1..Len(Tail(q)) /\ Tail(q)[i - 1] = q[i]
  BY <1>1
<1>5. Once(Tail(q))
  <2> SUFFICES ASSUME NEW i \in 1..Len(Tail(q)), NEW j \in 1..Len(Tail(q)),
                      Tail(q)[i].val = Tail(q)[j].val
               PROVE  i = j
    BY DEF Once
  <2>1. i + 1 = j + 1
    BY <1>3 DEF Once
  <2> QED
    BY <1>1, <2>1
<1>6. Held(Tail(q)) \subseteq Held(q) \ {q[1].val}
  BY <1>2, <1>3 DEF Held, Once
<1>7. Held(q) \ {q[1].val} \subseteq Held(Tail(q))
  BY ZenonT(40), <1>4 DEF Held
<1>8. q[1].val \in Held(q)
  BY <1>2 DEF Held
<1> QED
  BY <1>5, <1>6, <1>7, <1>8

LEMMA HeldTasks == ASSUME NEW q \in Seq(Entries) PROVE Held(q) \subseteq Tasks
<1>1. \A i \in 1..Len(q) : q[i] \in Entries
  OBVIOUS
<1> QED
  BY <1>1 DEF Held, Entries

LEMMA InitHandles == Init => HandleInv
BY InitType, HeldEmpty, SchedulerAssumption DEF Init, HandleInv, BatchHeld

LEMMA ThreadHandles ==
    ASSUME HandleInv, TypeOK', NEW p \in Threads,
           ThreadStep(p) \/ Stop(p) \/ \E t \in Tasks : Schedule(p, t) \/ ScheduleAt(p, t)
    PROVE  HandleInv'
<1> USE DEF HandleInv, BatchHeld, loopVars, ioVars
<1>0. ready \in Seq(Entries) /\ pending \in Seq(Entries)
  BY DEF TypeOK
<1>1. CASE LinkReady(p)
  BY ZenonT(40), <1>0, <1>1, HeldLink DEF LinkReady
<1>2. CASE LinkPending(p)
  BY ZenonT(40), <1>0, <1>2, HeldLink DEF LinkPending
<1>3. CASE Wakeup(p)
  BY ZenonT(40), <1>3 DEF Wakeup
<1>4. CASE Stop(p)
  BY SMTT(40), <1>4 DEF Stop
<1>5. ASSUME NEW t \in Tasks, Schedule(p, t) PROVE HandleInv'
  <2>1. Held(ready') = Held(ready) \cup {t} /\ Once(ready')
    BY ZenonT(40), <1>0, <1>5, HeldPush DEF Schedule, Free
  <2> QED
    BY ZenonT(40), <1>5, <2>1 DEF Schedule, Free
<1>6. ASSUME NEW t \in Tasks, ScheduleAt(p, t) PROVE HandleInv'
  <2>1. Held(pending') = Held(pending) \cup {t} /\ Once(pending')
    BY <1>0, <1>6, HeldPush DEF ScheduleAt, Free
  <2> QED
    BY <1>6, <2>1 DEF ScheduleAt, Free
<1> QED
  BY ZenonT(40), <1>1, <1>2, <1>3, <1>4, <1>5, <1>6 DEF ThreadStep

(* A push by the loop's own thread. *)
LEMMA HeldPushHere ==
    ASSUME NEW q \in Seq(Entries), NEW t \in Tasks
    PROVE  /\ Held(Push(q, t)) = Held(q) \cup {t}
           /\ Once(q) /\ t \notin Held(q) => Once(Push(q, t))
BY ZenonT(40), HeldPush DEF Push

LEMMA EnvironmentHandles ==
    ASSUME HandleInv, TypeOK',
           Tick \/ Run \/ WaitInterrupted
             \/ \E t \in Tasks : ScheduleBeforeRun(t) \/ ScheduleOther(t) \/ IoArrives(t)
    PROVE  HandleInv'
<1> USE DEF HandleInv, BatchHeld, loopVars, ioVars
<1>0. ready \in Seq(Entries) /\ pending \in Seq(Entries)
  BY ZenonT(40) DEF TypeOK
<1>1. CASE Tick
  BY <1>1 DEF Tick
<1>2. CASE Run
  BY ZenonT(40), <1>2 DEF Run
<1>3. CASE WaitInterrupted
  BY ZenonT(40), <1>3 DEF WaitInterrupted
<1>4. ASSUME NEW t \in Tasks, ScheduleBeforeRun(t) \/ ScheduleOther(t) PROVE HandleInv'
  <2>1. Held(ready') = Held(ready) \cup {t} /\ Once(ready')
    BY SMTT(40), <1>0, <1>4, HeldPushHere DEF ScheduleBeforeRun, ScheduleOther, Free
  <2> QED
    BY ZenonT(40), <1>4, <2>1 DEF ScheduleBeforeRun, ScheduleOther, Free
<1>5. ASSUME NEW t \in Tasks, IoArrives(t) PROVE HandleInv'
  BY SMTT(40), <1>5 DEF IoArrives
<1> QED
  BY ZenonT(40), <1>1, <1>2, <1>3, <1>4, <1>5

LEMMA LoopHandles ==
    ASSUME HandleInv, TypeOK', Loop
    PROVE  HandleInv'
<1> USE DEF HandleInv, BatchHeld, loopVars, ioVars
<1>0. ready \in Seq(Entries) /\ pending \in Seq(Entries)
  BY DEF TypeOK
<1>1. CASE CheckRunning
  BY ZenonT(40), <1>1 DEF CheckRunning
<1>2. CASE TakePending
  BY <1>0, <1>2, HeldPop DEF TakePending, Visible
<1>3. CASE EnterWait
  BY ZenonT(40), <1>3 DEF EnterWait
<1>4. CASE WaitReturns
  BY ZenonT(40), <1>4 DEF WaitReturns, Events
<1>5. CASE ReadWakeup
  BY ZenonT(40), <1>5 DEF ReadWakeup
<1>6. ASSUME NEW t \in Tasks, HandleIo(t) PROVE HandleInv'
  <2>1. t \in ioReady /\ t \in waitingIo
    BY ZenonT(40), <1>6, SchedulerAssumption DEF HandleIo, TypeOK
  <2>2. Held(ready') = Held(ready) \cup {t} /\ Once(ready')
    BY ZenonT(40), <1>0, <1>6, <2>1, HeldPushHere DEF HandleIo
  <2> QED
    BY ZenonT(40), <1>6, <2>1, <2>2 DEF HandleIo
<1>7. CASE EventsDone
  BY ZenonT(40), <1>7 DEF EventsDone
<1>8. ASSUME NEW t \in Tasks, FireTimer(t) PROVE HandleInv'
  <2>1. t \in timers
    BY ZenonT(40), <1>8 DEF FireTimer
  <2>2. Held(ready') = Held(ready) \cup {t} /\ Once(ready')
    BY ZenonT(40), <1>0, <1>8, <2>1, HeldPushHere DEF FireTimer
  <2> QED
    BY ZenonT(40), <1>8, <2>1, <2>2 DEF FireTimer
<1>9. CASE TimersDone
  BY ZenonT(40), <1>9 DEF TimersDone
<1>10. CASE Resume
  BY <1>0, <1>10, HeldPop DEF Resume, Visible
<1>11. CASE ReadyDone
  BY ZenonT(40), <1>11 DEF ReadyDone
<1> QED
  BY ZenonT(40), <1>1, <1>2, <1>3, <1>4, <1>5, <1>6, <1>7, <1>8, <1>9, <1>10, <1>11 DEF Loop

LEMMA CoroutineHandles ==
    ASSUME HandleInv, TypeOK', Coroutine \/ StopHere
    PROVE  HandleInv'
<1> USE DEF HandleInv, BatchHeld, loopVars, ioVars
<1>0. /\ ready \in Seq(Entries) /\ pending \in Seq(Entries)
      /\ scheduled \subseteq Tasks /\ None \notin Tasks
  BY ZenonT(40), SchedulerAssumption DEF TypeOK
<1>1. cur \in Tasks
  BY DEF TypeOK, Coroutine, Suspend, Yield, Sleep, AwaitIo, StopHere
<1>2. CASE Suspend \/ StopHere
  BY ZenonT(40), <1>0, <1>2 DEF Suspend, StopHere
<1>3. CASE Yield
  BY <1>0, <1>1, <1>3, HeldPushHere DEF Yield
<1>4. CASE Sleep
  BY <1>0, <1>1, <1>4, HeldPushHere DEF Sleep
<1>5. CASE AwaitIo
  BY <1>0, <1>1, <1>5 DEF AwaitIo
<1> QED
  BY ZenonT(40), <1>2, <1>3, <1>4, <1>5 DEF Coroutine

LEMMA NextHandles == HandleInv /\ [Next]_vars => HandleInv'
<1> SUFFICES ASSUME HandleInv, [Next]_vars PROVE HandleInv'
  OBVIOUS
<1>1. TypeOK'
  BY ZenonT(40), NextType DEF HandleInv
<1>2. CASE UNCHANGED vars
  BY <1>1, <1>2 DEF vars, HandleInv, BatchHeld
<1> QED
  BY <1>1, <1>2, ThreadHandles, EnvironmentHandles, LoopHandles, CoroutineHandles DEF Next

(* The equation that defines Cardinality: what it gives for a set of one   *)
(* element at most needs no induction.                                     *)
CountRec(S, f) ==
    f = [T \in SUBSET S |-> IF T = {} THEN 0 ELSE 1 + f[T \ {CHOOSE x : x \in T}]]

LEMMA CountOne ==
    ASSUME NEW S, \A x, y \in S : x = y
    PROVE  Cardinality(S) = IF S = {} THEN 0 ELSE 1
<1> DEFINE g == [T \in SUBSET S |-> IF T = {} THEN 0 ELSE 1]
<1>1. \A T \in SUBSET S : T # {} => T \ {CHOOSE x : x \in T} = {}
  OBVIOUS
<1>2. CountRec(S, g)
  <2>1. \A T \in SUBSET S : g[T] = IF T = {} THEN 0 ELSE 1 + g[T \ {CHOOSE x : x \in T}]
    BY <1>1
  <2> QED  BY <2>1 DEF CountRec
<1>3. CountRec(S, CHOOSE f : CountRec(S, f))
  BY <1>2
<1>4. PICK f : f = (CHOOSE h : CountRec(S, h)) /\ CountRec(S, f)
  BY <1>3
<1>5. Cardinality(S) = f[S]
  BY <1>4 DEF Cardinality, CountRec
<1>6. /\ S = {} => f[S] = 0
      /\ S # {} => f[S] = 1 + f[S \ {CHOOSE x : x \in S}]
  BY ZenonT(40), <1>4 DEF CountRec
<1>7. f[{}] = 0
  BY ZenonT(40), <1>4 DEF CountRec
<1>8. S # {} => f[S] = 1
  BY <1>1, <1>6, <1>7
<1> QED  BY ZenonT(40), <1>5, <1>6, <1>8

LEMMA CountOnce ==
    ASSUME NEW q \in Seq(Entries), Once(q), NEW t \in Tasks
    PROVE  Cardinality({i \in 1..Len(q) : q[i].val = t}) = IF t \in Held(q) THEN 1 ELSE 0
<1> DEFINE S == {i \in 1..Len(q) : q[i].val = t}
<1>1. \A i, j \in S : i = j
  BY DEF Once
<1>2. S = {} <=> t \notin Held(q)
  BY DEF Held
<1> HIDE DEF S
<1>3. Cardinality(S) = IF t \in Held(q) THEN 1 ELSE 0
  BY <1>1, <1>2, CountOne
<1> QED  BY <1>3 DEF S

LEMMA CountIn ==
    ASSUME NEW S, NEW t
    PROVE  Cardinality({t} \cap S) = IF t \in S THEN 1 ELSE 0
<1>1. (\A x, y \in {t} \cap S : x = y) /\ ({t} \cap S = {} <=> t \notin S)
  OBVIOUS
<1> QED  BY <1>1, CountOne

LEMMA InvAccounts == HandleInv => HandlesAccounted
<1> SUFFICES ASSUME HandleInv, NEW t \in Tasks
             PROVE  Cardinality(InReady(t)) + Cardinality(InPending(t))
                      + Cardinality({t} \cap timers) + Cardinality({t} \cap waitingIo)
                    = (IF t \in scheduled THEN 1 ELSE 0)
  BY ZenonT(40) DEF HandlesAccounted
<1>1. /\ Cardinality(InReady(t)) = IF t \in Held(ready) THEN 1 ELSE 0
      /\ Cardinality(InPending(t)) = IF t \in Held(pending) THEN 1 ELSE 0
  BY CountOnce DEF InReady, InPending, HandleInv, TypeOK
<1>2. /\ Cardinality({t} \cap timers) = IF t \in timers THEN 1 ELSE 0
      /\ Cardinality({t} \cap waitingIo) = IF t \in waitingIo THEN 1 ELSE 0
  BY CountIn
<1> QED
  BY <1>1, <1>2 DEF HandleInv

(* Whatever threads, coroutines, events and timers do, a handle given to   *)
(* the scheduler is in exactly one of its containers, once, until it is    *)
(* resumed: none is dropped, none is resumed twice.                        *)
THEOREM HandlesKept == Spec => []HandlesAccounted
BY InitHandles, NextHandles, InvAccounts, PTL DEF Spec
-----------------------------------------------------------------------------
LEMMA ModSmall == ASSUME NEW n \in Nat \ {0}, NEW x \in 0..(n - 1) PROVE x % n = x
OBVIOUS

(* A number of milliseconds that fits an int reaches epoll_wait as it is. *)
LEMMA BlockForShort ==
    ASSUME NEW ms \in 0..IntMax PROVE BlockFor(ms) = ms * TicksPerMs
<1> DEFINE n == 2 * (IntMax + 1)
           x == ms + IntMax + 1
<1>1. IntMax \in Nat /\ TicksPerMs \in Nat
  BY SchedulerAssumption
<1>2. n \in Nat \ {0} /\ x \in 0..(n - 1)
  BY <1>1
<1>3. x % n = x
  BY <1>2, ModSmall
<1>4. BlockFor(ms) = IF (x % n) - (IntMax + 1) < 0 THEN Forever ELSE ((x % n) - (IntMax + 1)) * TicksPerMs
  BY DEF BlockFor
<1>5. x - (IntMax + 1) = ms /\ ~(ms < 0)
  BY <1>1
<1> HIDE DEF n, x
<1> QED
  BY ZenonT(40), <1>3, <1>4, <1>5

LEMMA MulMonotone ==
    ASSUME NEW a \in Nat, NEW b \in Nat, NEW d \in Nat, a <= b PROVE a * d <= b * d
<1>1. PICK c \in Nat : b = a + c
  <2>1. b = a + (b - a) /\ b - a \in Nat
    OBVIOUS
  <2> QED
    BY <2>1
<1>2. b * d = a * d + c * d
  BY <1>1
<1>3. c * d \in Nat /\ a * d \in Nat
  OBVIOUS
<1> QED
  BY <1>2, <1>3

LEMMA DivShort ==
    ASSUME NEW n \in Nat, n < TicksPerMs * (IntMax + 1)
    PROVE  n \div TicksPerMs \in 0..IntMax
<1> DEFINE q == n \div TicksPerMs
<1>1. IntMax \in Nat /\ TicksPerMs \in Nat \ {0}
  BY SchedulerAssumption
<1>2. q \in Nat /\ q * TicksPerMs <= n
  BY <1>1, DivProps
<1> HIDE DEF q
<1>3. ASSUME q >= IntMax + 1 PROVE FALSE
  <2>1. (IntMax + 1) * TicksPerMs <= q * TicksPerMs
    BY <1>1, <1>2, <1>3, MulMonotone
  <2>2. (IntMax + 1) * TicksPerMs = TicksPerMs * (IntMax + 1)
    BY <1>1
  <2>3. q * TicksPerMs \in Nat /\ TicksPerMs * (IntMax + 1) \in Nat
    BY <1>1, <1>2
  <2> QED
    BY <1>2, <2>1, <2>2, <2>3
<1>4. q <= IntMax
  BY <1>1, <1>2, <1>3
<1> QED
  BY <1>1, <1>2, <1>4 DEF q

(* What is left of a short sleep fits an int of milliseconds. *)
ShortLeft == \A t \in Tasks \ LongSleepers : left[t] < TicksPerMs * (IntMax + 1)

(* The inductive invariant for NoOversleep.  HandleInv is needed because   *)
(* schedule_at() changes the deadline of its task while the loop blocks:   *)
(* that task is none of the timers it blocks for.                          *)
SleepInv == HandleInv /\ ShortLeft /\ NoOversleep

LEMMA SleepInit == Init => SleepInv
<1> SUFFICES ASSUME Init PROVE SleepInv
  OBVIOUS
<1>1. 0 < TicksPerMs * (IntMax + 1)
  BY SchedulerAssumption
<1> QED
  BY <1>1, InitHandles DEF Init, SleepInv, ShortLeft, NoOversleep

LEMMA DelayShort ==
    ASSUME NEW t \in Tasks \ LongSleepers, NEW d \in DelaysOf(t)
    PROVE  d < TicksPerMs * (IntMax + 1)
<1>1. d \in 0..(TicksPerMs * (IntMax + 1) - 1)
  BY SchedulerAssumption DEF DelaysOf
<1>2. TicksPerMs * (IntMax + 1) \in Nat
  BY SchedulerAssumption
<1> QED
  BY <1>1, <1>2

(* get_next_timeout() rounds down and takes the earliest timer. *)
LEMMA WaitFits ==
    ASSUME SleepInv, EnterWait, NEW u \in timers \ LongSleepers
    PROVE  budget' # Forever /\ budget' <= left[u]
<1>1. PICK t \in timers :
         /\ \A v \in timers : left[t] <= left[v]
         /\ budget' = BlockFor(left[t] \div TicksPerMs)
  BY DEF EnterWait
<1>2. left[t] \in Nat /\ left[u] \in Nat /\ left[t] <= left[u] /\ u \in Tasks
  BY <1>1 DEF SleepInv, HandleInv, TypeOK
<1>3. left[t] < TicksPerMs * (IntMax + 1)
  <2>1. left[u] < TicksPerMs * (IntMax + 1) /\ TicksPerMs * (IntMax + 1) \in Nat
    BY <1>2, SchedulerAssumption DEF SleepInv, ShortLeft
  <2> QED
    BY <1>2, <2>1
<1> DEFINE ms == left[t] \div TicksPerMs
<1>4. ms \in 0..IntMax
  BY ZenonT(40), <1>2, <1>3, DivShort
<1>5. ms * TicksPerMs <= left[t] /\ ms * TicksPerMs \in Nat
  BY <1>2, <1>4, DivProps, SchedulerAssumption
<1>6. budget' = ms * TicksPerMs
  BY <1>1, <1>4, BlockForShort
<1> HIDE DEF ms
<1> QED
  BY <1>2, <1>5, <1>6 DEF Forever

LEMMA SleepNext == SleepInv /\ [Next]_vars => SleepInv'
<1> SUFFICES ASSUME SleepInv, [Next]_vars PROVE SleepInv'
  OBVIOUS
<1>0. HandleInv /\ HandleInv'
  BY NextHandles DEF SleepInv
<1>1. CASE Tick
  <2>1. TicksPerMs * (IntMax + 1) \in Nat
    BY SMTT(40), SchedulerAssumption
  <2>2. \A t \in Tasks : left[t] \in Nat /\ left'[t] = Less(left[t])
    BY <1>0, <1>1 DEF Tick, HandleInv, TypeOK
  <2>3. \A t \in Tasks : left'[t] \in Nat /\ left'[t] <= left[t]
    BY <2>2 DEF Less
  <2>4. ShortLeft /\ NoOversleep
    BY DEF SleepInv
  <2>5. ShortLeft'
    BY <2>1, <2>2, <2>3, <2>4 DEF ShortLeft
  <2>6. timers \subseteq Tasks /\ budget \in Nat \cup {Forever}
    BY <1>0 DEF HandleInv, TypeOK
  <2>7. NoOversleep'
    BY <1>1, <2>2, <2>4, <2>6 DEF NoOversleep, Tick, Less, Forever
  <2> QED
    BY <1>0, <2>5, <2>7 DEF SleepInv
<1>2. CASE EnterWait
  <2>1. ShortLeft'
    BY <1>2 DEF EnterWait, SleepInv, ShortLeft
  <2>2. NoOversleep'
    BY <1>2, WaitFits DEF EnterWait, NoOversleep
  <2> QED
    BY <1>0, <2>1, <2>2 DEF SleepInv
<1>3. ASSUME NEW p \in Threads, NEW t \in Tasks, ScheduleAt(p, t) PROVE SleepInv'
  <2>1. PICK d \in DelaysOf(t) : left' = [left EXCEPT ![t] = d]
    BY ZenonT(40), <1>3 DEF ScheduleAt
  <2>2. left \in [Tasks -> Nat] /\ t \notin timers
    BY ZenonT(40), <1>0, <1>3 DEF HandleInv, TypeOK, ScheduleAt, Free
  <2>3. ShortLeft /\ NoOversleep /\ timers \subseteq Tasks
    BY <1>0 DEF SleepInv, HandleInv, TypeOK
  <2>4. UNCHANGED <<phase, budget, timers>>
    BY <1>3 DEF ScheduleAt, loopVars
  <2>5. t \notin LongSleepers => d < TicksPerMs * (IntMax + 1)
    BY DelayShort
  <2>6. ShortLeft'
    BY ZenonT(40), <2>1, <2>2, <2>3, <2>5 DEF ShortLeft
  <2>7. NoOversleep'
    BY <2>1, <2>2, <2>3, <2>4 DEF NoOversleep
  <2> QED
    BY <1>0, <2>6, <2>7 DEF SleepInv
<1>4. CASE Sleep
  <2>1. PICK d \in DelaysOf(cur) : left' = [left EXCEPT ![cur] = d]
    BY ZenonT(40), <1>4 DEF Sleep
  <2>2. left \in [Tasks -> Nat] /\ cur \in Tasks /\ phase' = "ready"
    BY <1>0, <1>4 DEF HandleInv, TypeOK, Sleep, loopVars
  <2>3. cur \notin LongSleepers => d < TicksPerMs * (IntMax + 1)
    BY <2>2, DelayShort
  <2>4. ShortLeft'
    BY <2>1, <2>2, <2>3 DEF SleepInv, ShortLeft
  <2>5. NoOversleep'
    BY <2>2 DEF NoOversleep
  <2> QED
    BY ZenonT(40), <1>0, <2>4, <2>5 DEF SleepInv
<1>5. CASE left' = left /\ (phase' # "wait" \/ UNCHANGED <<phase, budget, timers>>)
  BY <1>0, <1>5 DEF SleepInv, ShortLeft, NoOversleep
<1>6. \/ Tick \/ EnterWait \/ Sleep \/ \E p \in Threads, t \in Tasks : ScheduleAt(p, t)
      \/ left' = left /\ (phase' # "wait" \/ UNCHANGED <<phase, budget, timers>>)
  <2> USE DEF loopVars
  <2>1. ASSUME NEW p \in Threads,
               ThreadStep(p) \/ Stop(p) \/ \E t \in Tasks : Schedule(p, t)
        PROVE  left' = left /\ UNCHANGED <<phase, budget, timers>>
    BY <2>1 DEF ThreadStep, LinkReady, LinkPending, Wakeup, Stop, Schedule
  <2>2. ASSUME NEW t \in Tasks, ScheduleBeforeRun(t) \/ ScheduleOther(t) \/ IoArrives(t)
        PROVE  left' = left /\ UNCHANGED <<phase, budget, timers>>
    BY SMTT(40), <2>2 DEF ScheduleBeforeRun, ScheduleOther, IoArrives
  <2>3. CASE Run \/ WaitInterrupted \/ (Loop /\ ~EnterWait)
    BY ZenonT(40), <2>3 DEF Run, WaitInterrupted, Loop, CheckRunning, TakePending, WaitReturns, ReadWakeup,
       HandleIo, EventsDone, FireTimer, TimersDone, Resume, ReadyDone
  <2>4. CASE (Coroutine /\ ~Sleep) \/ StopHere
    BY <2>4 DEF Coroutine, Suspend, Yield, AwaitIo, StopHere
  <2>5. CASE UNCHANGED vars
    BY <2>5 DEF vars
  <2> QED
    BY ZenonT(40), <2>1, <2>2, <2>3, <2>4, <2>5 DEF Next
<1> QED
  BY ZenonT(40), <1>1, <1>2, <1>3, <1>4, <1>5, <1>6

(* epoll_wait() never blocks past a timer that the loop knows of and that  *)
(* sleeps less than INT_MAX milliseconds, for any resolution of the clock  *)
(* and any width of int.                                                   *)
THEOREM TimersInTime == Spec => []NoOversleep
<1>1. SleepInv => NoOversleep
  BY DEF SleepInv
<1> QED
  BY <1>1, SleepInit, SleepNext, PTL DEF Spec
=============================================================================
