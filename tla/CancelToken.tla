---------------------------- MODULE CancelToken ----------------------------
(***************************************************************************)
(* CancelState, CancelRegistration and CancelToken of                      *)
(* include/nitrocoro/core/CancelToken.h: callbacks that are registered and *)
(* unregistered, coroutines that await cancelled(), and calls of cancel(). *)
(*                                                                         *)
(* What is in OnLoop runs on the scheduler's thread, where Scheduler::     *)
(* current() is set; everything else has a thread of its own and no        *)
(* scheduler.  The waiter list is the list of LockFreeList.h, whose push   *)
(* Future models step by step; here a push is one step.                    *)
(***************************************************************************)
EXTENDS Naturals, Sequences

CONSTANTS Regs,        \* onCancel() calls, their callbacks and registrations
          Waiters,     \* coroutines that co_await cancelled()
          Cancellers,  \* calls of cancel(), by cancelAfter()'s timer too
          OnLoop,
          Nobody       \* cbMutex_ is free

Actors == Regs \cup Waiters \cup Cancellers

VARIABLES closed,     \* 1 once waiters_ is closed
          chain,      \* the nodes waiters_ leads to
          callbacks,  \* callbacks_
          mutex,      \* who holds cbMutex_
          active,     \* the flag of each registration: 1 is set
          pc,         \* where each actor is
          cbs, nodes, \* what a cancel() has still to call and to resume
          queue,      \* callbacks dispatched to the scheduler's thread
          fired       \* history: how often each callback was called

vars == <<closed, chain, callbacks, mutex, active, pc, cbs, nodes, queue, fired>>

Goto(a, l) == pc' = [pc EXCEPT ![a] = l]

MidCall(a) == pc[a] \in {"checked", "late", "lock", "callbacks", "calling", "waiters"}

CanRun(a) == a \in OnLoop => \A b \in OnLoop \ {a} : ~MidCall(b)

Init ==
    /\ closed = 0 /\ chain = <<>> /\ callbacks = <<>> /\ mutex = Nobody
    /\ active = [r \in Regs |-> 0]
    /\ pc = [a \in Actors |-> "idle"]
    /\ cbs = [c \in Cancellers |-> <<>>]
    /\ nodes = [c \in Cancellers |-> <<>>]
    /\ queue = <<>>
    /\ fired = [r \in Regs |-> 0]
-----------------------------------------------------------------------------
Fire(r) == fired' = [fired EXCEPT ![r] = @ + 1]

(* addCallback(): take cbMutex_ and look whether the list is closed; if it *)
(* is, cbMutex_ is released.                                               *)
BugCheck(r) ==
    /\ pc[r] = "idle" /\ CanRun(r)
    /\ Goto(r, IF closed = 1 THEN "late" ELSE "checked")
    /\ UNCHANGED <<closed, chain, callbacks, mutex, active, cbs, nodes, queue, fired>>

Check(r) ==
    /\ pc[r] = "idle" /\ CanRun(r)
    /\ mutex = Nobody
    /\ mutex' = IF closed = 1 THEN Nobody ELSE r
    /\ Goto(r, IF closed = 1 THEN "late" ELSE "checked")
    /\ UNCHANGED <<closed, chain, callbacks, active, cbs, nodes, queue, fired>>

(* addCallback(): push_back, and cbMutex_ is released. *)
Register(r) ==
    /\ pc[r] = "checked"
    /\ callbacks' = Append(callbacks, r)
    /\ mutex' = Nobody
    /\ Goto(r, "registered")
    /\ UNCHANGED <<closed, chain, active, cbs, nodes, queue, fired>>

(* addCallback() on a cancelled token: the callback is called at once, on  *)
(* the calling thread, and the registration is empty.                      *)
CallLate(r) ==
    /\ pc[r] = "late"
    /\ Fire(r)
    /\ Goto(r, "empty")
    /\ UNCHANGED <<closed, chain, callbacks, mutex, active, cbs, nodes, queue>>

(* ~CancelRegistration(): unregister() sets the flag, the entry stays. *)
BugUnregister(r) ==
    /\ pc[r] = "registered" /\ CanRun(r)
    /\ Goto(r, "destroyed")
    /\ UNCHANGED <<closed, chain, callbacks, mutex, active, cbs, nodes, queue, fired>>

Unregister(r) ==
    /\ pc[r] = "registered" /\ CanRun(r)
    /\ active' = [active EXCEPT ![r] = 1]
    /\ Goto(r, "destroyed")
    /\ UNCHANGED <<closed, chain, callbacks, mutex, cbs, nodes, queue, fired>>

(* await_ready() and await_suspend() of CancelledAwaiter. *)
Await(w) ==
    /\ pc[w] = "idle" /\ CanRun(w)
    /\ \/ closed = 1 /\ Goto(w, "done") /\ UNCHANGED chain
       \/ closed = 0 /\ Goto(w, "suspended") /\ chain' = <<w>> \o chain
    /\ UNCHANGED <<closed, callbacks, mutex, active, cbs, nodes, queue, fired>>
-----------------------------------------------------------------------------
(* cancel(): close(); the second one to come returns. *)
BugClose(c) ==
    /\ pc[c] = "idle" /\ CanRun(c)
    /\ closed' = 1
    /\ nodes' = [nodes EXCEPT ![c] = chain]
    /\ Goto(c, "lock")
    /\ UNCHANGED <<chain, callbacks, mutex, active, cbs, queue, fired>>

Close(c) ==
    /\ pc[c] = "idle" /\ CanRun(c)
    /\ IF closed = 1
         THEN Goto(c, "done") /\ UNCHANGED <<closed, chain, nodes>>
         ELSE /\ closed' = 1
              /\ chain' = <<>>
              /\ nodes' = [nodes EXCEPT ![c] = chain]
              /\ Goto(c, "lock")
    /\ UNCHANGED <<callbacks, mutex, active, cbs, queue, fired>>

(* cancel(): swap callbacks_ out under cbMutex_. *)
Swap(c) ==
    /\ pc[c] = "lock"
    /\ mutex = Nobody
    /\ cbs' = [cbs EXCEPT ![c] = callbacks]
    /\ callbacks' = <<>>
    /\ Goto(c, "callbacks")
    /\ UNCHANGED <<closed, chain, mutex, active, nodes, queue, fired>>

(* if (!active->test_and_set()) fn() *)
TestAndFire(r) ==
    /\ active' = [active EXCEPT ![r] = 1]
    /\ IF active[r] = 0 THEN Fire(r) ELSE UNCHANGED fired

(* cancel(): one callback, called here or dispatched to its scheduler. *)
CallHere(c) ==
    /\ pc[c] = "callbacks" /\ cbs[c] # <<>>
    /\ TestAndFire(cbs[c][1])
    /\ IF active[cbs[c][1]] = 0
         THEN Goto(c, "calling") /\ UNCHANGED cbs
         ELSE cbs' = [cbs EXCEPT ![c] = Tail(@)] /\ UNCHANGED pc
    /\ UNCHANGED <<closed, chain, callbacks, mutex, nodes, queue>>

BugCallback(c) == CallHere(c)

Callback(c) ==
    LET r == cbs[c][1] IN
    \/ /\ pc[c] = "callbacks" /\ cbs[c] # <<>>
       /\ r \in OnLoop /\ c \notin OnLoop
       /\ queue' = Append(queue, r)
       /\ cbs' = [cbs EXCEPT ![c] = Tail(@)]
       /\ UNCHANGED <<closed, chain, callbacks, mutex, active, pc, nodes, fired>>
    \/ /\ CallHere(c)
       /\ r \in OnLoop => c \in OnLoop

(* The callback returns; cancel() goes on with the next one. *)
Returned(c) ==
    /\ pc[c] = "calling"
    /\ cbs' = [cbs EXCEPT ![c] = Tail(@)]
    /\ Goto(c, "callbacks")
    /\ UNCHANGED <<closed, chain, callbacks, mutex, active, nodes, queue, fired>>

CallbacksDone(c) ==
    /\ pc[c] = "callbacks" /\ cbs[c] = <<>>
    /\ Goto(c, "waiters")
    /\ UNCHANGED <<closed, chain, callbacks, mutex, active, cbs, nodes, queue, fired>>

(* cancel(): one waiter is scheduled, or resumed here. *)
ResumeWaiter(c) ==
    LET w == nodes[c][1] IN
    /\ pc[c] = "waiters" /\ nodes[c] # <<>>
    /\ nodes' = [nodes EXCEPT ![c] = Tail(@)]
    /\ Goto(w, IF w \in OnLoop THEN "scheduled" ELSE "done")
    /\ UNCHANGED <<closed, chain, callbacks, mutex, active, cbs, queue, fired>>

CancelDone(c) ==
    /\ pc[c] = "waiters" /\ nodes[c] = <<>>
    /\ Goto(c, "done")
    /\ UNCHANGED <<closed, chain, callbacks, mutex, active, cbs, nodes, queue, fired>>

LoopFree == \A b \in OnLoop : ~MidCall(b)

(* The scheduler's thread runs a dispatched callback. *)
RunDispatched ==
    /\ queue # <<>> /\ LoopFree
    /\ queue' = Tail(queue)
    /\ TestAndFire(queue[1])
    /\ UNCHANGED <<closed, chain, callbacks, mutex, pc, cbs, nodes>>

RunWaiter(w) ==
    /\ pc[w] = "scheduled" /\ LoopFree
    /\ Goto(w, "done")
    /\ UNCHANGED <<closed, chain, callbacks, mutex, active, cbs, nodes, queue, fired>>

CancelStep(c) ==
    \/ Swap(c) \/ Callback(c) \/ Returned(c)
    \/ CallbacksDone(c) \/ ResumeWaiter(c) \/ CancelDone(c)

Next ==
    \/ \E r \in Regs : Check(r) \/ Register(r) \/ CallLate(r) \/ Unregister(r)
    \/ \E w \in Waiters : Await(w) \/ RunWaiter(w)
    \/ \E c \in Cancellers : Close(c) \/ CancelStep(c)
    \/ RunDispatched

Spec == Init /\ [][Next]_vars

(* Calls run to their end and the loop goes on; nobody has to cancel, to   *)
(* register or to unregister.                                              *)
FairSpec ==
    /\ Spec
    /\ \A r \in Regs : WF_vars(Register(r) \/ CallLate(r))
    /\ \A w \in Waiters : WF_vars(RunWaiter(w))
    /\ \A c \in Cancellers : WF_vars(CancelStep(c))
    /\ WF_vars(RunDispatched)
-----------------------------------------------------------------------------
(* The variables have their types. *)
TypeOK ==
    /\ closed \in 0..1
    /\ chain \in Seq(Waiters)
    /\ callbacks \in Seq(Regs)
    /\ mutex \in Regs \cup {Nobody}
    /\ active \in [Regs -> 0..1]
    /\ pc \in [Actors -> {"idle", "checked", "late", "registered", "empty", "destroyed",
                          "suspended", "scheduled", "lock", "callbacks", "calling",
                          "waiters", "done"}]
    /\ cbs \in [Cancellers -> Seq(Regs)]
    /\ nodes \in [Cancellers -> Seq(Waiters)]
    /\ queue \in Seq(Regs)
    /\ fired \in [Regs -> Nat]
    /\ closed = 1 => chain = <<>>

(* A callback is called at most once, however many cancel() calls, late    *)
(* registrations and dispatches race; and on the thread that owns the      *)
(* registration never once that has been destroyed, even if cancel() had   *)
(* already dispatched it by then.                                          *)
FiresOnce ==
    [][\A r \in Regs : fired'[r] # fired[r] =>
          fired[r] = 0 /\ ~(r \in OnLoop /\ pc[r] = "destroyed")]_vars

(* A callback whose registration lives on the scheduler's thread is never  *)
(* in the middle of a call when the registration, and what the callback    *)
(* captured, is destroyed.                                                 *)
NotDuringCall ==
    \A c \in Cancellers :
       pc[c] = "calling" /\ cbs[c][1] \in OnLoop => pc[cbs[c][1]] # "destroyed"

(* A suspended coroutine is in exactly one list, once. *)
WaitersAccounted ==
    \A w \in Waiters :
       LET places == {<<"list", i>> : i \in {j \in 1..Len(chain) : chain[j] = w}}
              \cup UNION {{<<c, i>> : i \in {j \in 1..Len(nodes[c]) : nodes[c][j] = w}} :
                            c \in Cancellers}
       IN  IF pc[w] = "suspended"
             THEN \E x \in places : places = {x}
             ELSE places = {}

(* After cancel() every callback that stays registered is called, and      *)
(* every coroutine that awaits cancelled() is resumed.                     *)
CancelReachesAll ==
    /\ \A r \in Regs : []<>~(closed = 1 /\ pc[r] = "registered" /\ fired[r] = 0)
    /\ \A w \in Waiters : []<>~(closed = 1 /\ pc[w] \in {"suspended", "scheduled"})
=============================================================================
