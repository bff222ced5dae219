------------------------------- MODULE Mutex -------------------------------
(***************************************************************************)
(* The coroutine mutex of include/nitrocoro/core/Mutex.h, one action per   *)
(* access to state_.                                                       *)
(*                                                                         *)
(* state_ holds this (unlocked), nullptr (locked, nobody has enqueued      *)
(* since the last unlock) or the awaiter that enqueued last, whose next_   *)
(* leads to the earlier ones.  The model keeps the pointer and, beside it, *)
(* that chain as a sequence, newest first.  A compare-exchange sees the    *)
(* pointer only: it succeeds on a chain that starts with the awaiter that  *)
(* was loaded, even when the rest has changed.  waiters_ is a plain field; *)
(* only the owner uses it.                                                 *)
(***************************************************************************)
EXTENDS Naturals, Sequences, SequencesExt

CONSTANTS Coros,    \* the coroutines that use the mutex, and their awaiters
          Null,     \* nullptr
          Unlocked  \* unlockedValue()

ASSUME MutexAssumption ==
    Null \notin Coros /\ Unlocked \notin Coros /\ Null # Unlocked

VARIABLES state,    \* state_
          chain,    \* the awaiters state_ leads to, newest first
          waiters,  \* waiters_, oldest first
          pc, old   \* where each coroutine is, and its `oldValue'

vars == <<state, chain, waiters, pc, old>>

Goto(c, l) == pc' = [pc EXCEPT ![c] = l]

Init ==
    /\ state = Unlocked
    /\ chain = <<>>
    /\ waiters = <<>>
    /\ pc = [c \in Coros |-> "idle"]
    /\ old = [c \in Coros |-> Null]

(* try_lock(), and CoroMutexAwaiter::await_ready() which calls it. *)
TryLock(c) ==
    /\ pc[c] = "idle"
    /\ state = Unlocked
    /\ state' = Null
    /\ Goto(c, "owner")
    /\ UNCHANGED <<chain, waiters, old>>

(* await_ready() failed: await_suspend() enters asynclockImpl(). *)
AwaitSuspend(c) ==
    /\ pc[c] = "idle"
    /\ state # Unlocked
    /\ Goto(c, "load")
    /\ UNCHANGED <<state, chain, waiters, old>>

LoadState(c) ==
    /\ pc[c] = "load"
    /\ old' = [old EXCEPT ![c] = state]
    /\ Goto(c, "cas")
    /\ UNCHANGED <<state, chain, waiters>>

(* A failed compare-exchange loads state_ again and the loop continues. *)
CasFailed(c) ==
    /\ pc[c] = "cas"
    /\ state # old[c]
    /\ old' = [old EXCEPT ![c] = state]
    /\ UNCHANGED <<state, chain, waiters, pc>>

(* The mutex was found unlocked: unlocked -> nullptr, await_suspend()      *)
(* returns false and the coroutine goes on as the owner.                   *)
BugCasAcquire(c) ==
    /\ pc[c] = "cas"
    /\ old[c] = Unlocked
    /\ state' = Null
    /\ old' = [old EXCEPT ![c] = Null]
    /\ Goto(c, "owner")
    /\ UNCHANGED <<chain, waiters>>

CasAcquire(c) ==
    /\ pc[c] = "cas"
    /\ old[c] = Unlocked
    /\ state = Unlocked
    /\ state' = Null
    /\ old' = [old EXCEPT ![c] = Null]
    /\ Goto(c, "owner")
    /\ UNCHANGED <<chain, waiters>>

(* The mutex was found locked: the awaiter is put in front of the chain    *)
(* and the coroutine stays suspended.                                      *)
EnqueueOn(c, rest) ==
    /\ state' = c
    /\ chain' = <<c>> \o rest
    /\ old' = [old EXCEPT ![c] = Null]
    /\ Goto(c, "waiting")
    /\ UNCHANGED waiters

BugCasEnqueue(c) ==
    /\ pc[c] = "cas"
    /\ old[c] # Unlocked
    /\ EnqueueOn(c, IF old[c] = Null THEN <<>> ELSE chain)

CasEnqueue(c) ==
    /\ pc[c] = "cas"
    /\ old[c] # Unlocked
    /\ state = old[c]
    /\ EnqueueOn(c, chain)

(* unlock(): waiters_, then state_ decide which way the lock goes. *)
BugUnlock(c) ==
    /\ pc[c] = "owner"
    /\ Goto(c, IF state = Null THEN "release" ELSE "take")
    /\ UNCHANGED <<state, chain, waiters, old>>

Unlock(c) ==
    /\ pc[c] = "owner"
    /\ Goto(c, IF waiters # <<>> THEN "handoff"
               ELSE IF state = Null THEN "release" ELSE "take")
    /\ UNCHANGED <<state, chain, waiters, old>>

(* unlock(): compare-exchange nullptr -> unlocked.  It fails when somebody *)
(* has enqueued since state_ was loaded.                                   *)
BugRelease(c) ==
    /\ pc[c] = "release"
    /\ state' = Unlocked
    /\ Goto(c, "idle")
    /\ UNCHANGED <<chain, waiters, old>>

Release(c) ==
    /\ pc[c] = "release"
    /\ \/ state = Null /\ state' = Unlocked /\ Goto(c, "idle")
       \/ state # Null /\ Goto(c, "take") /\ UNCHANGED state
    /\ UNCHANGED <<chain, waiters, old>>

(* unlock(): exchange(nullptr) takes the whole chain, the loop reverses it. *)
TakeAs(c, list) ==
    /\ pc[c] = "take"
    /\ state' = Null
    /\ chain' = <<>>
    /\ waiters' = list
    /\ Goto(c, "handoff")
    /\ UNCHANGED old

BugTake(c) == TakeAs(c, chain)

Take(c) == TakeAs(c, Reverse(chain))

(* unlock(): waiters_ = waitersHead->next_, and waitersHead's coroutine is *)
(* scheduled.  state_ stays locked: it is the owner from here on.          *)
Handoff(c) ==
    /\ pc[c] = "handoff"
    /\ waiters # <<>>
    /\ waiters' = Tail(waiters)
    /\ pc' = [pc EXCEPT ![c] = "idle", ![waiters[1]] = "granted"]
    /\ UNCHANGED <<state, chain, old>>

(* The scheduler resumes the coroutine; await_resume() adopts the lock. *)
AwaitResume(c) ==
    /\ pc[c] = "granted"
    /\ Goto(c, "owner")
    /\ UNCHANGED <<state, chain, waiters, old>>

UnlockStep(c) == Unlock(c) \/ Release(c) \/ Take(c) \/ Handoff(c)

Step(c) ==
    \/ TryLock(c) \/ AwaitSuspend(c) \/ LoadState(c)
    \/ CasFailed(c) \/ CasAcquire(c) \/ CasEnqueue(c)
    \/ UnlockStep(c) \/ AwaitResume(c)

Next == \E c \in Coros : Step(c)

Spec == Init /\ [][Next]_vars

(* An owner eventually unlocks, unlock() runs to its end, and a scheduled  *)
(* coroutine is eventually resumed.  Nothing is assumed of the coroutines  *)
(* that have not enqueued yet: their compare-exchange may fail for ever.   *)
FairSpec ==
    Spec /\ \A c \in Coros : WF_vars(UnlockStep(c)) /\ WF_vars(AwaitResume(c))
-----------------------------------------------------------------------------
Unlocking == {"release", "take", "handoff"}

Owns(c) == pc[c] \in {"owner", "granted"} \cup Unlocking

Waiting == {c \in Coros : pc[c] = "waiting"}

(* The variables have their types; the chain and waiters_ hold awaiters    *)
(* only, never the mutex' own address.                                     *)
TypeOK ==
    /\ state \in Coros \cup {Null, Unlocked}
    /\ chain \in Seq(Coros)
    /\ waiters \in Seq(Coros)
    /\ pc \in [Coros -> {"idle", "load", "cas", "waiting", "owner", "granted"}
                           \cup Unlocking]
    /\ old \in [Coros -> Coros \cup {Null, Unlocked}]

(* At most one coroutine is between its lock and the end of its unlock,    *)
(* also while the lock is on its way to a waiter that is scheduled but has *)
(* not run yet.                                                            *)
MutualExclusion == \A c, d \in Coros : Owns(c) /\ Owns(d) => c = d

(* A free mutex has nobody waiting (the destructor's and unlock()'s        *)
(* asserts): state_ is locked exactly while some coroutine owns it, and    *)
(* unlock() finds an awaiter wherever it asserts that there is one.        *)
LockAccounted ==
    /\ state # Unlocked <=> \E c \in Coros : Owns(c)
    /\ state = Unlocked => waiters = <<>>
    /\ chain = <<>> => state \in {Null, Unlocked}
    /\ chain # <<>> => state = chain[1]
    /\ \A c \in Coros : pc[c] = "take" => chain # <<>> /\ waiters = <<>>
    /\ \A c \in Coros : pc[c] = "release" => waiters = <<>>
    /\ \A c \in Coros : pc[c] = "handoff" => waiters # <<>>

(* Every suspended coroutine is in exactly one of the two lists, exactly   *)
(* once, and the lists hold nobody else: no waiter is lost when an enqueue *)
(* races an unlock, and none is resumed twice.                             *)
WaitersAccounted ==
    LET line == waiters \o chain IN
    /\ ToSet(line) = Waiting
    /\ \A i, j \in 1..Len(line) : line[i] = line[j] => i = j

(* The mutex implements the FIFO lock: the queue is waiters_ followed by   *)
(* the chain, oldest first.                                                *)
Owner == IF \E c \in Coros : Owns(c) THEN CHOOSE c \in Coros : Owns(c) ELSE Null

Abstract == INSTANCE FifoLock WITH
    Nobody <- Null, owner <- Owner, queue <- waiters \o Reverse(chain)

(* Coroutines get the mutex in the order in which they enqueued, and none  *)
(* overtakes a suspended one.                                              *)
IsFifoLock == Abstract!LSpec

(* A coroutine that has enqueued eventually owns the mutex: it is not      *)
(* "waiting" for ever, nor "granted", from which it goes to "owner" only.  *)
WaiterEventuallyOwns == \A c \in Coros : []<>(pc[c] \notin {"waiting", "granted"})
=============================================================================
