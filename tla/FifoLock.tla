------------------------------ MODULE FifoLock ------------------------------
(***************************************************************************)
(* What Mutex (include/nitrocoro/core/Mutex.h) promises: a lock with at    *)
(* most one owner, handed over in the order in which the waiters enqueued, *)
(* and never free while somebody waits for it.                             *)
(***************************************************************************)
EXTENDS Sequences

CONSTANTS Coros,   \* the coroutines that use the mutex
          Nobody   \* the owner of a free lock

VARIABLES owner, queue

lvars == <<owner, queue>>

LInit == owner = Nobody /\ queue = <<>>

Acquire(c) ==
    /\ owner = Nobody
    /\ owner' = c
    /\ UNCHANGED queue

Enqueue(c) ==
    /\ owner # Nobody
    /\ owner # c
    /\ queue' = Append(queue, c)
    /\ UNCHANGED owner

Unlock(c) ==
    /\ owner = c
    /\ \/ queue = <<>> /\ owner' = Nobody /\ UNCHANGED queue
       \/ queue # <<>> /\ owner' = Head(queue) /\ queue' = Tail(queue)

LNext == \E c \in Coros : Acquire(c) \/ Enqueue(c) \/ Unlock(c)

LSpec == LInit /\ [][LNext]_lvars
=============================================================================
