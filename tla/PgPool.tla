------------------------------- MODULE PgPool -------------------------------
(***************************************************************************)
(* pg::PgPool with PoolState, PooledConnection and PgTransaction           *)
(* (extensions/pg/src): coroutines that acquire a connection, the tokens   *)
(* that cancel them, connections being made, lent, broken, returned and    *)
(* discarded, and the transactions their holders run on them.              *)
(*                                                                         *)
(* Everything but a destructor runs on the scheduler's thread; a step is   *)
(* what a coroutine or callback does up to its next suspension, in any     *)
(* order of those that are ready.  A connection is what PgConnectionImpl   *)
(* shows the pool: alive or not, and the transaction its session is in.    *)
(***************************************************************************)
EXTENDS Naturals, Sequences, FiniteSets

CONSTANTS Acquirers,  \* calls of acquire(), each with a Waiter of its own
          Conns,      \* connections, made anew when they are gone
          MaxSize     \* maxSize

VARIABLES
    pool,       \* PoolState, and where the connections and the acquirers are
    alive,      \* isAlive() of each connection
    detached,   \* *detached_ of the PooledConnection around each connection
    txn,        \* the session's transaction: "none", "open" or "aborted"
    open,       \* 1 while the PoolState exists
    crashed     \* 1 after an exception that nobody can catch

vars == <<pool, alive, detached, txn, open, crashed>>

Init ==
    /\ pool = [totalCount |-> 0, idle |-> <<>>, waiters |-> <<>>,
               where |-> [c \in Conns |-> "none"],
               user |-> [c \in Conns |-> CHOOSE a \in Acquirers : TRUE],
               pc |-> [a \in Acquirers |-> "none"],
               cancelled |-> {}]       \* the Waiters whose `cancelled' is set
    /\ alive = [c \in Conns |-> 0] /\ detached = [c \in Conns |-> 0]
    /\ txn = [c \in Conns |-> "none"] /\ open = 1 /\ crashed = 0

Running == crashed = 0
-----------------------------------------------------------------------------
(* PoolState *)

(* A connection that does not exist, for one that is to be made. *)
Fresh(p) == CHOOSE c \in Conns : p.where[c] = "none"

Give(p, c, a, w) ==
    [p EXCEPT !.where[c] = w, !.user[c] = a, !.waiters = Tail(@)]

(* dispatch(): skip the cancelled waiters in front, then serve one. *)
SkipCancelled(p) ==
    LET live == {i \in 1..Len(p.waiters) : p.waiters[i] \notin p.cancelled}
        first == CHOOSE i \in live : \A j \in live : i <= j
    IN  [p EXCEPT !.waiters = IF live = {} THEN <<>> ELSE SubSeq(@, first, Len(@))]

Dispatch(p0) ==
    LET p == SkipCancelled(p0)
        a == Head(p.waiters)
    IN  IF p.waiters = <<>> THEN p
        ELSE IF p.idle # <<>>
          THEN [Give(p, Head(p.idle), a, "promised") EXCEPT !.idle = Tail(@), !.pc[a] = "served"]
        ELSE IF p.totalCount < MaxSize
          THEN [Give(p, Fresh(p), a, "connecting") EXCEPT !.totalCount = @ + 1]
        ELSE p

(* The spawned connect() returns: for its waiter, or, if that was          *)
(* cancelled, for whoever is next.                                         *)
ConnectSucceeds(c) ==
    /\ Running
    /\ pool.where[c] = "connecting"
    /\ alive' = [alive EXCEPT ![c] = 1] /\ detached' = [detached EXCEPT ![c] = 0]
    /\ LET a == pool.user[c] IN
          pool' = IF a \in pool.cancelled
                    THEN Dispatch([pool EXCEPT !.where[c] = "idle", !.idle = Append(@, c)])
                    ELSE [pool EXCEPT !.where[c] = "promised", !.pc[a] = "served"]
    /\ UNCHANGED <<txn, open, crashed>>

BugConnectFails(c) ==
    /\ Running
    /\ pool.where[c] = "connecting"
    /\ LET a == pool.user[c] IN
          pool' = [pool EXCEPT !.where[c] = "none", !.totalCount = @ - 1,
                               !.pc[a] = IF a \in pool.cancelled THEN @ ELSE "failed"]
    /\ UNCHANGED <<alive, detached, txn, open, crashed>>

ConnectFails(c) ==
    /\ Running
    /\ pool.where[c] = "connecting"
    /\ LET a == pool.user[c] IN
          pool' = Dispatch([pool EXCEPT !.where[c] = "none", !.totalCount = @ - 1,
                                        !.pc[a] = IF a \in pool.cancelled THEN @ ELSE "failed"])
    /\ UNCHANGED <<alive, detached, txn, open, crashed>>

(* What returnConnection() posts: a dead connection is discarded. *)
Returned(c) ==
    /\ Running
    /\ pool.where[c] = "returning"
    /\ pool' = Dispatch(IF alive[c] = 1
                 THEN [pool EXCEPT !.where[c] = "idle", !.idle = Append(@, c)]
                 ELSE [pool EXCEPT !.where[c] = "none", !.totalCount = @ - 1])
    /\ UNCHANGED <<alive, detached, txn, open, crashed>>
-----------------------------------------------------------------------------
(* PgPool::acquire() *)

(* A token that is cancelled already runs the callback at once. *)
Acquire(a) ==
    /\ Running /\ open = 1
    /\ pool.pc[a] = "none"
    /\ \E s \in {"waiting", "failed"} :
          pool' = Dispatch([pool EXCEPT !.waiters = Append(@, a), !.pc[a] = s,
                                        !.cancelled = IF s = "failed" THEN @ \cup {a} ELSE @])
    /\ UNCHANGED <<alive, detached, txn, open, crashed>>

(* The token's callback, until the frame and with it the Waiter is gone:   *)
(* set_exception(), which throws if the promise is satisfied already; it   *)
(* runs in the coroutine of cancelAfter(), which lets nothing out.         *)
Cancel(a) ==
    /\ Running
    /\ pool.pc[a] \in {"waiting", "served", "failed"} /\ a \notin pool.cancelled
    /\ pool' = [pool EXCEPT !.cancelled = @ \cup {a}, !.pc[a] = IF @ = "waiting" THEN "failed" ELSE @]
    /\ crashed' = IF pool.pc[a] = "waiting" THEN 0 ELSE 1
    /\ UNCHANGED <<alive, detached, txn, open>>

(* co_await future.get() goes on: a PooledConnection, or the exception. *)
AcquireReturns(a) ==
    /\ Running
    /\ \/ /\ pool.pc[a] = "served"
          /\ \E c \in Conns :
                /\ pool.where[c] = "promised" /\ pool.user[c] = a
                /\ pool' = [pool EXCEPT !.where[c] = "lent", !.pc[a] = "holding"]
                /\ detached' = [detached EXCEPT ![c] = 0]
       \/ /\ pool.pc[a] = "failed"
          /\ pool' = [pool EXCEPT !.pc[a] = "done"]
          /\ UNCHANGED detached
    /\ UNCHANGED <<alive, txn, open, crashed>>
-----------------------------------------------------------------------------
(* Connections in use. *)

(* handleBroken(): the brokenHandler of the PooledConnection around it, if *)
(* that was not returned, detaches the connection from the pool.           *)
BugBreaks(c) ==
    /\ Running
    /\ alive[c] = 1 /\ pool.where[c] # "none"
    /\ alive' = [alive EXCEPT ![c] = 0] /\ txn' = [txn EXCEPT ![c] = "none"]
    /\ IF pool.where[c] = "lent"
         THEN pool' = IF open = 1 THEN Dispatch([pool EXCEPT !.totalCount = @ - 1]) ELSE pool
         ELSE UNCHANGED pool
    /\ UNCHANGED <<detached, open, crashed>>

Breaks(c) ==
    /\ Running
    /\ alive[c] = 1 /\ pool.where[c] # "none"
    /\ alive' = [alive EXCEPT ![c] = 0] /\ txn' = [txn EXCEPT ![c] = "none"]
    /\ IF pool.where[c] = "lent" /\ detached[c] = 0
         THEN /\ detached' = [detached EXCEPT ![c] = 1]
              /\ pool' = IF open = 1 THEN Dispatch([pool EXCEPT !.totalCount = @ - 1]) ELSE pool
         ELSE UNCHANGED <<detached, pool>>
    /\ UNCHANGED <<open, crashed>>

(* ~PooledConnection(), on any thread: returnConnection() unless detached. *)
Drop(a, c, p) ==
    /\ pool.where[c] = "lent" /\ pool.user[c] = a
    /\ pool' = [pool EXCEPT !.where[c] = IF detached[c] = 0 /\ open = 1
                                            THEN "returning" ELSE "none",
                            !.pc[a] = p]
    /\ detached' = [detached EXCEPT ![c] = 1]
    /\ UNCHANGED <<alive, open, crashed>>

Holds(a, c, p) == pool.pc[a] = p /\ pool.where[c] = "lent" /\ pool.user[c] = a

Release(a, c) ==
    /\ Running
    /\ Holds(a, c, "holding") \/ Holds(a, c, "txnDone")
    /\ Drop(a, c, "done")
    /\ UNCHANGED txn

(* newTransaction() and PgTransaction::begin(): execute("BEGIN") throws on *)
(* a dead connection, or because of the server's answer, and begin() drops *)
(* the connection.                                                         *)
Begin(a, c) ==
    /\ Running
    /\ Holds(a, c, "holding")
    /\ \/ /\ alive[c] = 1
          /\ txn' = [txn EXCEPT ![c] = "open"]
          /\ pool' = [pool EXCEPT !.pc[a] = "txn"]
          /\ UNCHANGED <<alive, detached, open, crashed>>
       \/ Drop(a, c, "done") /\ UNCHANGED txn

(* A statement fails; the server then refuses all others but the last. *)
StatementFails(a, c) ==
    /\ Running
    /\ Holds(a, c, "txn") /\ alive[c] = 1 /\ txn[c] = "open"
    /\ txn' = [txn EXCEPT ![c] = "aborted"]
    /\ UNCHANGED <<pool, alive, detached, open, crashed>>

(* commit() and rollback(): the session leaves its transaction, also when  *)
(* the server answers a COMMIT with an error; done_ is set if not.         *)
Finish(a, c) ==
    /\ Running
    /\ Holds(a, c, "txn") /\ alive[c] = 1
    /\ txn' = [txn EXCEPT ![c] = "none"]
    /\ \E p \in {"txn", "txnDone"} : pool' = [pool EXCEPT !.pc[a] = p]
    /\ UNCHANGED <<alive, detached, open, crashed>>

(* release() *)
TakeBack(a, c) ==
    /\ Running
    /\ Holds(a, c, "txnDone")
    /\ pool' = [pool EXCEPT !.pc[a] = "holding"]
    /\ UNCHANGED <<alive, detached, txn, open, crashed>>

(* ~PgTransaction() before done_: a coroutine is spawned that takes the    *)
(* connection along, ...                                                   *)
BugAbandon(a, c) ==
    /\ Running
    /\ Holds(a, c, "txn")
    /\ Drop(a, c, "done")
    /\ UNCHANGED txn

Abandon(a, c) ==
    /\ Running
    /\ Holds(a, c, "txn")
    /\ pool' = [pool EXCEPT !.pc[a] = "leaving"]
    /\ UNCHANGED <<alive, detached, txn, open, crashed>>

(* ... says COMMIT or ROLLBACK, and drops it, whatever came of that. *)
AutoFinish(a, c) ==
    /\ Running
    /\ Holds(a, c, "leaving")
    /\ txn' = [txn EXCEPT ![c] = "none"]
    /\ Drop(a, c, "done")

(* After ~PgPool(), which must not come while an acquire() is under way:   *)
(* the last step that shares the PoolState is done, and it goes.           *)
ClosePool ==
    /\ Running /\ open = 1
    /\ \A a \in Acquirers : pool.pc[a] \notin {"waiting", "served", "failed"}
    /\ \A c \in Conns : pool.where[c] \notin {"connecting", "returning"}
    /\ open' = 0
    /\ pool' = [pool EXCEPT !.idle = <<>>, !.waiters = <<>>,
                            !.where = [c \in Conns |-> IF @[c] = "idle" THEN "none" ELSE @[c]]]
    /\ UNCHANGED <<alive, detached, txn, crashed>>

Connecting(c) == ConnectSucceeds(c) \/ ConnectFails(c)

LetGo(a) == \E c \in Conns : Release(a, c) \/ Abandon(a, c) \/ AutoFinish(a, c)

Next ==
    \/ ClosePool
    \/ \E c \in Conns : Connecting(c) \/ Returned(c) \/ Breaks(c)
    \/ \E a \in Acquirers :
          \/ Acquire(a) \/ Cancel(a) \/ AcquireReturns(a) \/ LetGo(a)
          \/ \E c \in Conns : Begin(a, c) \/ StatementFails(a, c) \/ Finish(a, c) \/ TakeBack(a, c)

Spec == Init /\ [][Next]_vars

(* The scheduler runs what is ready, a connect() ends, if only by its      *)
(* timeout, and whoever holds a connection lets go of it in the end.       *)
FairSpec ==
    /\ Spec
    /\ \A c \in Conns : WF_vars(Connecting(c)) /\ WF_vars(Returned(c))
    /\ \A a \in Acquirers : WF_vars(AcquireReturns(a)) /\ WF_vars(LetGo(a))
-----------------------------------------------------------------------------
(* totalCount counts the connections that are being made, idle, promised,  *)
(* lent and not detached, or on their way back, and never exceeds maxSize: *)
(* a connection that breaks while it is being returned is discounted once. *)
(* And nobody waits in vain: while a waiter is queued that was not         *)
(* cancelled, nothing is idle and the pool is full.                        *)
PoolAccounted ==
    open = 1 =>
       /\ pool.totalCount =
             Cardinality({c \in Conns : pool.where[c] \notin {"none", "lent"}}
                           \cup {c \in Conns : pool.where[c] = "lent" /\ detached[c] = 0})
       /\ pool.totalCount <= MaxSize
       /\ {pool.idle[i] : i \in 1..Len(pool.idle)} = {c \in Conns : pool.where[c] = "idle"}
       /\ (\E i \in 1..Len(pool.waiters) : pool.waiters[i] \notin pool.cancelled) =>
             pool.idle = <<>> /\ pool.totalCount = MaxSize

(* No connection is idle, or goes to the next holder, inside a transaction *)
(* that somebody left unfinished.                                          *)
NoTransactionLeaks ==
    \A c \in Conns :
       pool.where[c] \in {"idle", "promised", "returning"} /\ alive[c] = 1 => txn[c] = "none"

(* Every acquire() ends, with a connection or an exception. *)
AcquireEnds ==
    \A a \in Acquirers :
       []<>(crashed = 1 \/ pool.pc[a] \notin {"waiting", "served", "failed"})

(* A token that is cancelled while acquire() waits makes it throw          *)
(* PgTimeoutError, or comes too late; it does not end the process.         *)
CancelThrows == crashed = 0
=============================================================================
