---------------------------- MODULE PgConnection ----------------------------
(***************************************************************************)
(* pg::PgConnectionImpl (extensions/pg/src/PgConnectionImpl.cc): one       *)
(* connection, made by connect(), on which one query at a time runs, the   *)
(* readLoop() that takes in what the server sends, and the tokens that     *)
(* cancel the connect or the query.                                        *)
(*                                                                         *)
(* All of it runs on one scheduler; a step is what a coroutine does up to  *)
(* its next suspension.  The channel is level triggered, and only a        *)
(* coroutine suspended on it can be cancelled: one that is scheduled       *)
(* already goes on as if nothing had happened.  libpq is the flag `busy'   *)
(* (a command is in progress) and the bytes it has taken in.               *)
(***************************************************************************)
EXTENDS Naturals

CONSTANT MaxQueries   \* bounds the queries of one behaviour

VARIABLES
    link,     \* connect(): "none", "suspended", "ready", "canceled", or "up"
    query,    \* sendAndReceive(): "none", "flushing", "flushReady",
              \* "flushCanceled", "waiting", "resumed" (a result) or "failed"
    n,        \* the number of that query
    sound,    \* 1 iff it began before the connection was `broken'
    token,    \* its token, or connect()'s: "none", "armed" or "cancelled"
    reader,   \* readLoop(): "none", "waiting", "ready", "canceled", "gone"
    promise,  \* the query whose promise weakPromise locks, or 0
    got,      \* the query whose result that promise was given, or Failure
    broken,   \* ConnectionContext::broken
    busy,     \* PGASYNC_BUSY: no new command is accepted
    server    \* asks: the query it works on; sent: the one whose answer is
              \* under way, and how much; unread: bytes in the socket; eof

vars == <<link, query, n, sound, token, reader, promise, got, broken, busy, server>>
pqVars == <<n, sound, promise, got, busy>>

(* An exception, where a result might be. *)
Failure == MaxQueries + 1

Idle == [asks |-> 0, sent |-> 0, whole |-> 0, unread |-> 0, eof |-> 0]

Init ==
    /\ link = "none" /\ query = "none" /\ reader = "none" /\ token = "none"
    /\ n = 0 /\ sound = 0 /\ promise = 0 /\ got = 0 /\ broken = 0 /\ busy = 0
    /\ server = Idle
-----------------------------------------------------------------------------
(* channel->cancelAll(), given where the reader and the query are. *)
CancelAll(r, q) ==
    /\ reader' = IF r = "waiting" THEN "canceled" ELSE r
    /\ query' = IF q = "flushing" THEN "flushCanceled" ELSE q

(* handleBroken(); disableAll() is that no event arrives when broken. *)
HandleBroken(r, q) ==
    /\ broken' = 1
    /\ IF broken = 0 THEN CancelAll(r, q) ELSE reader' = r /\ query' = q
-----------------------------------------------------------------------------
(* connect() *)

ConnectStarts ==
    /\ link = "none"
    /\ link' = "suspended"
    /\ \E k \in {"none", "armed"} : token' = k
    /\ UNCHANGED <<query, reader, broken, server, pqVars>>

ConnectEvent ==
    /\ link = "suspended"
    /\ link' = "ready"
    /\ UNCHANGED <<query, token, reader, broken, server, pqVars>>

(* The adapter of perform(): another round, the end, or a failure; a       *)
(* cancelled token is noticed here when the cancellation itself was not.   *)
BugConnectPolls ==
    /\ link = "ready"
    /\ \E s \in {"suspended", "up", "none"} :
          /\ link' = s
          /\ token' = IF s = "suspended" THEN token ELSE "none"
          /\ reader' = IF s = "up" THEN "waiting" ELSE "none"
    /\ UNCHANGED <<query, broken, server, pqVars>>

ConnectPolls ==
    /\ link = "ready"
    /\ \E s \in IF token = "cancelled" THEN {"none"} ELSE {"suspended", "up", "none"} :
          /\ link' = s
          /\ token' = IF s = "suspended" THEN token ELSE "none"
          /\ reader' = IF s = "up" THEN "waiting" ELSE "none"
    /\ UNCHANGED <<query, broken, server, pqVars>>

ConnectCanceled ==
    /\ link = "canceled"
    /\ link' = "none" /\ token' = "none"
    /\ UNCHANGED <<query, reader, broken, server, pqVars>>
-----------------------------------------------------------------------------
(* sendAndReceive() *)

(* It throws; its promise and its registration go with its frame. *)
Throws(r) ==
    /\ HandleBroken(r, "none")
    /\ promise' = 0 /\ token' = "none"

(* It was flushed: the server gets it. *)
Flushed(m) == [server EXCEPT !.asks = m]

BugQuery ==
    /\ link = "up" /\ query = "none" /\ n < MaxQueries
    /\ n' = n + 1 /\ sound' = 1 - broken /\ got' = 0
    /\ busy' = 1 /\ promise' = n + 1
    /\ \E k \in {"none", "armed"} : token' = k
    /\ \/ query' = "waiting" /\ server' = Flushed(n + 1)
       \/ query' = "flushing" /\ UNCHANGED server
    /\ UNCHANGED <<link, reader, broken>>

Query ==
    /\ link = "up" /\ query = "none" /\ n < MaxQueries
    /\ n' = n + 1 /\ sound' = 1 - broken /\ got' = 0
    /\ \/ /\ busy = 1                            \* PQsendQueryParams() fails
          /\ Throws(reader)
          /\ UNCHANGED <<busy, server>>
       \/ /\ busy = 0
          /\ busy' = 1
          /\ \/ Throws(reader) /\ UNCHANGED server
             \/ /\ promise' = n + 1
                /\ \E k \in {"none", "armed"} : token' = k
                /\ \/ query' = "waiting" /\ server' = Flushed(n + 1)
                   \/ query' = "flushing" /\ UNCHANGED server
                /\ UNCHANGED <<reader, broken>>
    /\ UNCHANGED link

FlushEvent ==
    /\ query = "flushing"
    /\ query' = "flushReady"
    /\ UNCHANGED <<link, token, reader, broken, server, pqVars>>

(* The write is over; a cancelled token is looked at before the wait. *)
FlushEnds ==
    /\ query = "flushReady"
    /\ \/ Throws(reader) /\ UNCHANGED server
       \/ /\ server' = Flushed(n)
          /\ IF token = "cancelled"
               THEN Throws(reader)
               ELSE /\ query' = IF got = Failure THEN "failed" ELSE "waiting"
                    /\ UNCHANGED <<promise, token, reader, broken>>
    /\ UNCHANGED <<link, n, sound, got, busy>>

FlushCanceled ==
    /\ query = "flushCanceled"
    /\ Throws(reader)
    /\ UNCHANGED <<link, n, sound, got, busy, server>>

(* co_await resultPromise->get_future().get() goes on. *)
QueryEnds ==
    /\ query \in {"resumed", "failed"}
    /\ query' = "none" /\ promise' = 0 /\ token' = "none"
    /\ UNCHANGED <<link, n, sound, reader, got, broken, busy, server>>

(* The token's callback: cancelAll(). *)
Cancel ==
    /\ token = "armed"
    /\ token' = "cancelled"
    /\ link' = IF link = "suspended" THEN "canceled" ELSE link
    /\ CancelAll(reader, query)
    /\ UNCHANGED <<broken, server, pqVars>>
-----------------------------------------------------------------------------
(* readLoop() *)

(* The loop ends: handleBroken(), and an exception for who waits. *)
ReaderGone ==
    /\ HandleBroken("gone", IF promise # 0 /\ query = "waiting" THEN "failed" ELSE query)
    /\ got' = IF promise # 0 THEN Failure ELSE got
    /\ promise' = 0

ReadEvent ==
    /\ reader = "waiting" /\ broken = 0
    /\ server.unread = 1 \/ server.eof = 1
    /\ reader' = "ready"
    /\ UNCHANGED <<link, query, token, broken, server, pqVars>>

ReaderRuns ==
    /\ reader = "ready"
    /\ \/ /\ server.eof = 1
          /\ ReaderGone
          /\ UNCHANGED <<busy, server>>
       \/ /\ server.eof = 0 /\ server.whole = 0         \* PQisBusy()
          /\ reader' = "waiting"
          /\ server' = [server EXCEPT !.unread = 0]
          /\ UNCHANGED <<query, promise, got, broken, busy>>
       \/ /\ server.eof = 0 /\ server.whole = 1         \* PQgetResult()
          /\ reader' = "waiting" /\ busy' = 0
          /\ server' = Idle
          /\ IF promise # 0
               THEN query' = "resumed" /\ got' = server.sent /\ promise' = 0
               ELSE UNCHANGED <<query, got, promise>>
          /\ UNCHANGED broken
    /\ UNCHANGED <<link, n, sound, token>>

ReaderCanceled ==
    /\ reader = "canceled"
    /\ ReaderGone
    /\ UNCHANGED <<link, n, sound, token, busy, server>>
-----------------------------------------------------------------------------
(* The server: an answer; a part of one, a notice or a notification; or    *)
(* the end of the connection.                                              *)
Answers ==
    /\ server.asks # 0 /\ server.eof = 0
    /\ server' = [server EXCEPT !.asks = 0, !.sent = server.asks, !.whole = 1, !.unread = 1]
    /\ UNCHANGED <<link, query, token, reader, broken, pqVars>>

Notifies ==
    /\ link = "up" /\ server.eof = 0 /\ server.unread = 0
    /\ server' = [server EXCEPT !.unread = 1]
    /\ UNCHANGED <<link, query, token, reader, broken, pqVars>>

HangsUp ==
    /\ link = "up" /\ server.eof = 0
    /\ server' = [server EXCEPT !.eof = 1]
    /\ UNCHANGED <<link, query, token, reader, broken, pqVars>>

Connecting == ConnectStarts \/ ConnectEvent \/ ConnectPolls \/ ConnectCanceled
Querying == Query \/ FlushEvent \/ FlushEnds \/ FlushCanceled \/ QueryEnds
Reading == ReadEvent \/ ReaderRuns \/ ReaderCanceled
Serving == Answers \/ Notifies \/ HangsUp

Next == Connecting \/ Querying \/ Reading \/ Serving \/ Cancel

Spec == Init /\ [][Next]_vars

(* The scheduler runs what is scheduled and delivers the events there are. *)
Scheduled ==
    /\ WF_vars(ConnectPolls) /\ WF_vars(ConnectCanceled)
    /\ WF_vars(FlushEnds) /\ WF_vars(FlushCanceled) /\ WF_vars(QueryEnds)
    /\ WF_vars(ReadEvent) /\ WF_vars(ReaderRuns) /\ WF_vars(ReaderCanceled)

(* Whatever the server does. *)
SilentSpec == Spec /\ Scheduled

(* And the server takes in what it is sent, and answers or hangs up. *)
FairSpec == SilentSpec /\ WF_vars(FlushEvent) /\ WF_vars(Answers)
-----------------------------------------------------------------------------
(* A query is given the answer to itself, never the late answer to an      *)
(* earlier one that was cancelled.                                         *)
ResultIsOwn == query = "resumed" => got = n

(* A query that began on a connection not known to be broken ends, with a  *)
(* result or an exception, however cancellation, the end of the connection *)
(* and the server's answer fall together; and so does a connect() whose    *)
(* token is cancelled.                                                     *)
CallsEnd ==
    /\ []<>~(query # "none" /\ sound = 1)
    /\ []<>~(link \in {"suspended", "ready"} /\ token = "cancelled")

(* Cancelling the token stops the wait for the result, also if the server  *)
(* never answers: "cancelToken only stops waiting for the result".         *)
CancelStopsWaiting ==
    query # "none" /\ sound = 1 /\ token = "cancelled" ~> query = "none"
=============================================================================
