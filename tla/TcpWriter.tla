----------------------------- MODULE TcpWriter -----------------------------
(***************************************************************************)
(* net::TcpConnection::write() (src/TcpConnection.cc), that is             *)
(* Channel::performWrite() with a BufferWriter, when several coroutines    *)
(* write to one connection.  Nothing makes them take turns: Channel.h      *)
(* "only supports one concurrent reader and one concurrent writer per fd", *)
(* and whoever uses it has to see to that.                                 *)
(*                                                                         *)
(* A step is what a coroutine does up to its next suspension.  What is     *)
(* written is a sequence of pieces; the socket takes all of them, or some  *)
(* and is full.  `fails' is the set of ways in which writing fails now:    *)
(* none, "eof" (EPIPE after shutdown() or when the peer has gone, and      *)
(* ECONNRESET), "error" (any other).                                       *)
(***************************************************************************)
EXTENDS Naturals, Sequences

VARIABLES
    writable,  \* IoState::writable
    waiter,    \* IoState::writableWaiter, as a set
    interest,  \* 1 while EPOLLOUT is asked for
    calls,     \* the calls of write(): [who, st, left], where st is "suspended",
               \* "scheduled", or what became of it: "ok", "eof" (it returned 0) or
               \* "error" (it threw)
    written,   \* the pieces the socket took
    overlap    \* 1 once a call began while another was under way

writeVars == <<writable, waiter, interest, calls, written, overlap>>

WriteInit ==
    /\ writable = 1 /\ waiter = {} /\ interest = 0
    /\ calls = {} /\ written = <<>> /\ overlap = 0

UnderWay == {c \in calls : c.st \in {"suspended", "scheduled"}}
Others(who) == {c \in calls : c.who # who}
CallOf(who, st, left) == [who |-> who, st |-> st, left |-> left]

(* ::write() again and again, at least `least' pieces: the end, or EAGAIN, *)
(* enableWriting() and the wait, in which the last to come is the waiter.  *)
WriteOut(who, data, least, fails) ==
    \/ /\ \E f \in fails : calls' = Others(who) \cup {CallOf(who, f, <<>>)}
       /\ UNCHANGED <<writable, waiter, interest, written>>
    \/ /\ fails = {}
       /\ written' = written \o data
       /\ interest' = 0                                    \* disableWriting()
       /\ calls' = Others(who) \cup {CallOf(who, "ok", <<>>)}
       /\ UNCHANGED <<writable, waiter>>
    \/ /\ fails = {}
       /\ \E k \in least..(Len(data) - 1) :
             /\ written' = written \o SubSeq(data, 1, k)
             /\ calls' = Others(who)
                           \cup {CallOf(who, "suspended", SubSeq(data, k + 1, Len(data)))}
       /\ writable' = 0 /\ interest' = 1 /\ waiter' = {who}

(* write() is called. *)
TcpWrite(who, data, fails) ==
    /\ overlap' = IF UnderWay # {} THEN 1 ELSE overlap
    /\ IF writable = 1
         THEN WriteOut(who, data, 0, fails)
         ELSE /\ waiter' = {who}
              /\ calls' = Others(who) \cup {CallOf(who, "suspended", data)}
              /\ UNCHANGED <<writable, interest, written>>

(* handleIoEvents(): EPOLLOUT, if it is asked for, or EPOLLERR. *)
WritableEvent(fails) ==
    /\ writable = 0
    /\ interest = 1 \/ fails # {}
    /\ writable' = 1 /\ waiter' = {}
    /\ calls' = {IF c.who \in waiter THEN [c EXCEPT !.st = "scheduled"] ELSE c : c \in calls}
    /\ UNCHANGED <<interest, written, overlap>>

(* The coroutine that was scheduled goes on: there is room. *)
WriteResumed(fails) ==
    /\ \E c \in calls : c.st = "scheduled" /\ WriteOut(c.who, c.left, 1, fails)
    /\ UNCHANGED overlap

(* What became of the call of who.  Its coroutine goes on at once: nothing *)
(* else happens until the scheduler is free.                               *)
Wrote(who, st) == CallOf(who, st, <<>>) \in calls
Free == calls = UnderWay
-----------------------------------------------------------------------------
(* Channel.h: "Only supports one concurrent reader and one concurrent      *)
(* writer per fd".  No write() begins while another one is under way; if   *)
(* one does, it may tear the other apart, or take its place as the waiter, *)
(* and the other is never resumed.                                         *)
OneWriter == overlap = 0
=============================================================================
