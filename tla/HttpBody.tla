------------------------------ MODULE HttpBody ------------------------------
(***************************************************************************)
(* A message from HttpOutgoingStream to BodyReader (extensions/http): once *)
(* the sender of HttpMessage has ended it, its tokens come out of the      *)
(* stream in portions of any size, parseNext() takes the head and the      *)
(* reader it calls for takes the body, for a coroutine that calls read()   *)
(* and for the server's drain(), which may overlap.                        *)
(***************************************************************************)
EXTENDS HttpMessage, FiniteSets, FiniteSetsExt

CONSTANT Lens   \* lengths of the buffer passed to read()

VARIABLES
    net,       \* tokens in the stream
    closed,    \* the stream ends after them
    buf,       \* the StringBuffer of the connection
    rd,        \* the reader: mode, size and done (contentLength_ and bytesRead_, or
               \* currentChunkSize_ and currentChunkRead_), st: "size", "data", "complete"
    lock,      \* mutex_: the callers, the first has it
    call,      \* each caller: pc, len and n (what it will return)
    draining,  \* draining_
    taken,     \* bytes of the body handed out, in order
    result     \* of "user" and "drain": "", "eof" (0, or done) or "throw"

readVars == <<net, closed, buf, rd, lock, call, draining, taken, result>>
vars == <<out, wire, readVars>>
Callers == {"user", "drain"}

Init ==
    /\ OutInit
    /\ net = <<>> /\ closed = FALSE /\ buf = <<>>
    /\ rd = [mode |-> "", size |-> 0, done |-> 0, st |-> ""]
    /\ lock = <<>> /\ call = [u \in Callers |-> [pc |-> "idle", len |-> 0, n |-> 0]]
    /\ draining = FALSE /\ taken = <<>> /\ result = [u \in Callers |-> ""]
-----------------------------------------------------------------------------
(* The message is under way: alone, or with the head of the next one       *)
(* behind it; a foreign sender may put trailer lines after the last chunk; *)
(* and the connection may break at any byte.                               *)
Sent ==
    /\ out.done /\ net = <<>> /\ ~closed /\ rd.mode = ""  /\ buf = <<>>
    /\ \E trailer \in {<<>>, Tok("x", 0) \o CRLF} :
          LET whole == IF out.mode = "chunked"
                         THEN SubSeq(wire, 1, Len(wire) - 2) \o trailer \o CRLF ELSE wire
          IN  \/ /\ out.mode # "close"
                 /\ net' = whole \o Tok("next", 0) \o CRLF /\ closed' = FALSE
              \/ \E n \in 1..Len(whole) : net' = SubSeq(whole, 1, n) /\ closed' = TRUE
    /\ UNCHANGED <<out, wire, buf, rd, lock, call, draining, taken, result>>

Min2(a, b) == IF a < b THEN a ELSE b
Drop(s, n) == SubSeq(s, n + 1, Len(s))

(* stream->read() into the buffer. *)
Fill == \E n \in 1..Len(net) : buf' = buf \o SubSeq(net, 1, n) /\ net' = Drop(net, n)

(* parseNext() and BodyReader::create() *)
ParseMore ==
    /\ rd.mode = "" /\ buf = <<>> /\ Fill
    /\ UNCHANGED <<out, wire, closed, rd, lock, call, draining, taken, result>>

Create ==
    /\ rd.mode = "" /\ buf # <<>> /\ Head(buf).t = "head"
    /\ LET m == ProcessTransferMode(Head(buf).k) IN
       rd' = [mode |-> m.mode, size |-> m.n, done |-> 0,
              st |-> CASE m.mode = "chunked" -> "size"
                       [] m.mode = "length" /\ m.n = 0 -> "complete"
                       [] OTHER -> "data"]
    /\ buf' = Tail(buf)
    /\ UNCHANGED <<out, wire, net, closed, lock, call, draining, taken, result>>
-----------------------------------------------------------------------------
(* read() and drain() are called; the mutex is FIFO. *)
Call(u) ==
    /\ rd.mode # "" /\ call[u].pc = "idle" /\ result[u] = ""
    /\ \E k \in Lens : call' = [call EXCEPT ![u] = [pc |-> "lock", len |-> k, n |-> 0]]
    /\ lock' = Append(lock, u)
    /\ UNCHANGED <<out, wire, net, closed, buf, rd, draining, taken, result>>

Holder == Head(lock)
At(pc) == lock # <<>> /\ call[Holder].pc = pc
Goto(pc) == call' = [call EXCEPT ![Holder].pc = pc]
Top(r) == IF r.mode = "chunked" /\ r.st = "size" THEN "size" ELSE "data"

(* readImpl() returns n: the end of read(), one round of drain(). *)
Return(n, r) ==
    IF n = 0 \/ Holder = "user" \/ r.st = "complete"
      THEN /\ result' = [result EXCEPT ![Holder] =
                            IF n = 0 \/ Holder = "drain" THEN "eof" ELSE ""]
           /\ call' = [call EXCEPT ![Holder].pc = "idle"]
           /\ lock' = Tail(lock)
      ELSE Goto(Top(r)) /\ UNCHANGED <<result, lock>>

Throw ==
    /\ result' = [result EXCEPT ![Holder] = "throw"]
    /\ call' = [call EXCEPT ![Holder].pc = "idle"] /\ lock' = Tail(lock)

(* The mutex is taken. *)
Locked ==
    /\ At("lock")
    /\ draining' = (draining \/ Holder = "drain")
    /\ IF rd.st = "complete" \/ (draining /\ Holder = "user")
         THEN Return(0, rd) ELSE Goto(Top(rd)) /\ UNCHANGED <<result, lock>>
    /\ UNCHANGED <<out, wire, net, closed, buf, rd, taken>>

(* find("\r\n"): tokens before it, or none. *)
Line == LET at == { i \in 1..(Len(buf) - 1) : buf[i].t = "r" /\ buf[i + 1].t = "n" }
        IN  IF at = {} THEN Unset ELSE Min(at) - 1

(* The chunked reader waits for more of a line, or of the end of a chunk.  *)
Wants == \/ (At("size") \/ At("trailer")) /\ Line = Unset
         \/ At("crlf") /\ Len(buf) < 2
More ==
    /\ Wants /\ Fill
    /\ UNCHANGED <<out, wire, closed, rd, lock, call, draining, taken, result>>
Breaks ==
    /\ net = <<>> /\ closed
    /\ Wants \/ (At("data") /\ buf = <<>> /\ rd.mode # "close")
    /\ Throw
    /\ UNCHANGED <<out, wire, net, closed, buf, rd, draining, taken>>

(* parseChunkSize(); stoul() throws on anything but a size. *)
ParseChunkSize ==
    /\ At("size") /\ Line # Unset
    /\ IF Line # 1 \/ Head(buf).t # "size"
         THEN Throw /\ UNCHANGED <<rd, buf>>
         ELSE /\ buf' = Drop(buf, Line + 2)
              /\ rd' = [rd EXCEPT !.size = Head(buf).k, !.done = 0,
                                  !.st = IF Head(buf).k = 0 THEN @ ELSE "data"]
              /\ Goto(IF Head(buf).k = 0 THEN "trailer" ELSE "data")
              /\ UNCHANGED <<lock, result>>
    /\ UNCHANGED <<out, wire, net, closed, draining, taken>>

(* skipTrailer(): up to the empty line. *)
BugSkipTrailer ==
    /\ At("trailer") /\ Line # Unset
    /\ buf' = Drop(buf, Line + 2)
    /\ rd' = [rd EXCEPT !.st = "complete"] /\ Return(0, rd)
    /\ UNCHANGED <<out, wire, net, closed, draining, taken>>

SkipTrailer ==
    /\ At("trailer") /\ Line # Unset
    /\ buf' = Drop(buf, Line + 2)
    /\ IF Line = 0 THEN rd' = [rd EXCEPT !.st = "complete"] /\ Return(0, rd)
                   ELSE UNCHANGED <<rd, call, lock, result>>
    /\ UNCHANGED <<out, wire, net, closed, draining, taken>>

(* The data: n tokens of the buffer if it has any, else of the stream.     *)
Took(n, from) ==
    LET r == [rd EXCEPT !.done = @ + n,
                        !.st = IF rd.mode = "length" /\ rd.done + n = rd.size THEN "complete" ELSE @]
    IN  /\ taken' = taken \o SubSeq(from, 1, n)
        /\ rd' = r
        /\ IF rd.mode = "chunked" /\ r.done = rd.size
             THEN call' = [call EXCEPT ![Holder] = [@ EXCEPT !.pc = "crlf", !.n = n]]
                  /\ UNCHANGED <<lock, result>>
             ELSE Return(n, r)

BugRoom == IF rd.mode = "close" THEN call[Holder].len
           ELSE Min2(call[Holder].len, rd.size)
Room == IF rd.mode = "close" THEN call[Holder].len
        ELSE Min2(call[Holder].len, rd.size - rd.done)

ReadBuffer ==
    /\ At("data") /\ buf # <<>>
    /\ LET n == Min2(Len(buf), Room) IN Took(n, buf) /\ buf' = Drop(buf, n)
    /\ UNCHANGED <<out, wire, net, closed, draining>>

ReadStream ==
    /\ At("data") /\ buf = <<>>
    /\ \E n \in 1..Min2(Len(net), Room) : Took(n, net) /\ net' = Drop(net, n)
    /\ UNCHANGED <<out, wire, closed, buf, draining>>

ReadClose ==
    /\ At("data") /\ buf = <<>> /\ net = <<>> /\ closed /\ rd.mode = "close"
    /\ rd' = [rd EXCEPT !.st = "complete"] /\ Return(0, rd)
    /\ UNCHANGED <<out, wire, net, closed, buf, draining, taken>>

(* skipCRLF() *)
SkipCRLF ==
    /\ At("crlf") /\ Len(buf) >= 2
    /\ buf' = Drop(buf, 2)
    /\ rd' = [rd EXCEPT !.st = "size"]
    /\ Return(call[Holder].n, [rd EXCEPT !.st = "size"])
    /\ UNCHANGED <<out, wire, net, closed, draining, taken>>

Sender == OutNext /\ UNCHANGED readVars
Reader == \/ ParseMore \/ Create \/ Locked \/ More \/ Breaks \/ ParseChunkSize \/ SkipTrailer
          \/ ReadBuffer \/ ReadStream \/ ReadClose \/ SkipCRLF
Next == Sender \/ Sent \/ Reader \/ \E u \in Callers : Call(u)
Spec == Init /\ [][Next]_vars
-----------------------------------------------------------------------------
Body == IF IgnoreBody THEN <<>> ELSE Bytes(0, out.len)

(* What the readers hand out is the body that was written, in order, each  *)
(* byte once, to whoever reads it; once the body is complete all of it was *)
(* handed out, and the next thing in the stream is the next message.  A    *)
(* read() that returns 0 is at the end, or drain() took the rest; and as   *)
(* long as the connection holds no read() throws.                          *)
BodyExact ==
    out.done =>
       /\ IsPrefix(taken, Body)
       /\ rd.st = "complete" /\ rd.mode # "close" =>
             taken = Body /\ buf \o net \in {<<>>, Tok("next", 0) \o CRLF}
       /\ \A u \in Callers : result[u] = "eof" => rd.st = "complete" \/ draining
       /\ ~closed => \A u \in Callers : result[u] # "throw"
=============================================================================
