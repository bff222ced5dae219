----------------------------- MODULE HttpServer -----------------------------
(***************************************************************************)
(* One connection of http::HttpServer (extensions/http): the loop of       *)
(* handleConnection(), the handlers it calls, the responses they leave to  *)
(* background coroutines, and a peer that pipelines its requests.          *)
(*                                                                         *)
(* The input is a sequence of tokens: the head of request i, or one part   *)
(* of its body.  A response is one write (end(data) of a small body) or a  *)
(* "head" and a "tail"; a write is two pieces, and the model ends when two *)
(* writes overlap, which Channel does not support.  Its stages:            *)
(*   none -> made -> wait (for prevFuture_) -> head -> open -> tail -> done*)
(* and gone when the object dies before its promise was set.               *)
(***************************************************************************)
EXTENDS TcpWriter, SequencesExt

CONSTANT Scripts   \* the requests of a connection: sequences of records
                   \* [kind, version, conn, body]

VARIABLES
    script,  \* the requests
    input,   \* what is left of them: in the buffer, in the socket and to come
    left,    \* each body: the parts that were not read
    peer,    \* "open", "eof" (sends no more) or "gone" (writes fail too)
    loop,    \* handleConnection(): pc and cur, the request it is at
    resp,    \* each response: its stage, and whether it is one write
    owner,   \* who has it: "loop", "handler" or "bg"
    mess,    \* 1 once a token was taken for what it is not
    stream   \* "open" or "shut"

vars == <<script, input, left, peer, loop, resp, owner, mess, writeVars, stream>>

Ids == 1..(Len(script) + 1)     \* one more: the 400 that answers the end of the stream
Ended == {"none", "done", "gone"}

(* processKeepAlive() *)
KeepAlive(i) == IF script[i].conn # "" THEN script[i].conn = "keep-alive"
                                      ELSE script[i].version = 11

Tokens(s) ==
    FlattenSeq([i \in 1..Len(s) |->
        <<[t |-> "head", i |-> i]>> \o [k \in 1..s[i].body |-> [t |-> "body", i |-> i]]])

Init ==
    /\ script \in Scripts
    /\ input = Tokens(script) /\ peer = "open"
    /\ left = [i \in 1..Len(script) |-> script[i].body]
    /\ loop = [pc |-> "parse", cur |-> 0]
    /\ resp = [i \in Ids |-> [st |-> "none", whole |-> FALSE]]
    /\ owner = [i \in Ids |-> "loop"]
    /\ mess = 0 /\ stream = "open" /\ WriteInit
-----------------------------------------------------------------------------
(* The peer stops sending after the last request or in the middle of one;  *)
(* before that its bytes come whenever they are read.                      *)
PeerEnds ==
    /\ peer = "open"
    /\ peer' \in {"eof", "gone"}
    /\ \E k \in 0..Len(input) : input' = SubSeq(input, 1, k)
    /\ UNCHANGED <<script, left, loop, resp, owner, mess, writeVars, stream>>
-----------------------------------------------------------------------------
(* stream_->write(), of one of the parts: for response i, or for 100       *)
(* Continue, whose writer is called 0.                                     *)
Fails == (IF stream = "shut" THEN {"eof"} ELSE {})
           \cup (IF peer = "gone" THEN {"eof", "error"} ELSE {})

WriteStream(who, part, i) ==
    TcpWrite(who, [h \in 1..2 |-> [part |-> part, i |-> i, half |-> h]], Fails)

Return(who) ==
    calls' = Others(who) /\ UNCHANGED <<writable, waiter, interest, written, overlap>>

Take == input' = Tail(input)

(* writeHeaders() and end() find the promise of the response before this   *)
(* one set, or broken because that response died.                          *)
BugPrevious(i) == IF i = 1 \/ resp[i - 1].st = "done" THEN "set" ELSE "unset"

Previous(i) == CASE i = 1 \/ resp[i - 1].st = "done" -> "set"
                 [] resp[i - 1].st = "gone" -> "broken"
                 [] OTHER -> "unset"

(* parseNext(): the head of the next request. *)
Parse ==
    /\ loop.pc = "parse" /\ input # <<>>
    /\ LET i == Head(input).i  kind == script[i].kind IN
       IF Head(input).t # "head"
         THEN mess' = 1 /\ UNCHANGED <<loop, resp, owner>>
         ELSE /\ loop' = [cur |-> i, pc |-> CASE kind = "bad" -> "error"
                                              [] kind = "refused" -> "answer"
                                              [] kind = "expect" -> "continue"
                                              [] kind = "upgrade" -> "upgrade"
                                              [] OTHER -> "handler"]
              /\ resp' = [resp EXCEPT ![i].st = "made"]
              /\ owner' = [owner EXCEPT ![i] = IF kind \in {"bad", "refused"} THEN "loop"
                                                                               ELSE "handler"]
              /\ UNCHANGED mess
    /\ Take
    /\ UNCHANGED <<script, left, peer, writeVars, stream>>

(* parseNext() meets the end of the stream; this is a parse error too, and *)
(* it is answered.                                                         *)
ParseEnds ==
    /\ loop.pc = "parse" /\ input = <<>> /\ peer # "open"
    /\ \/ /\ loop' = [pc |-> "error", cur |-> loop.cur + 1]
          /\ resp' = [resp EXCEPT ![loop.cur + 1].st = "made"]
       \/ /\ peer = "gone"                                          \* read() throws
          /\ loop' = [loop EXCEPT !.pc = "over"] /\ UNCHANGED resp
    /\ UNCHANGED <<script, input, left, peer, owner, mess, writeVars, stream>>

(* Expect: 100-continue, written at once. *)
Continue ==
    /\ loop.pc = "continue"
    /\ WriteStream(0, "100", loop.cur)
    /\ loop' = [loop EXCEPT !.pc = "continuing"]
    /\ UNCHANGED <<script, input, left, peer, resp, owner, mess, stream>>

ContinueWrote ==
    /\ \/ /\ Wrote(0, "ok") \/ Wrote(0, "eof")
          /\ loop' = [loop EXCEPT !.pc = "handler"] /\ UNCHANGED resp
       \/ /\ Wrote(0, "error")
          /\ loop' = [loop EXCEPT !.pc = "over"]
          /\ resp' = [resp EXCEPT ![loop.cur].st = "gone"]
    /\ Return(0)
    /\ UNCHANGED <<script, input, left, peer, owner, mess, stream>>
-----------------------------------------------------------------------------
(* Who may act on response i now. *)
Acts(i) == \/ owner[i] = "bg"
           \/ owner[i] = "loop" /\ loop.cur = i /\ loop.pc \in {"answer", "error"}
           \/ owner[i] = "handler" /\ loop.cur = i /\ loop.pc \in {"handler", "upgrade"}

(* What an exception out of response i does to the loop: it leaves         *)
(* handleConnection(), or the handler, whose exception shuts the stream.   *)
Thrown(i) ==
    loop' = IF owner[i] = "bg" THEN loop
            ELSE [loop EXCEPT !.pc = IF @ = "handler" THEN "shutdown" ELSE "over"]

(* The first write() or end(): headersSent_ is set, then prevFuture_.      *)
BugRespond(i) ==
    /\ Acts(i) /\ resp[i].st = "made"
    /\ \E whole \in BOOLEAN :
          /\ owner[i] = "loop" => whole
          /\ resp' = [resp EXCEPT ![i] = [st |-> IF whole THEN "tail" ELSE "head", whole |-> whole]]
          /\ WriteStream(i, IF whole THEN "whole" ELSE "head", i)
    /\ UNCHANGED <<script, input, left, peer, loop, owner, mess, stream>>

Respond(i) ==
    /\ Acts(i) /\ resp[i].st = "made"
    /\ \E whole \in BOOLEAN :
          /\ owner[i] = "loop" => whole
          /\ resp' = [resp EXCEPT ![i] = [st |-> "wait", whole |-> whole]]
    /\ UNCHANGED <<script, input, left, peer, loop, owner, mess, writeVars, stream>>

Proceed(i) ==
    /\ resp[i].st = "wait" /\ Previous(i) # "unset"
    /\ IF Previous(i) = "set"
         THEN /\ resp' = [resp EXCEPT ![i].st = IF resp[i].whole THEN "tail" ELSE "head"]
              /\ WriteStream(i, IF resp[i].whole THEN "whole" ELSE "head", i)
              /\ UNCHANGED loop
         ELSE resp' = [resp EXCEPT ![i].st = "gone"] /\ Thrown(i) /\ UNCHANGED writeVars
    /\ UNCHANGED <<script, input, left, peer, owner, mess, stream>>

(* More of the body, and end(): bodyWriter_ writes. *)
Finish(i) ==
    /\ Acts(i) /\ resp[i].st = "open"
    /\ resp' = [resp EXCEPT ![i].st = "tail"]
    /\ WriteStream(i, "tail", i)
    /\ UNCHANGED <<script, input, left, peer, loop, owner, mess, stream>>

(* The write of a response is over, or throws; that it returned 0 is not   *)
(* looked at.                                                              *)
ResponseWrote(i) ==
    /\ \/ /\ Wrote(i, "ok") \/ Wrote(i, "eof")
          /\ resp' = [resp EXCEPT ![i].st = IF @ = "head" THEN "open" ELSE "done"]
          /\ UNCHANGED loop
       \/ /\ Wrote(i, "error")
          /\ resp' = [resp EXCEPT ![i].st = "gone"]
          /\ Thrown(i)
    /\ Return(i)
    /\ UNCHANGED <<script, input, left, peer, owner, mess, stream>>

(* The socket has room again, and who waits for it goes on. *)
Writing ==
    /\ WritableEvent(Fails) \/ WriteResumed(Fails)
    /\ UNCHANGED <<script, input, left, peer, loop, resp, owner, mess, stream>>
-----------------------------------------------------------------------------
(* The request's body is read: by the handler, or by drain() or a read()   *)
(* of the background that has BodyReader's mutex before it; drain() waits  *)
(* for that read(), and later ones return 0.                               *)
ReadBody(i) ==
    /\ input # <<>> /\ Head(input) = [t |-> "body", i |-> i]
    /\ loop.cur = i /\ loop.pc \in {"handler", "drain"}
    /\ left[i] > 0 /\ left' = [left EXCEPT ![i] = @ - 1]
    /\ Take
    /\ UNCHANGED <<script, peer, loop, resp, owner, mess, writeVars, stream>>

(* The handler returns: having ended the response, having moved it to a    *)
(* coroutine of its own, or having dropped it.                             *)
HandlerReturns ==
    LET i == loop.cur IN
    /\ loop.pc = "handler"
    /\ \/ resp[i].st \in Ended /\ UNCHANGED <<resp, owner>>
       \/ resp[i].st \in {"made", "open"} /\ owner' = [owner EXCEPT ![i] = "bg"] /\ UNCHANGED resp
       \/ resp[i].st \in {"made", "open"} /\ resp' = [resp EXCEPT ![i].st = "gone"] /\ UNCHANGED owner
    /\ loop' = [loop EXCEPT !.pc = "drain"]
    /\ UNCHANGED <<script, input, left, peer, mess, writeVars, stream>>

(* It throws, its own exception or one of a read of the body. *)
HandlerThrows ==
    LET i == loop.cur IN
    /\ loop.pc = "handler" /\ resp[i].st \in {"made", "open", "done"}
    /\ resp' = [resp EXCEPT ![i].st = IF @ = "done" THEN @ ELSE "gone"]
    /\ loop' = [loop EXCEPT !.pc = "shutdown"]
    /\ UNCHANGED <<script, input, left, peer, owner, mess, writeVars, stream>>

(* A coroutine in the background gives its response up. *)
BackgroundDrops(i) ==
    /\ owner[i] = "bg" /\ resp[i].st \in {"made", "open"}
    /\ resp' = [resp EXCEPT ![i].st = "gone"]
    /\ UNCHANGED <<script, input, left, peer, loop, owner, mess, writeVars, stream>>

(* The loop's own response was written. *)
Answered ==
    /\ loop.pc \in {"answer", "error", "upgrade"} /\ resp[loop.cur].st = "done"
    /\ \/ loop.pc = "answer" /\ loop' = [loop EXCEPT !.pc = "drain"]
       \/ loop.pc = "error" /\ loop' = [loop EXCEPT !.pc = "shutdown"]
       \/ loop.pc = "upgrade" /\ loop' = [loop EXCEPT !.pc = "over"]
    /\ UNCHANGED <<script, input, left, peer, resp, owner, mess, writeVars, stream>>

(* drain(), if the body is not complete, then the next request or the end. *)
AfterBody == IF KeepAlive(loop.cur) THEN "parse" ELSE "shutdown"

BugDrain ==
    /\ loop.pc = "drain"
    /\ loop' = [loop EXCEPT !.pc = AfterBody]
    /\ UNCHANGED <<script, input, left, peer, resp, owner, mess, writeVars, stream>>

Drain ==
    /\ loop.pc = "drain"
    /\ \/ left[loop.cur] = 0 /\ loop' = [loop EXCEPT !.pc = AfterBody]
       \/ /\ left[loop.cur] > 0 /\ input = <<>> /\ peer # "open"   \* the body is cut off:
          /\ loop' = [loop EXCEPT !.pc = "over"]                   \* it throws
    /\ UNCHANGED <<script, input, left, peer, resp, owner, mess, writeVars, stream>>

(* stream->shutdown(), which waits for no write. *)
Shutdown ==
    /\ loop.pc = "shutdown"
    /\ stream' = "shut" /\ loop' = [loop EXCEPT !.pc = "over"]
    /\ UNCHANGED <<script, input, left, peer, resp, owner, mess, writeVars>>

Server == \/ Parse \/ ParseEnds \/ Continue \/ Writing \/ Answered \/ Drain \/ Shutdown
          \/ \E i \in Ids : Respond(i) \/ Proceed(i) \/ Finish(i)
Handlers == HandlerReturns \/ HandlerThrows \/ \E i \in Ids : ReadBody(i) \/ BackgroundDrops(i)
GoesOn == ContinueWrote \/ \E i \in Ids : ResponseWrote(i)
Next == overlap = 0 /\ (GoesOn \/ (Free /\ (PeerEnds \/ Server \/ Handlers)))
Spec == Init /\ [][Next]_vars

(* The scheduler runs every coroutine that can run; the peer reads what is *)
(* written; handlers come to an end, and so does the peer.                 *)
Can(A) == overlap = 0 /\ Free /\ A
Fairness ==
    /\ WF_vars(overlap = 0 /\ GoesOn) /\ WF_vars(Can(Server))
    /\ WF_vars(Can(HandlerReturns)) /\ WF_vars(Can(PeerEnds))
    /\ WF_vars(Can(loop.pc = "drain" /\ ReadBody(loop.cur)))
FairSpec == Spec /\ Fairness
-----------------------------------------------------------------------------
(* Responses go out in the order of the requests, each one whole before    *)
(* the next begins, whichever coroutine writes them: "N pipelined GET      *)
(* requests sent at once, responses read in order" (http_pipeline_test.cc),*)
(* as long as no two of them write at a time.  The interim 100 Continue    *)
(* waits for no earlier response and is left out.                          *)
Follows(p, q) ==
    \/ q = [p EXCEPT !.half = 2] /\ p.half = 1
    \/ p.half = 2 /\ q.half = 1 /\ (IF p.part = "head" THEN q.part = "tail" /\ q.i = p.i
                                                       ELSE q.part # "tail" /\ q.i = p.i + 1)

ResponsesInOrder ==
    LET w == SelectSeq(written, LAMBDA p : p.part # "100") IN
    overlap = 0 /\ w # <<>> =>
        /\ w[1].i = 1 /\ w[1].half = 1 /\ w[1].part # "tail"
        /\ \A k \in 2..Len(w) : Follows(w[k - 1], w[k])

(* Whatever is read of a request's body, and by whom, the loop goes on at  *)
(* the head of the next request.                                           *)
RequestsFramed == mess = 0

(* A connection whose peer stops sending comes to an end: the loop is      *)
(* left and no response waits for one that will never be sent.             *)
ConnectionOver ==
    overlap = 0 => loop.pc = "over" /\ \A i \in Ids : resp[i].st \in Ended
ConnectionEnds == <>ConnectionOver
=============================================================================
