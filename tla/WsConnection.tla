---------------------------- MODULE WsConnection ----------------------------
(***************************************************************************)
(* websocket::WsConnection (extensions/websocket): a coroutine that loops  *)
(* on receive(), others that send() and shutdown() the same connection,    *)
(* and a peer that speaks RFC 6455.                                        *)
(*                                                                         *)
(* The bytes of a frame are a sequence of fields, one for each readExact() *)
(* they are meant for: a record with the number of bytes of the field.  A  *)
(* receiver that asks for another number of bytes than the next field has  *)
(* is out of step with the peer ("lost").  Payloads are told apart by the  *)
(* number of the frame that carried them.  The model ends when two writes  *)
(* overlap, which Channel does not support.                                *)
(***************************************************************************)
EXTENDS TcpWriter, SequencesExt

CONSTANTS Scripts,   \* what the peer may send: sequences of frames [op, fin, n, masked]
          SendLens   \* the lengths of what the senders send, one send() each (2 or more)

VARIABLES
    script,  \* the frames of the peer
    net,     \* their fields that were not read yet
    peer,    \* "open", "eof" (sends no more) or "gone" (writing fails as well)
    rx,      \* receive(): pc, the header it read, its payload and finalOpcode
    got,     \* what the calls of receive() returned: messages, "close" or "throw"
    pings,   \* payloads of the pings that were read
    tx,      \* each send(): "idle", "write", "done" or "throw"
    closer   \* shutdown(): the same

vars == <<script, net, peer, rx, got, pings, tx, closer, writeVars>>
RxId == 0       \* who writes: receive() a Pong, shutdown() a Close,
CloserId == 1   \* and the send() of n bytes is n
-----------------------------------------------------------------------------
(* sendFrame(): seven bits of length, or 126 and two bytes, or 127 and     *)
(* eight, most significant first.  (TLC's integers end at 2^31.)           *)
Len7(n) == IF n < 126 THEN n ELSE IF n < 65536 THEN 126 ELSE 127
Ext(n) ==
    CASE n < 126 -> <<>>
      [] n >= 126 /\ n < 65536 -> <<(n \div 256) % 256, n % 256>>
      [] OTHER -> [i \in 1..8 |-> IF i <= 4 THEN 0 ELSE (n \div 256^(8 - i)) % 256]

Field(k, size, v) == IF size = 0 THEN <<>> ELSE <<[k |-> k, size |-> size, v |-> v]>>

(* The fields of a frame; pay is what its payload is. *)
BugEncode(f, pay) ==
    LET ext == IF f.n <= 126 THEN <<>> ELSE Ext(f.n)
    IN  Field("head", 2, [fin |-> f.fin, op |-> f.op, masked |-> f.masked,
                          len |-> IF f.n <= 126 THEN f.n ELSE Len7(f.n)])
        \o Field("ext", Len(ext), ext)
        \o Field("mask", IF f.masked THEN 4 ELSE 0, pay)
        \o Field("payload", f.n, pay)

Encode(f, pay) ==
    Field("head", 2, [fin |-> f.fin, op |-> f.op, masked |-> f.masked, len |-> Len7(f.n)])
    \o Field("ext", Len(Ext(f.n)), Ext(f.n))
    \o Field("mask", IF f.masked THEN 4 ELSE 0, pay)
    \o Field("payload", f.n, pay)

Init ==
    /\ script \in Scripts
    /\ net = FlattenSeq([i \in 1..Len(script) |-> Encode(script[i], <<i>>)])
    /\ peer = "open"
    /\ rx = [pc |-> "idle", head |-> <<>>, n |-> 0, payload |-> <<>>, final |-> "cont"]
    /\ got = <<>> /\ pings = <<>>
    /\ tx = [n \in SendLens |-> "idle"] /\ closer = "idle"
    /\ WriteInit
-----------------------------------------------------------------------------
(* The peer stops sending, at any field, or goes away altogether.  Before  *)
(* that its bytes come whenever they are read.                             *)
PeerEnds ==
    /\ peer = "open"
    /\ peer' \in {"eof", "gone"}
    /\ \E k \in 0..Len(net) : net' = SubSeq(net, 1, k)
    /\ UNCHANGED <<script, rx, got, pings, tx, closer, writeVars>>
-----------------------------------------------------------------------------
(* receive() is called, again and again until the connection is over. *)
Receive ==
    /\ rx.pc = "idle"
    /\ \A i \in 1..Len(got) : got[i].type \notin {"close", "throw"}
    /\ rx' = [rx EXCEPT !.pc = "head", !.payload = <<>>, !.final = "cont"]
    /\ UNCHANGED <<script, net, peer, got, pings, tx, closer, writeVars>>

Return(what) ==
    /\ got' = Append(got, what)
    /\ rx' = [rx EXCEPT !.pc = "idle"]

(* readExact() of the field the receiver is at: n bytes of it. *)
Wanted == CASE rx.pc = "head" -> 2
            [] rx.pc = "ext" -> IF rx.n = 126 THEN 2 ELSE 8
            [] rx.pc = "mask" -> 4
            [] rx.pc = "payload" -> rx.n
            [] OTHER -> 0

(* What is read after the header and after the extended length; an empty   *)
(* payload is not read at all.                                             *)
AfterLength(head, n) == IF head.masked THEN "mask" ELSE IF n > 0 THEN "payload" ELSE "frame"

ReadField ==
    /\ rx.pc \in {"head", "ext", "mask", "payload"} /\ net # <<>>
    /\ LET fd == Head(net) IN
       rx' = IF fd.size # Wanted THEN [rx EXCEPT !.pc = "lost"]
             ELSE CASE rx.pc = "head" ->
                         [rx EXCEPT !.head = fd.v, !.n = fd.v.len,
                                    !.pc = IF fd.v.len >= 126 THEN "ext"
                                           ELSE AfterLength(fd.v, fd.v.len)]
                    [] rx.pc = "ext" ->
                         LET n == FoldLeft(LAMBDA a, b : a * 256 + b, 0, fd.v)
                         IN  [rx EXCEPT !.n = n, !.pc = AfterLength(rx.head, n)]
                    [] rx.pc = "mask" -> [rx EXCEPT !.pc = IF rx.n > 0 THEN "payload" ELSE "frame"]
                    [] OTHER -> [rx EXCEPT !.pc = "frame", !.payload = @ \o fd.v]
    /\ net' = Tail(net)
    /\ UNCHANGED <<script, peer, got, pings, tx, closer, writeVars>>

(* readExact() meets the end of the stream, wherever it is. *)
ReadThrows ==
    /\ rx.pc \in {"head", "ext", "mask", "payload"} /\ net = <<>> /\ peer # "open"
    /\ Return([type |-> "throw"])
    /\ UNCHANGED <<script, net, peer, pings, tx, closer, writeVars>>

(* sendFrame(): one write of the whole frame, FIN set, not masked. *)
Fails == IF peer = "gone" THEN {"eof", "error"} ELSE {}

SendFrame(who, op, n, pay) ==
    TcpWrite(who, Encode([op |-> op, fin |-> TRUE, n |-> n, masked |-> FALSE], pay), Fails)

(* A whole frame was read.  Ping: its part of payload is sent back and     *)
(* taken off; Close ends the connection; anything else is data.            *)
Mine == IF rx.n = 0 THEN <<>> ELSE SubSeq(rx.payload, Len(rx.payload), Len(rx.payload))
Before == SubSeq(rx.payload, 1, Len(rx.payload) - Len(Mine))

BugPing ==
    /\ rx.pc = "frame" /\ rx.head.op = "ping"
    /\ SendFrame(RxId, "pong", rx.n, SubSeq(rx.payload, 1, Len(Mine)))
    /\ pings' = Append(pings, Mine)
    /\ rx' = [rx EXCEPT !.pc = "write", !.payload = Before]
    /\ UNCHANGED <<script, net, peer, got, tx, closer>>

Ping ==
    /\ rx.pc = "frame" /\ rx.head.op = "ping"
    /\ SendFrame(RxId, "pong", rx.n, Mine)
    /\ pings' = Append(pings, Mine)
    /\ rx' = [rx EXCEPT !.pc = "write", !.payload = Before]
    /\ UNCHANGED <<script, net, peer, got, tx, closer>>

Close ==
    /\ rx.pc = "frame" /\ rx.head.op = "close"
    /\ Return([type |-> "close"])
    /\ UNCHANGED <<script, net, peer, pings, tx, closer, writeVars>>

Data ==
    /\ rx.pc = "frame" /\ rx.head.op \notin {"ping", "close"}
    /\ LET final == IF rx.head.op = "cont" THEN rx.final ELSE rx.head.op IN
       IF rx.head.fin
         THEN Return([type |-> IF final = "binary" THEN "binary" ELSE "text",
                      payload |-> rx.payload])
         ELSE rx' = [rx EXCEPT !.pc = "head", !.final = final] /\ UNCHANGED got
    /\ UNCHANGED <<script, net, peer, pings, tx, closer, writeVars>>
-----------------------------------------------------------------------------
(* send() and shutdown() of other coroutines, at any time: nothing in the  *)
(* class keeps a frame from following the Close frame.                     *)
Send(n) ==
    /\ tx[n] = "idle"
    /\ tx' = [tx EXCEPT ![n] = "write"] /\ SendFrame(n, "text", n, <<>>)
    /\ UNCHANGED <<script, net, peer, rx, got, pings, closer>>

Shutdown ==
    /\ closer = "idle"
    /\ closer' = "write" /\ SendFrame(CloserId, "close", 2, <<>>)
    /\ UNCHANGED <<script, net, peer, rx, got, pings, tx>>

(* stream_->write() has returned to who called it, or thrown; that it      *)
(* returned 0 is not looked at.                                            *)
FrameWrote(who) ==
    \E st \in {"ok", "eof", "error"} :
       LET r == IF st = "error" THEN "throw" ELSE "done" IN
       /\ Wrote(who, st)
       /\ calls' = Others(who)
       /\ tx' = IF who \in SendLens THEN [tx EXCEPT ![who] = r] ELSE tx
       /\ closer' = IF who = CloserId THEN r ELSE closer
       /\ IF who = RxId
            THEN IF r = "throw" THEN Return([type |-> "throw"])
                                ELSE rx' = [rx EXCEPT !.pc = "head"] /\ UNCHANGED got
            ELSE UNCHANGED <<rx, got>>
       /\ UNCHANGED <<script, net, peer, pings, writable, waiter, interest, written, overlap>>

(* The socket has room again, and who waits for it goes on. *)
Writing ==
    /\ WritableEvent(Fails) \/ WriteResumed(Fails)
    /\ UNCHANGED <<script, net, peer, rx, got, pings, tx, closer>>

Steps == \/ PeerEnds \/ Receive \/ ReadField \/ ReadThrows \/ Ping \/ Close \/ Data \/ Writing
         \/ (\E n \in SendLens : Send(n)) \/ Shutdown
GoesOn == \E who \in SendLens \cup {RxId, CloserId} : FrameWrote(who)
Next == overlap = 0 /\ (GoesOn \/ (Free /\ Steps))
Spec == Init /\ [][Next]_vars
-----------------------------------------------------------------------------
(* The messages the peer sent, by RFC 6455: a data frame and the           *)
(* continuation frames up to FIN, whatever control frames are in between.  *)
Messages ==
    LET Add(a, i) ==
          LET f == script[i]
              pay == a.pay \o (IF f.n = 0 THEN <<>> ELSE <<i>>)
              type == IF f.op = "cont" THEN a.type ELSE f.op
          IN  CASE a.over \/ f.op \in {"ping", "pong"} -> a
                [] f.op = "close" -> [a EXCEPT !.over = TRUE]
                [] ~f.fin -> [a EXCEPT !.pay = pay, !.type = type]
                [] OTHER -> [a EXCEPT !.pay = <<>>,
                                      !.all = Append(@, [type |-> type, payload |-> pay])]
    IN  FoldLeft(Add, [pay |-> <<>>, type |-> "cont", all |-> <<>>, over |-> FALSE],
                 [i \in 1..Len(script) |-> i]).all

(* receive() returns "one complete (possibly fragmented) message": what it *)
(* returned is the beginning of what the peer sent, message by message,    *)
(* whatever the lengths, and it never loses its place in the stream.       *)
MessageWhole ==
    /\ rx.pc # "lost"
    /\ IsPrefix(SelectSeq(got, LAMBDA m : m.type \notin {"close", "throw"}), Messages)

(* The same, of a peer that sends no Pong. *)
MessageWholeWithoutPong ==
    (\A i \in 1..Len(script) : script[i].op # "pong") => MessageWhole

(* The peer's pings are answered in order, each with its own payload and   *)
(* once, in frames no other frame is mixed with, as long as no two         *)
(* coroutines write at a time.                                             *)
PongsAnswer ==
    LET w == written
        at == SelectSeq([i \in 1..Len(w) |-> i],
                        LAMBDA i : w[i].k = "head" /\ w[i].v.op = "pong")
        Answers(j) == w[at[j]].v.len > 0 /\ at[j] < Len(w) => w[at[j] + 1].v = pings[j]
    IN  overlap = 0 => Len(at) <= Len(pings) /\ \A j \in 1..Len(at) : Answers(j)
=============================================================================
