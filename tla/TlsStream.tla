------------------------------ MODULE TlsStream ------------------------------
(***************************************************************************)
(* tls::TlsStream over OpenSSLProvider (extensions/tls/src): the handshake *)
(* of accept() and connect(), one coroutine that reads, some that write,   *)
(* one that shuts the stream down, and a peer.                             *)
(*                                                                         *)
(* Records are numbered in the order in which OpenSSL makes them, which is *)
(* the order in which the peer must get them.  encryptedOutBuf_ is shared  *)
(* by everybody and only the writers take writeMutex_.  A record is        *)
(* written in two pieces, and the model ends when two calls of             *)
(* conn_->write() overlap, which Channel does not support.  A step is what *)
(* a coroutine does up to its next suspension.                             *)
(***************************************************************************)
EXTENDS TcpWriter, SequencesExt

CONSTANTS Writers,     \* coroutines that call write()
          PerWrite,    \* records one write() takes
          PeerScript,  \* what the peer may send: sequences of "hello", "finished",
                       \* "data", "update" (asks for an answer), "close", "junk"
          Roles        \* subset of {"server", "client"}: ctx_->isServer()

VARIABLES
    peer,    \* net: what it sends and was not read yet; fin: 1 once it closed
             \* its end; gone: 1 once writing to it fails
    ssl,     \* made: records made; bio: those still in wbio_; up: 1 once the
             \* handshake is over, with shook records; eof, failed, shut: eof_,
             \* lastError_, SSL_shutdown() was called
    out,     \* encryptedOutBuf_
    state,   \* the stream: "new", "shaking", "open" or "failed"
    reader,  \* "idle", "tcp" (in conn_->read()) or "flush"; res: what it was fed
    eof,     \* eof_
    plain,   \* plainBuf_: data not read yet
    got,     \* what read() returned: data, "eof" or "error"
    writer,  \* each writer: "idle", "lock" or "flush", and the records left to make
    closer   \* shutdown(): "idle", "flush", "done" or "failed" (it threw)

vars == <<peer, ssl, out, writeVars, state, reader, eof, plain, got, writer, closer>>

Init ==
    /\ \E s \in PeerScript : peer = [net |-> s, fin |-> 0, gone |-> 0]
    /\ ssl = [made |-> 0, bio |-> <<>>, up |-> 0, shook |-> 0, eof |-> 0, failed |-> 0, shut |-> 0]
    /\ WriteInit
    /\ out = <<>> /\ plain = <<>> /\ got = <<>>
    /\ state = "new" /\ reader = [pc |-> "idle", res |-> "Ok"] /\ eof = 0
    /\ writer = [w \in Writers |-> [pc |-> "idle", left |-> PerWrite]]
    /\ closer = "idle"
-----------------------------------------------------------------------------
(* OpenSSL, as the provider uses it: what becomes of f.ssl and f.plain     *)
(* when one message of the peer is taken in.                               *)
Make(l) == [l EXCEPT !.made = @ + 1, !.bio = Append(@, l.made + 1)]

TakeIn(f, m) ==
    LET answer == Make(f.ssl)
        Now(l) == [f EXCEPT !.ssl = l]
    IN  CASE f.ssl.failed = 1 \/ f.ssl.eof = 1 -> f
          [] f.ssl.up = 0 /\ m = "hello" -> Now(answer)
          [] f.ssl.up = 0 /\ m = "finished" ->
               Now([answer EXCEPT !.up = 1, !.shook = answer.made])
          [] f.ssl.up = 1 /\ m = "data" -> [f EXCEPT !.plain = Append(@, "data")]
          [] f.ssl.up = 1 /\ m = "update" -> IF f.ssl.shut = 1 THEN f ELSE Now(answer)
          [] f.ssl.up = 1 /\ m = "close" -> Now([f.ssl EXCEPT !.eof = 1])
          [] OTHER -> Now([answer EXCEPT !.failed = 1])             \* an alert

(* feedEncrypted(): what the chunk does, the records flushWbio() takes out *)
(* and the FeedResult.  When the chunk ends the handshake, flushWbio()     *)
(* comes before drainPlaintext().                                          *)
FeedEncrypted(chunk) ==
    LET f == FoldLeft(TakeIn, [ssl |-> ssl, plain |-> plain], chunk)
        Late(r) == ssl.up = 0 /\ f.ssl.up = 1 /\ r > f.ssl.shook
        Early(r) == ~Late(r)
    IN  [ssl |-> [f.ssl EXCEPT !.bio = SelectSeq(@, Late)],
         plain |-> f.plain,
         recs |-> out \o SelectSeq(f.ssl.bio, Early),
         res |-> CASE ssl.up = 0 /\ f.ssl.up = 1 -> "HandshakeDone"
                   [] f.ssl.failed = 1 -> "Error"
                   [] f.ssl.eof = 1 /\ ssl.up = 1 -> "Eof"
                   [] OTHER -> "Ok"]
-----------------------------------------------------------------------------
(* conn_->write() fails after conn_->shutdown(), and when the peer is      *)
(* gone.                                                                   *)
Fails == (IF closer = "done" THEN {"eof"} ELSE {})
           \cup (IF peer.gone = 1 THEN {"eof", "error"} ELSE {})

Pieces(recs) == FlattenSeq([i \in 1..Len(recs) |-> <<2 * recs[i] - 1, 2 * recs[i]>>])

(* flushEncrypted(): the buffer is swapped with an empty one and handed to *)
(* conn_->write(), with nothing in between.                                *)
BugFlush(who, recs) ==
    /\ TcpWrite(who, Pieces(recs), Fails)
    /\ out' = recs

Flush(who, recs) ==
    /\ TcpWrite(who, Pieces(recs), Fails)
    /\ out' = <<>>

(* OpenSSL made a record, or nothing, and flushWbio() and flushEncrypted() *)
(* follow.                                                                 *)
FlushMade(who, made) ==
    /\ ssl' = [made EXCEPT !.bio = <<>>]
    /\ Flush(who, out \o made.bio)

(* accept() and connect(): startHandshake(), then feedOnce() again and     *)
(* again; the client's hello is the first record.                          *)
Start ==
    /\ state = "new"
    /\ state' = "shaking"
    /\ \/ /\ "server" \in Roles
          /\ reader' = [reader EXCEPT !.pc = "tcp"]
          /\ UNCHANGED <<ssl, out, writeVars>>
       \/ /\ "client" \in Roles
          /\ reader' = [reader EXCEPT !.pc = "flush"]
          /\ FlushMade("starter", Make(ssl))
    /\ UNCHANGED <<peer, eof, plain, got, writer, closer>>

(* read() when there is something to return, and when there is not. *)
BugRead ==
    /\ state = "open" /\ reader.pc = "idle"
    /\ \A i \in 1..Len(got) : got[i] = "data"
    /\ IF plain = <<>> /\ eof = 0
         THEN reader' = [reader EXCEPT !.pc = "tcp"] /\ UNCHANGED <<plain, got>>
         ELSE /\ got' = Append(got, IF eof = 1 THEN "eof" ELSE Head(plain))
              /\ plain' = IF eof = 1 THEN plain ELSE Tail(plain)
              /\ UNCHANGED reader
    /\ UNCHANGED <<peer, ssl, out, writeVars, state, eof, writer, closer>>

Read ==
    /\ state = "open" /\ reader.pc = "idle"
    /\ \A i \in 1..Len(got) : got[i] = "data"
    /\ IF plain = <<>> /\ eof = 0
         THEN reader' = [reader EXCEPT !.pc = "tcp"] /\ UNCHANGED <<plain, got>>
         ELSE /\ got' = Append(got, IF plain = <<>> THEN "eof" ELSE Head(plain))
              /\ plain' = IF plain = <<>> THEN plain ELSE Tail(plain)
              /\ UNCHANGED reader
    /\ UNCHANGED <<peer, ssl, out, writeVars, state, eof, writer, closer>>

(* feedOnce() is over: the loop of the handshake, or the loop of read(). *)
Fed(r, p) ==
    /\ eof' = IF r = "Eof" THEN 1 ELSE eof
    /\ IF state = "shaking"
         THEN /\ state' = CASE r = "HandshakeDone" -> "open"
                            [] r \in {"Error", "Eof"} -> "failed"
                            [] OTHER -> "shaking"
              /\ reader' = [pc |-> IF r = "Ok" THEN "tcp" ELSE "idle", res |-> "Ok"]
              /\ UNCHANGED got
         ELSE /\ reader' = [pc |-> IF r = "Ok" /\ p = <<>> THEN "tcp" ELSE "idle", res |-> "Ok"]
              /\ got' = IF r = "Error" THEN Append(got, "error") ELSE got
              /\ UNCHANGED state

(* conn_->read() returns nothing, ... *)
BugReadEof ==
    /\ reader.pc = "tcp" /\ peer.net = <<>> /\ peer.fin = 1
    /\ Fed("Ok", plain)
    /\ UNCHANGED <<peer, ssl, out, writeVars, plain, writer, closer>>

ReadEof ==
    /\ reader.pc = "tcp" /\ peer.net = <<>> /\ peer.fin = 1
    /\ Fed("Eof", plain)
    /\ UNCHANGED <<peer, ssl, out, writeVars, plain, writer, closer>>

(* ... or some of what has arrived. *)
ReadChunk ==
    /\ reader.pc = "tcp"
    /\ \E n \in 1..Len(peer.net) :
          LET f == FeedEncrypted(SubSeq(peer.net, 1, n)) IN
             /\ peer' = [peer EXCEPT !.net = SubSeq(@, n + 1, Len(@))]
             /\ ssl' = f.ssl /\ plain' = f.plain
             /\ IF f.recs = <<>>
                  THEN Fed(f.res, f.plain) /\ UNCHANGED <<writeVars, out>>
                  ELSE /\ reader' = [pc |-> "flush", res |-> f.res]
                       /\ Flush("reader", f.recs)
                       /\ UNCHANGED <<state, eof, got>>
    /\ UNCHANGED <<writer, closer>>
-----------------------------------------------------------------------------
(* write() *)

Idle(w) == writer' = [writer EXCEPT ![w] = [pc |-> "idle", left |-> 0]]

(* sendPlain() and the flush of what it made, or the exception of a stream *)
(* that failed or was shut down.                                           *)
SendPlain(w, left) ==
    IF ssl.shut = 1 \/ ssl.failed = 1
      THEN Idle(w) /\ calls' = Others(w)
           /\ UNCHANGED <<ssl, out, writable, waiter, interest, written, overlap>>
      ELSE /\ writer' = [writer EXCEPT ![w] = [pc |-> "flush", left |-> left]]
           /\ FlushMade(w, Make(ssl))

Write(w) ==
    /\ state = "open" /\ writer[w].pc = "idle" /\ writer[w].left > 0
    /\ writer' = [writer EXCEPT ![w].pc = "lock"]
    /\ UNCHANGED <<peer, ssl, out, writeVars, state, reader, eof, plain, got, closer>>

(* writeMutex_ is had. *)
Locked(w) ==
    /\ writer[w].pc = "lock"
    /\ \A v \in Writers : writer[v].pc # "flush"
    /\ SendPlain(w, writer[w].left - 1)
    /\ UNCHANGED <<peer, state, reader, eof, plain, got, closer>>

(* shutdown(), which asks for no mutex: close_notify is one more record,   *)
(* unless the connection failed.                                           *)
Shutdown ==
    /\ state = "open" /\ closer = "idle"
    /\ IF ssl.failed = 1 /\ out \o ssl.bio = <<>>
         THEN closer' = "done" /\ UNCHANGED <<ssl, out, writeVars>>
         ELSE /\ closer' = "flush"
              /\ FlushMade("closer", IF ssl.failed = 1 THEN ssl
                                     ELSE [Make(ssl) EXCEPT !.shut = 1])
    /\ UNCHANGED <<peer, state, reader, eof, plain, got, writer>>
-----------------------------------------------------------------------------
(* conn_->write() has returned to who called it, or thrown.  At the start  *)
(* of the handshake nobody looks at what it returned.                      *)
Return(who) ==
    /\ calls' = Others(who)
    /\ UNCHANGED <<peer, ssl, out, writable, waiter, interest, written, overlap, plain>>

StarterWrote ==
    /\ \E st \in {"ok", "eof", "error"} :
          Wrote("starter", st) /\ Fed(IF st = "error" THEN "Error" ELSE "Ok", plain)
    /\ Return("starter") /\ UNCHANGED <<writer, closer>>

ReaderWrote ==
    /\ \/ Wrote("reader", "ok") /\ Fed(reader.res, plain)
       \/ Wrote("reader", "eof") /\ Fed("Eof", plain)
       \/ Wrote("reader", "error") /\ Fed("Error", plain)
    /\ Return("reader") /\ UNCHANGED <<writer, closer>>

CloserWrote ==
    /\ \E st \in {"ok", "eof", "error"} :
          Wrote("closer", st) /\ closer' = IF st = "error" THEN "failed" ELSE "done"
    /\ Return("closer") /\ UNCHANGED <<state, reader, eof, got, writer>>

WriterWrote(w) ==
    \/ /\ Wrote(w, "ok") /\ writer[w].left > 0
       /\ SendPlain(w, writer[w].left - 1)
       /\ UNCHANGED <<peer, state, reader, eof, plain, got, closer>>
    \/ /\ Wrote(w, "eof") \/ Wrote(w, "error") \/ (Wrote(w, "ok") /\ writer[w].left = 0)
       /\ Idle(w)
       /\ Return(w) /\ UNCHANGED <<state, reader, eof, got, closer>>

(* The socket has room again, and who waits for it goes on. *)
Writing ==
    /\ WritableEvent(Fails) \/ WriteResumed(Fails)
    /\ UNCHANGED <<peer, ssl, out, state, reader, eof, plain, got, writer, closer>>

(* The peer closes its end, before or after all it has to send, or goes    *)
(* away altogether.                                                        *)
Finishes ==
    /\ peer.fin = 0
    /\ \E g \in {0, 1}, k \in 0..Len(peer.net) :
          peer' = [net |-> SubSeq(peer.net, 1, k), fin |-> 1, gone |-> g]
    /\ UNCHANGED <<ssl, out, writeVars, state, reader, eof, plain, got, writer, closer>>

Steps == \/ Start \/ Read \/ ReadEof \/ ReadChunk \/ Shutdown \/ Finishes \/ Writing
         \/ \E w \in Writers : Write(w) \/ Locked(w)
GoesOn == \/ StarterWrote \/ ReaderWrote \/ CloserWrote
          \/ \E w \in Writers : WriterWrote(w)
Next == overlap = 0 /\ (GoesOn \/ (Free /\ Steps))
Spec == Init /\ [][Next]_vars

(* The scheduler goes on, the peer takes in what is written, and does not  *)
(* stay for ever.                                                          *)
Can(A) == overlap = 0 /\ Free /\ A
FairSpec ==
    /\ Spec
    /\ WF_vars(overlap = 0 /\ GoesOn)
    /\ WF_vars(Can(Read \/ ReadEof \/ ReadChunk))
    /\ WF_vars(Can(Writing)) /\ WF_vars(Can(Finishes))
    /\ \A w \in Writers : WF_vars(Can(Locked(w)))
-----------------------------------------------------------------------------
(* The peer gets the records in the order in which they were made, none    *)
(* twice, none missing and none torn apart, whoever of reader, writers and *)
(* shutdown() made them and whoever flushed them, as long as no two of     *)
(* them write at a time.                                                   *)
RecordsInOrder == overlap = 0 => \A i \in 1..Len(written) : written[i] = i

(* Every accept(), connect() and read() ends: with a stream, with data, or *)
(* with the news that the peer has gone; and so does every write().        *)
CallsEnd ==
    /\ []<>(overlap = 1 \/ reader.pc = "idle")
    /\ \A w \in Writers : []<>(overlap = 1 \/ writer[w].pc = "idle")

(* A read() that returns 0 while the connection can still be written to    *)
(* has returned all the data that came before the peer's close: what came  *)
(* with the last message of the handshake, and what came with the close.   *)
EofIsReal ==
    (\E i \in 1..Len(got) : got[i] = "eof") /\ peer.gone = 0 /\ closer # "done" =>
       /\ plain = <<>>
       /\ peer.net = <<>> \/ ssl.eof = 1
=============================================================================
