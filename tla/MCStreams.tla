----------------------------- MODULE MCStreams -----------------------------
(***************************************************************************)
(* Coroutines that take turns at a stream, for TLC.  A behaviour is one of *)
(* `on':                                                                   *)
(*   "mutex": the mutex by which writers take turns.  Four coroutines use  *)
(*     it, so that an enqueue can race an unlock that hands the mutex over *)
(*     while two others are queued already;                                *)
(*   "tls": a TLS stream in either role, with two writers, for a peer that *)
(*     sends data with the end of its handshake, asks for a key update,    *)
(*     and closes or sends what is no record;                              *)
(*   "http": a connection of the HTTP server, with each of four kinds of   *)
(*     requests that close it, each of four that do not followed by each   *)
(*     of three; the end of what the peer sends is answered like a third.  *)
(***************************************************************************)
EXTENDS Mutex

CONSTANTS Writers, PerWrite, Roles

VARIABLES on,
          writable, waiter, interest, calls, written, overlap,
          tPeer, ssl, out, tState, reader, eof, plain, got, writer, closer,
          script, input, left, peer, loop, resp, holder, mess, stream

Request(kind, version, conn, body) ==
    [kind |-> kind, version |-> version, conn |-> conn, body |-> body]

Lasting == { Request("ok", 11, "", 1), Request("ok", 10, "keep-alive", 0),
             Request("refused", 11, "", 1), Request("expect", 11, "", 1) }
Closing == { Request("ok", 10, "", 0), Request("refused", 11, "close", 0),
             Request("bad", 11, "", 0), Request("upgrade", 11, "", 0) }
Second == { Request("ok", 11, "", 0), Request("refused", 11, "close", 0),
            Request("expect", 11, "", 0) }

Pipelines ==
    {<<a>> : a \in Closing} \cup {<<a, b>> : a \in Lasting, b \in Second}

TlsScripts ==
    { <<"hello", "finished", "update", "data", "close">>,
      <<"hello", "finished", "junk">> }

T == INSTANCE TlsStream WITH
    PeerScript <- TlsScripts, peer <- tPeer, state <- tState
H == INSTANCE HttpServer WITH Scripts <- Pipelines, owner <- holder

wVars == <<writable, waiter, interest, calls, written, overlap>>
tVars == <<tPeer, ssl, out, tState, reader, eof, plain, got, writer, closer>>
hVars == <<script, input, left, peer, loop, resp, holder, mess, stream>>
streamsVars == <<on, vars, wVars, tVars, hVars>>

(* The components that rest have one initial state. *)
StreamsInit ==
    /\ on \in {"mutex", "tls", "http"}
    /\ Init /\ T!Init /\ H!Init
    /\ on # "tls" => Len(tPeer.net) = 3
    /\ on # "http" => script = <<Request("bad", 11, "", 0)>>

(* A connection is over some day; the mutex is never stuck. *)
ConnectionRests == on # "mutex" /\ UNCHANGED streamsVars

StreamsNext ==
    \/ on = "mutex" /\ Next /\ UNCHANGED <<on, wVars, tVars, hVars>>
    \/ on = "tls" /\ T!Next /\ UNCHANGED <<on, vars, hVars>>
    \/ on = "http" /\ H!Next /\ UNCHANGED <<on, vars, tVars>>
    \/ ConnectionRests

(* The fairness of each component, where it runs. *)
MutexFair ==
    \A c \in Coros : /\ WF_vars(on = "mutex" /\ UnlockStep(c))
                     /\ WF_vars(on = "mutex" /\ AwaitResume(c))

TlsFair ==
    /\ WF_<<wVars, tVars>>(on = "tls" /\ overlap = 0 /\ T!GoesOn)
    /\ WF_<<wVars, tVars>>(on = "tls" /\ T!Can(T!Read \/ T!ReadEof \/ T!ReadChunk))
    /\ WF_<<wVars, tVars>>(on = "tls" /\ T!Can(T!Writing))
    /\ WF_<<wVars, tVars>>(on = "tls" /\ T!Can(T!Finishes))
    /\ \A w \in Writers : WF_<<wVars, tVars>>(on = "tls" /\ T!Can(T!Locked(w)))

HttpFair ==
    /\ WF_<<wVars, hVars>>(on = "http" /\ overlap = 0 /\ H!GoesOn)
    /\ WF_<<wVars, hVars>>(on = "http" /\ H!Can(H!Server))
    /\ WF_<<wVars, hVars>>(on = "http" /\ H!Can(H!HandlerReturns))
    /\ WF_<<wVars, hVars>>(on = "http" /\ H!Can(H!PeerEnds))
    /\ WF_<<wVars, hVars>>(on = "http" /\ H!Can(loop.pc = "drain" /\ H!ReadBody(loop.cur)))

StreamsSpec ==
    /\ StreamsInit /\ [][StreamsNext]_streamsVars
    /\ MutexFair /\ TlsFair /\ HttpFair
-----------------------------------------------------------------------------
(* TLS records are written in the order in which they were made, each      *)
(* once, and a read() that returns 0 has lost nothing: see                 *)
(* TlsStream!RecordsInOrder and TlsStream!EofIsReal.                       *)
TlsExact == on = "tls" => T!RecordsInOrder /\ T!EofIsReal

(* Responses are written whole and in the order of the requests, whatever  *)
(* the order in which the handlers end, and the loop goes on at the head   *)
(* of a request, whoever read the body before it: see                      *)
(* HttpServer!ResponsesInOrder and HttpServer!RequestsFramed.              *)
HttpExact == on = "http" => H!ResponsesInOrder /\ H!RequestsFramed

(* Calls on a TLS stream end; an HTTP connection whose peer stops sending  *)
(* comes to its end, and with it every response: see TlsStream!CallsEnd    *)
(* and HttpServer!ConnectionEnds.                                          *)
StreamsEnd == T!CallsEnd /\ []<>(on = "http" => H!ConnectionOver)

(* Channel.h: "Only supports one concurrent reader and one concurrent      *)
(* writer per fd".  A TLS stream calls conn_->write() for its reader, for  *)
(* its writers and for shutdown(), and only the writers take writeMutex_:  *)
(* see TcpWriter!OneWriter.                                                *)
OneWriter == on = "tls" => T!OneWriter
=============================================================================
