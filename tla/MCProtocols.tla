---------------------------- MODULE MCProtocols ----------------------------
(***************************************************************************)
(* What the HTTP and the WebSocket extension do on top of a stream, for    *)
(* TLC.  A behaviour is one of `on': a message written by an               *)
(* HttpOutgoingStream and read back by two callers; the handler of static  *)
(* files with its cache; the router, for every set of up to three routes;  *)
(* or a WebSocket connection, for every legal sequence of three frames and *)
(* for the lengths at which the format of a frame changes.                 *)
(***************************************************************************)
EXTENDS Integers, Sequences, SequencesExt

CONSTANTS Sizes, MaxCalls, Kinds, Lens,
          Clients, Names, FileSizes, MaxCacheSize, MaxFileSize, MaxEdits,
          Methods, MaxRoutes, MaxSegments,
          SendLens

VARIABLES on,
          out, wire, net, closed, buf, rd, lock, call, draining, taken, result,
          disk, edits, lru, curSize, client,
          exact, radix, regex, count,
          script, wsNet, peer, rx, got, pings, tx, closer,
          writable, waiter, interest, calls, written, overlap

-----------------------------------------------------------------------------
Frame(op, fin, n, masked) == [op |-> op, fin |-> fin, n |-> n, masked |-> masked]
Frames ==
    { Frame("text", TRUE, 1, TRUE), Frame("binary", FALSE, 1, TRUE),
      Frame("cont", FALSE, 2, TRUE), Frame("cont", TRUE, 0, TRUE),
      Frame("ping", TRUE, 3, TRUE), Frame("close", TRUE, 2, TRUE) }

(* A continuation follows a data frame that is not the last of its message. *)
IsData(f) == f.op \in {"text", "binary", "cont"}
Legal(s) ==
    \A i \in 1..Len(s) :
        IsData(s[i]) =>
            LET before == SelectSeq(SubSeq(s, 1, i - 1), IsData)
            IN  (s[i].op = "cont") = (before # <<>> /\ ~Last(before).fin)

Boundaries == {0, 125, 126, 127, 255, 256, 65535, 65536, 70000}
WsScripts ==
    { s \in [1..3 -> Frames] : Legal(s) /\ s[1].op # "close" /\ s[2].op # "close" }
      \cup { <<Frame("pong", TRUE, 1, TRUE), Frame("close", TRUE, 2, TRUE)>> }
      \cup { <<Frame("text", TRUE, n, m), Frame("text", TRUE, 1, m)>> :
                 n \in Boundaries, m \in BOOLEAN }
-----------------------------------------------------------------------------
(* Segments of a pattern: static, :parameter, *wildcard. *)
S(n) == [k |-> 0, n |-> n]
P(n) == [k |-> 1, n |-> n]
W(n) == [k |-> 2, n |-> n]
RoutePatterns ==
    { <<S("a"), S("b")>>, <<S("a"), P("x")>>, <<P("x"), S("b")>>,
      <<P("y"), P("x"), S("a")>>, <<P("y"), W("w")>>, <<S("a"), W("w")>>,
      <<W("x")>>, <<P("x"), P("y")>> }
RoutePaths == UNION { [1..n -> {"a", "b", ""}] : n \in 0..3 }
RouteRegexes == { {<<"a">>, <<"b", "b">>}, {<<"a">>, <<"b">>} }
-----------------------------------------------------------------------------
Body == INSTANCE HttpBody
Static == INSTANCE StaticFiles
Router == INSTANCE HttpRouter WITH
    Patterns <- RoutePatterns, Regexes <- RouteRegexes, Paths <- RoutePaths
Ws == INSTANCE WsConnection WITH
    Scripts <- WsScripts, net <- wsNet

bodyVars == <<out, wire, net, closed, buf, rd, lock, call, draining, taken, result>>
staticVars == <<disk, edits, lru, curSize, client>>
routerVars == <<exact, radix, regex, count>>
wsVars == <<script, wsNet, peer, rx, got, pings, tx, closer,
            writable, waiter, interest, calls, written, overlap>>

(* The components that rest have one initial state. *)
ProtocolsInit ==
    /\ on \in {"body", "static", "router", "ws"}
    /\ Body!Init /\ Static!Init /\ Router!Init /\ Ws!Init
    /\ on # "body" => out.kind = "response"
    /\ on # "ws" => script = <<Frame("text", TRUE, 0, TRUE), Frame("text", TRUE, 1, TRUE)>>

ProtocolsNext ==
    \/ on = "body" /\ Body!Next /\ UNCHANGED <<on, staticVars, routerVars, wsVars>>
    \/ on = "static" /\ Static!Next /\ UNCHANGED <<on, bodyVars, routerVars, wsVars>>
    \/ on = "router" /\ Router!Next /\ UNCHANGED <<on, bodyVars, staticVars, wsVars>>
    \/ on = "ws" /\ Ws!Next /\ UNCHANGED <<on, bodyVars, staticVars, routerVars>>

ProtocolsSpec ==
    ProtocolsInit /\ [][ProtocolsNext]_<<on, bodyVars, staticVars, routerVars, wsVars>>
-----------------------------------------------------------------------------
(* A body is read as it was written: see HttpBody!BodyExact. *)
BodyExact == on = "body" => Body!BodyExact

(* The cache of files keeps its accounts: see StaticFiles!CacheAccounted. *)
CacheAccounted == on = "static" => Static!CacheAccounted

(* A served file is as fresh as the cache allows: see StaticFiles!ServedCurrent. *)
ServedCurrent == on = "static" => Static!ServedCurrent

(* A path goes to the route it should: see HttpRouter!RouteCorrect. *)
RouteCorrect == on = "router" => Router!RouteCorrect

(* Messages are put together from their own frames and every Ping has its  *)
(* Pong: see WsConnection!MessageWholeWithoutPong and !PongsAnswer.        *)
WsExact == on = "ws" => Ws!MessageWholeWithoutPong /\ Ws!PongsAnswer
=============================================================================
