----------------------------- MODULE TcpServer -----------------------------
(***************************************************************************)
(* net::TcpServer (src/TcpServer.cc) with the net::TcpConnections it       *)
(* accepts and the clients' Connector (src/TcpConnection.cc): start(), the *)
(* accept loop over a level-triggered Channel, the spawned handlers,       *)
(* stop(), and the calls a handler makes on its connection.                *)
(*                                                                         *)
(* All of it runs on the scheduler's thread; a step is what a coroutine    *)
(* does up to its next suspension.  The kernel's side runs on.  A use of a *)
(* null or destroyed Channel sets `fault', after which the model stops.    *)
(***************************************************************************)
EXTENDS Naturals, FiniteSets

CONSTANTS Conns,     \* connections, each made by one client
          Starters,  \* coroutines that call start()
          Stoppers   \* coroutines that call stop()

VARIABLES
    started, stopped,            \* started_ and stopped_
    startPromise, stopPromise,   \* 1 once set
    starter, stopper,            \* where the callers of start() and stop() are
    interest,    \* 1 while the listening socket is watched
    readable, canceled,          \* the flags of listenChannel_
    acceptor,    \* where the accept loop is
    backlog,     \* connections the kernel has established and nobody accepted
    client,      \* where each client's connect() is
    peer,        \* what each client has done since: "open", "fin" or "reset"
    connSet,     \* *connSetPtr_
    state,       \* state_ of each accepted connection
    finSent,     \* how often socket_->shutdownWrite() was called
    channel,     \* ioChannelPtr_: "none", "live" or "gone"
    handler,     \* where the handler of each connection is
    vanished,    \* connections that left the backlog unaccepted
    misuse,      \* 1 once a caller broke the rules of the interface
    fault        \* 1 once a Channel that is not there was used

server == <<started, stopped, startPromise, stopPromise, starter, stopper>>
listener == <<interest, readable, canceled, acceptor>>
network == <<backlog, client, peer, vanished>>
conns == <<connSet, state, finSent, channel, handler>>
vars == <<server, listener, network, conns, misuse, fault>>

Init ==
    /\ started = 0 /\ stopped = 0 /\ startPromise = 0 /\ stopPromise = 0
    /\ starter = [k \in Starters |-> "none"] /\ stopper = [k \in Stoppers |-> "none"]
    /\ interest = 0 /\ readable = 0 /\ canceled = 0 /\ acceptor = "none"
    /\ backlog = {} /\ vanished = {}
    /\ client = [c \in Conns |-> "none"] /\ peer = [c \in Conns |-> "open"]
    /\ connSet = {} /\ state = [c \in Conns |-> "None"]
    /\ finSent = [c \in Conns |-> 0] /\ channel = [c \in Conns |-> "none"]
    /\ handler = [c \in Conns |-> "none"]
    /\ misuse = 0 /\ fault = 0

(* The thread is free: the accept loop is not between two awaits. *)
Free == fault = 0 /\ acceptor # "loop"

Fault(bad) == fault' = 1 /\ misuse' = IF bad THEN 1 ELSE misuse
-----------------------------------------------------------------------------
(* The clients and the kernel. *)

(* Connector: connect() is under way (NeedWrite) until the kernel answers; *)
(* a socket that listens answers, whoever watches it.                      *)
Listening == started = 1 /\ acceptor # "none"

Connect(c) ==
    /\ fault = 0
    /\ client[c] = "none"
    /\ \/ client' = [client EXCEPT ![c] = "connecting"]
       \/ client' = [client EXCEPT ![c] = "failed"]
    /\ UNCHANGED <<server, listener, backlog, peer, vanished, conns, misuse, fault>>

(* SO_ERROR is 0 once the handshake is done, the error if it failed. *)
Connected(c) ==
    /\ fault = 0
    /\ client[c] = "connecting"
    /\ IF Listening
         THEN /\ client' = [client EXCEPT ![c] = "connected"]
              /\ backlog' = backlog \cup {c}
         ELSE /\ client' = [client EXCEPT ![c] = "failed"]
              /\ UNCHANGED backlog
    /\ UNCHANGED <<server, listener, peer, vanished, conns, misuse, fault>>

PeerCloses(c) ==
    /\ fault = 0
    /\ client[c] = "connected" /\ peer[c] = "open"
    /\ \E p \in {"fin", "reset"} : peer' = [peer EXCEPT ![c] = p]
    /\ UNCHANGED <<server, listener, backlog, client, vanished, conns, misuse, fault>>

(* A network error takes a connection out of the backlog (accept(2)). *)
Vanish(c) ==
    /\ fault = 0
    /\ c \in backlog
    /\ backlog' = backlog \ {c}
    /\ vanished' = vanished \cup {c}
    /\ UNCHANGED <<server, listener, client, peer, conns, misuse, fault>>

(* epoll reports the listening socket as long as the backlog is not empty. *)
ListenEvent ==
    /\ Free
    /\ interest = 1 /\ backlog # {}
    /\ readable = 0 \/ acceptor = "suspended"
    /\ readable' = 1
    /\ acceptor' = IF acceptor = "suspended" THEN "scheduled" ELSE acceptor
    /\ UNCHANGED <<server, interest, canceled, network, conns, misuse, fault>>
-----------------------------------------------------------------------------
(* start() *)

Start(k) ==
    /\ Free
    /\ starter[k] = "none"
    /\ started = 0
    /\ started' = 1
    /\ \/ /\ acceptor' = "loop" /\ interest' = 1
          /\ startPromise' = 1
          /\ starter' = [starter EXCEPT ![k] = "accepting"]
          /\ UNCHANGED <<stopped, stopPromise>>
       \/ /\ stopped' = 1 /\ stopPromise' = 1                  \* listen() failed
          /\ starter' = [starter EXCEPT ![k] = "threw"]
          /\ UNCHANGED <<acceptor, interest, startPromise>>
    /\ UNCHANGED <<stopper, readable, canceled, network, conns, misuse, fault>>

StartAgain(k) ==
    /\ Free
    /\ starter[k] = "none" /\ started = 1
    /\ starter' = [starter EXCEPT ![k] = "threw"]
    /\ UNCHANGED <<started, stopped, startPromise, stopPromise, stopper, listener,
                   network, conns, misuse, fault>>

(* The loop is left: stop watching, tell whoever waits, return. *)
BugLeaveLoop ==
    /\ stopPromise' = 1
    /\ acceptor' = "done"
    /\ starter' = [k \in Starters |-> IF starter[k] = "accepting" THEN "returned" ELSE starter[k]]
    /\ UNCHANGED interest

LeaveLoop ==
    /\ interest' = 0
    /\ stopPromise' = 1
    /\ acceptor' = "done"
    /\ starter' = [k \in Starters |-> IF starter[k] = "accepting" THEN "returned" ELSE starter[k]]

(* performRead(&acceptor) has nothing to read: accept4() fails with EAGAIN, *)
(* or it did before.                                                       *)
AcceptNothing ==
    /\ fault = 0
    /\ acceptor = "loop"
    /\ readable = 0 \/ backlog = {}
    /\ readable' = 0
    /\ acceptor' = "suspended"
    /\ UNCHANGED <<server, interest, canceled, network, conns, misuse, fault>>

(* accept4() succeeds: the connection is entered in the set, its handler is *)
(* spawned, and the loop looks at stopped_.                                *)
Accept(c) ==
    /\ fault = 0
    /\ acceptor = "loop" /\ readable = 1
    /\ c \in backlog
    /\ backlog' = backlog \ {c}
    /\ connSet' = connSet \cup {c}
    /\ state' = [state EXCEPT ![c] = "Connected"]
    /\ channel' = [channel EXCEPT ![c] = "live"]
    /\ handler' = [handler EXCEPT ![c] = "spawned"]
    /\ IF stopped = 1 THEN LeaveLoop
                      ELSE UNCHANGED <<interest, stopPromise, acceptor, starter>>
    /\ UNCHANGED <<started, stopped, startPromise, stopper, readable, canceled,
                   client, peer, vanished, finSent, misuse, fault>>

(* Any other error of accept4() ends the loop too. *)
AcceptFails ==
    /\ fault = 0
    /\ acceptor = "loop" /\ readable = 1
    /\ LeaveLoop
    /\ UNCHANGED <<started, stopped, startPromise, stopper, readable, canceled,
                   network, conns, misuse, fault>>

(* The scheduled acceptor is resumed: Canceled, or accept4() is called. *)
ResumeAcceptor ==
    /\ Free
    /\ acceptor = "scheduled"
    /\ canceled' = 0
    /\ IF canceled = 1 THEN LeaveLoop
                       ELSE acceptor' = "loop" /\ UNCHANGED <<interest, stopPromise, starter>>
    /\ UNCHANGED <<started, stopped, startPromise, stopper, readable, network, conns,
                   misuse, fault>>
-----------------------------------------------------------------------------
(* TcpConnection::shutdown() for every connection of cs: Closed if the peer *)
(* has closed already, and a FIN unless one was sent.                      *)
Shuts(cs) == {c \in cs : state[c] \notin {"LocalShutdown", "Closed"}}

Shutdown(cs) ==
    /\ state' = [c \in Conns |-> IF c \notin Shuts(cs) THEN state[c]
                                 ELSE IF state[c] = "PeerShutdown" THEN "Closed"
                                 ELSE "LocalShutdown"]
    /\ finSent' = [c \in Conns |-> finSent[c] + IF c \in Shuts(cs) THEN 1 ELSE 0]

(* listenChannel_->disableAll() and cancelAll(): an acceptor that is       *)
(* scheduled already is not cancelled.                                     *)
BugCancelListen ==
    /\ interest' = 0
    /\ UNCHANGED <<readable, canceled, acceptor>>

CancelListen ==
    /\ interest' = 0
    /\ canceled' = IF acceptor = "suspended" THEN 1 ELSE canceled
    /\ acceptor' = IF acceptor = "suspended" THEN "scheduled" ELSE acceptor
    /\ UNCHANGED readable

(* stop(): none of the shutdown()s suspends, so the set it copied cannot   *)
(* change while it goes through it.                                        *)
Stop(k) ==
    /\ Free
    /\ stopper[k] = "none"
    /\ IF stopped = 1
         THEN /\ stopper' = [stopper EXCEPT ![k] = "returned"]
              /\ UNCHANGED <<stopped, listener, state, finSent, misuse, fault>>
         ELSE /\ stopped' = 1
              /\ IF started = 0 \/ \E c \in connSet : channel[c] = "gone"
                   THEN /\ Fault(started = 0)
                        /\ UNCHANGED <<stopper, listener, state, finSent>>
                   ELSE /\ CancelListen
                        /\ Shutdown(connSet)
                        /\ stopper' = [stopper EXCEPT ![k] = "waiting"]
                        /\ UNCHANGED <<misuse, fault>>
    /\ UNCHANGED <<started, startPromise, stopPromise, starter, network, connSet, channel,
                   handler>>

(* co_await stopFuture_.get() *)
StopReturns(k) ==
    /\ Free
    /\ stopper[k] = "waiting" /\ stopPromise = 1
    /\ stopper' = [stopper EXCEPT ![k] = "returned"]
    /\ UNCHANGED <<started, stopped, startPromise, stopPromise, starter, listener, network,
                   conns, misuse, fault>>
-----------------------------------------------------------------------------
(* A handler and its connection.  A handler that is "running" awaits       *)
(* something else, or is about to make its next call.                      *)

HandlerBegins(c) ==
    /\ Free
    /\ handler[c] = "spawned"
    /\ handler' = [handler EXCEPT ![c] = "running"]
    /\ UNCHANGED <<server, listener, network, connSet, state, finSent, channel, misuse, fault>>

(* read() and write(), not called again once they have returned 0 or thrown. *)
Call(c, op) ==
    /\ Free
    /\ handler[c] = "running" /\ state[c] # "Closed"
    /\ op = "reading" => state[c] # "PeerShutdown"
    /\ handler' = [handler EXCEPT ![c] = op]
    /\ UNCHANGED <<server, listener, network, connSet, state, finSent, channel, misuse, fault>>

(* They return on the scheduler's thread: data or room, the peer's FIN     *)
(* (Eof), an error, which writing after shutdown() is too; of a Channel    *)
(* that forceClose() destroyed meanwhile the coroutine still reads the     *)
(* cancel flag.                                                            *)
BugReadEof(c) == state' = [state EXCEPT ![c] = "PeerShutdown"]

ReadEof(c) == state' = [state EXCEPT ![c] = IF @ = "LocalShutdown" THEN "Closed" ELSE "PeerShutdown"]

CallReturns(c, op) ==
    /\ Free
    /\ handler[c] = op
    /\ IF channel[c] = "gone"
         THEN Fault(FALSE) /\ UNCHANGED <<handler, state>>
         ELSE /\ handler' = [handler EXCEPT ![c] = "running"]
              /\ \/ UNCHANGED state
                 \/ op = "reading" /\ peer[c] = "fin" /\ ReadEof(c)
                 \/ /\ peer[c] = "reset" \/ (op = "writing" /\ finSent[c] = 1)
                    /\ state' = [state EXCEPT ![c] = "Closed"]
              /\ UNCHANGED <<misuse, fault>>
    /\ UNCHANGED <<server, listener, network, connSet, finSent, channel>>

HandlerShutdown(c) ==
    /\ Free
    /\ handler[c] = "running" /\ channel[c] = "live"
    /\ Shutdown({c})
    /\ UNCHANGED <<server, listener, network, connSet, channel, handler, misuse, fault>>

(* forceClose(): the handler's last call before it returns, or a misuse: a *)
(* call of read() or write() is suspended, or the handler awaits more.     *)
ForceClose(c) ==
    /\ Free
    /\ handler[c] \in {"running", "reading", "writing"} /\ channel[c] = "live"
    /\ state' = [state EXCEPT ![c] = "Closed"]
    /\ channel' = [channel EXCEPT ![c] = "gone"]
    /\ \/ /\ handler[c] = "running"
          /\ handler' = [handler EXCEPT ![c] = "gone"]
          /\ connSet' = connSet \ {c}
          /\ UNCHANGED misuse
       \/ misuse' = 1 /\ UNCHANGED <<handler, connSet>>
    /\ UNCHANGED <<server, listener, network, finSent, fault>>

(* The handler returns or throws, on any thread; back on the scheduler's,  *)
(* the connection is erased from the set and destroyed.                    *)
HandlerReturns(c) ==
    /\ Free
    /\ handler[c] = "running"
    /\ handler' = [handler EXCEPT ![c] = "leaving"]
    /\ UNCHANGED <<server, listener, network, connSet, state, finSent, channel, misuse, fault>>

BugErase(c) ==
    /\ Free
    /\ handler[c] = "leaving"
    /\ handler' = [handler EXCEPT ![c] = "gone"]
    /\ channel' = [channel EXCEPT ![c] = "gone"]
    /\ UNCHANGED <<server, listener, network, connSet, state, finSent, misuse, fault>>

Erase(c) ==
    /\ Free
    /\ handler[c] = "leaving"
    /\ handler' = [handler EXCEPT ![c] = "gone"]
    /\ connSet' = connSet \ {c}
    /\ channel' = [channel EXCEPT ![c] = "gone"]
    /\ UNCHANGED <<server, listener, network, state, finSent, misuse, fault>>

Handler(c) ==
    \/ HandlerBegins(c) \/ HandlerShutdown(c) \/ ForceClose(c) \/ HandlerReturns(c) \/ Erase(c)
    \/ \E op \in {"reading", "writing"} : Call(c, op) \/ CallReturns(c, op)

AcceptLoop ==
    AcceptNothing \/ AcceptFails \/ ResumeAcceptor \/ \E c \in Conns : Accept(c)

Next ==
    \/ \E c \in Conns : Connect(c) \/ Connected(c) \/ PeerCloses(c) \/ Vanish(c) \/ Handler(c)
    \/ ListenEvent \/ AcceptLoop
    \/ \E k \in Starters : Start(k) \/ StartAgain(k)
    \/ \E k \in Stoppers : Stop(k) \/ StopReturns(k)

Spec == Init /\ [][Next]_vars

(* The scheduler resumes what is scheduled, and a coroutine runs on to its *)
(* next suspension.                                                        *)
FairSpec ==
    /\ Spec
    /\ WF_vars(AcceptLoop)
    /\ \A k \in Stoppers : WF_vars(StopReturns(k))
-----------------------------------------------------------------------------
(* A stopped server is quiet: once stopPromise_ is set the accept loop has *)
(* ended and nothing watches the listening socket; and once stop() has     *)
(* gone through the set, a FIN was sent on every connection that is still  *)
(* open, except at most one, which the acceptor took after stop(), being   *)
(* scheduled already.                                                      *)
StoppedIsQuiet ==
    /\ stopPromise = 1 => acceptor \in {"none", "done"} /\ interest = 0
    /\ (stopped = 1 /\ fault = 0) =>
          Cardinality({c \in connSet : finSent[c] = 0 /\ state[c] # "Closed"}) <= 1

(* state_ tells what went over the wire: no FIN was sent on a connection   *)
(* that is Connected or PeerShutdown, one on a connection that is          *)
(* LocalShutdown, never two, whatever the order in which the peer's FIN,   *)
(* the handler's shutdown() and that of stop() meet.                       *)
StateTellsTheWire ==
    \A c \in Conns :
       /\ state[c] \in {"None", "Connected", "PeerShutdown"} => finSent[c] = 0
       /\ state[c] = "LocalShutdown" => finSent[c] = 1
       /\ state[c] = "PeerShutdown" => peer[c] = "fin"
       /\ finSent[c] <= 1

(* No null or destroyed Channel is used by stop(), start() or a handler,   *)
(* unless stop() was called before started(), or forceClose() while a call *)
(* was suspended or by a handler that goes on awaiting.                    *)
NoDanglingUse == fault = 1 => misuse = 1

(* stop() returns, and start() with it, unless a connection vanishes from  *)
(* the backlog: the acceptor it had woken then waits with nothing watched. *)
StopEnds ==
    []<>(\/ vanished # {} \/ fault = 1 \/ stopped = 0
         \/ /\ acceptor \in {"none", "done"}
            /\ \A k \in Stoppers : stopper[k] # "waiting")
=============================================================================
