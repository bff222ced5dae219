--------------------------- MODULE TcpServerProofs ---------------------------
(***************************************************************************)
(* That the state of every connection of a TcpServer agrees with the wire, *)
(* that no Channel is used after its end, and that a stopped server is     *)
(* quiet, for any number of connections and of callers of start() and      *)
(* stop().                                                                 *)
(***************************************************************************)
EXTENDS TcpServer, TLAPS

States == {"None", "Connected", "PeerShutdown", "LocalShutdown", "Closed"}

TypeInv ==
    /\ state \in [Conns -> States] /\ finSent \in [Conns -> Nat]
    /\ peer \in [Conns -> {"open", "fin", "reset"}]
    /\ client \in [Conns -> {"none", "connecting", "connected", "failed"}]
    /\ channel \in [Conns -> {"none", "live", "gone"}]
    /\ handler \in [Conns -> {"none", "spawned", "running", "reading", "writing",
                              "leaving", "gone"}]
    /\ connSet \subseteq Conns

(* A connection that was not accepted is as it was made; and nobody is in  *)
(* read() on a connection whose end is known, unless its Channel is gone.  *)
Wire(c) ==
    /\ client[c] # "connected" => c \notin backlog /\ state[c] = "None"
    /\ c \in backlog => state[c] = "None"
    /\ state[c] = "None" => c \notin connSet /\ handler[c] = "none"
    /\ handler[c] = "reading" /\ channel[c] # "gone" =>
          state[c] \in {"Connected", "LocalShutdown"}
    /\ state[c] \in {"None", "Connected", "PeerShutdown"} => finSent[c] = 0
    /\ state[c] = "LocalShutdown" => finSent[c] = 1
    /\ state[c] = "PeerShutdown" => peer[c] = "fin"
    /\ finSent[c] <= 1

(* A Channel goes with its handler and with its place in the set, unless   *)
(* forceClose() took it from under them.                                   *)
Owned(c) ==
    channel[c] = "gone" /\ (c \in connSet \/ handler[c] \notin {"none", "gone"}) => misuse = 1

WireInv == TypeInv /\ \A c \in Conns : Wire(c)
UseInv == NoDanglingUse /\ \A c \in Conns : Owned(c)

(* Initially there is no connection. *)
LEMMA WireInit == Init => WireInv /\ UseInv
BY DEF Init, WireInv, TypeInv, Wire, UseInv, Owned, NoDanglingUse, States

(* Steps of the listener and of the callers of start() leave the           *)
(* connections alone.                                                      *)
LEMMA ListenerKeeps ==
    ASSUME WireInv, UseInv, UNCHANGED <<network, conns, misuse, fault>>
    PROVE  WireInv' /\ UseInv'
BY DEF WireInv, TypeInv, Wire, UseInv, Owned, NoDanglingUse, network, conns

(* The clients and the kernel: a connection enters the backlog once,       *)
(* before it was accepted.                                                 *)
LEMMA NetworkKeeps ==
    ASSUME WireInv, UseInv, NEW c \in Conns,
           Connect(c) \/ Connected(c) \/ PeerCloses(c) \/ Vanish(c)
    PROVE  WireInv' /\ UseInv'
<1> UNCHANGED <<state, finSent, channel, handler, connSet, misuse, fault>>
  BY DEF Connect, Connected, PeerCloses, Vanish, conns
<1>1. UseInv'
  BY DEF UseInv, Owned, NoDanglingUse
<1> USE DEF WireInv, TypeInv, Wire
<1>2. CASE Connect(c)
  BY <1>1, <1>2 DEF Connect
<1>3. CASE Connected(c)
  BY <1>1, <1>3 DEF Connected
<1>4. CASE PeerCloses(c)
  BY <1>1, <1>4 DEF PeerCloses
<1>5. CASE Vanish(c)
  BY <1>1, <1>5 DEF Vanish
<1> QED  BY <1>2, <1>3, <1>4, <1>5

(* accept4(): the connection begins with no FIN sent and a live Channel. *)
LEMMA AcceptKeeps ==
    ASSUME WireInv, UseInv, NEW c \in Conns, Accept(c)
    PROVE  WireInv' /\ UseInv'
<1> /\ backlog' = backlog \ {c} /\ connSet' = connSet \cup {c}
    /\ state' = [state EXCEPT ![c] = "Connected"]
    /\ channel' = [channel EXCEPT ![c] = "live"]
    /\ handler' = [handler EXCEPT ![c] = "spawned"]
    /\ c \in backlog /\ UNCHANGED <<client, peer, finSent, misuse, fault>>
  BY DEF Accept
<1>1. WireInv'
  BY DEF WireInv, TypeInv, Wire, States
<1>2. UseInv'
  BY DEF UseInv, Owned, NoDanglingUse, WireInv, TypeInv
<1> QED  BY <1>1, <1>2

(* shutdown() sends a FIN where none was sent and remembers it, whoever    *)
(* calls it: stop() for all connections or a handler for its own.          *)
LEMMA ShutdownKeeps ==
    ASSUME WireInv, NEW cs \in SUBSET Conns, Shutdown(cs),
           \A c \in cs : state[c] # "None",
           UNCHANGED <<network, connSet, channel, handler>>
    PROVE  WireInv'
<1>1. TypeInv'
  BY DEF WireInv, TypeInv, Shutdown, Shuts, States, network
<1>2. ASSUME NEW c \in Conns PROVE Wire(c)'
  <2>1. CASE c \in Shuts(cs)
    <3>1. /\ state[c] \in {"Connected", "PeerShutdown"}
          /\ state'[c] = IF state[c] = "PeerShutdown" THEN "Closed" ELSE "LocalShutdown"
          /\ finSent'[c] = finSent[c] + 1 /\ finSent[c] = 0
      BY <2>1 DEF WireInv, TypeInv, Wire, Shutdown, Shuts, States
    <3> QED  BY <3>1 DEF WireInv, TypeInv, Wire, network
  <2>2. CASE c \notin Shuts(cs)
    <3>1. state'[c] = state[c] /\ finSent'[c] = finSent[c]
      BY <2>2 DEF WireInv, TypeInv, Shutdown
    <3> QED  BY <3>1 DEF WireInv, TypeInv, Wire, network
  <2> QED  BY <2>1, <2>2
<1> QED  BY <1>1, <1>2 DEF WireInv

(* stop() meets a Channel that is gone only after a misuse. *)
LEMMA StopKeeps ==
    ASSUME WireInv, UseInv, NEW k \in Stoppers, Stop(k)
    PROVE  WireInv' /\ UseInv'
<1> /\ UNCHANGED <<network, connSet, channel, handler>>
    /\ connSet \in SUBSET Conns
  BY DEF Stop, WireInv, TypeInv
<1>1. CASE UNCHANGED <<state, finSent, misuse, fault>>
  BY <1>1, ListenerKeeps DEF conns
<1>2. CASE /\ Fault(started = 0) /\ UNCHANGED <<state, finSent>>
           /\ started = 0 \/ \E c \in connSet : channel[c] = "gone"
  <2>1. misuse' = 1
    BY <1>2 DEF Fault, UseInv, Owned
  <2> QED  BY <1>2, <2>1 DEF WireInv, TypeInv, Wire, UseInv, Owned, NoDanglingUse, network
<1>3. CASE Shutdown(connSet) /\ UNCHANGED <<misuse, fault>>
  <2>1. \A c \in connSet : state[c] # "None"
    BY DEF WireInv, TypeInv, Wire
  <2>2. WireInv'
    BY <1>3, <2>1, ShutdownKeeps
  <2> QED  BY <1>3, <2>2 DEF UseInv, Owned, NoDanglingUse
<1> QED  BY <1>1, <1>2, <1>3 DEF Stop

(* A handler's calls: only forceClose() takes a Channel away while it is   *)
(* in use, and the end of the stream is told by the call that met it.      *)
LEMMA HandlerKeeps ==
    ASSUME WireInv, UseInv, NEW c \in Conns, Handler(c)
    PROVE  WireInv' /\ UseInv'
<1> UNCHANGED network
  BY ZenonT(40) DEF Handler, HandlerBegins, HandlerShutdown, ForceClose, HandlerReturns, Erase, Call,
         CallReturns
<1> USE DEF network
<1>1. CASE HandlerBegins(c)
  BY <1>1 DEF HandlerBegins, WireInv, TypeInv, Wire, UseInv, Owned, NoDanglingUse
<1>2. CASE HandlerShutdown(c)
  <2>1. state[c] # "None" /\ {c} \in SUBSET Conns
    BY <1>2 DEF HandlerShutdown, WireInv, TypeInv, Wire
  <2>2. WireInv'
    BY <1>2, <2>1, ShutdownKeeps DEF HandlerShutdown
  <2> QED  BY <1>2, <2>2 DEF HandlerShutdown, UseInv, Owned, NoDanglingUse
<1>3. CASE ForceClose(c)
  <2>1. WireInv'
    BY <1>3 DEF ForceClose, WireInv, TypeInv, Wire, States
  <2>2. UseInv'
    BY <1>3 DEF ForceClose, WireInv, TypeInv, UseInv, Owned, NoDanglingUse
  <2> QED  BY <2>1, <2>2
<1>4. CASE HandlerReturns(c)
  BY <1>4 DEF HandlerReturns, WireInv, TypeInv, Wire, UseInv, Owned, NoDanglingUse
<1>5. CASE Erase(c)
  <2>1. WireInv'
    BY <1>5 DEF Erase, WireInv, TypeInv, Wire
  <2>2. UseInv'
    BY <1>5 DEF Erase, WireInv, TypeInv, UseInv, Owned, NoDanglingUse
  <2> QED  BY <2>1, <2>2
<1>6. ASSUME NEW op \in {"reading", "writing"}, Call(c, op) PROVE WireInv' /\ UseInv'
  <2>1. WireInv'
    BY <1>6 DEF Call, WireInv, TypeInv, Wire, States
  <2>2. UseInv'
    BY <1>6 DEF Call, WireInv, TypeInv, UseInv, Owned, NoDanglingUse
  <2> QED  BY <2>1, <2>2
<1>7. ASSUME NEW op \in {"reading", "writing"}, CallReturns(c, op) PROVE WireInv' /\ UseInv'
  <2> UNCHANGED <<connSet, finSent, channel>>
    BY <1>7 DEF CallReturns
  <2>1. CASE channel[c] = "gone"
    <3>1. misuse = 1 /\ misuse' = 1 /\ UNCHANGED <<handler, state>>
      BY <1>7, <2>1 DEF CallReturns, Fault, UseInv, Owned
    <3> QED  BY <3>1 DEF WireInv, TypeInv, Wire, UseInv, Owned, NoDanglingUse
  <2>2. CASE channel[c] # "gone"
    <3>1. handler' = [handler EXCEPT ![c] = "running"] /\ UNCHANGED <<misuse, fault>>
      BY <1>7, <2>2 DEF CallReturns
    <3>2. UseInv'
      BY <1>7, <3>1 DEF CallReturns, WireInv, TypeInv, UseInv, Owned, NoDanglingUse
    <3>3. WireInv'
      <4>1. handler[c] = op /\ state[c] # "None"
        BY <1>7 DEF CallReturns, WireInv, TypeInv, Wire
      <4>2. CASE UNCHANGED state
        <5>1. TypeInv'
          BY <3>1, <4>2 DEF WireInv, TypeInv
        <5>2. \A d \in Conns : Wire(d)'
          BY <3>1, <4>1, <4>2 DEF WireInv, TypeInv, Wire
        <5> QED  BY <5>1, <5>2 DEF WireInv
      <4>3. CASE op = "reading" /\ peer[c] = "fin" /\ ReadEof(c)
        <5>1. state[c] \in {"Connected", "LocalShutdown"}
          BY <2>2, <4>1, <4>3 DEF WireInv, Wire
        <5>2. TypeInv'
          BY <3>1, <4>3 DEF ReadEof, WireInv, TypeInv, States
        <5>3. \A d \in Conns : Wire(d)'
          BY <3>1, <4>1, <4>3, <5>1 DEF ReadEof, WireInv, TypeInv, Wire
        <5> QED  BY <5>2, <5>3 DEF WireInv
      <4>4. CASE state' = [state EXCEPT ![c] = "Closed"]
        <5>1. TypeInv'
          BY <3>1, <4>4 DEF WireInv, TypeInv, States
        <5>2. \A d \in Conns : Wire(d)'
          BY <3>1, <4>1, <4>4 DEF WireInv, TypeInv, Wire
        <5> QED  BY <5>1, <5>2 DEF WireInv
      <4> QED  BY <1>7, <2>2, <4>2, <4>3, <4>4 DEF CallReturns
    <3> QED  BY <3>2, <3>3
  <2> QED  BY <2>1, <2>2
<1> QED  BY <1>1, <1>2, <1>3, <1>4, <1>5, <1>6, <1>7 DEF Handler

(* Every step keeps both invariants. *)
LEMMA StepKeeps == WireInv /\ UseInv /\ [Next]_vars => (WireInv /\ UseInv)'
<1> SUFFICES ASSUME WireInv, UseInv, [Next]_vars PROVE WireInv' /\ UseInv'
  OBVIOUS
<1>1. CASE UNCHANGED vars
  BY <1>1, ListenerKeeps DEF vars
<1>2. ASSUME NEW c \in Conns, Connect(c) \/ Connected(c) \/ PeerCloses(c) \/ Vanish(c)
      PROVE  WireInv' /\ UseInv'
  BY <1>2, NetworkKeeps
<1>3. ASSUME NEW c \in Conns, Handler(c) PROVE WireInv' /\ UseInv'
  BY <1>3, HandlerKeeps
<1>4. CASE ListenEvent
  BY <1>4, ListenerKeeps DEF ListenEvent
<1>5. CASE AcceptLoop
  <2>1. CASE AcceptNothing \/ AcceptFails \/ ResumeAcceptor
    BY <2>1, ListenerKeeps DEF AcceptNothing, AcceptFails, ResumeAcceptor
  <2>2. ASSUME NEW c \in Conns, Accept(c) PROVE WireInv' /\ UseInv'
    BY <2>2, AcceptKeeps
  <2> QED  BY <1>5, <2>1, <2>2 DEF AcceptLoop
<1>6. ASSUME NEW k \in Starters, Start(k) \/ StartAgain(k) PROVE WireInv' /\ UseInv'
  BY <1>6, ListenerKeeps DEF Start, StartAgain
<1>7. ASSUME NEW k \in Stoppers, Stop(k) PROVE WireInv' /\ UseInv'
  BY <1>7, StopKeeps
<1>8. ASSUME NEW k \in Stoppers, StopReturns(k) PROVE WireInv' /\ UseInv'
  BY <1>8, ListenerKeeps DEF StopReturns
<1> QED  BY <1>1, <1>2, <1>3, <1>4, <1>5, <1>6, <1>7, <1>8 DEF Next

(* state_ of a TcpConnection tells what went over the wire, and no second  *)
(* FIN is sent, in whatever order the peer's FIN, the handler's shutdown() *)
(* and that of TcpServer::stop() come.                                     *)
THEOREM WireMatches == Spec => []StateTellsTheWire
<1>1. WireInv => StateTellsTheWire
  BY DEF WireInv, Wire, StateTellsTheWire
<1> QED  BY WireInit, StepKeeps, <1>1, PTL DEF Spec

(* stop() and the calls of handlers use no Channel that is not there,      *)
(* unless stop() came before started() or forceClose() under a call.       *)
THEOREM ChannelsLive == Spec => []NoDanglingUse
<1>1. UseInv => NoDanglingUse
  BY DEF UseInv
<1> QED  BY WireInit, StepKeeps, <1>1, PTL DEF Spec
-----------------------------------------------------------------------------
(* The connections of the set on which no FIN was sent. *)
Unsent == {c \in connSet : finSent[c] = 0 /\ state[c] # "Closed"}

(* The inductive invariant for StoppedIsQuiet: before start() there is     *)
(* nothing to stop; after stop() the accept loop takes one connection at   *)
(* most, which is the last thing it does.                                  *)
QuietInv ==
    /\ started = 0 => stopPromise = 0 /\ acceptor = "none" /\ interest = 0 /\ connSet = {}
    /\ started = 0 /\ fault = 0 => stopped = 0
    /\ stopPromise = 1 => acceptor \in {"none", "done"} /\ interest = 0
    /\ stopped = 1 /\ fault = 0 =>
          /\ acceptor \notin {"none", "done"} => Unsent = {}
          /\ \A c, d \in Unsent : c = d

LEMMA QuietInit == Init => QuietInv
BY DEF Init, QuietInv, Unsent

(* A connection that was told stays told: no handler makes one Unsent. *)
LEMMA HandlerTells ==
    ASSUME WireInv, NEW c \in Conns, Handler(c)
    PROVE  Unsent' \subseteq Unsent /\ connSet' \subseteq connSet
<1>1. CASE HandlerBegins(c) \/ HandlerReturns(c) \/ Erase(c)
  BY <1>1 DEF HandlerBegins, HandlerReturns, Erase, Unsent
<1>2. CASE HandlerShutdown(c)
  BY <1>2 DEF HandlerShutdown, Shutdown, Shuts, Unsent, WireInv, TypeInv, States
<1>3. CASE ForceClose(c)
  BY <1>3 DEF ForceClose, Unsent, WireInv, TypeInv
<1>4. ASSUME NEW op \in {"reading", "writing"}, Call(c, op)
      PROVE  Unsent' \subseteq Unsent /\ connSet' \subseteq connSet
  BY <1>4 DEF Call, Unsent
<1>5. ASSUME NEW op \in {"reading", "writing"}, CallReturns(c, op)
      PROVE  Unsent' \subseteq Unsent /\ connSet' \subseteq connSet
  <2>1. UNCHANGED <<connSet, finSent>> /\ \A d \in Conns : d # c => state'[d] = state[d]
    BY ZenonT(40), <1>5 DEF CallReturns, ReadEof, WireInv, TypeInv
  <2>2. state[c] = "Closed" => state'[c] = "Closed"
    <3>1. handler[c] = "reading" /\ channel[c] # "gone" => state[c] # "Closed"
      BY DEF WireInv, Wire
    <3> QED  BY ZenonT(40), <1>5, <3>1 DEF CallReturns, WireInv, TypeInv
  <2> QED  BY <2>1, <2>2 DEF Unsent, WireInv, TypeInv
<1> QED  BY <1>1, <1>2, <1>3, <1>4, <1>5 DEF Handler

LEMMA AcceptorQuiet ==
    ASSUME WireInv, QuietInv, AcceptLoop \/ ListenEvent
    PROVE  QuietInv'
<1>1. CASE AcceptNothing \/ ListenEvent
  BY <1>1 DEF AcceptNothing, ListenEvent, Free, QuietInv, Unsent, server, conns
<1>2. CASE AcceptFails
  BY <1>2 DEF AcceptFails, LeaveLoop, QuietInv, Unsent, conns
<1>3. CASE ResumeAcceptor
  BY <1>3 DEF ResumeAcceptor, LeaveLoop, Free, QuietInv, Unsent, conns
<1>4. ASSUME NEW c \in Conns, Accept(c) PROVE QuietInv'
  <2>1. Unsent' \subseteq Unsent \cup {c}
    BY <1>4 DEF Accept, Unsent, WireInv, TypeInv
  <2> QED  BY <1>4, <2>1 DEF Accept, LeaveLoop, QuietInv
<1> QED  BY <1>1, <1>2, <1>3, <1>4 DEF AcceptLoop

(* stop() goes through the set and leaves no connection that was not told. *)
LEMMA StopQuiet ==
    ASSUME WireInv, QuietInv, NEW k \in Stoppers, Stop(k)
    PROVE  QuietInv'
<1> UNCHANGED <<started, stopPromise, connSet>> /\ fault = 0
  BY DEF Stop, Free
<1>1. CASE stopped = 1
  BY <1>1 DEF Stop, QuietInv, Unsent, listener
<1>2. CASE stopped # 1 /\ fault' = 1
  BY <1>2 DEF Stop, QuietInv, CancelListen, listener
<1>3. CASE stopped # 1 /\ fault' # 1
  <2>1. CancelListen /\ Shutdown(connSet) /\ started # 0
    BY <1>3 DEF Stop, Fault
  <2>2. Unsent' = {}
    <3> SUFFICES ASSUME NEW c \in connSet PROVE finSent'[c] # 0 \/ state'[c] = "Closed"
      BY DEF Unsent
    <3>1. c \in Conns /\ Wire(c) /\ state[c] \in States /\ finSent[c] \in Nat
      BY DEF WireInv, TypeInv
    <3> QED  BY <2>1, <3>1 DEF Shutdown, Shuts, Wire, States
  <2> QED  BY <2>1, <2>2 DEF CancelListen, QuietInv
<1> QED  BY <1>1, <1>2, <1>3

LEMMA StepQuiet == WireInv /\ QuietInv /\ [Next]_vars => QuietInv'
<1> SUFFICES ASSUME WireInv, QuietInv, [Next]_vars PROVE QuietInv'
  OBVIOUS
<1>1. CASE UNCHANGED <<server, listener, conns, fault>>
  BY <1>1 DEF server, listener, conns, QuietInv, Unsent
<1>2. ASSUME NEW c \in Conns, Connect(c) \/ Connected(c) \/ PeerCloses(c) \/ Vanish(c)
      PROVE  QuietInv'
  BY <1>1, <1>2 DEF Connect, Connected, PeerCloses, Vanish
<1>3. ASSUME NEW c \in Conns, Handler(c) PROVE QuietInv'
  <2>1. UNCHANGED <<server, listener>> /\ fault = 0
    BY ZenonT(40), <1>3 DEF Handler, HandlerBegins, HandlerShutdown, ForceClose, HandlerReturns, Erase,
                Call, CallReturns, Free
  <2>2. Unsent' \subseteq Unsent /\ connSet' \subseteq connSet
    BY <1>3, HandlerTells
  <2>3. UNCHANGED <<started, stopped, stopPromise, acceptor, interest>>
    BY <2>1 DEF server, listener
  <2> QED  BY <2>1, <2>2, <2>3 DEF QuietInv
<1>4. CASE ListenEvent \/ AcceptLoop
  BY <1>4, AcceptorQuiet
<1>5. ASSUME NEW k \in Starters, Start(k) PROVE QuietInv'
  <2>1. connSet' = {} /\ Unsent' = {}
    BY <1>5 DEF Start, QuietInv, Unsent, conns
  <2> QED  BY <1>5, <2>1 DEF Start, Free, QuietInv
<1>6. ASSUME NEW k \in Starters, StartAgain(k) PROVE QuietInv'
  BY <1>6 DEF StartAgain, QuietInv, Unsent, listener, conns
<1>7. ASSUME NEW k \in Stoppers, Stop(k) PROVE QuietInv'
  BY <1>7, StopQuiet
<1>8. ASSUME NEW k \in Stoppers, StopReturns(k) PROVE QuietInv'
  BY <1>8 DEF StopReturns, QuietInv, Unsent, listener, conns
<1>9. CASE UNCHANGED vars
  BY <1>1, <1>9 DEF vars
<1> QED  BY <1>2, <1>3, <1>4, <1>5, <1>6, <1>7, <1>8, <1>9 DEF Next

(* The equation that defines Cardinality: what it gives for a set of one   *)
(* element at most needs no induction.                                     *)
CountRec(S, f) ==
    f = [T \in SUBSET S |-> IF T = {} THEN 0 ELSE 1 + f[T \ {CHOOSE x : x \in T}]]

LEMMA CountOne ==
    ASSUME NEW S, \A x, y \in S : x = y
    PROVE  Cardinality(S) = IF S = {} THEN 0 ELSE 1
<1> DEFINE g == [T \in SUBSET S |-> IF T = {} THEN 0 ELSE 1]
<1>1. \A T \in SUBSET S : T # {} => T \ {CHOOSE x : x \in T} = {}
  OBVIOUS
<1>2. CountRec(S, g)
  <2>1. \A T \in SUBSET S : g[T] = IF T = {} THEN 0 ELSE 1 + g[T \ {CHOOSE x : x \in T}]
    BY <1>1
  <2> QED  BY <2>1 DEF CountRec
<1>3. CountRec(S, CHOOSE f : CountRec(S, f))
  BY <1>2
<1>4. PICK f : f = (CHOOSE h : CountRec(S, h)) /\ CountRec(S, f)
  BY <1>3
<1>5. Cardinality(S) = f[S]
  BY <1>4 DEF Cardinality, CountRec
<1>6. /\ S = {} => f[S] = 0
      /\ S # {} => f[S] = 1 + f[S \ {CHOOSE x : x \in S}]
  BY ZenonT(40), <1>4 DEF CountRec
<1>7. f[{}] = 0
  BY ZenonT(40), <1>4 DEF CountRec
<1>8. S # {} => f[S] = 1
  BY <1>1, <1>6, <1>7
<1> QED  BY <1>5, <1>6, <1>8

LEMMA QuietImplies == QuietInv => StoppedIsQuiet
<1> SUFFICES ASSUME QuietInv, stopped = 1, fault = 0 PROVE Cardinality(Unsent) <= 1
  BY DEF QuietInv, StoppedIsQuiet, Unsent
<1>1. Unsent = {} \/ \E c : Unsent = {c}
  BY DEF QuietInv
<1>2. \A x, y \in Unsent : x = y
  BY <1>1
<1> QED  BY <1>2, CountOne

(* Once stopPromise_ is set the accept loop has ended and nothing watches  *)
(* the listening socket; after stop() a FIN was sent on every connection   *)
(* that is still open, except at most one.                                 *)
THEOREM StoppedQuiet == Spec => []StoppedIsQuiet
<1>1. Init => WireInv /\ UseInv /\ QuietInv
  BY WireInit, QuietInit
<1>2. WireInv /\ UseInv /\ QuietInv /\ [Next]_vars => (WireInv /\ UseInv /\ QuietInv)'
  BY StepKeeps, StepQuiet
<1> QED  BY <1>1, <1>2, QuietImplies, PTL DEF Spec
=============================================================================
