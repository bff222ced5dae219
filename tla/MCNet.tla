------------------------------- MODULE MCNet -------------------------------
(***************************************************************************)
(* The network layer for TLC.  A behaviour is one of `on': a TcpServer     *)
(* with two clients, two calls of start() and one of stop(), which also    *)
(* finds the server stopped already when listen() has failed; or a         *)
(* DnsResolver whose two callers may ask for the same key, on a pool of    *)
(* two threads, with a purge at every second store instead of every        *)
(* sixteenth and a clock that lets every answer expire.                    *)
(***************************************************************************)
EXTENDS TcpServer

CONSTANTS Workers, Callers, Keys, TTL, PurgeEvery, MaxTime

VARIABLES on,
          tasks, stop, worker, job, now, resolver, cache, pending, expiryQueue,
          writes, caller, ask, asked, via, got, step, stamp, taken

D == INSTANCE DnsResolver

dVars == <<tasks, stop, worker, job, now, resolver, cache, pending, expiryQueue,
           writes, caller, ask, asked, via, got, step, stamp, taken>>

NetInit == on \in {"tcp", "dns"} /\ Init /\ D!Init

NetNext ==
    \/ on = "tcp" /\ Next /\ UNCHANGED <<on, dVars>>
    \/ on = "dns" /\ D!Next /\ UNCHANGED <<on, vars>>

(* The fairness of TcpServer and of DnsResolver, where each of them runs. *)
NetSpec ==
    /\ NetInit /\ [][NetNext]_<<on, vars, dVars>>
    /\ WF_vars(on = "tcp" /\ AcceptLoop)
    /\ \A k \in Stoppers : WF_vars(on = "tcp" /\ StopReturns(k))
    /\ \A c \in Callers :
          WF_dVars(on = "dns" /\ (D!ReadCache(c) \/ D!PostLookup(c) \/ D!NotifyPool(c)
                                    \/ D!Return(c)))
    /\ \A w \in Workers : WF_dVars(on = "dns" /\ D!Work(w))
    /\ WF_dVars(on = "dns" /\ D!DestroyPool)
-----------------------------------------------------------------------------
(* One lookup per key somebody waits for: see DnsResolver!LookupsAccounted. *)
LookupsAccounted == on = "dns" => D!LookupsAccounted

(* Nobody is given an expired answer: see DnsResolver!AnswersFresh. *)
AnswersFresh == on = "dns" => D!AnswersFresh

(* stop() and start() return, resolve() returns and the pool's threads     *)
(* end: see TcpServer!StopEnds and DnsResolver!ResolveReturns.             *)
NetCallsEnd == StopEnds /\ D!ResolveReturns
=============================================================================
