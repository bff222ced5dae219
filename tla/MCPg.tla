-------------------------------- MODULE MCPg --------------------------------
(***************************************************************************)
(* The PostgreSQL extension for TLC.  A behaviour is one of `on': the      *)
(* pool, with three calls of acquire() for two connections, so that a      *)
(* connection given back, broken or cancelled decides who is next; or one  *)
(* connection on which three queries run one after the other, so that a    *)
(* cancelled one is followed by others.  Five connections are as many as   *)
(* the pool and its holders can have between them.                         *)
(***************************************************************************)
EXTENDS PgConnection, FiniteSets

CONSTANTS Acquirers, Conns, MaxSize

ASSUME PoolAssumption ==
    /\ MaxSize \in Nat \ {0}
    /\ IsFiniteSet(Acquirers) /\ Acquirers # {}
    /\ IsFiniteSet(Conns) /\ Cardinality(Conns) >= Cardinality(Acquirers) + MaxSize

VARIABLES on, pool, alive, detached, txn, open, crashed

P == INSTANCE PgPool

pVars == <<pool, alive, detached, txn, open, crashed>>

PgInit == on \in {"pool", "connection"} /\ P!Init /\ Init

PgNext ==
    \/ on = "pool" /\ P!Next /\ UNCHANGED <<on, vars>>
    \/ on = "connection" /\ Next /\ UNCHANGED <<on, pVars>>

(* The fairness of PgPool and of PgConnection, where each of them runs. *)
PoolFair ==
    /\ \A c \in Conns : /\ WF_pVars(on = "pool" /\ P!Connecting(c))
                        /\ WF_pVars(on = "pool" /\ P!Returned(c))
    /\ \A a \in Acquirers : /\ WF_pVars(on = "pool" /\ P!AcquireReturns(a))
                            /\ WF_pVars(on = "pool" /\ P!LetGo(a))

ConnectionFair ==
    /\ WF_vars(on = "connection" /\ ConnectPolls)
    /\ WF_vars(on = "connection" /\ ConnectCanceled)
    /\ WF_vars(on = "connection" /\ FlushEnds)
    /\ WF_vars(on = "connection" /\ FlushCanceled)
    /\ WF_vars(on = "connection" /\ QueryEnds)
    /\ WF_vars(on = "connection" /\ ReadEvent)
    /\ WF_vars(on = "connection" /\ ReaderRuns)
    /\ WF_vars(on = "connection" /\ ReaderCanceled)
    /\ WF_vars(on = "connection" /\ FlushEvent)
    /\ WF_vars(on = "connection" /\ Answers)

PgSpec ==
    PgInit /\ [][PgNext]_<<on, vars, pVars>> /\ PoolFair /\ ConnectionFair
-----------------------------------------------------------------------------
(* The pool counts its connections right: see PgPool!PoolAccounted. *)
PoolAccounted == on = "pool" => P!PoolAccounted

(* A connection is given out without a transaction: see                    *)
(* PgPool!NoTransactionLeaks.                                              *)
NoTransactionLeaks == on = "pool" => P!NoTransactionLeaks

(* acquire(), query() and connect() end: see PgPool!AcquireEnds and        *)
(* PgConnection!CallsEnd.                                                  *)
PgCallsEnd == P!AcquireEnds /\ CallsEnd
=============================================================================
