------------------------------- MODULE Future -------------------------------
(***************************************************************************)
(* Promise, Future and SharedFuture of include/nitrocoro/core/Future.h     *)
(* over the closable list of LockFreeList.h: coroutines that await the     *)
(* value, calls of set_value() and set_exception(), and ~Promise().        *)
(*                                                                         *)
(* OnLoop holds the coroutines and the calls that run on the scheduler's   *)
(* thread; every other one has a thread of its own.  What runs on the      *)
(* scheduler's thread is not interrupted by what else runs there.          *)
(***************************************************************************)
EXTENDS Naturals, Sequences

CONSTANTS Waiters,      \* coroutines that co_await get(), and their nodes
          Setters,      \* calls of set_value() or set_exception()
          OnLoop,       \* those of them on the scheduler's thread
          Owner,        \* ~Promise()
          Null, Closed  \* nullptr and kClosed

Actors == Waiters \cup Setters \cup {Owner}

VARIABLES scheduler, \* scheduler_: 1 if it is not null
          head,      \* waiters_
          chain,     \* the nodes waiters_ leads to, newest first
          stored,    \* value_ or exception_, "empty" until one is set
          pc,        \* where each actor is
          old,       \* a pusher's `cur'
          outcome,   \* what a setter was called with
          at,        \* the nodes resumeAll() has still to go through
          got        \* what await_resume() read

vars == <<scheduler, head, chain, stored, pc, old, outcome, at, got>>

Goto(a, l) == pc' = [pc EXCEPT ![a] = l]

(* Inside a call: between two steps of it nothing else runs on its thread. *)
MidCall(a) == pc[a] \in {"load", "cas", "store", "resumeAll"}

CanRun(a) ==
    a \in OnLoop => \A b \in OnLoop \ {a} : ~MidCall(b)

Init ==
    /\ scheduler \in 0..1
    /\ head = Null /\ chain = <<>> /\ stored = "empty"
    /\ pc = [a \in Actors |-> "idle"]
    /\ old = [w \in Waiters |-> Null]
    /\ outcome = [s \in Setters \cup {Owner} |-> "empty"]
    /\ at = [s \in Setters \cup {Owner} |-> <<>>]
    /\ got = [w \in Waiters |-> "nothing"]
-----------------------------------------------------------------------------
(* get() and await_ready(): closed() *)
AwaitReady(w) ==
    /\ pc[w] = "idle" /\ CanRun(w)
    /\ Goto(w, IF head = Closed THEN "resumed" ELSE "load")
    /\ UNCHANGED <<scheduler, head, chain, stored, old, outcome, at, got>>

(* await_suspend(): push() loads head, or a failed compare-exchange does; *)
(* if it is closed the coroutine goes on.                                  *)
PushLoad(w) ==
    /\ \/ pc[w] = "load"
       \/ pc[w] = "cas" /\ head # old[w]
    /\ CanRun(w)
    /\ old' = [old EXCEPT ![w] = IF head = Closed THEN Null ELSE head]
    /\ Goto(w, IF head = Closed THEN "resumed" ELSE "cas")
    /\ UNCHANGED <<scheduler, head, chain, stored, outcome, at, got>>

(* push(): the compare-exchange succeeds, the coroutine stays suspended. *)
PushOn(w, rest) ==
    /\ pc[w] = "cas" /\ CanRun(w)
    /\ head' = w
    /\ chain' = <<w>> \o rest
    /\ old' = [old EXCEPT ![w] = Null]
    /\ Goto(w, "suspended")
    /\ UNCHANGED <<scheduler, stored, outcome, at, got>>

BugPushCas(w) == PushOn(w, IF old[w] = Null THEN <<>> ELSE chain)

PushCas(w) == head = old[w] /\ PushOn(w, chain)

(* await_resume(): rethrow exception_, or take what value_ holds.  The     *)
(* scheduler's thread runs a coroutine that had suspended.                 *)
AwaitResume(w) ==
    /\ \/ pc[w] = "resumed" /\ CanRun(w)
       \/ pc[w] = "scheduled" /\ \A b \in OnLoop : ~MidCall(b)
    /\ got' = [got EXCEPT ![w] = stored]
    /\ Goto(w, "done")
    /\ UNCHANGED <<scheduler, head, chain, stored, old, outcome, at>>
-----------------------------------------------------------------------------
(* close() by a call with result v: the second one to come throws          *)
(* promise_already_satisfied.                                              *)
CloseList(s, v) ==
    /\ IF head = Closed
         THEN Goto(s, "threw") /\ UNCHANGED <<head, chain, outcome, at>>
         ELSE /\ head' = Closed
              /\ chain' = <<>>
              /\ at' = [at EXCEPT ![s] = chain]
              /\ outcome' = [outcome EXCEPT ![s] = v]
              /\ Goto(s, "store")
    /\ UNCHANGED <<scheduler, stored, old, got>>

(* set_value() and set_exception() on a promise that has not been destroyed. *)
BugSet(s) ==
    /\ pc[s] = "idle" /\ pc[Owner] = "idle" /\ CanRun(s)
    /\ \E v \in {"value", "exception"} :
          /\ head' = Closed
          /\ chain' = <<>>
          /\ at' = [at EXCEPT ![s] = chain]
          /\ outcome' = [outcome EXCEPT ![s] = v]
    /\ Goto(s, "store")
    /\ UNCHANGED <<scheduler, stored, old, got>>

BugSetNoStore(s) ==
    /\ pc[s] = "idle" /\ pc[Owner] = "idle" /\ CanRun(s)
    /\ head # Closed
    /\ head' = Closed
    /\ chain' = <<>>
    /\ at' = [at EXCEPT ![s] = chain]
    /\ Goto(s, "resumeAll")
    /\ UNCHANGED <<scheduler, stored, old, outcome, got>>

Set(s) ==
    /\ pc[s] = "idle" /\ pc[Owner] = "idle" /\ CanRun(s)
    /\ \E v \in {"value", "exception"} : CloseList(s, v)

(* ~Promise(): its owner destroys it when no call is running; it breaks    *)
(* the promise if nobody has set it.                                       *)
BugDestroy ==
    /\ pc[Owner] = "idle" /\ CanRun(Owner)
    /\ \A s \in Setters : ~MidCall(s)
    /\ Goto(Owner, "done")
    /\ UNCHANGED <<scheduler, head, chain, stored, old, outcome, at, got>>

Destroy ==
    /\ pc[Owner] = "idle" /\ CanRun(Owner)
    /\ \A s \in Setters : ~MidCall(s)
    /\ IF head = Closed
         THEN Goto(Owner, "done")
              /\ UNCHANGED <<scheduler, head, chain, stored, old, outcome, at, got>>
         ELSE CloseList(Owner, "broken_promise")

(* value_.emplace() or exception_ = ex *)
Store(s) ==
    /\ pc[s] = "store"
    /\ stored' = outcome[s]
    /\ Goto(s, "resumeAll")
    /\ UNCHANGED <<scheduler, head, chain, old, outcome, at, got>>

(* resumeAll(): one iteration.  Without a scheduler the coroutine runs     *)
(* here, inside the call, and may free its node before the next iteration. *)
ResumeNext(s) ==
    LET n == at[s][1] IN
    /\ pc[s] = "resumeAll" /\ at[s] # <<>>
    /\ at' = [at EXCEPT ![s] = Tail(@)]
    /\ IF scheduler = 1
         THEN Goto(n, "scheduled") /\ UNCHANGED got
         ELSE Goto(n, "done") /\ got' = [got EXCEPT ![n] = stored]
    /\ UNCHANGED <<scheduler, head, chain, stored, old, outcome>>

SetDone(s) ==
    /\ pc[s] = "resumeAll" /\ at[s] = <<>>
    /\ Goto(s, "done")
    /\ UNCHANGED <<scheduler, head, chain, stored, old, outcome, at, got>>

WaiterStep(w) == AwaitReady(w) \/ PushLoad(w) \/ PushCas(w) \/ AwaitResume(w)

SetterStep(s) == Store(s) \/ ResumeNext(s) \/ SetDone(s)

Next ==
    \/ \E w \in Waiters : WaiterStep(w)
    \/ \E s \in Setters : Set(s)
    \/ Destroy
    \/ \E s \in Setters \cup {Owner} : SetterStep(s)

Spec == Init /\ [][Next]_vars

(* The promise is destroyed some day and calls run to their end; nobody    *)
(* has to set it.                                                          *)
FairSpec ==
    /\ Spec
    /\ WF_vars(Destroy)
    /\ \A s \in Setters \cup {Owner} : WF_vars(SetterStep(s))
    /\ \A w \in Waiters : WF_vars(PushLoad(w) \/ PushCas(w) \/ AwaitResume(w))
-----------------------------------------------------------------------------
(* The variables have their types. *)
TypeOK ==
    /\ scheduler \in 0..1
    /\ head \in Waiters \cup {Null, Closed}
    /\ chain \in Seq(Waiters)
    /\ chain = <<>> <=> head \in {Null, Closed}
    /\ stored \in {"empty", "value", "exception", "broken_promise"}
    /\ pc \in [Actors -> {"idle", "load", "cas", "suspended", "scheduled", "resumed",
                          "store", "resumeAll", "threw", "done"}]
    /\ old \in [Waiters -> Waiters \cup {Null}]
    /\ outcome \in [Setters \cup {Owner} ->
                      {"empty", "value", "exception", "broken_promise"}]
    /\ at \in [Setters \cup {Owner} -> Seq(Waiters)]
    /\ got \in [Waiters -> {"nothing", "empty", "value", "exception", "broken_promise"}]

(* Every suspended coroutine is reachable exactly once, from waiters_ or   *)
(* from the resumeAll() that will resume it, and resumeAll() never reaches *)
(* a node whose coroutine has gone on (and freed it) or resumes one twice. *)
WaitersAccounted ==
    \A w \in Waiters :
       LET places == {<<"list", i>> : i \in {j \in 1..Len(chain) : chain[j] = w}}
              \cup UNION {{<<s, i>> : i \in {j \in 1..Len(at[s]) : at[s][j] = w}} :
                            s \in Setters \cup {Owner}}
       IN  IF pc[w] = "suspended"
             THEN \E x \in places : places = {x}
             ELSE places = {}

(* The first call decides: at most one call gets past close(), and what it *)
(* stored is never overwritten.                                            *)
FirstCallWins ==
    \A s \in Setters \cup {Owner} :
       pc[s] \in {"resumeAll", "done"} /\ outcome[s] # "empty" => stored = outcome[s]

(* A coroutine finds the result there when it goes on, if it had suspended, *)
(* or if the call that sets the result is on its own thread.               *)
ReceivesUnlessRacing ==
    \A w \in Waiters :
       /\ pc[w] = "scheduled" => stored # "empty"
       /\ got[w] = "empty" => \A s \in Setters \cup {Owner} :
             outcome[s] # "empty" => {w, s} \cap OnLoop # {w, s}

(* A value set by Promise is received by the awaiting Future: await_resume *)
(* never finds the result missing.                                         *)
ReceivesWhatWasSet == \A w \in Waiters : got[w] # "empty"

(* A suspended coroutine is resumed in the end, by a result or by          *)
(* broken_promise: none stays suspended or scheduled for ever.             *)
WaiterResumed == \A w \in Waiters : []<>(pc[w] \notin {"suspended", "scheduled"})
=============================================================================
