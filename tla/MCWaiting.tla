----------------------------- MODULE MCWaiting -----------------------------
(***************************************************************************)
(* What coroutines wait with, for TLC: withTimeout() nested three deep, a  *)
(* promise and its futures, a cancellation source and its tokens, and the  *)
(* loop that resumes whoever waits.  A behaviour is one of `on', the other *)
(* three stay in their initial state.                                      *)
(*                                                                         *)
(* The promise has three futures and two racing calls, the token three     *)
(* callbacks, two coroutines and two calls of cancel(); some of each are   *)
(* on the loop's thread and some are not.  The loop is run by one other    *)
(* thread and two tasks: enough for one task to keep the loop busy while   *)
(* the other one waits.                                                    *)
(***************************************************************************)
EXTENDS Timeout

CONSTANTS Null, Closed, Nobody, Owner,
          Futures, Setters, FutureOnLoop,
          Regs, Cancelled, Cancellers, CancelOnLoop,
          Threads, Tasks

(* A node is neither nullptr nor kClosed, and coroutines, calls and        *)
(* registrations are different things.                                     *)
ASSUME WaitingAssumption ==
    /\ Null # Closed /\ {Null, Closed} \cap Futures = {}
    /\ Owner \notin Setters /\ Futures \cap (Setters \cup {Owner}) = {}
    /\ Regs \cap Cancelled = {} /\ Regs \cap Cancellers = {} /\ Cancelled \cap Cancellers = {}

VARIABLES on,
          fScheduler, fHead, fChain, fStored, fPc, fOld, fOutcome, fAt, fGot,
          cClosed, cChain, cCallbacks, cMutex, cActive, cPc, cCbs, cNodes,
          cQueue, cFired,
          phase, running, ready, pending, timers, left, budget, eventfd,
          waitingIo, ioReady, batch, cur, pc, scheduled

F == INSTANCE Future WITH
    Waiters <- Futures, OnLoop <- FutureOnLoop,
    scheduler <- fScheduler, head <- fHead, chain <- fChain,
    stored <- fStored, pc <- fPc, old <- fOld, outcome <- fOutcome,
    at <- fAt, got <- fGot

C == INSTANCE CancelToken WITH
    Waiters <- Cancelled, OnLoop <- CancelOnLoop,
    closed <- cClosed, chain <- cChain, callbacks <- cCallbacks,
    mutex <- cMutex, active <- cActive, pc <- cPc, cbs <- cCbs,
    nodes <- cNodes, queue <- cQueue, fired <- cFired

L == INSTANCE Scheduler WITH
    None <- Nobody, LongSleepers <- {}, Delays <- {0, 3}, LongDelay <- 0,
    TicksPerMs <- 2, DefaultTimeout <- 1, IntMax <- 1

fVars == <<fScheduler, fHead, fChain, fStored, fPc, fOld, fOutcome, fAt, fGot>>
cVars == <<cClosed, cChain, cCallbacks, cMutex, cActive, cPc, cCbs, cNodes,
           cQueue, cFired>>
lVars == <<phase, running, ready, pending, timers, left, budget, eventfd,
           waitingIo, ioReady, batch, cur, pc, scheduled>>
allVars == <<on, vars, fVars, cVars, lVars>>

WaitingInit ==
    /\ on \in {"timeout", "future", "cancel", "loop"}
    /\ Init /\ F!Init /\ C!Init /\ L!Init
    /\ on # "future" => fScheduler = 0

WaitingNext ==
    \/ on = "timeout" /\ Next /\ UNCHANGED <<on, fVars, cVars, lVars>>
    \/ on = "future" /\ F!Next /\ UNCHANGED <<on, vars, cVars, lVars>>
    \/ on = "cancel" /\ C!Next /\ UNCHANGED <<on, vars, fVars, lVars>>
    \/ on = "loop" /\ L!Next /\ UNCHANGED <<on, vars, fVars, cVars>>

(* The fairness of the four modules, each where its component runs. *)
TimeoutFair ==
    \A i \in Levels :
       /\ WF_vars(on = "timeout" /\ AwaitSuspend(i))
       /\ WF_vars(on = "timeout" /\ InnerStep(i))
       /\ WF_vars(on = "timeout" /\ TimerStep(i))
       /\ WF_vars(on = "timeout" /\ AwaitResume(i))

FutureFair ==
    /\ WF_fVars(on = "future" /\ F!Destroy)
    /\ \A s \in Setters \cup {Owner} : WF_fVars(on = "future" /\ F!SetterStep(s))
    /\ \A w \in Futures :
          WF_fVars(on = "future" /\ (F!PushLoad(w) \/ F!PushCas(w) \/ F!AwaitResume(w)))

CancelFair ==
    /\ \A r \in Regs : WF_cVars(on = "cancel" /\ (C!Register(r) \/ C!CallLate(r)))
    /\ \A w \in Cancelled : WF_cVars(on = "cancel" /\ C!RunWaiter(w))
    /\ \A c \in Cancellers : WF_cVars(on = "cancel" /\ C!CancelStep(c))
    /\ WF_cVars(on = "cancel" /\ C!RunDispatched)

LoopFair ==
    /\ WF_lVars(on = "loop" /\ L!Run) /\ WF_lVars(on = "loop" /\ L!Loop)
    /\ WF_lVars(on = "loop" /\ L!Coroutine) /\ WF_lVars(on = "loop" /\ L!Tick)
    /\ \A p \in Threads : WF_lVars(on = "loop" /\ L!ThreadStep(p))

WaitingSpec ==
    /\ WaitingInit /\ [][WaitingNext]_allVars
    /\ TimeoutFair /\ FutureFair /\ CancelFair /\ LoopFair
-----------------------------------------------------------------------------
(* No waiter of a promise or of a token is lost or resumed twice when an   *)
(* await races the set or the cancel(), and cancel() is not inside a       *)
(* callback whose registration was destroyed on the callback's own thread: *)
(* see Future!WaitersAccounted, CancelToken!WaitersAccounted and           *)
(* CancelToken!NotDuringCall.                                              *)
WaitersAccounted ==
    /\ on = "future" => F!TypeOK /\ F!WaitersAccounted
    /\ on = "cancel" => C!TypeOK /\ C!WaitersAccounted /\ C!NotDuringCall

(* Of the racing set_value(), set_exception() and ~Promise() the first one *)
(* decides, and who had suspended receives what it stored: see             *)
(* Future!FirstCallWins and Future!ReceivesUnlessRacing.                   *)
FutureReceives == on = "future" => F!FirstCallWins /\ F!ReceivesUnlessRacing

(* A cancel callback is called at most once, and never after its           *)
(* registration was destroyed on its own thread: see CancelToken!FiresOnce. *)
CallbackOnce == C!FiresOnce

(* Nobody waits for ever: the caller of withTimeout() goes on, whoever     *)
(* awaits a future is resumed once the promise is gone, and cancel()       *)
(* reaches every callback and every waiter: see Timeout!CallerResumed,     *)
(* Future!WaiterResumed and CancelToken!CancelReachesAll.                  *)
WaitsEnd == CallerResumed /\ F!WaiterResumed /\ C!CancelReachesAll

(* Whatever is scheduled is resumed, and, if the coroutines let go of the  *)
(* loop, sleepers are resumed and stop() ends run(): see                   *)
(* Scheduler!ScheduledRuns, SleeperRuns and StopEndsRun.                   *)
LoopServes == L!ScheduledRuns /\ L!SleeperRuns /\ L!StopEndsRun
=============================================================================
