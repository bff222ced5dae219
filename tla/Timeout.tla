------------------------------ MODULE Timeout ------------------------------
(***************************************************************************)
(* withTimeout() of include/nitrocoro/core/Timeout.h, nested: level i + 1  *)
(* is the awaitable of level i, and the awaitable of level Depth is any    *)
(* operation that ends with a value or an exception.                       *)
(*                                                                         *)
(* timeoutInner() and timeoutTimer() may be on different threads (the      *)
(* awaitable may switch schedulers), so every access to the shared state   *)
(* is a step.                                                              *)
(***************************************************************************)
EXTENDS Naturals

CONSTANT Depth       \* how many withTimeout() calls are nested

ASSUME DepthAssumption == Depth \in Nat \ {0}

Levels == 1..Depth

Results == {"value", "exception", "timeout"}

VARIABLES done,      \* done_: 1 once one side has won
          result,    \* value_ and exception_, "none" until timeoutInner stores
          timedOut,  \* timed_out_
          inner,     \* where timeoutInner() of each level is
          timer,     \* where timeoutTimer() of each level is
          caller,    \* where the coroutine that awaits each level is
          got        \* what await_resume() of each level gave its caller

vars == <<done, result, timedOut, inner, timer, caller, got>>

Init ==
    /\ done = [i \in Levels |-> 0]
    /\ result = [i \in Levels |-> "none"]
    /\ timedOut = [i \in Levels |-> 0]
    /\ inner = [i \in Levels |-> "none"]
    /\ timer = [i \in Levels |-> "none"]
    /\ caller = [i \in Levels |-> "none"]
    /\ got = [i \in Levels |-> "none"]

(* await_suspend(): the two coroutines are spawned.  The caller of level   *)
(* i + 1 is the inner coroutine of level i.                                *)
AwaitSuspend(i) ==
    /\ caller[i] = "none"
    /\ i # 1 => inner[i - 1] = "started"
    /\ caller' = [caller EXCEPT ![i] = "suspended"]
    /\ inner' = [inner EXCEPT ![i] = "started"]
    /\ timer' = [timer EXCEPT ![i] = "sleeping"]
    /\ UNCHANGED <<done, result, timedOut, got>>

(* timeoutInner(): the awaitable ends with r, which is stored at once, be  *)
(* it too late or not.                                                     *)
StoreResult(i, r) ==
    /\ inner[i] = "started"
    /\ result' = [result EXCEPT ![i] = r]
    /\ inner' = [inner EXCEPT ![i] = "stored"]
    /\ UNCHANGED <<done, timedOut, timer, caller, got>>

InnerEnds(i) ==
    \/ /\ i = Depth
       /\ \E r \in {"value", "exception"} : StoreResult(i, r)
    \/ /\ i < Depth
       /\ caller[i + 1] = "resumed"
       /\ StoreResult(i, IF got[i + 1] = "value" THEN "value" ELSE "exception")

(* timeoutInner(): compare-exchange done_, and if it won schedule the      *)
(* caller.                                                                 *)
BugInnerFinishes(i) ==
    /\ inner[i] = "stored"
    /\ inner' = [inner EXCEPT ![i] = "ended"]
    /\ done' = [done EXCEPT ![i] = 1]
    /\ caller' = [caller EXCEPT ![i] = "scheduled"]
    /\ UNCHANGED <<result, timedOut, timer, got>>

InnerFinishes(i) ==
    /\ inner[i] = "stored"
    /\ inner' = [inner EXCEPT ![i] = "ended"]
    /\ done' = [done EXCEPT ![i] = 1]
    /\ caller' = [caller EXCEPT ![i] = IF done[i] = 0 THEN "scheduled" ELSE @]
    /\ UNCHANGED <<result, timedOut, timer, got>>

(* timeoutTimer(): the deadline has come, compare-exchange done_. *)
TimerFires(i) ==
    /\ timer[i] = "sleeping"
    /\ done' = [done EXCEPT ![i] = 1]
    /\ timer' = [timer EXCEPT ![i] = IF done[i] = 0 THEN "won" ELSE "ended"]
    /\ UNCHANGED <<result, timedOut, inner, caller, got>>

(* timeoutTimer(): timed_out_ = true *)
TimerMarks(i) ==
    /\ timer[i] = "won"
    /\ timedOut' = [timedOut EXCEPT ![i] = 1]
    /\ timer' = [timer EXCEPT ![i] = "marked"]
    /\ UNCHANGED <<done, result, inner, caller, got>>

BugTimerSchedules(i) ==
    /\ timer[i] = "marked"
    /\ timer' = [timer EXCEPT ![i] = "ended"]
    /\ UNCHANGED <<done, result, timedOut, inner, caller, got>>

TimerSchedules(i) ==
    /\ timer[i] = "marked"
    /\ timer' = [timer EXCEPT ![i] = "ended"]
    /\ caller' = [caller EXCEPT ![i] = "scheduled"]
    /\ UNCHANGED <<done, result, timedOut, inner, got>>

(* await_resume(): TimeoutException, the exception or the value. *)
BugAwaitResume(i) ==
    /\ caller[i] = "scheduled"
    /\ caller' = [caller EXCEPT ![i] = "resumed"]
    /\ got' = [got EXCEPT ![i] = IF result[i] # "none" THEN result[i] ELSE "timeout"]
    /\ UNCHANGED <<done, result, timedOut, inner, timer>>

AwaitResume(i) ==
    /\ caller[i] = "scheduled"
    /\ caller' = [caller EXCEPT ![i] = "resumed"]
    /\ got' = [got EXCEPT ![i] = IF timedOut[i] = 1 THEN "timeout" ELSE result[i]]
    /\ UNCHANGED <<done, result, timedOut, inner, timer>>

InnerStep(i) == InnerFinishes(i) \/ (i < Depth /\ InnerEnds(i))

TimerStep(i) == TimerFires(i) \/ TimerMarks(i) \/ TimerSchedules(i)

Next ==
    \E i \in Levels : \/ AwaitSuspend(i) \/ InnerEnds(i) \/ InnerFinishes(i)
                      \/ TimerStep(i) \/ AwaitResume(i)

Spec == Init /\ [][Next]_vars

(* Deadlines come and scheduled coroutines run; the operation at the       *)
(* bottom need never end.                                                  *)
FairSpec ==
    /\ Spec
    /\ \A i \in Levels : /\ WF_vars(AwaitSuspend(i)) /\ WF_vars(InnerStep(i))
                         /\ WF_vars(TimerStep(i)) /\ WF_vars(AwaitResume(i))
-----------------------------------------------------------------------------
(* The variables have their types. *)
TypeOK ==
    /\ done \in [Levels -> 0..1]
    /\ result \in [Levels -> {"none", "value", "exception"}]
    /\ timedOut \in [Levels -> 0..1]
    /\ inner \in [Levels -> {"none", "started", "stored", "ended"}]
    /\ timer \in [Levels -> {"none", "sleeping", "won", "marked", "ended"}]
    /\ caller \in [Levels -> {"none", "suspended", "scheduled", "resumed"}]
    /\ got \in [Levels -> Results \cup {"none"}]
    /\ \A i \in Levels : caller[i] = "resumed" => got[i] \in Results

(* The caller is scheduled by the side that won and by no other, and never *)
(* again after it has been resumed (its frame may be gone by then).        *)
ResumedOnce ==
    [][\A i \in Levels : caller'[i] # caller[i] =>
          <<caller[i], caller'[i]>> \in {<<"none", "suspended">>,
             <<"suspended", "scheduled">>, <<"scheduled", "resumed">>}]_vars

(* What the caller gets and which side won agree: it is told of a timeout  *)
(* exactly if the timer won, whatever the inner coroutine stores later.    *)
WinnerDecides ==
    \A i \in Levels :
       caller[i] \in {"scheduled", "resumed"} =>
          /\ done[i] = 1
          /\ timedOut[i] = 0 => inner[i] = "ended" /\ result[i] # "none"
          /\ caller[i] = "resumed" => (got[i] = "timeout" <=> timedOut[i] = 1)

(* Whoever awaits with a timeout is resumed, even if the operation hangs:  *)
(* no caller stays suspended, or scheduled but not resumed, for ever.      *)
CallerResumed ==
    \A i \in Levels : []<>(caller[i] \notin {"suspended", "scheduled"})
=============================================================================
