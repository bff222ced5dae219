---------------------------- MODULE FutureProofs ----------------------------
(***************************************************************************)
(* For any depth of nesting the race of withTimeout() has one winner; for  *)
(* any coroutines and calls no waiter of a promise is lost or resumed      *)
(* twice, and what a promise stores is what is received.                   *)
(***************************************************************************)
EXTENDS MCWaiting, Integers, Sequences, TLAPS

(* How far the two sides and the caller of one level are, given who has    *)
(* set done_: the caller stays suspended until the winner is through with  *)
(* it, and the loser never touches it.                                     *)
Race(i) ==
    /\ caller[i] = "none" => inner[i] = "none" /\ timer[i] = "none"
    /\ inner[i] \in {"none", "started"} <=> result[i] = "none"
    /\ inner[i] = "ended" => done[i] = 1
    /\ timedOut[i] = 1 => timer[i] \in {"marked", "ended"}
    /\ timer[i] = "marked" => timedOut[i] = 1
    /\ done[i] = 0 => /\ caller[i] \in {"none", "suspended"}
                      /\ timer[i] \in {"none", "sleeping"}
    /\ timer[i] \in {"won", "marked"} => caller[i] = "suspended"
    /\ done[i] = 1 => /\ caller[i] # "none"
                      /\ caller[i] = "suspended" => timer[i] \in {"won", "marked"}
    /\ caller[i] \in {"scheduled", "resumed"} /\ timedOut[i] = 0 => inner[i] = "ended"
    /\ caller[i] = "resumed" => (got[i] = "timeout" <=> timedOut[i] = 1)

(* The inductive invariant. *)
IInv == TypeOK /\ \A i \in Levels : Race(i)

LEMMA InitInv == Init => IInv
BY DEF Init, IInv, TypeOK, Race, Results

LEMMA NextInv == IInv /\ [Next]_vars => IInv'
<1> SUFFICES ASSUME IInv, [Next]_vars PROVE IInv'
  BY ZenonT(40)
<1> USE DEF IInv
<1>1. CASE UNCHANGED vars
  BY ZenonT(40), <1>1 DEF vars, TypeOK, Race, Results
<1>2. ASSUME NEW i \in Levels, AwaitSuspend(i) PROVE IInv'
  BY <1>2 DEF AwaitSuspend, TypeOK, Race, Results
<1>3. ASSUME NEW i \in Levels, InnerEnds(i) PROVE IInv'
  <2> PICK r \in {"value", "exception"} : StoreResult(i, r)
    BY ZenonT(40), <1>3 DEF InnerEnds
  <2> QED
    BY DEF StoreResult, TypeOK, Race, Results
<1>4. ASSUME NEW i \in Levels, InnerFinishes(i) PROVE IInv'
  BY <1>4 DEF InnerFinishes, TypeOK, Race, Results
<1>5. ASSUME NEW i \in Levels, TimerFires(i) PROVE IInv'
  BY <1>5 DEF TimerFires, TypeOK, Race, Results
<1>6. ASSUME NEW i \in Levels, TimerMarks(i) PROVE IInv'
  BY <1>6 DEF TimerMarks, TypeOK, Race, Results
<1>7. ASSUME NEW i \in Levels, TimerSchedules(i) PROVE IInv'
  BY <1>7 DEF TimerSchedules, TypeOK, Race, Results
<1>8. ASSUME NEW i \in Levels, AwaitResume(i) PROVE IInv'
  BY <1>8 DEF AwaitResume, TypeOK, Race, Results
<1> QED
  BY ZenonT(40), <1>1, <1>2, <1>3, <1>4, <1>5, <1>6, <1>7, <1>8 DEF Next, TimerStep

LEMMA InvariantHolds == Spec => []IInv
BY InitInv, NextInv, PTL DEF Spec

(* The variables of withTimeout() keep their types, however deep the calls *)
(* are nested.                                                             *)
THEOREM TypeCorrect == Spec => []TypeOK
<1>1. IInv => TypeOK
  BY ZenonT(40) DEF IInv
<1> QED
  BY <1>1, InvariantHolds, PTL

(* TimeoutException is thrown exactly if the timer won the exchange of     *)
(* done_, and otherwise the inner coroutine has stored its result.         *)
THEOREM OneWinner == Spec => []WinnerDecides
<1>1. IInv => WinnerDecides
  BY DEF IInv, TypeOK, Race, WinnerDecides
<1> QED
  BY <1>1, InvariantHolds, PTL

(* The caller is scheduled once: the losing side leaves it alone. *)
THEOREM CallerScheduledOnce == Spec => ResumedOnce
<1> DEFINE Moves == \A i \in Levels : caller'[i] # caller[i] =>
          <<caller[i], caller'[i]>> \in {<<"none", "suspended">>,
             <<"suspended", "scheduled">>, <<"scheduled", "resumed">>}
<1>1. IInv /\ [Next]_vars => [Moves]_vars
  <2> SUFFICES ASSUME IInv, Next PROVE Moves
    OBVIOUS
  <2> USE DEF IInv
  <2>1. ASSUME NEW i \in Levels, AwaitSuspend(i) PROVE Moves
    BY ZenonT(40), <2>1 DEF AwaitSuspend, TypeOK
  <2>2. ASSUME NEW i \in Levels, InnerEnds(i) PROVE Moves
    BY ZenonT(40), <2>2 DEF InnerEnds, StoreResult
  <2>3. ASSUME NEW i \in Levels, InnerFinishes(i) PROVE Moves
    BY ZenonT(40), <2>3 DEF InnerFinishes, TypeOK, Race
  <2>4. ASSUME NEW i \in Levels, TimerStep(i) PROVE Moves
    BY <2>4 DEF TimerStep, TimerFires, TimerMarks, TimerSchedules, TypeOK, Race
  <2>5. ASSUME NEW i \in Levels, AwaitResume(i) PROVE Moves
    BY <2>5 DEF AwaitResume, TypeOK
  <2> QED
    BY ZenonT(40), <2>1, <2>2, <2>3, <2>4, <2>5 DEF Next
<1> QED
  BY <1>1, InvariantHolds, PTL DEF Spec, ResumedOnce
-----------------------------------------------------------------------------
(* Lists of waiters. *)

Distinct(s) == \A i, j \in 1..Len(s) : s[i] = s[j] => i = j

In(w, s) == \E k \in 1..Len(s) : s[k] = w

LEMMA Prepended ==
    ASSUME NEW T, NEW s \in Seq(T), Distinct(s), NEW e \in T, ~In(e, s)
    PROVE  /\ <<e>> \o s \in Seq(T) /\ <<e>> \o s # <<>>
           /\ Distinct(<<e>> \o s)
           /\ \A w \in T : In(w, <<e>> \o s) <=> In(w, s) \/ w = e
<1> DEFINE t == <<e>> \o s
<1>1. /\ t \in Seq(T) /\ Len(t) = Len(s) + 1 /\ Len(s) \in Nat
      /\ t[1] = e /\ \A k \in 1..Len(s) : t[k + 1] = s[k]
  OBVIOUS
<1> HIDE DEF t
<1>2. \A k \in 2..Len(t) : k - 1 \in 1..Len(s) /\ t[k] = s[k - 1]
  <2> TAKE k \in 2..Len(t)
  <2>1. k - 1 \in 1..Len(s) /\ (k - 1) + 1 = k
    BY <1>1
  <2> QED  BY <1>1, <2>1
<1>3. Distinct(t)
  <2> SUFFICES ASSUME NEW i \in 1..Len(t), NEW j \in 1..Len(t), t[i] = t[j] PROVE i = j
    BY DEF Distinct
  <2>1. CASE i = 1 /\ j = 1  BY <2>1
  <2>2. CASE i = 1 /\ j # 1  BY <1>1, <1>2, <2>2 DEF In
  <2>3. CASE i # 1 /\ j = 1  BY <1>1, <1>2, <2>3 DEF In
  <2>4. CASE i # 1 /\ j # 1
    <3>1. i - 1 = j - 1
      BY <1>1, <1>2, <2>4 DEF Distinct
    <3> QED  BY <1>1, <3>1
  <2> QED  BY ZenonT(40), <2>1, <2>2, <2>3, <2>4
<1>4. ASSUME NEW w \in T PROVE In(w, t) <=> In(w, s) \/ w = e
  <2>1. ASSUME In(w, t) PROVE In(w, s) \/ w = e
    <3>1. PICK k \in 1..Len(t) : t[k] = w
      BY <2>1 DEF In
    <3>2. CASE k = 1  BY ZenonT(40), <1>1, <3>1, <3>2
    <3>3. CASE k # 1  BY <1>1, <1>2, <3>1, <3>3 DEF In
    <3> QED  BY <3>2, <3>3
  <2>2. ASSUME In(w, s) PROVE In(w, t)
    <3>1. PICK k \in 1..Len(s) : s[k] = w
      BY <2>2 DEF In
    <3>2. k + 1 \in 1..Len(t) /\ t[k + 1] = w
      BY <1>1, <3>1
    <3> QED  BY <3>2 DEF In
  <2>3. In(e, t)
    BY <1>1 DEF In
  <2> QED  BY <2>1, <2>2, <2>3
<1> QED  BY <1>1, <1>3, <1>4 DEF t

LEMMA Shortened ==
    ASSUME NEW T, NEW s \in Seq(T), s # <<>>
    PROVE  /\ Tail(s) \in Seq(T) /\ s[1] \in T /\ In(s[1], s)
           /\ \A w \in T : In(w, Tail(s)) => In(w, s)
           /\ Distinct(s) => /\ Distinct(Tail(s))
                             /\ \A w \in T : In(w, Tail(s)) <=> In(w, s) /\ w # s[1]
<1>1. /\ Tail(s) \in Seq(T) /\ Len(Tail(s)) = Len(s) - 1 /\ Len(s) \in Nat \ {0}
      /\ \A k \in 1..Len(Tail(s)) : Tail(s)[k] = s[k + 1] /\ k + 1 \in 1..Len(s) /\ k + 1 # 1
      /\ s[1] \in T
  OBVIOUS
<1>2. In(s[1], s)
  BY <1>1 DEF In
<1>3. ASSUME NEW w \in T, In(w, Tail(s)) PROVE In(w, s)
  BY ZenonT(40), <1>1, <1>3 DEF In
<1>4. ASSUME Distinct(s) PROVE Distinct(Tail(s))
  <2> SUFFICES ASSUME NEW i \in 1..Len(Tail(s)), NEW j \in 1..Len(Tail(s)),
                      Tail(s)[i] = Tail(s)[j]
               PROVE  i = j
    BY DEF Distinct
  <2>1. i + 1 = j + 1
    BY <1>1, <1>4 DEF Distinct
  <2> QED  BY <2>1
<1>5. ASSUME Distinct(s), NEW w \in T PROVE In(w, Tail(s)) <=> In(w, s) /\ w # s[1]
  <2>1. ASSUME In(w, Tail(s)) PROVE w # s[1]
    <3>1. PICK k \in 1..Len(Tail(s)) : Tail(s)[k] = w
      BY <2>1 DEF In
    <3>2. k + 1 \in 1..Len(s) /\ s[k + 1] = w /\ 1 \in 1..Len(s) /\ k + 1 # 1
      BY <1>1, <3>1
    <3> QED  BY ZenonT(40), <1>5, <3>2 DEF Distinct
  <2>2. ASSUME In(w, s), w # s[1] PROVE In(w, Tail(s))
    <3>1. PICK k \in 1..Len(s) : s[k] = w
      BY <2>2 DEF In
    <3>2. k - 1 \in 1..Len(Tail(s)) /\ Tail(s)[k - 1] = w
      BY <1>1, <2>2, <3>1
    <3> QED  BY ZenonT(40), <3>2 DEF In
  <2> QED  BY ZenonT(40), <1>3, <2>1, <2>2
<1> QED  BY ZenonT(40), <1>1, <1>2, <1>3, <1>4, <1>5

(* A coroutine that is in one list only, once, has one place. *)
Places(w, chain, S, at) ==
    {<<"list", i>> : i \in {j \in 1..Len(chain) : chain[j] = w}}
      \cup UNION {{<<s, i>> : i \in {j \in 1..Len(at[s]) : at[s][j] = w}} : s \in S}

LEMMA OnePlace ==
    ASSUME NEW w, NEW chain, NEW S, NEW at, Distinct(chain), \A s \in S : Distinct(at[s]),
           In(w, chain) => \A s \in S : ~In(w, at[s]),
           \A s, t \in S : In(w, at[s]) /\ In(w, at[t]) => s = t
    PROVE  IF In(w, chain) \/ \E s \in S : In(w, at[s])
             THEN \E x \in Places(w, chain, S, at) : Places(w, chain, S, at) = {x}
             ELSE Places(w, chain, S, at) = {}
<1> DEFINE A == {<<"list", i>> : i \in {j \in 1..Len(chain) : chain[j] = w}}
           B(s) == {<<s, i>> : i \in {j \in 1..Len(at[s]) : at[s][j] = w}}
           U == UNION {B(s) : s \in S}
<1>1. Places(w, chain, S, at) = A \cup U
  BY DEF Places
<1>2. ~In(w, chain) => A = {}
  BY DEF In
<1>3. ASSUME NEW s \in S, ~In(w, at[s]) PROVE B(s) = {}
  BY <1>3 DEF In
<1>4. CASE In(w, chain)
  <2>1. PICK k \in 1..Len(chain) : chain[k] = w
    BY <1>4 DEF In
  <2>2. {j \in 1..Len(chain) : chain[j] = w} = {k}
    BY <2>1 DEF Distinct
  <2>3. A = {<<"list", k>>}
    BY <2>2
  <2>4. U = {}
    BY <1>3, <1>4
  <2> QED  BY ZenonT(40), <1>1, <1>4, <2>3, <2>4
<1>5. ASSUME NEW s \in S, In(w, at[s])
      PROVE  \E x \in A \cup U : A \cup U = {x}
  <2>1. PICK k \in 1..Len(at[s]) : at[s][k] = w
    BY <1>5 DEF In
  <2>2. {j \in 1..Len(at[s]) : at[s][j] = w} = {k}
    BY ZenonT(40), <2>1 DEF Distinct
  <2>3. B(s) = {<<s, k>>}
    BY ZenonT(40), <2>2
  <2>4. \A t \in S : t # s => B(t) = {}
    BY ZenonT(40), <1>3, <1>5
  <2>5. A = {}
    BY ZenonT(40), <1>2, <1>5
  <2> HIDE DEF A, B
  <2>6. U = {<<s, k>>}
    BY ZenonT(40), <2>3, <2>4
  <2> QED  BY ZenonT(40), <2>5, <2>6
<1>6. CASE ~In(w, chain) /\ \A s \in S : ~In(w, at[s])
  <2>1. U = {}
    BY ZenonT(40), <1>3, <1>6
  <2> QED  BY ZenonT(40), <1>1, <1>2, <1>6, <2>1
<1> QED  BY ZenonT(40), <1>1, <1>4, <1>5, <1>6
-----------------------------------------------------------------------------
(* Promise and Future. *)

Calls == Setters \cup {Owner}

(* The call that closed the list, and is the only one to store a result. *)
Closer(s) == fOutcome[s] # "empty"

PcInv ==
    /\ \A s \in Calls : fPc[s] \in {"idle", "store", "resumeAll", "threw", "done"}
    /\ \A w \in Futures : fPc[w] \in {"idle", "load", "cas", "suspended", "scheduled", "resumed", "done"}

CloserInv ==
    /\ \A s \in Calls : Closer(s) => fHead = Closed /\ fPc[s] \notin {"idle", "threw"}
    /\ \A s, t \in Calls : Closer(s) /\ Closer(t) => s = t
    /\ \A s \in Calls : fPc[s] \in {"store", "resumeAll"} => Closer(s)
    /\ \A s \in Calls : Closer(s) /\ fPc[s] # "store" => fStored = fOutcome[s]
    /\ \A s \in Calls : fAt[s] # <<>> => fPc[s] \in {"store", "resumeAll"}

ListInv ==
    /\ Distinct(fChain) /\ \A s \in Calls : Distinct(fAt[s])
    /\ \A w \in Futures :
          fPc[w] = "suspended" <=> In(w, fChain) \/ \E s \in Calls : In(w, fAt[s])

GotInv ==
    \A w \in Futures :
       /\ fPc[w] = "resumed" => fHead = Closed
       /\ fPc[w] = "scheduled" => fStored # "empty"
       /\ fGot[w] = "empty" => /\ fHead = Closed
                               /\ \A s \in Calls : Closer(s) => {w, s} \cap FutureOnLoop # {w, s}

FutureInv == F!TypeOK /\ PcInv /\ CloserInv /\ ListInv /\ GotInv

(* Actor a moves to l and nobody else moves. *)
Moves1(a, l) == fPc' = [fPc EXCEPT ![a] = l]

LEMMA FutureTypes ==
    ASSUME F!TypeOK
    PROVE  /\ fHead \in Futures \cup {Null, Closed} /\ fChain \in Seq(Futures)
           /\ fStored \in {"empty", "value", "exception", "broken_promise"}
           /\ fPc \in [Futures \cup Calls -> {"idle", "load", "cas", "suspended", "scheduled",
                                              "resumed", "store", "resumeAll", "threw", "done"}]
           /\ fOld \in [Futures -> Futures \cup {Null}]
           /\ fOutcome \in [Calls -> {"empty", "value", "exception", "broken_promise"}]
           /\ fAt \in [Calls -> Seq(Futures)]
           /\ fGot \in [Futures -> {"nothing", "empty", "value", "exception", "broken_promise"}]
           /\ fChain = <<>> <=> fHead \in {Null, Closed}
           /\ fScheduler \in 0..1
<1>1. F!Actors = Futures \cup Calls
  BY DEF F!Actors, Calls
<1> QED  BY <1>1 DEF F!TypeOK, Calls

(* A waiter moves between places where it is in no list. *)
LEMMA WaiterMoves ==
    ASSUME FutureInv, NEW w \in Futures, NEW l, Moves1(w, l),
           l \in {"load", "cas", "resumed", "done"}, fPc[w] # "suspended",
           l = "resumed" => fHead = Closed,
           UNCHANGED <<fScheduler, fHead, fChain, fStored, fOutcome, fAt>>,
           fOld' \in [Futures -> Futures \cup {Null}],
           fGot' = fGot \/ (fGot' = [fGot EXCEPT ![w] = fStored] /\
                            (fStored = "empty" => /\ fHead = Closed
                                                  /\ \A s \in Calls : Closer(s) => {w, s} \cap FutureOnLoop # {w, s}))
    PROVE  FutureInv'
<1> USE DEF Moves1
<1>0. Futures \cap Calls = {}
  BY WaitingAssumption DEF Calls
<1>1. F!TypeOK
  BY DEF FutureInv
<1>2. /\ fPc \in [Futures \cup Calls -> {"idle", "load", "cas", "suspended", "scheduled",
                                         "resumed", "store", "resumeAll", "threw", "done"}]
      /\ fGot \in [Futures -> {"nothing", "empty", "value", "exception", "broken_promise"}]
      /\ fStored \in {"empty", "value", "exception", "broken_promise"}
      /\ F!Actors = Futures \cup Calls
  BY ZenonT(40), <1>1, FutureTypes DEF F!Actors, Calls
<1>3. F!TypeOK'
  <2>1. fPc' \in [F!Actors -> {"idle", "load", "cas", "suspended", "scheduled", "resumed",
                               "store", "resumeAll", "threw", "done"}]
    BY <1>2
  <2>2. fGot' \in [Futures -> {"nothing", "empty", "value", "exception", "broken_promise"}]
    BY <1>2
  <2> QED  BY ZenonT(40), <1>1, <2>1, <2>2 DEF F!TypeOK
<1>4. /\ \A s \in Calls : fPc'[s] = fPc[s]
      /\ \A v \in Futures : fPc'[v] = IF v = w THEN l ELSE fPc[v]
  BY ZenonT(40), <1>0, <1>2
<1>5. PcInv'
  BY ZenonT(40), <1>4 DEF FutureInv, PcInv
<1>6. CloserInv'
  BY ZenonT(40), <1>4 DEF FutureInv, CloserInv, Closer
<1>7. ListInv'
  BY ZenonT(40), <1>4 DEF FutureInv, ListInv
<1>8. GotInv'
  <2> SUFFICES ASSUME NEW v \in Futures
               PROVE  /\ fPc'[v] = "resumed" => fHead' = Closed
                      /\ fPc'[v] = "scheduled" => fStored' # "empty"
                      /\ fGot'[v] = "empty" =>
                            /\ fHead' = Closed
                            /\ \A s \in Calls : Closer(s)' => {v, s} \cap FutureOnLoop # {v, s}
    BY DEF GotInv
  <2>1. fGot'[v] = fGot[v] \/ (v = w /\ fGot'[v] = fStored /\
                            (fStored = "empty" => /\ fHead = Closed
                                                  /\ \A s \in Calls : Closer(s) => {w, s} \cap FutureOnLoop # {w, s}))
    BY <1>2
  <2> QED  BY ZenonT(40), <1>4, <2>1 DEF FutureInv, GotInv, Closer
<1> QED  BY ZenonT(40), <1>3, <1>5, <1>6, <1>7, <1>8 DEF FutureInv

LEMMA AwaitStep ==
    ASSUME FutureInv, NEW w \in Futures, F!AwaitReady(w) \/ F!PushLoad(w) \/ F!AwaitResume(w)
    PROVE  FutureInv'
<1>1. CASE F!AwaitReady(w)
  <2> DEFINE l == IF fHead = Closed THEN "resumed" ELSE "load"
  <2>1. Moves1(w, l)
    BY <1>1 DEF F!AwaitReady, F!Goto, Moves1
  <2>2. fPc[w] # "suspended" /\ UNCHANGED <<fScheduler, fHead, fChain, fStored, fOutcome, fAt, fGot, fOld>>
    BY ZenonT(40), <1>1 DEF F!AwaitReady
  <2>3. fOld' \in [Futures -> Futures \cup {Null}]
    BY <2>2 DEF FutureInv, F!TypeOK
  <2>4. l \in {"load", "cas", "resumed", "done"} /\ (l = "resumed" => fHead = Closed)
    OBVIOUS
  <2> HIDE DEF l
  <2> QED  BY ZenonT(40), <2>1, <2>2, <2>3, <2>4, WaiterMoves
<1>2. CASE F!PushLoad(w)
  <2> DEFINE l == IF fHead = Closed THEN "resumed" ELSE "cas"
  <2>1. Moves1(w, l)
    BY ZenonT(40), <1>2 DEF F!PushLoad, F!Goto, Moves1
  <2>2. fPc[w] # "suspended" /\ UNCHANGED <<fScheduler, fHead, fChain, fStored, fOutcome, fAt, fGot>>
    BY ZenonT(40), <1>2 DEF F!PushLoad
  <2>3. fOld' \in [Futures -> Futures \cup {Null}]
    BY <1>2 DEF FutureInv, F!TypeOK, F!PushLoad
  <2>4. l \in {"load", "cas", "resumed", "done"} /\ (l = "resumed" => fHead = Closed)
    OBVIOUS
  <2> HIDE DEF l
  <2> QED  BY ZenonT(40), <2>1, <2>2, <2>3, <2>4, WaiterMoves
<1>3. CASE F!AwaitResume(w)
  <2>1. Moves1(w, "done")
    BY ZenonT(40), <1>3 DEF F!AwaitResume, F!Goto, Moves1
  <2>2. /\ fPc[w] \in {"resumed", "scheduled"} /\ UNCHANGED <<fScheduler, fHead, fChain, fStored, fOutcome, fAt, fOld>>
        /\ fGot' = [fGot EXCEPT ![w] = fStored]
    BY ZenonT(40), <1>3 DEF F!AwaitResume
  <2>3. fOld' \in [Futures -> Futures \cup {Null}]
    BY <2>2 DEF FutureInv, F!TypeOK
  <2>4. ASSUME fStored = "empty"
        PROVE  /\ fHead = Closed
               /\ \A s \in Calls : Closer(s) => {w, s} \cap FutureOnLoop # {w, s}
    <3>1. fPc[w] = "resumed" /\ fHead = Closed /\ F!CanRun(w)
      BY ZenonT(40), <1>3, <2>2, <2>4 DEF FutureInv, GotInv, F!AwaitResume
    <3>2. ASSUME NEW s \in Calls, Closer(s) PROVE {w, s} \cap FutureOnLoop # {w, s}
      <4>1. fPc[s] = "store" /\ s # w
        BY ZenonT(40), <2>4, <3>2, WaitingAssumption DEF FutureInv, CloserInv, Closer, Calls
      <4>2. F!MidCall(s)
        BY <4>1 DEF F!MidCall
      <4> QED  BY ZenonT(40), <3>1, <4>1, <4>2 DEF F!CanRun
    <3> QED  BY ZenonT(40), <3>1, <3>2
  <2> QED  BY ZenonT(40), <2>1, <2>2, <2>3, <2>4, WaiterMoves
<1> QED  BY ZenonT(40), <1>1, <1>2, <1>3

LEMMA PushStep ==
    ASSUME FutureInv, NEW w \in Futures, F!PushCas(w)
    PROVE  FutureInv'
<1>1. /\ fPc[w] = "cas" /\ fHead = fOld[w] /\ fHead' = w /\ fChain' = <<w>> \o fChain
      /\ fOld' = [fOld EXCEPT ![w] = Null] /\ fPc' = [fPc EXCEPT ![w] = "suspended"]
      /\ UNCHANGED <<fScheduler, fStored, fOutcome, fAt, fGot>>
  BY DEF F!PushCas, F!PushOn, F!Goto
<1>2. F!TypeOK
  BY DEF FutureInv
<1>3. /\ fHead \in Futures \cup {Null, Closed} /\ fChain \in Seq(Futures)
      /\ fPc \in [Futures \cup Calls -> {"idle", "load", "cas", "suspended", "scheduled",
                                         "resumed", "store", "resumeAll", "threw", "done"}]
      /\ fOld \in [Futures -> Futures \cup {Null}]
      /\ F!Actors = Futures \cup Calls
  BY ZenonT(40), <1>2, FutureTypes DEF F!Actors, Calls
<1>4. fHead # Closed /\ w \notin {Null, Closed} /\ Futures \cap Calls = {}
  BY ZenonT(40), <1>1, <1>3, WaitingAssumption DEF Calls
<1>5. ~In(w, fChain) /\ \A s \in Calls : ~In(w, fAt[s])
  BY ZenonT(40), <1>1 DEF FutureInv, ListInv
<1>6. /\ fChain' \in Seq(Futures) /\ fChain' # <<>> /\ Distinct(fChain')
      /\ \A v \in Futures : In(v, fChain') <=> In(v, fChain) \/ v = w
  BY ZenonT(40), <1>1, <1>3, <1>5, Prepended DEF FutureInv, ListInv
<1>7. /\ \A s \in Calls : fPc'[s] = fPc[s]
      /\ \A v \in Futures : fPc'[v] = IF v = w THEN "suspended" ELSE fPc[v]
  BY ZenonT(40), <1>1, <1>3, <1>4
<1>8. F!TypeOK'
  <2>1. fPc' \in [F!Actors -> {"idle", "load", "cas", "suspended", "scheduled", "resumed",
                               "store", "resumeAll", "threw", "done"}]
    BY ZenonT(40), <1>1, <1>3
  <2>2. fOld' \in [Futures -> Futures \cup {Null}]
    BY <1>1, <1>3
  <2> QED  BY ZenonT(40), <1>1, <1>2, <1>4, <1>6, <2>1, <2>2 DEF F!TypeOK
<1>9. \A s \in Calls : ~Closer(s)
  BY ZenonT(40), <1>4 DEF FutureInv, CloserInv
<1>10. PcInv' /\ CloserInv'
  BY SMTT(40), ZenonT(40), <1>1, <1>7, <1>9 DEF FutureInv, PcInv, CloserInv, Closer
<1>11. ListInv'
  <2>1. ASSUME NEW v \in Futures
        PROVE  fPc'[v] = "suspended" <=> In(v, fChain') \/ \E s \in Calls : In(v, fAt'[s])
    BY ZenonT(40), <1>1, <1>6, <1>7 DEF FutureInv, ListInv
  <2> QED  BY ZenonT(40), <1>1, <1>6, <2>1 DEF FutureInv, ListInv
<1>12. GotInv'
  BY <1>1, <1>4, <1>7 DEF FutureInv, GotInv
<1> QED  BY ZenonT(40), <1>8, <1>10, <1>11, <1>12 DEF FutureInv

(* A call that has not closed the list, or has gone through it, moves on. *)
LEMMA CallMoves ==
    ASSUME FutureInv, NEW s \in Calls, NEW l, Moves1(s, l),
           \/ l = "threw" /\ ~Closer(s)
           \/ l = "done" /\ (Closer(s) => fPc[s] = "resumeAll"),
           fAt[s] = <<>>, UNCHANGED <<fScheduler, fHead, fChain, fStored, fOutcome, fAt, fOld, fGot>>
    PROVE  FutureInv'
<1> USE DEF Moves1
<1>0. Futures \cap Calls = {}
  BY ZenonT(40), WaitingAssumption DEF Calls
<1>1. F!TypeOK
  BY DEF FutureInv
<1>2. /\ fPc \in [Futures \cup Calls -> {"idle", "load", "cas", "suspended", "scheduled",
                                         "resumed", "store", "resumeAll", "threw", "done"}]
      /\ F!Actors = Futures \cup Calls
  BY ZenonT(40), <1>1, FutureTypes DEF F!Actors, Calls
<1>3. F!TypeOK'
  <2>1. fPc' \in [F!Actors -> {"idle", "load", "cas", "suspended", "scheduled", "resumed",
                               "store", "resumeAll", "threw", "done"}]
    BY ZenonT(40), <1>2
  <2> QED  BY ZenonT(40), <1>1, <2>1 DEF F!TypeOK
<1>4. /\ \A t \in Calls : fPc'[t] = IF t = s THEN l ELSE fPc[t]
      /\ \A v \in Futures : fPc'[v] = fPc[v]
  BY ZenonT(40), <1>0, <1>2
<1>5. PcInv'
  BY ZenonT(40), <1>4 DEF FutureInv, PcInv
<1>6. CloserInv'
  BY SMTT(40), ZenonT(40), <1>4 DEF FutureInv, CloserInv, Closer
<1>7. ListInv'
  BY ZenonT(40), <1>4 DEF FutureInv, ListInv
<1>8. GotInv'
  BY ZenonT(40), <1>4 DEF FutureInv, GotInv, Closer
<1> QED  BY ZenonT(40), <1>3, <1>5, <1>6, <1>7, <1>8 DEF FutureInv

(* close(): the first call takes the whole list. *)
LEMMA CloseStep ==
    ASSUME FutureInv, NEW s \in Calls, NEW v \in {"value", "exception", "broken_promise"},
           fPc[s] = "idle", F!CloseList(s, v)
    PROVE  FutureInv'
<1>0. ~Closer(s) /\ fAt[s] = <<>>
  BY DEF FutureInv, CloserInv
<1>1. CASE fHead = Closed
  <2>1. Moves1(s, "threw") /\ UNCHANGED <<fScheduler, fHead, fChain, fStored, fOutcome, fAt, fOld, fGot>>
    BY ZenonT(40), <1>1 DEF F!CloseList, F!Goto, Moves1
  <2> QED  BY ZenonT(40), <1>0, <2>1, CallMoves
<1>2. CASE fHead # Closed
  <2>1. /\ fHead' = Closed /\ fChain' = <<>> /\ fAt' = [fAt EXCEPT ![s] = fChain]
        /\ fOutcome' = [fOutcome EXCEPT ![s] = v] /\ fPc' = [fPc EXCEPT ![s] = "store"]
        /\ UNCHANGED <<fScheduler, fStored, fOld, fGot>>
    BY ZenonT(40), <1>2 DEF F!CloseList, F!Goto
  <2>2. F!TypeOK /\ Futures \cap Calls = {}
    BY ZenonT(40), WaitingAssumption DEF FutureInv, Calls
  <2>3. /\ fPc \in [Futures \cup Calls -> {"idle", "load", "cas", "suspended", "scheduled",
                                           "resumed", "store", "resumeAll", "threw", "done"}]
        /\ fOutcome \in [Calls -> {"empty", "value", "exception", "broken_promise"}]
        /\ fAt \in [Calls -> Seq(Futures)] /\ fChain \in Seq(Futures)
        /\ F!Actors = Futures \cup Calls
    BY ZenonT(40), <2>2, FutureTypes DEF F!Actors, Calls
  <2>4. \A t \in Calls : ~Closer(t) /\ fAt[t] = <<>>
    BY <1>2 DEF FutureInv, CloserInv
  <2>5. /\ \A t \in Calls : fPc'[t] = IF t = s THEN "store" ELSE fPc[t]
        /\ \A w \in Futures : fPc'[w] = fPc[w]
        /\ \A t \in Calls : fOutcome'[t] = IF t = s THEN v ELSE fOutcome[t]
        /\ \A t \in Calls : fAt'[t] = IF t = s THEN fChain ELSE <<>>
    BY ZenonT(40), <2>1, <2>2, <2>3, <2>4
  <2>6. F!TypeOK'
    <3>1. fPc' \in [F!Actors -> {"idle", "load", "cas", "suspended", "scheduled", "resumed",
                                 "store", "resumeAll", "threw", "done"}]
      BY ZenonT(40), <2>1, <2>3
    <3>2. fOutcome' \in [Calls -> {"empty", "value", "exception", "broken_promise"}]
      BY ZenonT(40), <2>1, <2>3
    <3>3. fAt' \in [Calls -> Seq(Futures)]
      BY ZenonT(40), <2>1, <2>3
    <3> QED  BY <2>1, <2>2, <3>1, <3>2, <3>3 DEF F!TypeOK, Calls
  <2>7. PcInv'
    BY ZenonT(40), <2>5 DEF FutureInv, PcInv
  <2>8. CloserInv'
    BY SMTT(40), <2>1, <2>4, <2>5 DEF FutureInv, CloserInv, Closer
  <2>9. ListInv'
    <3>1. Distinct(<<>>) /\ \A w \in Futures : ~In(w, <<>>)
      BY DEF Distinct, In
    <3>2. ASSUME NEW w \in Futures
          PROVE  fPc'[w] = "suspended" <=> In(w, fChain') \/ \E t \in Calls : In(w, fAt'[t])
      <4>1. fPc[w] = "suspended" <=> In(w, fChain)
        BY ZenonT(40), <2>4, <3>1 DEF FutureInv, ListInv
      <4> QED  BY ZenonT(40), <2>1, <2>5, <3>1, <4>1
    <3>3. Distinct(fChain') /\ \A t \in Calls : Distinct(fAt'[t])
      BY SMTT(40), <2>1, <2>5, <3>1 DEF FutureInv, ListInv
    <3> QED  BY ZenonT(40), <3>2, <3>3 DEF ListInv
  <2>10. GotInv'
    BY ZenonT(40), <1>2, <2>1, <2>5 DEF FutureInv, GotInv
  <2> QED  BY ZenonT(40), <2>6, <2>7, <2>8, <2>9, <2>10 DEF FutureInv
<1> QED  BY ZenonT(40), <1>1, <1>2

LEMMA StoreStep ==
    ASSUME FutureInv, NEW s \in Calls, F!Store(s)
    PROVE  FutureInv'
<1>1. /\ fPc[s] = "store" /\ fStored' = fOutcome[s] /\ fPc' = [fPc EXCEPT ![s] = "resumeAll"]
      /\ UNCHANGED <<fScheduler, fHead, fChain, fOutcome, fAt, fOld, fGot>>
  BY ZenonT(40) DEF F!Store, F!Goto
<1>2. F!TypeOK /\ Futures \cap Calls = {} /\ Closer(s)
  BY ZenonT(40), <1>1, WaitingAssumption DEF FutureInv, CloserInv, Calls
<1>3. /\ fPc \in [Futures \cup Calls -> {"idle", "load", "cas", "suspended", "scheduled",
                                         "resumed", "store", "resumeAll", "threw", "done"}]
      /\ fOutcome \in [Calls -> {"empty", "value", "exception", "broken_promise"}]
      /\ F!Actors = Futures \cup Calls
  BY ZenonT(40), <1>2, FutureTypes DEF F!Actors, Calls
<1>4. /\ \A t \in Calls : fPc'[t] = IF t = s THEN "resumeAll" ELSE fPc[t]
      /\ \A w \in Futures : fPc'[w] = fPc[w]
  BY ZenonT(40), <1>1, <1>2, <1>3
<1>5. F!TypeOK'
  <2>1. fPc' \in [F!Actors -> {"idle", "load", "cas", "suspended", "scheduled", "resumed",
                               "store", "resumeAll", "threw", "done"}]
    BY ZenonT(40), <1>1, <1>3
  <2>2. fStored' \in {"empty", "value", "exception", "broken_promise"}
    BY ZenonT(40), <1>1, <1>3
  <2> QED  BY ZenonT(40), <1>1, <1>2, <2>1, <2>2 DEF F!TypeOK
<1>6. PcInv'
  BY ZenonT(40), <1>4 DEF FutureInv, PcInv
<1>7. CloserInv'
  BY SMTT(40), <1>1, <1>2, <1>4 DEF FutureInv, CloserInv, Closer
<1>8. ListInv'
  BY ZenonT(40), <1>1, <1>4 DEF FutureInv, ListInv
<1>9. GotInv'
  BY ZenonT(40), <1>1, <1>2, <1>4 DEF FutureInv, GotInv, Closer
<1> QED  BY ZenonT(40), <1>5, <1>6, <1>7, <1>8, <1>9 DEF FutureInv

(* resumeAll(): the node it comes to is a suspended coroutine's. *)
LEMMA ResumeStep ==
    ASSUME FutureInv, NEW s \in Calls, F!ResumeNext(s)
    PROVE  FutureInv'
<1> DEFINE n == fAt[s][1]
<1>1. /\ fPc[s] = "resumeAll" /\ fAt[s] # <<>> /\ fAt' = [fAt EXCEPT ![s] = Tail(fAt[s])]
      /\ \/ fPc' = [fPc EXCEPT ![n] = "scheduled"] /\ fGot' = fGot
         \/ fPc' = [fPc EXCEPT ![n] = "done"] /\ fGot' = [fGot EXCEPT ![n] = fStored]
      /\ UNCHANGED <<fScheduler, fHead, fChain, fStored, fOutcome, fOld>>
  BY ZenonT(40) DEF F!ResumeNext, F!Goto
<1>2. F!TypeOK /\ Futures \cap Calls = {} /\ Closer(s)
  BY ZenonT(40), <1>1, WaitingAssumption DEF FutureInv, CloserInv, Calls
<1>3. /\ fPc \in [Futures \cup Calls -> {"idle", "load", "cas", "suspended", "scheduled",
                                         "resumed", "store", "resumeAll", "threw", "done"}]
      /\ fAt \in [Calls -> Seq(Futures)]
      /\ fGot \in [Futures -> {"nothing", "empty", "value", "exception", "broken_promise"}]
      /\ fStored \in {"empty", "value", "exception", "broken_promise"}
      /\ fChain = <<>> <=> fHead \in {Null, Closed}
      /\ F!Actors = Futures \cup Calls
  BY ZenonT(40), <1>2, FutureTypes DEF F!Actors, Calls
<1>4. /\ Tail(fAt[s]) \in Seq(Futures) /\ n \in Futures /\ In(n, fAt[s])
      /\ Distinct(Tail(fAt[s]))
      /\ \A w \in Futures : In(w, Tail(fAt[s])) <=> In(w, fAt[s]) /\ w # n
  <2>1. fAt[s] \in Seq(Futures) /\ Distinct(fAt[s])
    BY <1>3 DEF FutureInv, ListInv
  <2> QED  BY ZenonT(40), <1>1, <2>1, Shortened
<1>5. /\ fStored # "empty" /\ fChain = <<>>
      /\ \A t \in Calls : t # s => fAt[t] = <<>>
  <2>1. fStored # "empty" /\ fHead = Closed
    BY ZenonT(40), <1>1, <1>2 DEF FutureInv, CloserInv, Closer
  <2>2. \A t \in Calls : t # s => fAt[t] = <<>>
    BY <1>2 DEF FutureInv, CloserInv
  <2> QED  BY ZenonT(40), <1>3, <2>1, <2>2
<1> HIDE DEF n
<1>6. /\ \A t \in Calls : fPc'[t] = fPc[t]
      /\ \A w \in Futures : w # n => fPc'[w] = fPc[w]
      /\ fPc'[n] \in {"scheduled", "done"}
      /\ \A w \in Futures : fGot'[w] = fGot[w] \/ fGot'[w] = fStored
      /\ \A t \in Calls : fAt'[t] = IF t = s THEN Tail(fAt[s]) ELSE <<>>
  BY ZenonT(40), <1>1, <1>2, <1>3, <1>4, <1>5
<1>7. F!TypeOK'
  <2>1. fPc' \in [F!Actors -> {"idle", "load", "cas", "suspended", "scheduled", "resumed",
                               "store", "resumeAll", "threw", "done"}]
    BY ZenonT(40), <1>1, <1>3
  <2>2. fAt' \in [Calls -> Seq(Futures)]
    BY ZenonT(40), <1>1, <1>3, <1>4
  <2>3. fGot' \in [Futures -> {"nothing", "empty", "value", "exception", "broken_promise"}]
    BY ZenonT(40), <1>1, <1>3
  <2> QED  BY ZenonT(40), <1>1, <1>2, <2>1, <2>2, <2>3 DEF F!TypeOK, Calls
<1>8. PcInv'
  BY <1>6 DEF FutureInv, PcInv
<1>9. CloserInv'
  <2>1. \A t \in Calls : fAt'[t] # <<>> => fAt[t] # <<>>
    BY ZenonT(40), <1>1, <1>6
  <2> QED  BY ZenonT(40), <1>1, <1>6, <2>1 DEF FutureInv, CloserInv, Closer
<1>10. ListInv'
  <2>1. Distinct(<<>>) /\ \A w \in Futures : ~In(w, <<>>)
    BY SMTT(40) DEF Distinct, In
  <2>2. ASSUME NEW w \in Futures
        PROVE  fPc'[w] = "suspended" <=> In(w, fChain') \/ \E t \in Calls : In(w, fAt'[t])
    <3>1. fPc[w] = "suspended" <=> In(w, fAt[s])
      BY ZenonT(40), <1>5, <2>1 DEF FutureInv, ListInv
    <3>2. (\E t \in Calls : In(w, fAt'[t])) <=> In(w, fAt[s]) /\ w # n
      BY ZenonT(40), <1>4, <1>6, <2>1
    <3> QED  BY ZenonT(40), <1>1, <1>5, <1>6, <2>1, <3>1, <3>2
  <2>3. Distinct(fChain') /\ \A t \in Calls : Distinct(fAt'[t])
    BY ZenonT(40), <1>1, <1>4, <1>5, <1>6, <2>1
  <2> QED  BY ZenonT(40), <2>2, <2>3 DEF ListInv
<1>11. GotInv'
  BY ZenonT(40), <1>1, <1>5, <1>6 DEF FutureInv, GotInv, Closer
<1> QED  BY ZenonT(40), <1>7, <1>8, <1>9, <1>10, <1>11 DEF FutureInv

LEMMA FutureInit == F!Init => FutureInv
<1> SUFFICES ASSUME F!Init PROVE FutureInv
  OBVIOUS
<1> USE DEF F!Init
<1>1. F!TypeOK
  BY SMTT(40), WaitingAssumption DEF F!TypeOK, F!Actors
<1>2. PcInv /\ CloserInv /\ GotInv
  BY DEF PcInv, CloserInv, GotInv, Closer, Calls, F!Actors
<1>3. ListInv
  BY DEF ListInv, Distinct, In, Calls, F!Actors
<1> QED  BY ZenonT(40), <1>1, <1>2, <1>3 DEF FutureInv

LEMMA FutureStep == FutureInv /\ F!Next => FutureInv'
<1> SUFFICES ASSUME FutureInv, F!Next PROVE FutureInv'
  OBVIOUS
<1>1. ASSUME NEW w \in Futures, F!WaiterStep(w) PROVE FutureInv'
  BY ZenonT(40), <1>1, AwaitStep, PushStep DEF F!WaiterStep
<1>2. ASSUME NEW s \in Setters, F!Set(s) PROVE FutureInv'
  <2>1. PICK v \in {"value", "exception"} : F!CloseList(s, v)
    BY <1>2 DEF F!Set
  <2>2. fPc[s] = "idle" /\ s \in Calls
    BY <1>2 DEF F!Set, Calls
  <2> QED  BY ZenonT(40), <2>1, <2>2, CloseStep
<1>3. CASE F!Destroy
  <2>1. fPc[Owner] = "idle" /\ Owner \in Calls
    BY SMTT(40), <1>3 DEF F!Destroy, Calls
  <2>2. CASE fHead = Closed
    <3>1. /\ Moves1(Owner, "done")
          /\ UNCHANGED <<fScheduler, fHead, fChain, fStored, fOutcome, fAt, fOld, fGot>>
      BY ZenonT(40), <1>3, <2>2 DEF F!Destroy, F!Goto, Moves1
    <3>2. ~Closer(Owner) /\ fAt[Owner] = <<>>
      BY <2>1 DEF FutureInv, CloserInv
    <3> QED  BY ZenonT(40), <2>1, <3>1, <3>2, CallMoves
  <2>3. CASE fHead # Closed
    <3>1. F!CloseList(Owner, "broken_promise")
      BY <1>3, <2>3 DEF F!Destroy
    <3> QED  BY ZenonT(40), <2>1, <3>1, CloseStep
  <2> QED  BY <2>2, <2>3
<1>4. ASSUME NEW s \in Calls, F!SetterStep(s) PROVE FutureInv'
  <2>1. CASE F!SetDone(s)
    <3>1. /\ Moves1(s, "done") /\ fPc[s] = "resumeAll" /\ fAt[s] = <<>>
          /\ UNCHANGED <<fScheduler, fHead, fChain, fStored, fOutcome, fAt, fOld, fGot>>
      BY <2>1 DEF F!SetDone, F!Goto, Moves1
    <3> QED  BY ZenonT(40), <3>1, CallMoves
  <2> QED  BY ZenonT(40), <1>4, <2>1, StoreStep, ResumeStep DEF F!SetterStep
<1> QED  BY ZenonT(40), <1>1, <1>2, <1>3, <1>4 DEF F!Next, Calls

LEMMA FutureAlways == WaitingSpec => []FutureInv
<1>1. WaitingInit => FutureInv
  BY FutureInit DEF WaitingInit
<1>2. FutureInv /\ [WaitingNext]_allVars => FutureInv'
  <2> SUFFICES ASSUME FutureInv, [WaitingNext]_allVars PROVE FutureInv'
    OBVIOUS
  <2>1. CASE F!Next
    BY ZenonT(40), <2>1, FutureStep
  <2>2. CASE UNCHANGED fVars
    BY <2>2 DEF fVars, FutureInv, F!TypeOK, PcInv, CloserInv, ListInv, GotInv, Closer
  <2> QED  BY <2>1, <2>2 DEF WaitingNext, allVars
<1> QED  BY <1>1, <1>2, PTL DEF WaitingSpec

LEMMA FutureAccounted == FutureInv => F!WaitersAccounted
<1> SUFFICES ASSUME FutureInv, NEW w \in Futures
             PROVE  IF fPc[w] = "suspended"
                      THEN \E x \in Places(w, fChain, Calls, fAt) : Places(w, fChain, Calls, fAt) = {x}
                      ELSE Places(w, fChain, Calls, fAt) = {}
  BY ZenonT(40) DEF F!WaitersAccounted, Places, Calls
<1>1. F!TypeOK
  BY DEF FutureInv
<1>2. fChain = <<>> <=> fHead \in {Null, Closed}
  BY <1>1, FutureTypes
<1>3. ~In(w, <<>>)
  BY SMTT(40) DEF In
<1>4. In(w, fChain) => \A s \in Calls : ~In(w, fAt[s])
  BY ZenonT(40), <1>2, <1>3 DEF FutureInv, CloserInv
<1>5. \A s, t \in Calls : In(w, fAt[s]) /\ In(w, fAt[t]) => s = t
  BY <1>3 DEF FutureInv, CloserInv
<1>6. Distinct(fChain) /\ \A s \in Calls : Distinct(fAt[s])
  BY DEF FutureInv, ListInv
<1>7. fPc[w] = "suspended" <=> In(w, fChain) \/ \E s \in Calls : In(w, fAt[s])
  BY ZenonT(40) DEF FutureInv, ListInv
<1> QED  BY ZenonT(40), <1>4, <1>5, <1>6, <1>7, OnePlace

(* For any coroutines and any racing calls of set_value(), set_exception() *)
(* and ~Promise(): the first one to close the list decides what is stored, *)
(* and a coroutine that had suspended, or shares the thread of that call,  *)
(* finds it there.                                                         *)
THEOREM FirstResultReceived == WaitingSpec => []FutureReceives
<1>1. FutureInv => FutureReceives
  BY DEF FutureInv, CloserInv, GotInv, Closer, Calls, FutureReceives, F!FirstCallWins,
         F!ReceivesUnlessRacing
<1> QED  BY <1>1, FutureAlways, PTL
=============================================================================
