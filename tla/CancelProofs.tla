---------------------------- MODULE CancelProofs ----------------------------
(***************************************************************************)
(* For any registrations, coroutines and calls of cancel(), no waiter of a *)
(* cancel token is lost or resumed twice and a cancel callback is called   *)
(* once.                                                                   *)
(***************************************************************************)
EXTENDS FutureProofs

(* A call of cancel() that closed the list and has not gone through it. *)
Busy(c) == cPc[c] \in {"lock", "callbacks", "calling", "waiters"}

CancelPcs ==
    /\ \A r \in Regs : cPc[r] \in {"idle", "checked", "late", "registered", "empty", "destroyed"}
    /\ \A w \in Cancelled : cPc[w] \in {"idle", "suspended", "scheduled", "done"}
    /\ \A c \in Cancellers : cPc[c] \in {"idle", "lock", "callbacks", "calling", "waiters", "done"}

(* One call takes the waiters, and they stay where they can be found. *)
WaitPart ==
    /\ \A c \in Cancellers : Busy(c) => cClosed = 1
    /\ \A c, d \in Cancellers : Busy(c) /\ Busy(d) => c = d
    /\ \A c \in Cancellers : cNodes[c] # <<>> => Busy(c)
    /\ Distinct(cChain) /\ \A c \in Cancellers : Distinct(cNodes[c])
    /\ \A w \in Cancelled :
          cPc[w] = "suspended" <=> In(w, cChain) \/ \E c \in Cancellers : In(w, cNodes[c])

Listed(r) == In(r, cCallbacks) \/ In(r, cQueue) \/ \E c \in Cancellers : In(r, cCbs[c])

(* The flag of a registration tells whether its callback may be called. *)
CallPart ==
    /\ \A r \in Regs : Listed(r) => cPc[r] \in {"registered", "destroyed"}
    /\ \A r \in Regs : cPc[r] \in {"idle", "checked", "late"} => cFired[r] = 0
    /\ \A r \in Regs : cActive[r] = 0 /\ cPc[r] # "empty" => cFired[r] = 0
    /\ \A r \in Regs : cPc[r] = "destroyed" => cActive[r] = 1
    /\ \A c \in Cancellers : cPc[c] = "calling" =>
          /\ cCbs[c] # <<>>
          /\ cCbs[c][1] \in CancelOnLoop => c \in CancelOnLoop /\ cPc[cCbs[c][1]] # "destroyed"

CancelInv == C!TypeOK /\ CancelPcs /\ WaitPart /\ CallPart

Labels == {"idle", "checked", "late", "registered", "empty", "destroyed", "suspended",
           "scheduled", "lock", "callbacks", "calling", "waiters", "done"}

LEMMA CancelTypes ==
    ASSUME CancelInv
    PROVE  /\ cClosed \in 0..1 /\ cChain \in Seq(Cancelled) /\ cCallbacks \in Seq(Regs)
           /\ cMutex \in Regs \cup {Nobody} /\ cActive \in [Regs -> 0..1]
           /\ cPc \in [C!Actors -> Labels] /\ C!Actors = Regs \cup Cancelled \cup Cancellers
           /\ cCbs \in [Cancellers -> Seq(Regs)] /\ cNodes \in [Cancellers -> Seq(Cancelled)]
           /\ cQueue \in Seq(Regs) /\ cFired \in [Regs -> Nat]
           /\ cClosed = 1 => cChain = <<>>
BY DEF CancelInv, C!TypeOK, C!Actors, Labels

(* Actor a moves to l: what that says of each kind of actor. *)
LEMMA OneMoves ==
    ASSUME CancelInv, NEW a \in C!Actors, NEW l \in Labels, cPc' = [cPc EXCEPT ![a] = l]
    PROVE  /\ cPc' \in [C!Actors -> Labels]
           /\ \A b \in C!Actors : cPc'[b] = IF b = a THEN l ELSE cPc[b]
BY CancelTypes

LEMMA Apart ==
    /\ \A r \in Regs, w \in Cancelled : r # w
    /\ \A r \in Regs, c \in Cancellers : r # c
    /\ \A w \in Cancelled, c \in Cancellers : w # c
    /\ \A r \in Regs : r \in C!Actors
    /\ \A w \in Cancelled : w \in C!Actors
    /\ \A c \in Cancellers : c \in C!Actors
BY WaitingAssumption DEF C!Actors

LEMMA WaitKept ==
    ASSUME CancelInv, UNCHANGED <<cClosed, cChain, cNodes>>,
           \A w \in Cancelled : cPc'[w] = "suspended" <=> cPc[w] = "suspended",
           \A c \in Cancellers : /\ Busy(c)' => Busy(c)
                                 /\ cNodes[c] # <<>> => Busy(c)'
    PROVE  WaitPart'
BY ZenonT(40) DEF CancelInv, WaitPart, Busy

LEMMA CallingOne ==
    ASSUME CancelInv
    PROVE  \A c \in Cancellers : cPc[c] = "calling" => cCbs[c][1] \in Regs
<1> SUFFICES ASSUME NEW c \in Cancellers, cPc[c] = "calling" PROVE cCbs[c][1] \in Regs
  BY ZenonT(40)
<1>1. cCbs[c] # <<>> /\ cCbs[c] \in Seq(Regs)
  BY CancelTypes DEF CancelInv, CallPart
<1> QED  BY <1>1

LEMMA CallKept ==
    ASSUME CancelInv, UNCHANGED <<cCallbacks, cActive, cCbs, cQueue, cFired>>,
           \A r \in Regs : cPc'[r] = cPc[r],
           \A c \in Cancellers : cPc'[c] = "calling" => cPc[c] = "calling"
    PROVE  CallPart'
<1>1. \A c \in Cancellers : cPc[c] = "calling" => cCbs[c][1] \in Regs
  BY CallingOne
<1> QED  BY ZenonT(40), <1>1 DEF CancelInv, CallPart, Listed

LEMMA CancelInit == C!Init => CancelInv
<1> SUFFICES ASSUME C!Init PROVE CancelInv
  OBVIOUS
<1> USE DEF C!Init
<1>1. C!TypeOK
  BY DEF C!TypeOK, C!Actors
<1>2. CancelPcs
  BY ZenonT(40), Apart DEF CancelPcs
<1>3. WaitPart
  BY Apart DEF WaitPart, Busy, Distinct, In
<1>4. CallPart
  BY Apart DEF CallPart, Listed, In
<1> QED  BY ZenonT(40), <1>1, <1>2, <1>3, <1>4 DEF CancelInv

(* Registering, calling late and unregistering. *)
LEMMA RegSteps ==
    ASSUME CancelInv, NEW r \in Regs,
           C!Check(r) \/ C!Register(r) \/ C!CallLate(r) \/ C!Unregister(r)
    PROVE  CancelInv'
<1>0. r \in C!Actors
  BY ZenonT(40), Apart
<1>1. PICK l \in {"late", "checked", "registered", "empty", "destroyed"} : cPc' = [cPc EXCEPT ![r] = l]
  BY ZenonT(40) DEF C!Check, C!Register, C!CallLate, C!Unregister, C!Goto
<1>2. UNCHANGED <<cClosed, cChain, cCbs, cNodes, cQueue>>
  BY DEF C!Check, C!Register, C!CallLate, C!Unregister
<1>3. /\ cPc' \in [C!Actors -> Labels]
      /\ \A b \in C!Actors : cPc'[b] = IF b = r THEN l ELSE cPc[b]
  BY ZenonT(40), <1>0, <1>1, OneMoves DEF Labels
<1>4. /\ \A w \in Cancelled : cPc'[w] = cPc[w]
      /\ \A c \in Cancellers : cPc'[c] = cPc[c]
      /\ \A q \in Regs : cPc'[q] = IF q = r THEN l ELSE cPc[q]
  BY <1>3, Apart
<1>5. CancelPcs'
  BY ZenonT(40), <1>4 DEF CancelInv, CancelPcs
<1>6. WaitPart'
  BY ZenonT(40), <1>2, <1>4, WaitKept DEF Busy, CancelInv, WaitPart
<1>7. C!TypeOK'
  <2>1. cCallbacks' \in Seq(Regs)
    <3>1. cCallbacks' = cCallbacks \/ cCallbacks' = Append(cCallbacks, r)
      BY DEF C!Check, C!Register, C!CallLate, C!Unregister
    <3>2. cCallbacks \in Seq(Regs)
      BY ZenonT(40), CancelTypes
    <3> QED  BY <3>1, <3>2
  <2>2. cMutex' \in Regs \cup {Nobody}
    BY ZenonT(40), CancelTypes DEF C!Check, C!Register, C!CallLate, C!Unregister
  <2>3. cActive' \in [Regs -> 0..1]
    BY CancelTypes DEF C!Check, C!Register, C!CallLate, C!Unregister
  <2>4. cFired' \in [Regs -> Nat]
    <3>1. cFired' = cFired \/ cFired' = [cFired EXCEPT ![r] = cFired[r] + 1]
      BY DEF C!Check, C!Register, C!CallLate, C!Unregister, C!Fire
    <3>2. cFired \in [Regs -> Nat]
      BY ZenonT(40), CancelTypes
    <3> QED  BY <3>1, <3>2
  <2> QED  BY ZenonT(40), <1>2, <1>3, <2>1, <2>2, <2>3, <2>4 DEF CancelInv, C!TypeOK, Labels
<1>8. \A c \in Cancellers : cPc[c] = "calling" => cCbs[c][1] \in Regs
  BY ZenonT(40), CallingOne
<1>9. CallPart'
  <2>1. CASE C!Check(r)
    <3>1. cPc[r] = "idle" /\ cPc'[r] \in {"late", "checked"} /\ UNCHANGED <<cCallbacks, cActive, cFired>>
      BY ZenonT(40), <2>1, <1>0, CancelTypes DEF C!Check, C!Goto
    <3> QED  BY ZenonT(40), <1>2, <1>4, <1>8, <3>1 DEF CancelInv, CallPart, Listed
  <2>2. CASE C!Register(r)
    <3>1. /\ cPc[r] = "checked" /\ cPc'[r] = "registered" /\ UNCHANGED <<cActive, cFired>>
          /\ cCallbacks' = Append(cCallbacks, r)
      BY ZenonT(40), <2>2, <1>0, CancelTypes DEF C!Register, C!Goto
    <3>2. ASSUME NEW q \in Regs, In(q, cCallbacks') PROVE q = r \/ In(q, cCallbacks)
      <4>1. cCallbacks \in Seq(Regs)
        BY ZenonT(40), CancelTypes
      <4> QED  BY <3>1, <3>2, <4>1 DEF In
    <3> QED  BY ZenonT(40), <1>2, <1>4, <1>8, <3>1, <3>2 DEF CancelInv, CallPart, Listed
  <2>3. CASE C!CallLate(r)
    <3>1. /\ cPc[r] = "late" /\ cPc'[r] = "empty" /\ UNCHANGED <<cActive, cCallbacks>>
          /\ \A q \in Regs : q # r => cFired'[q] = cFired[q]
      BY <2>3, <1>0, CancelTypes DEF C!CallLate, C!Goto, C!Fire
    <3> QED  BY ZenonT(40), <1>2, <1>4, <1>8, <3>1 DEF CancelInv, CallPart, Listed
  <2>4. CASE C!Unregister(r)
    <3>1. /\ cPc[r] = "registered" /\ cPc'[r] = "destroyed" /\ UNCHANGED <<cFired, cCallbacks>>
          /\ cActive'[r] = 1 /\ \A q \in Regs : q # r => cActive'[q] = cActive[q]
      BY ZenonT(40), <2>4, <1>0, CancelTypes DEF C!Unregister, C!Goto
    <3>2. \A c \in Cancellers : cPc[c] = "calling" /\ cCbs[c][1] = r => r \notin CancelOnLoop
      <4> SUFFICES ASSUME NEW c \in Cancellers, cPc[c] = "calling", cCbs[c][1] = r, r \in CancelOnLoop
                   PROVE  FALSE
        BY ZenonT(40)
      <4>1. c \in CancelOnLoop /\ c # r
        BY ZenonT(40), Apart DEF CancelInv, CallPart
      <4> QED  BY ZenonT(40), <2>4, <4>1 DEF C!Unregister, C!CanRun, C!MidCall
    <3> QED  BY <1>2, <1>4, <1>8, <3>1, <3>2 DEF CancelInv, CallPart, Listed
  <2> QED  BY ZenonT(40), <2>1, <2>2, <2>3, <2>4
<1> QED  BY ZenonT(40), <1>5, <1>6, <1>7, <1>9 DEF CancelInv

(* Awaiting cancelled(), and being run after it. *)
LEMMA CancelledSteps ==
    ASSUME CancelInv, NEW w \in Cancelled, C!Await(w) \/ C!RunWaiter(w)
    PROVE  CancelInv'
<1>0. w \in C!Actors
  BY ZenonT(40), Apart
<1>1. UNCHANGED <<cClosed, cCallbacks, cMutex, cActive, cCbs, cNodes, cQueue, cFired>>
  BY ZenonT(40) DEF C!Await, C!RunWaiter
<1>2. \/ cPc' = [cPc EXCEPT ![w] = "done"] /\ cChain' = cChain /\ cPc[w] # "suspended"
      \/ /\ cClosed = 0 /\ cPc' = [cPc EXCEPT ![w] = "suspended"] /\ cChain' = <<w>> \o cChain
         /\ cPc[w] = "idle"
  BY DEF C!Await, C!RunWaiter, C!Goto
<1>3. PICK l \in {"done", "suspended"} : cPc' = [cPc EXCEPT ![w] = l]
  BY <1>2
<1>4. /\ cPc' \in [C!Actors -> Labels]
      /\ \A b \in C!Actors : cPc'[b] = IF b = w THEN l ELSE cPc[b]
  BY ZenonT(40), <1>0, <1>3, OneMoves DEF Labels
<1>5. /\ \A r \in Regs : cPc'[r] = cPc[r]
      /\ \A c \in Cancellers : cPc'[c] = cPc[c]
      /\ \A v \in Cancelled : cPc'[v] = IF v = w THEN l ELSE cPc[v]
  BY <1>4, Apart
<1>6. CancelPcs' /\ CallPart'
  BY ZenonT(40), <1>1, <1>5, CallKept DEF CancelInv, CancelPcs
<1>7. CASE cPc' = [cPc EXCEPT ![w] = "done"] /\ cChain' = cChain /\ cPc[w] # "suspended"
  <2>1. cPc'[w] = "done"
    BY ZenonT(40), <1>0, <1>7, CancelTypes
  <2>2. WaitPart'
    <3>1. \A c \in Cancellers : (Busy(c)' <=> Busy(c)) /\ (cNodes[c] # <<>> => Busy(c))
      BY Zenon, <1>5 DEF Busy, CancelInv, WaitPart
    <3>2. \A v \in Cancelled : cPc'[v] = "suspended" <=> cPc[v] = "suspended"
      BY ZenonT(40), SMT, <1>5, <1>7, <2>1
    <3> QED  BY Zenon, <1>1, <1>7, <3>1, <3>2, WaitKept
  <2>3. C!TypeOK'
    BY ZenonT(40), <1>1, <1>4, <1>7 DEF CancelInv, C!TypeOK, Labels
  <2> QED  BY ZenonT(40), <1>6, <2>2, <2>3 DEF CancelInv
<1>8. CASE /\ cClosed = 0 /\ cPc' = [cPc EXCEPT ![w] = "suspended"] /\ cChain' = <<w>> \o cChain
           /\ cPc[w] = "idle"
  <2>1. cPc'[w] = "suspended"
    BY ZenonT(40), <1>0, <1>8, CancelTypes
  <2>2. ~In(w, cChain) /\ cChain \in Seq(Cancelled) /\ Distinct(cChain)
    BY ZenonT(40), <1>8, CancelTypes DEF CancelInv, WaitPart
  <2>3. /\ cChain' \in Seq(Cancelled) /\ Distinct(cChain')
        /\ \A v \in Cancelled : In(v, cChain') <=> In(v, cChain) \/ v = w
    BY ZenonT(40), <1>8, <2>2, Prepended
  <2>4. WaitPart'
    <3>1. ASSUME NEW v \in Cancelled
          PROVE  cPc'[v] = "suspended" <=> In(v, cChain') \/ \E c \in Cancellers : In(v, cNodes'[c])
      BY ZenonT(40), <1>1, <1>5, <2>1, <2>3 DEF CancelInv, WaitPart
    <3> QED  BY ZenonT(40), <1>1, <1>5, <2>3, <3>1 DEF CancelInv, WaitPart, Busy
  <2>5. C!TypeOK'
    BY <1>1, <1>4, <1>8, <2>3 DEF CancelInv, C!TypeOK, Labels
  <2> QED  BY <1>6, <2>4, <2>5 DEF CancelInv
<1> QED  BY ZenonT(40), <1>2, <1>7, <1>8

(* The steps of cancel() that touch no callback. *)
LEMMA CloseSteps ==
    ASSUME CancelInv, NEW c \in Cancellers,
           C!Close(c) \/ C!CallbacksDone(c) \/ C!CancelDone(c)
    PROVE  CancelInv'
<1>0. c \in C!Actors
  BY ZenonT(40), Apart
<1>1. UNCHANGED <<cCallbacks, cMutex, cActive, cCbs, cQueue, cFired>>
  BY ZenonT(40) DEF C!Close, C!CallbacksDone, C!CancelDone
<1>2. PICK l \in {"done", "lock", "waiters"} : cPc' = [cPc EXCEPT ![c] = l]
  BY DEF C!Close, C!CallbacksDone, C!CancelDone, C!Goto
<1>3. /\ cPc' \in [C!Actors -> Labels]
      /\ \A b \in C!Actors : cPc'[b] = IF b = c THEN l ELSE cPc[b]
  BY ZenonT(40), <1>0, <1>2, OneMoves DEF Labels
<1>4. /\ \A r \in Regs : cPc'[r] = cPc[r]
      /\ \A w \in Cancelled : cPc'[w] = cPc[w]
      /\ \A d \in Cancellers : cPc'[d] = IF d = c THEN l ELSE cPc[d]
  BY <1>3, Apart
<1>5. CancelPcs' /\ CallPart'
  BY <1>1, <1>4, CallKept DEF CancelInv, CancelPcs
<1>6. CASE UNCHANGED <<cClosed, cChain, cNodes>>
  <2>1. /\ l # "lock" /\ (l = "done" => cNodes[c] = <<>>) /\ (l = "waiters" => Busy(c))
    <3>1. cPc'[c] = l
      BY ZenonT(40), <1>4
    <3>2. CASE C!Close(c)
      <4>1. cClosed = 1
        <5>1. cClosed = 0 => cClosed' = 1
          BY ZenonT(40), <3>2 DEF C!Close
        <5> QED  BY <1>6, <5>1, CancelTypes
      <4>2. cPc[c] = "idle" /\ cPc' = [cPc EXCEPT ![c] = "done"]
        BY ZenonT(40), <3>2, <4>1 DEF C!Close, C!Goto
      <4>3. cPc'[c] = "done"
        BY ZenonT(40), <1>0, <4>2, CancelTypes
      <4> QED  BY ZenonT(40), <3>1, <4>2, <4>3 DEF CancelInv, WaitPart, Busy
    <3>3. CASE C!CallbacksDone(c)
      BY ZenonT(40), <1>0, <3>1, <3>3, CancelTypes DEF C!CallbacksDone, C!Goto, Busy
    <3>4. CASE C!CancelDone(c)
      BY ZenonT(40), <1>0, <3>1, <3>4, CancelTypes DEF C!CancelDone, C!Goto, Busy
    <3> QED  BY ZenonT(40), <3>2, <3>3, <3>4
  <2>2. WaitPart'
    <3>1. \A d \in Cancellers : (Busy(d)' => Busy(d)) /\ (cNodes[d] # <<>> => Busy(d)')
      BY ZenonT(40), <1>4, <2>1 DEF Busy, CancelInv, WaitPart
    <3> QED  BY ZenonT(40), <1>4, <1>6, <3>1, WaitKept
  <2>3. C!TypeOK'
    BY ZenonT(40), <1>1, <1>3, <1>6 DEF CancelInv, C!TypeOK, Labels
  <2> QED  BY ZenonT(40), <1>5, <2>2, <2>3 DEF CancelInv
<1>7. CASE ~UNCHANGED <<cClosed, cChain, cNodes>>
  <2>1. /\ cClosed # 1 /\ cClosed' = 1 /\ cChain' = <<>> /\ cNodes' = [cNodes EXCEPT ![c] = cChain]
        /\ cPc' = [cPc EXCEPT ![c] = "lock"]
    BY ZenonT(40), <1>7 DEF C!Close, C!CallbacksDone, C!CancelDone, C!Goto
  <2>2. \A d \in Cancellers : ~Busy(d) /\ cNodes[d] = <<>>
    BY ZenonT(40), <2>1 DEF CancelInv, WaitPart
  <2>3. cPc'[c] = "lock"
    BY ZenonT(40), <1>0, <2>1, CancelTypes
  <2>4. \A d \in Cancellers : cNodes'[d] = IF d = c THEN cChain ELSE <<>>
    BY ZenonT(40), <2>1, <2>2, CancelTypes
  <2>5. Distinct(<<>>) /\ \A w \in Cancelled : ~In(w, <<>>)
    BY DEF Distinct, In
  <2>6. WaitPart'
    <3>1. \A d \in Cancellers : Busy(d)' <=> d = c
      BY ZenonT(40), <1>4, <2>2, <2>3 DEF Busy
    <3>2. ASSUME NEW w \in Cancelled
          PROVE  cPc'[w] = "suspended" <=> In(w, cChain') \/ \E d \in Cancellers : In(w, cNodes'[d])
      <4>1. cPc[w] = "suspended" <=> In(w, cChain)
        BY ZenonT(40), <2>2, <2>5 DEF CancelInv, WaitPart
      <4> QED  BY ZenonT(40), <1>4, <2>1, <2>4, <2>5, <4>1
    <3>3. Distinct(cChain') /\ \A d \in Cancellers : Distinct(cNodes'[d])
      BY ZenonT(40), <2>1, <2>4, <2>5 DEF CancelInv, WaitPart
    <3> QED  BY ZenonT(40), <2>1, <2>4, <3>1, <3>2, <3>3 DEF WaitPart
  <2>7. C!TypeOK'
    <3>1. cNodes' \in [Cancellers -> Seq(Cancelled)]
      BY ZenonT(40), <2>1, CancelTypes
    <3> QED  BY <1>1, <1>3, <2>1, <3>1 DEF CancelInv, C!TypeOK, Labels
  <2> QED  BY ZenonT(40), <1>5, <2>6, <2>7 DEF CancelInv
<1> QED  BY ZenonT(40), <1>6, <1>7

(* if (!active->test_and_set()) fn(), for a callback that is in a list. *)
LEMMA FireStep ==
    ASSUME CancelInv, NEW r \in Regs, Listed(r), C!TestAndFire(r)
    PROVE  /\ cActive' \in [Regs -> 0..1] /\ cFired' \in [Regs -> Nat]
           /\ \A q \in Regs : cActive'[q] = 0 \/ cPc[q] \in {"idle", "checked", "late"} => cFired'[q] = cFired[q]
           /\ \A q \in Regs : cActive'[q] = IF q = r THEN 1 ELSE cActive[q]
           /\ \A q \in Regs : cFired'[q] # cFired[q] => cFired[q] = 0 /\ cPc[q] # "destroyed"
<1>1. cPc[r] \in {"registered", "destroyed"}
  BY ZenonT(40) DEF CancelInv, CallPart
<1>2. cActive[r] = 0 => cFired[r] = 0 /\ cPc[r] # "destroyed"
  BY <1>1 DEF CancelInv, CallPart
<1>3. cActive' = [cActive EXCEPT ![r] = 1]
  BY DEF C!TestAndFire
<1>4. /\ cActive' \in [Regs -> 0..1]
      /\ \A q \in Regs : cActive'[q] = IF q = r THEN 1 ELSE cActive[q]
  BY SMTT(40), <1>3, CancelTypes
<1>5. CASE cActive[r] = 0
  <2>1. cFired' = [cFired EXCEPT ![r] = cFired[r] + 1]
    BY ZenonT(40), <1>5 DEF C!TestAndFire, C!Fire
  <2>2. cFired' \in [Regs -> Nat] /\ \A q \in Regs : q # r => cFired'[q] = cFired[q]
    BY <2>1, CancelTypes
  <2> QED  BY SMTT(40), <1>1, <1>2, <1>4, <1>5, <2>2
<1>6. CASE cActive[r] # 0
  <2>1. cFired' = cFired
    BY ZenonT(40), <1>6 DEF C!TestAndFire
  <2> QED  BY ZenonT(40), <1>4, <2>1, CancelTypes
<1> QED  BY ZenonT(40), <1>5, <1>6

(* A step that calls callbacks: what has to be looked at. *)
LEMMA CallsKept ==
    ASSUME CancelInv,
           \A r \in Regs : cPc'[r] = cPc[r],
           \A r \in Regs : Listed(r)' => Listed(r),
           \A r \in Regs : cActive'[r] \in {cActive[r], 1},
           \A r \in Regs : cActive'[r] = 0 \/ cPc[r] \in {"idle", "checked", "late"} => cFired'[r] = cFired[r],
           \A c \in Cancellers : cPc'[c] = "calling" =>
              /\ cCbs'[c] # <<>>
              /\ cCbs'[c][1] \in CancelOnLoop => c \in CancelOnLoop /\ cPc'[cCbs'[c][1]] # "destroyed"
    PROVE  CallPart'
BY DEF CancelInv, CallPart

(* The call c of cancel() goes from callback to callback. *)
LEMMA CancellerMoves ==
    ASSUME CancelInv, NEW c \in Cancellers, Busy(c), NEW l \in {"callbacks", "calling"},
           cPc' = [cPc EXCEPT ![c] = l], UNCHANGED <<cClosed, cChain, cNodes>>
    PROVE  /\ cPc' \in [C!Actors -> Labels] /\ CancelPcs' /\ WaitPart'
           /\ \A r \in Regs : cPc'[r] = cPc[r]
           /\ \A d \in Cancellers : cPc'[d] = IF d = c THEN l ELSE cPc[d]
<1>1. /\ cPc' \in [C!Actors -> Labels]
      /\ \A b \in C!Actors : cPc'[b] = IF b = c THEN l ELSE cPc[b]
  BY ZenonT(40), Apart, OneMoves DEF Labels
<1>2. /\ \A r \in Regs : cPc'[r] = cPc[r]
      /\ \A w \in Cancelled : cPc'[w] = cPc[w]
      /\ \A d \in Cancellers : cPc'[d] = IF d = c THEN l ELSE cPc[d]
  BY <1>1, Apart
<1>3. CancelPcs'
  BY ZenonT(40), <1>2 DEF CancelInv, CancelPcs
<1>4. WaitPart'
  BY <1>2, WaitKept DEF Busy, CancelInv, WaitPart
<1> QED  BY ZenonT(40), <1>1, <1>2, <1>3, <1>4

LEMMA SwapStep ==
    ASSUME CancelInv, NEW c \in Cancellers, C!Swap(c)
    PROVE  CancelInv'
<1>1. /\ cPc[c] = "lock" /\ cPc' = [cPc EXCEPT ![c] = "callbacks"]
      /\ cCbs' = [cCbs EXCEPT ![c] = cCallbacks] /\ cCallbacks' = <<>>
      /\ UNCHANGED <<cClosed, cChain, cMutex, cActive, cNodes, cQueue, cFired>>
  BY DEF C!Swap, C!Goto
<1>2. /\ cPc' \in [C!Actors -> Labels] /\ CancelPcs' /\ WaitPart'
      /\ \A r \in Regs : cPc'[r] = cPc[r]
      /\ \A d \in Cancellers : cPc'[d] = IF d = c THEN "callbacks" ELSE cPc[d]
  BY ZenonT(40), <1>1, CancellerMoves DEF Busy
<1>3. \A d \in Cancellers : cCbs'[d] = IF d = c THEN cCallbacks ELSE cCbs[d]
  BY ZenonT(40), <1>1, CancelTypes
<1>4. \A r \in Regs : Listed(r)' => Listed(r)
  <2>1. \A r \in Regs : ~In(r, <<>>)
    BY DEF In
  <2> QED  BY ZenonT(40), <1>1, <1>3, <2>1 DEF Listed
<1>5. \A d \in Cancellers : cPc[d] = "calling" => cCbs[d][1] \in Regs
  BY ZenonT(40), CallingOne
<1>6. CallPart'
  <2>1. \A d \in Cancellers : cPc'[d] = "calling" => cPc[d] = "calling" /\ cCbs'[d] = cCbs[d]
    BY Zenon, <1>2, <1>3
  <2>2. \A d \in Cancellers : cPc[d] = "calling" =>
           /\ cCbs[d] # <<>> /\ cPc'[cCbs[d][1]] = cPc[cCbs[d][1]]
           /\ cCbs[d][1] \in CancelOnLoop => d \in CancelOnLoop /\ cPc[cCbs[d][1]] # "destroyed"
    BY Zenon, <1>2, <1>5 DEF CancelInv, CallPart
  <2>3. \A d \in Cancellers : cPc'[d] = "calling" =>
           /\ cCbs'[d] # <<>>
           /\ cCbs'[d][1] \in CancelOnLoop => d \in CancelOnLoop /\ cPc'[cCbs'[d][1]] # "destroyed"
    BY Zenon, <2>1, <2>2
  <2> QED  BY Zenon, <1>1, <1>2, <1>4, <2>3, CallsKept
<1>7. C!TypeOK'
  <2>1. cCbs' \in [Cancellers -> Seq(Regs)]
    BY <1>1, CancelTypes
  <2> QED  BY <1>1, <1>2, <2>1 DEF CancelInv, C!TypeOK, Labels
<1> QED  BY ZenonT(40), <1>2, <1>6, <1>7 DEF CancelInv

(* The head of c's callbacks is taken off. *)
LEMMA Taken ==
    ASSUME CancelInv, NEW c \in Cancellers, cCbs[c] # <<>>, cCbs' = [cCbs EXCEPT ![c] = Tail(@)]
    PROVE  /\ cCbs' \in [Cancellers -> Seq(Regs)]
           /\ \A d \in Cancellers : d # c => cCbs'[d] = cCbs[d]
           /\ \A r \in Regs : (\E d \in Cancellers : In(r, cCbs'[d])) => \E d \in Cancellers : In(r, cCbs[d])
<1>1. cCbs[c] \in Seq(Regs)
  BY ZenonT(40), CancelTypes
<1>2. Tail(cCbs[c]) \in Seq(Regs) /\ \A r \in Regs : In(r, Tail(cCbs[c])) => In(r, cCbs[c])
  BY ZenonT(40), <1>1, Shortened
<1>3. /\ cCbs' \in [Cancellers -> Seq(Regs)]
      /\ \A d \in Cancellers : cCbs'[d] = IF d = c THEN Tail(cCbs[c]) ELSE cCbs[d]
  BY ZenonT(40), <1>2, CancelTypes
<1> QED  BY ZenonT(40), <1>2, <1>3

LEMMA CallbackSteps ==
    ASSUME CancelInv, NEW c \in Cancellers, C!Callback(c) \/ C!Returned(c)
    PROVE  CancelInv'
<1>0. cPc[c] \in {"callbacks", "calling"} /\ Busy(c) /\ cCbs[c] # <<>>
  BY ZenonT(40) DEF C!Callback, C!CallHere, C!Returned, Busy, CancelInv, CallPart
<1>1. UNCHANGED <<cClosed, cChain, cCallbacks, cMutex, cNodes>>
  BY ZenonT(40) DEF C!Callback, C!CallHere, C!Returned
<1> DEFINE r == cCbs[c][1]
<1>2. r \in Regs /\ In(r, cCbs[c])
  BY <1>0, CancelTypes, Shortened
<1> HIDE DEF r
<1>3. \A d \in Cancellers : cPc[d] = "calling" => cCbs[d][1] \in Regs
  BY ZenonT(40), CallingOne
<1>4. ASSUME cPc' = [cPc EXCEPT ![c] = "callbacks"], cCbs' = [cCbs EXCEPT ![c] = Tail(@)],
             \/ UNCHANGED <<cActive, cFired>> /\ (cQueue' = cQueue \/ cQueue' = Append(cQueue, r))
             \/ C!TestAndFire(r) /\ cQueue' = cQueue
      PROVE  CancelInv'
  <2>1. /\ cPc' \in [C!Actors -> Labels] /\ CancelPcs' /\ WaitPart'
        /\ \A q \in Regs : cPc'[q] = cPc[q]
        /\ \A d \in Cancellers : cPc'[d] = IF d = c THEN "callbacks" ELSE cPc[d]
    BY ZenonT(40), <1>0, <1>1, <1>4, CancellerMoves
  <2>2. /\ cCbs' \in [Cancellers -> Seq(Regs)]
        /\ \A d \in Cancellers : d # c => cCbs'[d] = cCbs[d]
        /\ \A q \in Regs : (\E d \in Cancellers : In(q, cCbs'[d])) => \E d \in Cancellers : In(q, cCbs[d])
    BY ZenonT(40), <1>0, <1>4, Taken
  <2>3. cQueue' \in Seq(Regs) /\ \A q \in Regs : In(q, cQueue') => In(q, cQueue) \/ q = r
    <3>1. cQueue \in Seq(Regs)
      BY ZenonT(40), CancelTypes
    <3>2. CASE cQueue' = cQueue
      BY ZenonT(40), <3>1, <3>2
    <3>3. CASE cQueue' = Append(cQueue, r)
      BY SMTT(40), <1>2, <3>1, <3>3 DEF In
    <3> QED  BY ZenonT(40), <1>4, <3>2, <3>3
  <2>4. \A q \in Regs : Listed(q)' => Listed(q)
    BY ZenonT(40), <1>1, <1>2, <2>2, <2>3 DEF Listed
  <2>5. Listed(r)
    BY ZenonT(40), <1>2 DEF Listed
  <2>6. /\ cActive' \in [Regs -> 0..1] /\ cFired' \in [Regs -> Nat]
        /\ \A q \in Regs : cActive'[q] \in {cActive[q], 1}
        /\ \A q \in Regs : cActive'[q] = 0 \/ cPc[q] \in {"idle", "checked", "late"} => cFired'[q] = cFired[q]
    <3>1. CASE UNCHANGED <<cActive, cFired>>
      BY ZenonT(40), <3>1, CancelTypes
    <3>2. CASE C!TestAndFire(r)
      BY ZenonT(40), <1>2, <2>5, <3>2, FireStep
    <3> QED  BY ZenonT(40), <1>4, <3>1, <3>2
  <2>7. CallPart'
    <3>1. \A d \in Cancellers : cPc'[d] = "calling" =>
             /\ cCbs'[d] # <<>>
             /\ cCbs'[d][1] \in CancelOnLoop => d \in CancelOnLoop /\ cPc'[cCbs'[d][1]] # "destroyed"
      BY ZenonT(40), <1>3, <2>1, <2>2 DEF CancelInv, CallPart
    <3> QED  BY ZenonT(40), <2>1, <2>4, <2>6, <3>1, CallsKept
  <2>8. C!TypeOK'
    BY ZenonT(40), <1>1, <2>1, <2>2, <2>3, <2>6 DEF CancelInv, C!TypeOK, Labels
  <2> QED  BY ZenonT(40), <2>1, <2>7, <2>8 DEF CancelInv
<1>5. ASSUME cPc' = [cPc EXCEPT ![c] = "calling"], C!TestAndFire(r), cActive[r] = 0,
             r \in CancelOnLoop => c \in CancelOnLoop, UNCHANGED <<cCbs, cQueue>>
      PROVE  CancelInv'
  <2>1. /\ cPc' \in [C!Actors -> Labels] /\ CancelPcs' /\ WaitPart'
        /\ \A q \in Regs : cPc'[q] = cPc[q]
        /\ \A d \in Cancellers : cPc'[d] = IF d = c THEN "calling" ELSE cPc[d]
    BY ZenonT(40), <1>0, <1>1, <1>5, CancellerMoves
  <2>2. \A q \in Regs : Listed(q)' => Listed(q)
    BY ZenonT(40), <1>1, <1>5 DEF Listed
  <2>3. Listed(r)
    BY <1>2 DEF Listed
  <2>4. /\ cActive' \in [Regs -> 0..1] /\ cFired' \in [Regs -> Nat]
        /\ \A q \in Regs : cActive'[q] \in {cActive[q], 1}
        /\ \A q \in Regs : cActive'[q] = 0 \/ cPc[q] \in {"idle", "checked", "late"} => cFired'[q] = cFired[q]
    BY ZenonT(40), <1>2, <1>5, <2>3, FireStep
  <2>5. cPc[r] # "destroyed"
    BY <1>2, <1>5 DEF CancelInv, CallPart
  <2>6. CallPart'
    <3>1. \A d \in Cancellers : cPc'[d] = "calling" =>
             /\ cCbs'[d] # <<>>
             /\ cCbs'[d][1] \in CancelOnLoop => d \in CancelOnLoop /\ cPc'[cCbs'[d][1]] # "destroyed"
      <4>1. cCbs'[c] # <<>> /\ cCbs'[c][1] = r
        BY ZenonT(40), <1>0, <1>5 DEF r
      <4> QED  BY SMTT(40), <1>2, <1>3, <1>5, <2>1, <2>5, <4>1 DEF CancelInv, CallPart
    <3> QED  BY ZenonT(40), <2>1, <2>2, <2>4, <3>1, CallsKept
  <2>7. C!TypeOK'
    BY ZenonT(40), <1>1, <1>5, <2>1, <2>4 DEF CancelInv, C!TypeOK, Labels
  <2> QED  BY ZenonT(40), <2>1, <2>6, <2>7 DEF CancelInv
<1>6. CASE C!Returned(c)
  BY ZenonT(40), <1>4, <1>6 DEF C!Returned, C!Goto
<1>7. cPc = [cPc EXCEPT ![c] = cPc[c]]
  BY ZenonT(40), CancelTypes
<1>8. CASE C!Callback(c)
  BY ZenonT(40), <1>4, <1>5, <1>7, <1>8 DEF C!Callback, C!CallHere, C!Goto, r
<1> QED  BY ZenonT(40), <1>6, <1>8

LEMMA ResumeWaiterStep ==
    ASSUME CancelInv, NEW c \in Cancellers, C!ResumeWaiter(c)
    PROVE  CancelInv'
<1> DEFINE w == cNodes[c][1]
<1>1. cPc[c] = "waiters" /\ cNodes[c] # <<>> /\ cNodes' = [cNodes EXCEPT ![c] = Tail(cNodes[c])]
  BY ZenonT(40) DEF C!ResumeWaiter
<1>2. UNCHANGED <<cClosed, cChain, cCallbacks, cMutex, cActive, cCbs, cQueue, cFired>>
  BY ZenonT(40) DEF C!ResumeWaiter
<1>3. cNodes[c] \in Seq(Cancelled) /\ Distinct(cNodes[c])
  BY ZenonT(40), CancelTypes DEF CancelInv, WaitPart
<1>4. /\ Tail(cNodes[c]) \in Seq(Cancelled) /\ w \in Cancelled
      /\ Distinct(Tail(cNodes[c]))
      /\ \A v \in Cancelled : In(v, Tail(cNodes[c])) <=> In(v, cNodes[c]) /\ v # w
  BY ZenonT(40), <1>1, <1>3, Shortened
<1>5. PICK l \in {"scheduled", "done"} : cPc' = [cPc EXCEPT ![w] = l]
  BY ZenonT(40) DEF C!ResumeWaiter, C!Goto
<1> HIDE DEF w
<1>6. /\ cPc' \in [C!Actors -> Labels]
      /\ \A b \in C!Actors : cPc'[b] = IF b = w THEN l ELSE cPc[b]
  <2>1. w \in C!Actors /\ l \in Labels
    BY ZenonT(40), SMT, <1>4, <1>5, Apart DEF Labels
  <2> QED  BY Zenon, <1>5, <2>1, OneMoves
<1>7. /\ \A r \in Regs : cPc'[r] = cPc[r]
      /\ \A d \in Cancellers : cPc'[d] = cPc[d]
      /\ \A v \in Cancelled : cPc'[v] = IF v = w THEN l ELSE cPc[v]
  BY ZenonT(40), <1>4, <1>6, Apart
<1>8. CancelPcs' /\ CallPart'
  BY ZenonT(40), <1>2, <1>7, CallKept DEF CancelInv, CancelPcs
<1>9. \A d \in Cancellers : cNodes'[d] = IF d = c THEN Tail(cNodes[c]) ELSE <<>>
  BY ZenonT(40), <1>1, CancelTypes DEF CancelInv, WaitPart, Busy
<1>10. cClosed = 1 /\ cChain = <<>>
  BY ZenonT(40), <1>1, CancelTypes DEF CancelInv, WaitPart, Busy
<1>11. Distinct(<<>>) /\ \A v \in Cancelled : ~In(v, <<>>)
  BY DEF Distinct, In
<1>12. ASSUME NEW v \in Cancelled
       PROVE  cPc'[v] = "suspended" <=> In(v, cChain') \/ \E d \in Cancellers : In(v, cNodes'[d])
  <2>1. \A d \in Cancellers : d # c => cNodes[d] = <<>>
    BY ZenonT(40), <1>1 DEF CancelInv, WaitPart, Busy
  <2>2. cPc[v] = "suspended" <=> In(v, cNodes[c])
    BY <1>10, <1>11, <2>1 DEF CancelInv, WaitPart
  <2> QED  BY ZenonT(40), <1>2, <1>4, <1>7, <1>9, <1>10, <1>11, <2>2
<1>13. WaitPart'
  <2>1. \A d \in Cancellers : Busy(d)' <=> Busy(d)
    BY ZenonT(40), <1>7 DEF Busy
  <2>2. \A d \in Cancellers : Distinct(cNodes'[d]) /\ (cNodes'[d] # <<>> => Busy(d)')
    BY ZenonT(40), <1>1, <1>4, <1>9, <1>11, <2>1 DEF Busy
  <2> QED  BY ZenonT(40), <1>2, <1>12, <2>1, <2>2 DEF CancelInv, WaitPart
<1>14. C!TypeOK'
  <2>1. cNodes' \in [Cancellers -> Seq(Cancelled)]
    BY ZenonT(40), <1>1, <1>4, CancelTypes
  <2> QED  BY ZenonT(40), <1>2, <1>6, <2>1 DEF CancelInv, C!TypeOK, Labels
<1> QED  BY ZenonT(40), <1>8, <1>13, <1>14 DEF CancelInv

LEMMA DispatchedStep ==
    ASSUME CancelInv, C!RunDispatched
    PROVE  CancelInv'
<1> DEFINE r == cQueue[1]
<1>1. /\ cQueue # <<>> /\ cQueue' = Tail(cQueue) /\ C!TestAndFire(r)
      /\ UNCHANGED <<cClosed, cChain, cCallbacks, cMutex, cPc, cCbs, cNodes>>
  BY ZenonT(40) DEF C!RunDispatched
<1>2. /\ cQueue' \in Seq(Regs) /\ r \in Regs /\ In(r, cQueue)
      /\ \A q \in Regs : In(q, cQueue') => In(q, cQueue)
  BY ZenonT(40), <1>1, CancelTypes, Shortened
<1> HIDE DEF r
<1>3. Listed(r) /\ \A q \in Regs : Listed(q)' => Listed(q)
  BY ZenonT(40), <1>1, <1>2 DEF Listed
<1>4. /\ cActive' \in [Regs -> 0..1] /\ cFired' \in [Regs -> Nat]
      /\ \A q \in Regs : cActive'[q] \in {cActive[q], 1}
      /\ \A q \in Regs : cActive'[q] = 0 \/ cPc[q] \in {"idle", "checked", "late"} => cFired'[q] = cFired[q]
  BY ZenonT(40), <1>1, <1>2, <1>3, FireStep
<1>5. CallPart'
  BY ZenonT(40), <1>1, <1>3, <1>4, CallsKept DEF CancelInv, CallPart
<1>6. CancelPcs' /\ WaitPart'
  BY ZenonT(40), <1>1, WaitKept DEF CancelInv, CancelPcs, WaitPart, Busy
<1>7. C!TypeOK'
  BY ZenonT(40), <1>1, <1>2, <1>4 DEF CancelInv, C!TypeOK
<1> QED  BY ZenonT(40), <1>5, <1>6, <1>7 DEF CancelInv

LEMMA CancelStepInv == CancelInv /\ C!Next => CancelInv'
<1> SUFFICES ASSUME CancelInv, C!Next PROVE CancelInv'
  OBVIOUS
<1>1. ASSUME NEW c \in Cancellers, C!Close(c) \/ C!CancelStep(c) PROVE CancelInv'
  BY ZenonT(40), <1>1, CloseSteps, SwapStep, CallbackSteps, ResumeWaiterStep DEF C!CancelStep
<1> QED  BY ZenonT(40), <1>1, RegSteps, CancelledSteps, DispatchedStep DEF C!Next

LEMMA CancelAlways == WaitingSpec => []CancelInv
<1>1. WaitingInit => CancelInv
  BY ZenonT(40), CancelInit DEF WaitingInit
<1>2. CancelInv /\ [WaitingNext]_allVars => CancelInv'
  <2> SUFFICES ASSUME CancelInv, [WaitingNext]_allVars PROVE CancelInv'
    OBVIOUS
  <2>1. CASE C!Next
    BY ZenonT(40), <2>1, CancelStepInv
  <2>2. CASE UNCHANGED cVars
    BY ZenonT(40), <2>2 DEF cVars, CancelInv, C!TypeOK, CancelPcs, WaitPart, CallPart, Busy, Listed
  <2> QED  BY ZenonT(40), <2>1, <2>2 DEF WaitingNext, allVars
<1> QED  BY <1>1, <1>2, PTL DEF WaitingSpec

LEMMA CancelAccounted == CancelInv => C!WaitersAccounted
<1> SUFFICES ASSUME CancelInv, NEW w \in Cancelled
             PROVE  IF cPc[w] = "suspended"
                      THEN \E x \in Places(w, cChain, Cancellers, cNodes) :
                              Places(w, cChain, Cancellers, cNodes) = {x}
                      ELSE Places(w, cChain, Cancellers, cNodes) = {}
  BY ZenonT(40) DEF C!WaitersAccounted, Places
<1>1. ~In(w, <<>>)
  BY DEF In
<1>2. In(w, cChain) => \A c \in Cancellers : ~In(w, cNodes[c])
  BY ZenonT(40), <1>1, CancelTypes DEF CancelInv, WaitPart
<1>3. \A c, d \in Cancellers : In(w, cNodes[c]) /\ In(w, cNodes[d]) => c = d
  BY ZenonT(40), <1>1 DEF CancelInv, WaitPart
<1>4. Distinct(cChain) /\ \A c \in Cancellers : Distinct(cNodes[c])
  BY ZenonT(40) DEF CancelInv, WaitPart
<1>5. cPc[w] = "suspended" <=> In(w, cChain) \/ \E c \in Cancellers : In(w, cNodes[c])
  BY DEF CancelInv, WaitPart
<1> QED  BY ZenonT(40), <1>2, <1>3, <1>4, <1>5, OnePlace

(* For any coroutines, callbacks and racing calls: whoever waits for a     *)
(* promise or a token is in one list, once, until it is resumed, and       *)
(* cancel() is never inside a callback whose registration was destroyed on *)
(* the callback's own thread.                                              *)
THEOREM NoWaiterLost == WaitingSpec => []WaitersAccounted
<1>1. FutureInv /\ CancelInv => WaitersAccounted
  <2>1. CancelInv => C!NotDuringCall
    BY DEF CancelInv, CallPart, C!NotDuringCall
  <2> QED  BY ZenonT(40), <2>1, FutureAccounted, CancelAccounted DEF WaitersAccounted, FutureInv, CancelInv
<1> QED  BY <1>1, FutureAlways, CancelAlways, PTL

(* For any registrations and any racing calls of cancel(), direct calls    *)
(* and dispatched ones: a callback is called at most once, and none that   *)
(* belongs to the loop's thread after its registration was destroyed.      *)
THEOREM CallbackCalledOnce == WaitingSpec => CallbackOnce
<1> DEFINE A == \A r \in Regs : cFired'[r] # cFired[r] =>
                   cFired[r] = 0 /\ ~(r \in CancelOnLoop /\ cPc[r] = "destroyed")
<1>1. CancelInv /\ [WaitingNext]_allVars => [A]_(C!vars)
  <2> SUFFICES ASSUME CancelInv, C!Next PROVE A
    BY DEF WaitingNext, allVars, cVars, C!vars
  <2>1. ASSUME NEW r \in Regs, C!CallLate(r) PROVE A
    <3>1. cPc[r] = "late" /\ \A q \in Regs : q # r => cFired'[q] = cFired[q]
      BY ZenonT(40), <2>1, CancelTypes DEF C!CallLate, C!Fire
    <3> QED  BY ZenonT(40), <3>1 DEF CancelInv, CallPart
  <2>2. ASSUME NEW r \in Regs, Listed(r), C!TestAndFire(r) PROVE A
    BY ZenonT(40), <2>2, FireStep
  <2>3. CASE C!RunDispatched
    <3>1. cQueue[1] \in Regs /\ In(cQueue[1], cQueue)
      BY ZenonT(40), <2>3, CancelTypes, Shortened DEF C!RunDispatched
    <3> QED  BY ZenonT(40), <2>2, <2>3, <3>1 DEF C!RunDispatched, Listed
  <2>4. ASSUME NEW c \in Cancellers, C!CallHere(c) PROVE A
    <3>1. cCbs[c] # <<>> /\ cCbs[c] \in Seq(Regs)
      BY ZenonT(40), <2>4, CancelTypes DEF C!CallHere
    <3>2. cCbs[c][1] \in Regs /\ In(cCbs[c][1], cCbs[c])
      BY ZenonT(40), <3>1, Shortened
    <3> QED  BY ZenonT(40), <2>2, <2>4, <3>2 DEF C!CallHere, Listed
  <2>5. CASE UNCHANGED cFired
    BY ZenonT(40), <2>5
  <2>6. ASSUME NEW r \in Regs, C!Check(r) \/ C!Register(r) \/ C!Unregister(r) PROVE UNCHANGED cFired
    BY ZenonT(40), <2>6 DEF C!Check, C!Register, C!Unregister
  <2>7. ASSUME NEW w \in Cancelled, C!Await(w) \/ C!RunWaiter(w) PROVE UNCHANGED cFired
    BY ZenonT(40), <2>7 DEF C!Await, C!RunWaiter
  <2>8. ASSUME NEW c \in Cancellers, C!Close(c) \/ C!CancelStep(c)
        PROVE  UNCHANGED cFired \/ C!CallHere(c)
    BY ZenonT(40), <2>8 DEF C!Close, C!CancelStep, C!Swap, C!Callback, C!Returned, C!CallbacksDone,
                C!ResumeWaiter, C!CancelDone
  <2> QED  BY ZenonT(40), <2>1, <2>3, <2>4, <2>5, <2>6, <2>7, <2>8 DEF C!Next
<1> QED  BY <1>1, CancelAlways, PTL DEF WaitingSpec, CallbackOnce, C!FiresOnce
=============================================================================
