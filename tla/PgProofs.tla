---------------------------------- MODULE PgProofs --------------------------
(***************************************************************************)
(* That PgPool counts its connections right, lets nobody wait in vain and  *)
(* lends no connection inside a transaction, for any number of calls of    *)
(* acquire() and any maxSize; and that a query of PgConnectionImpl is      *)
(* given its own result, for any number of queries on the connection.      *)
(***************************************************************************)
EXTENDS MCPg, Sequences, TLAPS

Places == {"none", "connecting", "idle", "promised", "lent", "returning"}
Steps == {"none", "waiting", "served", "failed", "holding", "txn", "txnDone", "leaving", "done"}

PoolType ==
    [totalCount : Nat, idle : Seq(Conns), waiters : Seq(Acquirers), where : [Conns -> Places],
     user : [Conns -> Acquirers], pc : [Acquirers -> Steps], cancelled : SUBSET Acquirers]

Distinct(s) == \A i, j \in 1..Len(s) : s[i] = s[j] => i = j

(* The connections that are somebody's: no acquirer has two, and one that  *)
(* has one waits for no other.                                             *)
Claimed(p) == {c \in Conns : p.where[c] \in {"connecting", "promised", "lent"}}

PoolInv(p) ==
    /\ p \in PoolType
    /\ Distinct(p.idle) /\ Distinct(p.waiters)
    /\ \A c \in Conns : p.where[c] = "idle" <=> \E i \in 1..Len(p.idle) : p.idle[i] = c
    /\ \A c, d \in Claimed(p) : p.user[c] = p.user[d] => c = d
    /\ \A c \in Claimed(p) : /\ p.pc[p.user[c]] # "none"
                             /\ \A i \in 1..Len(p.waiters) : p.waiters[i] # p.user[c]
    /\ \A i \in 1..Len(p.waiters) : p.pc[p.waiters[i]] # "none"

(* What totalCount counts. *)
Counted(p, d) == {c \in Conns : p.where[c] \notin {"none", "lent"}}
                   \cup {c \in Conns : p.where[c] = "lent" /\ d[c] = 0}

CountInv(p, d) == p.totalCount = Cardinality(Counted(p, d)) /\ p.totalCount <= MaxSize

Live(p) == {i \in 1..Len(p.waiters) : p.waiters[i] \notin p.cancelled}

Settled(p) == Live(p) # {} => p.idle = <<>> /\ p.totalCount = MaxSize

(* One call of dispatch() is enough: it serves one waiter, and one waiter  *)
(* or one connection is all that has come since the last.                  *)
Near(p) ==
    \/ Settled(p)
    \/ \A i, j \in Live(p) : i = j
    \/ Len(p.idle) = 1 /\ p.totalCount = MaxSize
    \/ p.idle = <<>> /\ p.totalCount + 1 = MaxSize
(* What the proofs use about finite sets and sets of numbers: it is proved *)
(* at the end of the module.                                               *)
SetFacts ==
    /\ \A T \in SUBSET Nat : T # {} => \E x \in T : \A y \in T : x <= y
    /\ Cardinality({}) = 0
    /\ \A S : IsFiniteSet(S) => Cardinality(S) \in Nat
    /\ \A S : \A x : IsFiniteSet(S) =>
          /\ x \notin S => Cardinality(S \cup {x}) = Cardinality(S) + 1
          /\ x \in S => /\ IsFiniteSet(S \ {x})
                        /\ Cardinality(S \ {x}) = Cardinality(S) - 1
    /\ \A S, T : IsFiniteSet(S) /\ IsFiniteSet(T) =>
          Cardinality(S \cup T) = Cardinality(S) + Cardinality(T) - Cardinality(S \cap T)
    /\ \A S, T : \A f \in [S -> T] :
          IsFiniteSet(T) /\ (\A x, y \in S : f[x] = f[y] => x = y) =>
             IsFiniteSet(S) /\ Cardinality(S) <= Cardinality(T)
    /\ \A T : \A S \in SUBSET T : IsFiniteSet(T) => IsFiniteSet(S)
-----------------------------------------------------------------------------
(* The sequence operators of the pool's queues, in the form the provers    *)
(* use them.                                                               *)
LEMMA NoneQueued ==
    ASSUME NEW T
    PROVE  <<>> \in Seq(T) /\ Len(<<>>) = 0 /\ \A s \in Seq(T) : s # <<>> => Len(s) \in Nat \ {0}
OBVIOUS

LEMMA FirstTaken ==
    ASSUME NEW T, NEW s \in Seq(T), s # <<>>
    PROVE  /\ Head(s) \in T /\ Tail(s) \in Seq(T) /\ Len(Tail(s)) = Len(s) - 1
           /\ \A i \in 1..Len(Tail(s)) : Tail(s)[i] = s[i + 1]
OBVIOUS

LEMMA LastAdded ==
    ASSUME NEW T, NEW s \in Seq(T), NEW e \in T
    PROVE  /\ Len(s) \in Nat /\ s \in [1..Len(s) -> T]
           /\ Append(s, e) \in Seq(T) /\ Len(Append(s, e)) = Len(s) + 1
           /\ \A i \in 1..Len(s) : Append(s, e)[i] = s[i]
           /\ Append(s, e)[Len(s) + 1] = e
<1>1. Len(s) \in Nat /\ s \in [1..Len(s) -> T]
  OBVIOUS
<1>2. Append(s, e) \in Seq(T) /\ Len(Append(s, e)) = Len(s) + 1
  OBVIOUS
<1>3. (\A i \in 1..Len(s) : Append(s, e)[i] = s[i]) /\ Append(s, e)[Len(s) + 1] = e
  OBVIOUS
<1> QED  BY ZenonT(40), <1>1, <1>2, <1>3

LEMMA RestKept ==
    ASSUME NEW T, NEW s \in Seq(T), NEW m \in 1..Len(s)
    PROVE  /\ SubSeq(s, m, Len(s)) \in Seq(T)
           /\ Len(SubSeq(s, m, Len(s))) = Len(s) - m + 1
           /\ \A i \in 1..(Len(s) - m + 1) : SubSeq(s, m, Len(s))[i] = s[m + i - 1]
OBVIOUS

(* SkipCancelled drops the first k waiters, which were all cancelled, and  *)
(* stops at one that was not.                                              *)
Skips(p, w, k) ==
    /\ w \in Seq(Acquirers) /\ Len(w) = Len(p.waiters) - k
    /\ \A i \in 1..Len(w) : w[i] = p.waiters[i + k]
    /\ \A i \in Live(p) : i > k
    /\ w # <<>> => Head(w) \notin p.cancelled

LEMMA SkipDrops ==
    ASSUME SetFacts, NEW p \in PoolType
    PROVE  \E w : \E k \in Nat : P!SkipCancelled(p) = [p EXCEPT !.waiters = w] /\ Skips(p, w, k)
<1> DEFINE live == {i \in 1..Len(p.waiters) : p.waiters[i] \notin p.cancelled}
           first == CHOOSE i \in live : \A j \in live : i <= j
<1>0. p.waiters \in Seq(Acquirers) /\ Len(p.waiters) \in Nat
  BY DEF PoolType
<1>1. CASE live = {}
  <2>1. P!SkipCancelled(p) = [p EXCEPT !.waiters = <<>>]
    BY <1>1 DEF P!SkipCancelled
  <2>2. Skips(p, <<>>, Len(p.waiters))
    BY <1>0, <1>1, NoneQueued DEF Skips, Live
  <2> QED  BY ZenonT(40), <1>0, <2>1, <2>2
<1>2. CASE live # {}
  <2> DEFINE w == SubSeq(p.waiters, first, Len(p.waiters))
  <2>1. P!SkipCancelled(p) = [p EXCEPT !.waiters = w]
    BY <1>2, Zenon DEF P!SkipCancelled
  <2>2. first \in live /\ \A j \in live : first <= j
    <3>1. live \subseteq Nat
      BY <1>0
    <3>2. \E i \in live : \A j \in live : i <= j
      <4> HIDE DEF live
      <4> QED  BY <1>2, <3>1, Zenon DEF SetFacts
    <3> HIDE DEF live
    <3> QED  BY <3>2
  <2>3. first \in 1..Len(p.waiters) /\ p.waiters[first] \notin p.cancelled
    BY <2>2
  <2> HIDE DEF first
  <2>4. /\ w \in Seq(Acquirers) /\ Len(w) = Len(p.waiters) - (first - 1)
        /\ \A i \in 1..Len(w) : w[i] = p.waiters[i + (first - 1)]
    BY <1>0, <2>3, RestKept
  <2> HIDE DEF w
  <2>5. w # <<>> /\ Head(w) = w[1] /\ w[1] = p.waiters[first]
    BY <1>0, <2>3, <2>4
  <2>6. first - 1 \in Nat /\ Skips(p, w, first - 1)
    BY <1>0, <2>2, <2>3, <2>4, <2>5 DEF Skips, Live
  <2> QED  BY <2>1, <2>6
<1> QED  BY <1>1, <1>2

(* A pool that is not full has a connection to make: the connections that  *)
(* exist are counted or lent, and the acquirers hold one each at most.     *)
LEMMA FreshExists ==
    ASSUME SetFacts, NEW p, NEW d, PoolInv(p), CountInv(p, d), p.totalCount < MaxSize
    PROVE  P!Fresh(p) \in Conns /\ p.where[P!Fresh(p)] = "none"
<1> DEFINE Lent == {c \in Conns : p.where[c] = "lent"}
           f == [c \in Lent |-> p.user[c]]
<1>1. /\ IsFiniteSet(Conns) /\ IsFiniteSet(Acquirers) /\ MaxSize \in Nat
      /\ Cardinality(Conns) >= Cardinality(Acquirers) + MaxSize
  BY PoolAssumption
<1>2. IsFiniteSet(Lent) /\ Cardinality(Lent) <= Cardinality(Acquirers)
  <2>1. f \in [Lent -> Acquirers] /\ \A x, y \in Lent : f[x] = f[y] => x = y
    BY DEF PoolInv, PoolType, Claimed
  <2> HIDE DEF Lent, f
  <2> QED  BY <1>1, <2>1, Zenon DEF SetFacts
<1>3. IsFiniteSet(Counted(p, d)) /\ Cardinality(Counted(p, d)) < MaxSize
  BY <1>1 DEF SetFacts, CountInv, Counted
<1>4. \E c \in Conns : p.where[c] = "none"
  <2> SUFFICES ASSUME \A c \in Conns : p.where[c] # "none" PROVE FALSE
    OBVIOUS
  <2>1. Conns = Counted(p, d) \cup Lent
    BY ZenonT(40) DEF Counted
  <2> HIDE DEF Lent
  <2>2. /\ Cardinality(Conns) = Cardinality(Counted(p, d)) + Cardinality(Lent)
                                 - Cardinality(Counted(p, d) \cap Lent)
    BY ZenonT(40), <1>2, <1>3, <2>1 DEF SetFacts
  <2>3. IsFiniteSet(Counted(p, d) \cap Lent)
    BY <1>2 DEF SetFacts
  <2>4. /\ Cardinality(Lent) \in Nat /\ Cardinality(Counted(p, d)) \in Nat
        /\ Cardinality(Counted(p, d) \cap Lent) \in Nat
        /\ Cardinality(Conns) \in Nat /\ Cardinality(Acquirers) \in Nat
    BY <1>1, <1>2, <1>3, <2>3, Zenon DEF SetFacts
  <2> QED  BY <1>1, <1>2, <1>3, <2>2, <2>4
<1> QED  BY <1>4 DEF P!Fresh

(* What dispatch() makes of the pool: nothing but shorter waiters, a       *)
(* waiter that is given an idle connection, or one that is given a new one. *)
ServesNobody(p, q, w) ==
    /\ q = [totalCount |-> p.totalCount, idle |-> p.idle, waiters |-> w, where |-> p.where,
            user |-> p.user, pc |-> p.pc, cancelled |-> p.cancelled]
    /\ w # <<>> => p.idle = <<>> /\ ~(p.totalCount < MaxSize)

ServesIdle(p, q, w) ==
    /\ w # <<>> /\ p.idle # <<>>
    /\ q = [totalCount |-> p.totalCount, idle |-> Tail(p.idle), waiters |-> Tail(w),
            where |-> [p.where EXCEPT ![Head(p.idle)] = "promised"],
            user |-> [p.user EXCEPT ![Head(p.idle)] = Head(w)],
            pc |-> [p.pc EXCEPT ![Head(w)] = "served"], cancelled |-> p.cancelled]

ServesFresh(p, q, w) ==
    /\ w # <<>> /\ p.idle = <<>> /\ p.totalCount < MaxSize
    /\ q = [totalCount |-> p.totalCount + 1, idle |-> p.idle, waiters |-> Tail(w),
            where |-> [p.where EXCEPT ![P!Fresh(p)] = "connecting"],
            user |-> [p.user EXCEPT ![P!Fresh(p)] = Head(w)],
            pc |-> p.pc, cancelled |-> p.cancelled]

LEMMA DispatchShape ==
    ASSUME SetFacts, NEW p \in PoolType
    PROVE  \E w : \E k \in Nat :
              /\ Skips(p, w, k)
              /\ \/ ServesNobody(p, P!Dispatch(p), w)
                 \/ ServesIdle(p, P!Dispatch(p), w)
                 \/ ServesFresh(p, P!Dispatch(p), w)
<1>0. PICK w : \E k \in Nat : P!SkipCancelled(p) = [p EXCEPT !.waiters = w] /\ Skips(p, w, k)
  BY SkipDrops
<1>1. PICK k \in Nat : P!SkipCancelled(p) = [p EXCEPT !.waiters = w] /\ Skips(p, w, k)
  BY <1>0
<1> DEFINE r == [totalCount |-> p.totalCount, idle |-> p.idle, waiters |-> w, where |-> p.where,
                 user |-> p.user, pc |-> p.pc, cancelled |-> p.cancelled]
<1>2. P!SkipCancelled(p) = r
  BY ZenonT(40), <1>1 DEF PoolType
<1>3. P!Fresh(r) = P!Fresh(p)
  BY DEF P!Fresh
<1>4. CASE w = <<>>
  <2>1. P!Dispatch(p) = r
    BY <1>2, <1>4 DEF P!Dispatch
  <2> QED  BY <1>1, <1>4, <2>1, Zenon DEF ServesNobody
<1>5. CASE w # <<>> /\ p.idle # <<>>
  <2>1. P!Dispatch(p) = [P!Give(r, Head(p.idle), Head(w), "promised")
                           EXCEPT !.idle = Tail(@), !.pc[Head(w)] = "served"]
    BY <1>2, <1>5 DEF P!Dispatch
  <2>2. ServesIdle(p, P!Dispatch(p), w)
    BY <1>5, <2>1, Zenon DEF ServesIdle, P!Give
  <2> QED  BY ZenonT(40), <1>1, <2>2
<1>6. CASE w # <<>> /\ p.idle = <<>> /\ p.totalCount < MaxSize
  <2>1. P!Dispatch(p) = [P!Give(r, P!Fresh(p), Head(w), "connecting") EXCEPT !.totalCount = @ + 1]
    BY <1>2, <1>3, <1>6 DEF P!Dispatch
  <2>2. ServesFresh(p, P!Dispatch(p), w)
    BY <1>6, <2>1, Zenon DEF ServesFresh, P!Give
  <2> QED  BY <1>1, <2>2
<1>7. CASE w # <<>> /\ p.idle = <<>> /\ ~(p.totalCount < MaxSize)
  <2>1. P!Dispatch(p) = r
    BY <1>2, <1>7 DEF P!Dispatch
  <2> QED  BY <1>1, <1>7, <2>1, Zenon DEF ServesNobody
<1> QED  BY ZenonT(40), <1>4, <1>5, <1>6, <1>7

(* dispatch() does not touch the connections that are lent. *)
LentKept(p, q) ==
    \A c \in Conns :
       /\ q.where[c] = "lent" <=> p.where[c] = "lent"
       /\ p.where[c] = "lent" => q.user[c] = p.user[c] /\ q.pc[p.user[c]] = p.pc[p.user[c]]

LEMMA NobodyKeeps ==
    ASSUME NEW p, NEW d, NEW q, NEW w, NEW k \in Nat, PoolInv(p), CountInv(p, d),
           Skips(p, w, k), ServesNobody(p, q, w)
    PROVE  PoolInv(q) /\ CountInv(q, d) /\ LentKept(p, q) /\ Settled(q)
<1>1. /\ Len(p.waiters) \in Nat /\ Len(w) \in Nat
      /\ \A i \in 1..Len(w) : i + k \in 1..Len(p.waiters) /\ w[i] = p.waiters[i + k]
  BY DEF PoolInv, PoolType, Skips
<1>2. Distinct(w)
  <2>1. Distinct(p.waiters)
    BY DEF PoolInv
  <2> SUFFICES ASSUME NEW i \in 1..Len(w), NEW j \in 1..Len(w), w[i] = w[j] PROVE i = j
    BY DEF Distinct
  <2>2. i + k = j + k
    BY <1>1, <2>1 DEF Distinct
  <2> QED  BY <2>2
<1>3. PoolInv(q)
  <2>1. q \in PoolType /\ Claimed(q) = Claimed(p)
    BY DEF PoolInv, PoolType, ServesNobody, Skips, Claimed
  <2>2. /\ q.idle = p.idle /\ q.where = p.where /\ q.user = p.user /\ q.pc = p.pc
        /\ q.waiters = w
    BY DEF ServesNobody, PoolInv, PoolType
  <2>3. ASSUME NEW i \in 1..Len(w)
        PROVE  /\ p.pc[w[i]] # "none"
               /\ \A c \in Claimed(p) : w[i] # p.user[c]
    <3>1. i + k \in 1..Len(p.waiters) /\ w[i] = p.waiters[i + k]
      BY <1>1
    <3> QED  BY <3>1, ZenonT(40) DEF PoolInv
  <2>4. \A c \in Claimed(p) : p.pc[p.user[c]] # "none"
    BY DEF PoolInv
  <2>5. /\ Distinct(p.idle)
        /\ \A c \in Conns : p.where[c] = "idle" <=> \E i \in 1..Len(p.idle) : p.idle[i] = c
        /\ \A c, x \in Claimed(p) : p.user[c] = p.user[x] => c = x
    BY DEF PoolInv
  <2> QED  BY <1>2, <2>1, <2>2, <2>3, <2>4, <2>5 DEF PoolInv
<1>4. CountInv(q, d)
  BY DEF CountInv, Counted, ServesNobody
<1>5. Settled(q)
  BY <1>1, PoolAssumption, NoneQueued
     DEF Settled, Live, ServesNobody, Skips, CountInv, PoolInv, PoolType
<1> QED  BY ZenonT(40), <1>3, <1>4, <1>5 DEF LentKept, ServesNobody

(* The one who is served is off the queue, and nobody's claim was theirs. *)
Served(p, q) ==
    /\ Distinct(q.waiters)
    /\ \A x, y \in Claimed(q) : q.user[x] = q.user[y] => x = y
    /\ \A x \in Claimed(q) : /\ q.pc[q.user[x]] # "none"
                             /\ \A i \in 1..Len(q.waiters) : q.waiters[i] # q.user[x]
    /\ \A i \in 1..Len(q.waiters) : q.pc[q.waiters[i]] # "none"
    /\ LentKept(p, q)
    /\ Live(q) # {} => \E i, j \in Live(p) : i # j

LEMMA ServedKeeps ==
    ASSUME NEW p, NEW q \in PoolType, NEW w, NEW k \in Nat, NEW c \in Conns,
           PoolInv(p), Skips(p, w, k), w # <<>>,
           q.waiters = Tail(w), q.cancelled = p.cancelled,
           p.where[c] \in {"none", "idle"}, q.where[c] \in {"connecting", "promised"},
           q.where = [p.where EXCEPT ![c] = q.where[c]], q.user = [p.user EXCEPT ![c] = Head(w)],
           q.pc = p.pc \/ q.pc = [p.pc EXCEPT ![Head(w)] = "served"]
    PROVE  Served(p, q)
<1> DEFINE a == Head(w)
<1>0. p.waiters \in Seq(Acquirers) /\ w \in Seq(Acquirers)
  BY DEF PoolInv, PoolType, Skips
<1>1. /\ Len(p.waiters) \in Nat /\ Len(w) \in Nat /\ Len(w) # 0
      /\ \A i \in 1..Len(w) : i + k \in 1..Len(p.waiters) /\ w[i] = p.waiters[i + k]
      /\ a \in Acquirers /\ a = w[1] /\ 1 + k \in 1..Len(p.waiters) /\ a = p.waiters[1 + k]
  BY SMTT(40), <1>0 DEF Skips
<1>2. /\ Len(q.waiters) = Len(w) - 1
      /\ \A i \in 1..Len(q.waiters) : /\ q.waiters[i] = w[i + 1]
                                       /\ i + 1 + k \in 1..Len(p.waiters)
                                       /\ q.waiters[i] = p.waiters[i + 1 + k]
  <2>1. /\ Len(q.waiters) = Len(w) - 1
        /\ \A i \in 1..Len(q.waiters) : q.waiters[i] = w[i + 1]
    BY FirstTaken DEF Skips
  <2> QED  BY <1>1, <2>1
<1> HIDE DEF a
<1>3. Distinct(q.waiters) /\ \A i \in 1..Len(q.waiters) : q.waiters[i] # a
  <2>1. Distinct(p.waiters)
    BY DEF PoolInv
  <2>2. ASSUME NEW i \in 1..Len(q.waiters), NEW j \in 1..Len(q.waiters), q.waiters[i] = q.waiters[j]
        PROVE  i = j
    <3>1. i + 1 + k = j + 1 + k
      BY <1>2, <2>1, <2>2 DEF Distinct
    <3> QED  BY <3>1
  <2>3. ASSUME NEW i \in 1..Len(q.waiters), q.waiters[i] = a PROVE FALSE
    <3>1. i + 1 + k = 1 + k
      BY <1>1, <1>2, <2>1, <2>3 DEF Distinct
    <3> QED  BY <3>1
  <2> QED  BY <2>2, <2>3 DEF Distinct
<1>4. Claimed(q) = Claimed(p) \cup {c} /\ c \notin Claimed(p)
  BY DEF Claimed, PoolInv, PoolType
<1>5. q.user[c] = a /\ \A x \in Claimed(p) : q.user[x] = p.user[x] /\ p.user[x] # a
  BY <1>1, <1>4 DEF PoolInv, PoolType, Claimed, a
<1>6. \A b \in Acquirers : p.pc[b] # "none" => q.pc[b] # "none"
  BY ZenonT(40) DEF PoolInv, PoolType
<1>7. \A b \in Acquirers : b # a => q.pc[b] = p.pc[b]
  BY ZenonT(40) DEF PoolInv, PoolType, a
<1>8. p.pc[a] # "none"
  BY ZenonT(40), <1>1 DEF PoolInv
<1>9. \A x, y \in Claimed(q) : q.user[x] = q.user[y] => x = y
  BY ZenonT(40), <1>4, <1>5 DEF PoolInv
<1>10. ASSUME NEW x \in Claimed(q)
       PROVE  /\ q.pc[q.user[x]] # "none"
              /\ \A i \in 1..Len(q.waiters) : q.waiters[i] # q.user[x]
  <2>1. CASE x = c
    BY ZenonT(40), <1>1, <1>3, <1>5, <1>6, <1>8, <2>1
  <2>2. CASE x \in Claimed(p)
    <3>1. /\ p.user[x] \in Acquirers /\ p.pc[p.user[x]] # "none"
          /\ \A i \in 1..Len(p.waiters) : p.waiters[i] # p.user[x]
      BY ZenonT(40), <2>2 DEF PoolInv, PoolType, Claimed
    <3> QED  BY <1>2, <1>5, <1>6, <2>2, <3>1
  <2> QED  BY ZenonT(40), <1>4, <2>1, <2>2
<1>11. ASSUME NEW i \in 1..Len(q.waiters) PROVE q.pc[q.waiters[i]] # "none"
  <2>1. \A j \in 1..Len(p.waiters) : p.waiters[j] \in Acquirers /\ p.pc[p.waiters[j]] # "none"
    BY <1>0 DEF PoolInv
  <2> QED  BY <1>2, <1>6, <2>1
<1>12. LentKept(p, q)
  BY <1>5, <1>7 DEF LentKept, Claimed, PoolInv, PoolType
<1>13. ASSUME NEW i \in Live(q) PROVE \E l, m \in Live(p) : l # m
  <2>1. i + 1 + k \in Live(p) /\ 1 + k \in Live(p)
    BY <1>1, <1>2, <1>13 DEF Live, Skips, a
  <2>2. i + 1 + k # 1 + k
    BY <1>2, <1>13 DEF Live
  <2> QED  BY <2>1, <2>2, Zenon
<1> QED  BY ZenonT(40), <1>3, <1>9, <1>10, <1>11, <1>12, <1>13 DEF Served

LEMMA IdleKeeps ==
    ASSUME NEW p, NEW d, NEW q, NEW w, NEW k \in Nat, PoolInv(p), CountInv(p, d),
           Skips(p, w, k), ServesIdle(p, q, w)
    PROVE  /\ PoolInv(q) /\ CountInv(q, d) /\ LentKept(p, q)
           /\ Near(p) => Settled(q)
<1> DEFINE c == Head(p.idle)
<1>1. /\ p.idle \in Seq(Conns) /\ Len(p.idle) \in Nat /\ Len(p.idle) # 0
      /\ c \in Conns /\ c = p.idle[1] /\ 1 \in 1..Len(p.idle)
      /\ Head(w) \in Acquirers /\ Tail(w) \in Seq(Acquirers)
  BY FirstTaken DEF PoolInv, PoolType, Skips, ServesIdle
<1>2. /\ q.idle \in Seq(Conns) /\ Len(q.idle) = Len(p.idle) - 1
      /\ \A i \in 1..Len(q.idle) : q.idle[i] = p.idle[i + 1] /\ i + 1 \in 1..Len(p.idle)
  BY <1>1, FirstTaken DEF ServesIdle
<1>3. q \in PoolType
  BY ZenonT(40), <1>1, <1>2 DEF ServesIdle, PoolInv, PoolType, Places, Steps
<1>4. p.where[c] = "idle" /\ q.where[c] = "promised"
  BY ZenonT(40), <1>1 DEF PoolInv, PoolType, ServesIdle
<1>5. /\ q.waiters = Tail(w) /\ w # <<>> /\ q.cancelled = p.cancelled
      /\ q.where = [p.where EXCEPT ![c] = "promised"] /\ q.user = [p.user EXCEPT ![c] = Head(w)]
      /\ q.pc = [p.pc EXCEPT ![Head(w)] = "served"] /\ q.totalCount = p.totalCount
  BY DEF ServesIdle
<1> HIDE DEF c
<1>6. Served(p, q)
  <2>1. q.where = [p.where EXCEPT ![c] = q.where[c]]
    BY ZenonT(40), <1>4, <1>5
  <2>2. p.where[c] \in {"none", "idle"} /\ q.where[c] \in {"connecting", "promised"}
    BY ZenonT(40), <1>1, <1>4, <1>5
  <2> QED  BY <1>1, <1>3, <1>4, <1>5, <2>1, <2>2, ServedKeeps, Zenon
<1>7. Distinct(q.idle) /\ \A i \in 1..Len(q.idle) : q.idle[i] # c
  <2>1. Distinct(p.idle)
    BY DEF PoolInv
  <2>2. ASSUME NEW i \in 1..Len(q.idle), NEW j \in 1..Len(q.idle), q.idle[i] = q.idle[j]
        PROVE  i = j
    <3>1. i + 1 = j + 1
      BY <1>2, <2>1, <2>2 DEF Distinct
    <3> QED  BY <3>1
  <2>3. ASSUME NEW i \in 1..Len(q.idle), q.idle[i] = c PROVE FALSE
    <3>1. i + 1 = 1
      BY <1>1, <1>2, <2>1, <2>3 DEF Distinct
    <3> QED  BY <3>1
  <2> QED  BY <2>2, <2>3 DEF Distinct
<1>8. ASSUME NEW x \in Conns
      PROVE  q.where[x] = "idle" <=> \E i \in 1..Len(q.idle) : q.idle[i] = x
  <2>1. CASE x = c
    BY <1>4, <1>7, <2>1
  <2>2. CASE x # c
    <3>1. q.where[x] = p.where[x]
      BY ZenonT(40), <1>1, <1>5, <2>2 DEF PoolInv, PoolType
    <3>2. ASSUME NEW i \in 1..Len(p.idle), p.idle[i] = x PROVE \E j \in 1..Len(q.idle) : q.idle[j] = x
      <4>1. i - 1 \in 1..Len(q.idle) /\ q.idle[i - 1] = p.idle[i]
        BY <1>1, <1>2, <2>2, <3>2
      <4> QED  BY ZenonT(40), <3>2, <4>1
    <3>3. p.where[x] = "idle" <=> \E i \in 1..Len(p.idle) : p.idle[i] = x
      BY DEF PoolInv
    <3>4. (\E j \in 1..Len(q.idle) : q.idle[j] = x) => \E i \in 1..Len(p.idle) : p.idle[i] = x
      BY ZenonT(40), <1>2
    <3> QED  BY <3>1, <3>2, <3>3, <3>4
  <2> QED  BY <2>1, <2>2
<1>9. PoolInv(q)
  BY ZenonT(40), <1>3, <1>6, <1>7, <1>8 DEF PoolInv, Served
<1>10. CountInv(q, d)
  <2>1. Counted(q, d) = Counted(p, d)
    BY ZenonT(40), <1>1, <1>4, <1>5 DEF Counted, PoolInv, PoolType
  <2> QED  BY ZenonT(40), <1>5, <2>1 DEF CountInv
<1>11. ASSUME Near(p) PROVE Settled(q)
  <2> SUFFICES ASSUME Live(q) # {} PROVE q.idle = <<>> /\ q.totalCount = MaxSize
    BY ZenonT(40) DEF Settled
  <2>1. Len(p.idle) = 1 /\ p.totalCount = MaxSize
    BY ZenonT(40), <1>1, <1>6, <1>11, NoneQueued DEF Near, Settled, Served
  <2>2. Len(q.idle) = 0
    BY <1>2, <2>1
  <2> QED  BY ZenonT(40), <1>2, <1>5, <2>1, <2>2, NoneQueued
<1> QED  BY ZenonT(40), <1>6, <1>9, <1>10, <1>11 DEF Served

LEMMA FreshKeeps ==
    ASSUME SetFacts, NEW p, NEW d, NEW q, NEW w, NEW k \in Nat, PoolInv(p), CountInv(p, d),
           Skips(p, w, k), ServesFresh(p, q, w)
    PROVE  /\ PoolInv(q) /\ CountInv(q, d) /\ LentKept(p, q)
           /\ Near(p) => Settled(q)
<1> DEFINE c == P!Fresh(p)
<1>1. c \in Conns /\ p.where[c] = "none"
  BY FreshExists DEF ServesFresh
<1>2. Head(w) \in Acquirers /\ Tail(w) \in Seq(Acquirers)
  BY ZenonT(40), FirstTaken DEF ServesFresh, Skips
<1>3. q \in PoolType
  BY <1>1, <1>2 DEF ServesFresh, PoolInv, PoolType, Places
<1>4. /\ q.waiters = Tail(w) /\ w # <<>> /\ q.cancelled = p.cancelled
      /\ q.where = [p.where EXCEPT ![c] = "connecting"] /\ q.user = [p.user EXCEPT ![c] = Head(w)]
      /\ q.pc = p.pc /\ q.totalCount = p.totalCount + 1 /\ q.idle = p.idle /\ p.idle = <<>>
      /\ p.totalCount < MaxSize
  BY DEF ServesFresh
<1> HIDE DEF c
<1>5. q.where[c] = "connecting" /\ p.where \in [Conns -> Places]
  BY <1>1, <1>4 DEF PoolInv, PoolType
<1>6. Served(p, q)
  <2>1. q.where = [p.where EXCEPT ![c] = q.where[c]]
    BY <1>4, <1>5
  <2>2. p.where[c] \in {"none", "idle"} /\ q.where[c] \in {"connecting", "promised"}
    BY ZenonT(40), <1>1, <1>4, <1>5
  <2> QED  BY <1>1, <1>3, <1>4, <1>5, <2>1, <2>2, ServedKeeps, Zenon
<1>7. PoolInv(q)
  <2>1. \A x \in Conns : q.where[x] = "idle" <=> p.where[x] = "idle"
    BY ZenonT(40), <1>1, <1>4, <1>5
  <2> QED  BY <1>3, <1>4, <1>6, <2>1 DEF PoolInv, Served
<1>8. CountInv(q, d)
  <2>1. Counted(q, d) = Counted(p, d) \cup {c} /\ c \notin Counted(p, d)
    BY ZenonT(40), <1>1, <1>4, <1>5 DEF Counted
  <2>2. IsFiniteSet(Counted(p, d))
    BY PoolAssumption DEF SetFacts, Counted
  <2>3. Cardinality(Counted(q, d)) = Cardinality(Counted(p, d)) + 1
    BY ZenonT(40), <2>1, <2>2 DEF SetFacts
  <2>4. p.totalCount \in Nat /\ MaxSize \in Nat
    BY ZenonT(40), PoolAssumption DEF PoolInv, PoolType
  <2> QED  BY <1>4, <2>3, <2>4 DEF CountInv
<1>9. ASSUME Near(p) PROVE Settled(q)
  BY <1>4, <1>6, <1>9, NoneQueued, PoolAssumption DEF Near, Settled, Served, PoolInv, PoolType
<1> QED  BY ZenonT(40), <1>6, <1>7, <1>8, <1>9 DEF Served

(* dispatch() keeps the pool in order, and leaves it settled. *)
LEMMA DispatchKeeps ==
    ASSUME SetFacts, NEW p, NEW d, PoolInv(p), CountInv(p, d)
    PROVE  LET q == P!Dispatch(p) IN
              /\ PoolInv(q) /\ CountInv(q, d) /\ LentKept(p, q)
              /\ Near(p) => Settled(q)
<1> DEFINE q == P!Dispatch(p)
<1>1. PICK w : \E k \in Nat :
         /\ Skips(p, w, k)
         /\ ServesNobody(p, q, w) \/ ServesIdle(p, q, w) \/ ServesFresh(p, q, w)
  BY DispatchShape DEF PoolInv
<1> HIDE DEF q
<1>2. PICK k \in Nat :
         /\ Skips(p, w, k)
         /\ ServesNobody(p, q, w) \/ ServesIdle(p, q, w) \/ ServesFresh(p, q, w)
  BY <1>1
<1>3. PoolInv(q) /\ CountInv(q, d) /\ LentKept(p, q) /\ (Near(p) => Settled(q))
  <2>1. CASE ServesNobody(p, q, w)
    BY <1>2, <2>1, NobodyKeeps
  <2>2. CASE ServesIdle(p, q, w)
    BY ZenonT(40), <1>2, <2>2, IdleKeeps
  <2>3. CASE ServesFresh(p, q, w)
    BY <1>2, <2>3, FreshKeeps, ZenonT(40)
  <2> QED  BY ZenonT(40), <1>2, <2>1, <2>2, <2>3
<1> QED  BY ZenonT(40), <1>3 DEF q
-----------------------------------------------------------------------------
(* The inductive invariant.  A session is in a transaction only while its  *)
(* connection is lent to somebody who is in one too, or whose              *)
(* PgTransaction ends it for them.                                         *)
TxnInv(p, al, t) ==
    \A c \in Conns :
       t[c] # "none" => p.where[c] = "lent" /\ al[c] = 1 /\ p.pc[p.user[c]] \in {"txn", "leaving"}

Flags ==
    /\ alive \in [Conns -> {0, 1}] /\ detached \in [Conns -> {0, 1}]
    /\ txn \in [Conns -> {"none", "open", "aborted"}]

Inv ==
    /\ PoolInv(pool) /\ Flags /\ TxnInv(pool, alive, txn)
    /\ open = 1 => CountInv(pool, detached) /\ Settled(pool)
    /\ open # 1 => \A c \in Conns : pool.where[c] \notin {"connecting", "returning"}

LEMMA InvFields ==
    ASSUME Inv
    PROVE  /\ pool.totalCount \in Nat /\ pool.idle \in Seq(Conns) /\ pool.waiters \in Seq(Acquirers)
           /\ pool.where \in [Conns -> Places] /\ pool.user \in [Conns -> Acquirers]
           /\ pool.pc \in [Acquirers -> Steps] /\ pool.cancelled \in SUBSET Acquirers
           /\ PoolInv(pool) /\ TxnInv(pool, alive, txn)
BY ZenonT(40) DEF Inv, PoolInv, PoolType

(* Steps that move claimed connections on, or end a claim. *)
Moved(p, q) ==
    /\ q \in PoolType
    /\ q.idle = p.idle /\ q.waiters = p.waiters /\ q.user = p.user
    /\ \A c \in Conns : q.where[c] = "idle" <=> p.where[c] = "idle"
    /\ Claimed(q) \subseteq Claimed(p)
    /\ \A a \in Acquirers : p.pc[a] # "none" => q.pc[a] # "none"

LEMMA MovesKeep ==
    ASSUME NEW p, NEW q, PoolInv(p), Moved(p, q)
    PROVE  PoolInv(q)
<1>1. \A c \in Claimed(q) : q.pc[q.user[c]] # "none"
  BY DEF PoolInv, PoolType, Claimed, Moved
<1>2. \A i \in 1..Len(q.waiters) : q.pc[q.waiters[i]] # "none"
  BY DEF PoolInv, PoolType, Moved
<1> QED  BY <1>1, <1>2 DEF PoolInv, Moved

(* A connection that is discarded or detached is discounted once. *)
LEMMA Discounts ==
    ASSUME SetFacts, NEW p, NEW d, PoolInv(p), CountInv(p, d), Settled(p), NEW q, NEW e, NEW c,
           c \in Counted(p, d), Counted(q, e) = Counted(p, d) \ {c},
           q.totalCount = p.totalCount - 1, q.idle = p.idle, q.waiters = p.waiters,
           q.cancelled = p.cancelled
    PROVE  q.totalCount \in Nat /\ CountInv(q, e) /\ Near(q)
<1>1. IsFiniteSet(Counted(p, d)) /\ Cardinality(Counted(p, d)) \in Nat
  BY PoolAssumption DEF SetFacts, Counted
<1>2. IsFiniteSet(Counted(q, e)) /\ Cardinality(Counted(q, e)) = Cardinality(Counted(p, d)) - 1
  BY <1>1 DEF SetFacts
<1>3. q.totalCount = Cardinality(Counted(q, e)) /\ q.totalCount \in Nat
  BY <1>1, <1>2 DEF SetFacts, CountInv
<1>4. q.totalCount <= MaxSize
  BY <1>1, <1>2, <1>3, PoolAssumption DEF CountInv
<1>5. Live(q) = Live(p)
  BY ZenonT(40) DEF Live
<1>6. Near(q)
  BY <1>3, <1>5 DEF Near, Settled, PoolInv, PoolType
<1> QED  BY ZenonT(40), <1>3, <1>4, <1>6 DEF CountInv

SameBut(d, e, c) == \A x \in Conns : x # c => e[x] = d[x]

(* A connection that comes to be idle is behind the others. *)
LEMMA Idles ==
    ASSUME NEW p, NEW d, PoolInv(p), CountInv(p, d), Settled(p), NEW e, NEW c \in Conns,
           p.where[c] \in {"connecting", "returning"}, SameBut(d, e, c),
           NEW q, q = [p EXCEPT !.where[c] = "idle", !.idle = Append(@, c)]
    PROVE  PoolInv(q) /\ CountInv(q, e) /\ Near(q)
<1>1. /\ q.waiters = p.waiters /\ q.user = p.user /\ q.pc = p.pc /\ q.cancelled = p.cancelled
      /\ q.totalCount = p.totalCount /\ q.idle = Append(p.idle, c)
      /\ q.where = [p.where EXCEPT ![c] = "idle"]
  BY DEF PoolInv, PoolType
<1>2. /\ q.idle \in Seq(Conns) /\ Len(p.idle) \in Nat /\ Len(q.idle) = Len(p.idle) + 1
      /\ \A i \in 1..Len(p.idle) : q.idle[i] = p.idle[i]
      /\ q.idle[Len(p.idle) + 1] = c
  BY <1>1, LastAdded DEF PoolInv, PoolType
<1>3. q \in PoolType
  BY <1>1, <1>2, Zenon DEF PoolInv, PoolType, Places
<1>4. \A i \in 1..Len(p.idle) : p.idle[i] # c
  BY DEF PoolInv
<1>5. Distinct(q.idle)
  <2>1. Distinct(p.idle)
    BY DEF PoolInv
  <2> QED  BY <1>2, <1>4, <2>1 DEF Distinct
<1>6. ASSUME NEW x \in Conns
      PROVE  q.where[x] = "idle" <=> \E i \in 1..Len(q.idle) : q.idle[i] = x
  <2>1. CASE x = c
    <3>1. Len(p.idle) + 1 \in 1..Len(q.idle)
      BY <1>2
    <3>2. q.where[c] = "idle"
      BY <1>1 DEF PoolInv, PoolType
    <3> QED  BY ZenonT(40), <1>2, <2>1, <3>1, <3>2
  <2>2. CASE x # c
    <3>1. q.where[x] = p.where[x]
      BY ZenonT(40), <1>1, <2>2 DEF PoolInv, PoolType
    <3>2. p.where[x] = "idle" <=> \E i \in 1..Len(p.idle) : p.idle[i] = x
      BY ZenonT(40) DEF PoolInv
    <3>3. \A i \in 1..Len(q.idle) : q.idle[i] = x => i \in 1..Len(p.idle)
      BY <1>2, <2>2
    <3> QED  BY <1>2, <3>1, <3>2, <3>3
  <2> QED  BY <2>1, <2>2
<1>7. Claimed(q) \subseteq Claimed(p)
  BY ZenonT(40), <1>1 DEF Claimed, PoolInv, PoolType
<1>8. PoolInv(q)
  BY <1>1, <1>3, <1>5, <1>6, <1>7 DEF PoolInv
<1>9. CountInv(q, e)
  <2>1. Counted(q, e) = Counted(p, d)
    BY <1>1 DEF Counted, PoolInv, PoolType, SameBut
  <2> QED  BY ZenonT(40), <1>1, <2>1 DEF CountInv
<1>10. Near(q)
  <2>1. Live(q) = Live(p)
    BY ZenonT(40), <1>1 DEF Live
  <2> QED  BY <1>1, <1>2, <2>1, NoneQueued DEF Near, Settled
<1> QED  BY ZenonT(40), <1>8, <1>9, <1>10

(* A step that ends with dispatch(). *)
LEMMA DispatchEnds ==
    ASSUME SetFacts, NEW p, PoolInv(p), CountInv(p, detached'), Near(p), TxnInv(p, alive', txn'), Flags',
           pool' = P!Dispatch(p), open' = 1
    PROVE  Inv'
<1>1. PoolInv(pool') /\ CountInv(pool', detached') /\ LentKept(p, pool') /\ Settled(pool')
  BY ZenonT(40), DispatchKeeps
<1>2. TxnInv(pool', alive', txn')
  BY <1>1 DEF TxnInv, LentKept
<1> QED  BY ZenonT(40), <1>1, <1>2 DEF Inv

LEMMA PoolInit == ASSUME SetFacts PROVE P!Init => Inv
<1> SUFFICES ASSUME P!Init PROVE Inv
  OBVIOUS
<1>1. /\ pool.totalCount = 0 /\ pool.idle = <<>> /\ pool.waiters = <<>>
      /\ \A c \in Conns : pool.where[c] = "none"
      /\ pool \in PoolType
  BY PoolAssumption, NoneQueued DEF P!Init, PoolType, Places, Steps
<1>2. Claimed(pool) = {} /\ Live(pool) = {} /\ Counted(pool, detached) = {}
  BY <1>1, NoneQueued DEF Claimed, Live, Counted
<1>3. PoolInv(pool)
  BY <1>1, <1>2, NoneQueued DEF PoolInv, Distinct
<1>4. CountInv(pool, detached) /\ Settled(pool)
  BY <1>1, <1>2, PoolAssumption DEF SetFacts, CountInv, Settled
<1> QED  BY ZenonT(40), <1>3, <1>4 DEF Inv, Flags, TxnInv, P!Init

(* A step that only moves connections on leaves what is counted and who is *)
(* waiting.                                                                *)
LEMMA MoveEnds ==
    ASSUME Inv, NEW c \in Conns, NEW w \in Places, NEW b \in Acquirers, NEW s \in Steps \ {"none"},
           pool' = [pool EXCEPT !.where[c] = w, !.pc[b] = s],
           Flags', UNCHANGED open, TxnInv(pool, alive, txn)',
           w = "idle" <=> pool.where[c] = "idle",
           w \in {"connecting", "promised", "lent"} => c \in Claimed(pool),
           open = 1 => Counted(pool', detached') = Counted(pool, detached),
           open # 1 => w \notin {"connecting", "returning"}
    PROVE  Inv'
<1>1. /\ pool' \in PoolType
      /\ pool'.idle = pool.idle /\ pool'.waiters = pool.waiters /\ pool'.user = pool.user
      /\ pool'.cancelled = pool.cancelled /\ pool'.totalCount = pool.totalCount
      /\ pool'.where = [pool.where EXCEPT ![c] = w] /\ pool'.pc = [pool.pc EXCEPT ![b] = s]
  BY Zenon DEF Inv, PoolInv, PoolType
<1>0. pool.where \in [Conns -> Places] /\ pool.pc \in [Acquirers -> Steps]
  BY ZenonT(40), InvFields
<1>2. PoolInv(pool')
  <2>1. Claimed(pool') \subseteq Claimed(pool)
    BY <1>0, <1>1 DEF Claimed
  <2>2. \A x \in Conns : pool'.where[x] = "idle" <=> pool.where[x] = "idle"
    BY <1>0, <1>1
  <2>3. \A a \in Acquirers : pool.pc[a] # "none" => pool'.pc[a] # "none"
    BY <1>0, <1>1
  <2>4. PoolInv(pool)
    BY DEF Inv
  <2>5. Moved(pool, pool')
    BY ZenonT(40), <1>1, <2>1, <2>2, <2>3 DEF Moved
  <2> QED  BY ZenonT(40), <2>4, <2>5, MovesKeep
<1>3. open' = 1 => CountInv(pool', detached') /\ Settled(pool')
  BY ZenonT(40), <1>1 DEF Inv, CountInv, Settled, Live
<1>4. open' # 1 => \A x \in Conns : pool'.where[x] \notin {"connecting", "returning"}
  BY <1>0, <1>1 DEF Inv
<1> QED  BY ZenonT(40), <1>2, <1>3, <1>4 DEF Inv

(* A session in a transaction is left alone by steps that concern another  *)
(* connection and whoever claims that one.                                 *)
OnlyOf(c, p, al, t) ==
    /\ c \in Claimed(pool)
    /\ \A x \in Conns : x # c => /\ p.where[x] = pool.where[x] /\ p.user[x] = pool.user[x]
                                /\ al[x] = alive[x] /\ t[x] = txn[x]
    /\ \A a \in Acquirers : a # pool.user[c] => p.pc[a] = pool.pc[a]
    /\ t[c] # "none" => p.where[c] = "lent" /\ al[c] = 1 /\ p.pc[p.user[c]] \in {"txn", "leaving"}

LEMMA OthersTxn ==
    ASSUME Inv, NEW c \in Conns, NEW p, NEW al, NEW t, OnlyOf(c, p, al, t)
    PROVE  TxnInv(p, al, t)
<1> SUFFICES ASSUME NEW x \in Conns, x # c, t[x] # "none"
             PROVE  p.where[x] = "lent" /\ al[x] = 1 /\ p.pc[p.user[x]] \in {"txn", "leaving"}
  BY DEF TxnInv, OnlyOf
<1>1. pool.where[x] = "lent" /\ alive[x] = 1 /\ pool.pc[pool.user[x]] \in {"txn", "leaving"}
  BY ZenonT(40) DEF Inv, TxnInv, OnlyOf
<1>2. x \in Claimed(pool) /\ pool.user[x] # pool.user[c] /\ pool.user[x] \in Acquirers
  BY <1>1 DEF Claimed, Inv, PoolInv, PoolType, OnlyOf
<1> QED  BY ZenonT(40), <1>1, <1>2 DEF OnlyOf

LEMMA ConnectSucceedsKeeps ==
    ASSUME SetFacts, Inv, NEW c \in Conns, P!ConnectSucceeds(c)
    PROVE  Inv'
<1> DEFINE a == pool.user[c]
<1>1. /\ pool.where[c] = "connecting" /\ c \in Claimed(pool) /\ a \in Acquirers
      /\ open = 1 /\ open' = 1 /\ Flags' /\ txn[c] = "none" /\ txn' = txn
      /\ SameBut(alive, alive', c) /\ SameBut(detached, detached', c)
  BY SMTT(40), ZenonT(40) DEF P!ConnectSucceeds, Inv, Flags, TxnInv, PoolInv, PoolType, Claimed, SameBut
<1>2. CASE a \in pool.cancelled
  <2> DEFINE p == [pool EXCEPT !.where[c] = "idle", !.idle = Append(@, c)]
  <2>1. pool' = P!Dispatch(p)
    BY <1>2, SMTT(20) DEF P!ConnectSucceeds
  <2>2. PoolInv(p) /\ CountInv(p, detached') /\ Near(p)
    <3> HIDE DEF p
    <3>1. p = [pool EXCEPT !.where[c] = "idle", !.idle = Append(@, c)]
      BY ZenonT(40) DEF p
    <3>2. PoolInv(pool) /\ CountInv(pool, detached) /\ Settled(pool)
      BY ZenonT(40), <1>1 DEF Inv
    <3>3. pool.where[c] \in {"connecting", "returning"}
      BY ZenonT(40), <1>1
    <3> QED  BY <1>1, <3>1, <3>2, <3>3, Idles, Zenon
  <2>3. TxnInv(p, alive', txn')
    BY <1>1, SMTT(20) DEF Inv, TxnInv, PoolInv, PoolType, SameBut
  <2> HIDE DEF p
  <2> QED  BY <1>1, <2>1, <2>2, <2>3, DispatchEnds
<1>3. CASE a \notin pool.cancelled
  <2>1. pool' = [pool EXCEPT !.where[c] = "promised", !.pc[a] = "served"]
    BY <1>3 DEF P!ConnectSucceeds
  <2>2. TxnInv(pool, alive, txn)'
    <3>1. OnlyOf(c, pool', alive', txn')
      BY ZenonT(40), <1>1, <2>1 DEF Inv, PoolInv, PoolType, OnlyOf, SameBut
    <3> QED  BY <3>1, OthersTxn DEF TxnInv
  <2>3. Counted(pool', detached') = Counted(pool, detached)
    BY <1>1, <2>1 DEF Counted, Inv, PoolInv, PoolType, SameBut
  <2>4. /\ "promised" \in Places /\ "served" \in Steps \ {"none"}
        /\ "promised" = "idle" <=> pool.where[c] = "idle"
    BY <1>1 DEF Places, Steps
  <2> HIDE DEF a
  <2> QED  BY <1>1, <2>1, <2>2, <2>3, <2>4, MoveEnds, Zenon
<1> QED  BY ZenonT(40), <1>2, <1>3

LEMMA ConnectFailsKeeps ==
    ASSUME SetFacts, Inv, NEW c \in Conns, P!ConnectFails(c)
    PROVE  Inv'
<1> DEFINE a == pool.user[c]
           p == [pool EXCEPT !.where[c] = "none", !.totalCount = @ - 1,
                             !.pc[a] = IF a \in pool.cancelled THEN @ ELSE "failed"]
<1>1. /\ pool.where[c] = "connecting" /\ c \in Claimed(pool) /\ a \in Acquirers
      /\ open = 1 /\ open' = 1 /\ Flags' /\ txn[c] = "none" /\ UNCHANGED <<alive, detached, txn>>
      /\ pool' = P!Dispatch(p)
  BY DEF P!ConnectFails, Inv, Flags, TxnInv, PoolInv, PoolType, Claimed
<1>2. /\ p.idle = pool.idle /\ p.waiters = pool.waiters /\ p.user = pool.user
      /\ p.cancelled = pool.cancelled /\ p.totalCount = pool.totalCount - 1
      /\ p.where = [pool.where EXCEPT ![c] = "none"]
      /\ p.pc = [pool.pc EXCEPT ![a] = IF a \in pool.cancelled THEN @ ELSE "failed"]
  BY DEF Inv, PoolInv, PoolType
<1>3. PoolInv(pool) /\ CountInv(pool, detached) /\ Settled(pool)
  BY ZenonT(40), <1>1 DEF Inv
<1>4. c \in Counted(pool, detached) /\ Counted(p, detached) = Counted(pool, detached) \ {c}
  BY <1>1, <1>2 DEF Counted, Inv, PoolInv, PoolType
<1>5. p.totalCount \in Nat => p \in PoolType
  BY <1>1, Zenon DEF Inv, PoolInv, PoolType, Places, Steps
<1> HIDE DEF p
<1>6. p.totalCount \in Nat /\ CountInv(p, detached) /\ Near(p)
  BY ZenonT(40), <1>2, <1>3, <1>4, Discounts
<1>7. Moved(pool, p)
  <2>1. pool.where \in [Conns -> Places] /\ pool.pc \in [Acquirers -> Steps]
    BY ZenonT(40), <1>3 DEF PoolInv, PoolType
  <2>2. \A x \in Conns : p.where[x] = "idle" <=> pool.where[x] = "idle"
    BY ZenonT(40), <1>1, <1>2, <2>1
  <2>3. Claimed(p) \subseteq Claimed(pool)
    BY ZenonT(40), <1>1, <1>2, <2>1 DEF Claimed
  <2>4. \A b \in Acquirers : pool.pc[b] # "none" => p.pc[b] # "none"
    BY ZenonT(40), <1>2, <2>1
  <2> QED  BY ZenonT(40), <1>2, <1>5, <1>6, <2>2, <2>3, <2>4 DEF Moved
<1>8. OnlyOf(c, p, alive, txn)
  <2>1. /\ \A x \in Conns : x # c => p.where[x] = pool.where[x]
        /\ \A b \in Acquirers : b # a => p.pc[b] = pool.pc[b]
    BY ZenonT(40), <1>2, <1>3 DEF PoolInv, PoolType
  <2> QED  BY ZenonT(40), <1>1, <1>2, <2>1 DEF OnlyOf
<1>9. PoolInv(p) /\ TxnInv(p, alive, txn)
  BY ZenonT(40), <1>3, <1>7, <1>8, MovesKeep, OthersTxn
<1>10. CountInv(p, detached') /\ TxnInv(p, alive', txn')
  BY ZenonT(40), <1>1, <1>6, <1>9
<1> QED  BY ZenonT(40), <1>1, <1>6, <1>9, <1>10, DispatchEnds

LEMMA ReturnedKeeps ==
    ASSUME SetFacts, Inv, NEW c \in Conns, P!Returned(c)
    PROVE  Inv'
<1>1. /\ pool.where[c] = "returning" /\ open = 1 /\ open' = 1 /\ Flags' /\ txn[c] = "none"
      /\ UNCHANGED <<alive, detached, txn>> /\ SameBut(detached, detached', c)
  BY DEF P!Returned, Inv, Flags, TxnInv, SameBut
<1>2. PoolInv(pool) /\ CountInv(pool, detached) /\ Settled(pool)
  BY <1>1 DEF Inv
<1>3. CASE alive[c] = 1
  <2> DEFINE p == [pool EXCEPT !.where[c] = "idle", !.idle = Append(@, c)]
  <2>1. pool' = P!Dispatch(p)
    BY ZenonT(40), <1>3 DEF P!Returned
  <2>2. TxnInv(p, alive', txn')
    BY <1>1 DEF Inv, TxnInv, PoolInv, PoolType
  <2>3. p = [pool EXCEPT !.where[c] = "idle", !.idle = Append(@, c)]
    OBVIOUS
  <2> HIDE DEF p
  <2>4. pool.where[c] \in {"connecting", "returning"}
    BY <1>1, SMTT(20)
  <2>5. PoolInv(p) /\ CountInv(p, detached') /\ Near(p)
    BY <1>1, <1>2, <2>3, <2>4, Idles, ZenonT(40)
  <2> QED  BY ZenonT(40), <1>1, <2>1, <2>2, <2>5, DispatchEnds
<1>4. CASE alive[c] # 1
  <2> DEFINE p == [pool EXCEPT !.where[c] = "none", !.totalCount = @ - 1]
  <2>1. pool' = P!Dispatch(p)
    BY <1>4 DEF P!Returned
  <2>2. /\ p.idle = pool.idle /\ p.waiters = pool.waiters /\ p.user = pool.user
        /\ p.cancelled = pool.cancelled /\ p.totalCount = pool.totalCount - 1
        /\ p.where = [pool.where EXCEPT ![c] = "none"] /\ p.pc = pool.pc
    BY ZenonT(40) DEF Inv, PoolInv, PoolType
  <2>3. c \in Counted(pool, detached) /\ Counted(p, detached) = Counted(pool, detached) \ {c}
    BY ZenonT(40), <1>1, <2>2 DEF Counted, Inv, PoolInv, PoolType
  <2>4. p.totalCount \in Nat => p \in PoolType
    BY <1>1, Zenon DEF Inv, PoolInv, PoolType, Places
  <2> HIDE DEF p
  <2>5. p.totalCount \in Nat /\ CountInv(p, detached) /\ Near(p)
    BY ZenonT(40), <1>2, <2>2, <2>3, Discounts
  <2>6. Moved(pool, p)
    <3>1. pool.where \in [Conns -> Places]
      BY ZenonT(40), <1>2 DEF PoolInv, PoolType
    <3>2. \A x \in Conns : p.where[x] = "idle" <=> pool.where[x] = "idle"
      BY ZenonT(40), <1>1, <2>2, <3>1
    <3>3. Claimed(p) \subseteq Claimed(pool)
      BY ZenonT(40), <1>1, <2>2, <3>1 DEF Claimed
    <3> QED  BY ZenonT(40), <2>2, <2>4, <2>5, <3>2, <3>3 DEF Moved
  <2>7. TxnInv(p, alive, txn)
    <3>1. TxnInv(pool, alive, txn) /\ pool.where \in [Conns -> Places]
      BY InvFields
    <3>2. \A x \in Conns : x # c => p.where[x] = pool.where[x]
      BY ZenonT(40), <2>2, <3>1
    <3> QED  BY <1>1, <2>2, <3>1, <3>2 DEF TxnInv
  <2>8. PoolInv(p) /\ CountInv(p, detached') /\ TxnInv(p, alive', txn')
    BY ZenonT(40), <1>1, <1>2, <2>5, <2>6, <2>7, MovesKeep
  <2> QED  BY ZenonT(40), <1>1, <2>1, <2>5, <2>8, DispatchEnds
<1> QED  BY ZenonT(40), <1>3, <1>4

LEMMA BreaksKeeps ==
    ASSUME SetFacts, Inv, NEW c \in Conns, P!Breaks(c)
    PROVE  Inv'
<1>1. /\ alive' = [alive EXCEPT ![c] = 0] /\ txn' = [txn EXCEPT ![c] = "none"] /\ open' = open
      /\ Flags'
  BY ZenonT(40) DEF P!Breaks, Inv, Flags
<1>2. ASSUME NEW p, p.where = pool.where, p.user = pool.user, p.pc = pool.pc
      PROVE  TxnInv(p, alive', txn')
  BY <1>1, <1>2 DEF Inv, TxnInv, Flags
<1>3. CASE pool.where[c] = "lent" /\ detached[c] = 0 /\ open = 1
  <2> DEFINE p == [pool EXCEPT !.totalCount = @ - 1]
  <2>1. pool' = P!Dispatch(p) /\ detached' = [detached EXCEPT ![c] = 1]
    BY <1>3 DEF P!Breaks
  <2>2. /\ p.idle = pool.idle /\ p.waiters = pool.waiters /\ p.user = pool.user
        /\ p.cancelled = pool.cancelled /\ p.totalCount = pool.totalCount - 1
        /\ p.where = pool.where /\ p.pc = pool.pc
    BY DEF Inv, PoolInv, PoolType
  <2>3. /\ c \in Counted(pool, detached)
        /\ Counted(p, detached') = Counted(pool, detached) \ {c}
    BY <1>3, <2>1, <2>2 DEF Counted, Inv, Flags
  <2>4. p.totalCount \in Nat => p \in PoolType
    BY Zenon DEF Inv, PoolInv, PoolType
  <2>5. PoolInv(pool) /\ CountInv(pool, detached) /\ Settled(pool)
    BY <1>3 DEF Inv
  <2> HIDE DEF p
  <2>6. p.totalCount \in Nat /\ CountInv(p, detached') /\ Near(p)
    BY ZenonT(40), <2>2, <2>3, <2>5, Discounts
  <2>7. Moved(pool, p)
    BY ZenonT(40), <2>2, <2>4, <2>6 DEF Moved, Claimed
  <2>8. PoolInv(p) /\ TxnInv(p, alive', txn')
    BY ZenonT(40), <1>2, <2>2, <2>5, <2>7, MovesKeep
  <2> QED  BY <1>1, <1>3, <2>1, <2>6, <2>8, DispatchEnds, Zenon
<1>4. CASE ~(pool.where[c] = "lent" /\ detached[c] = 0 /\ open = 1)
  <2>1. pool' = pool /\ (open = 1 => detached' = detached)
    BY ZenonT(40), <1>4 DEF P!Breaks
  <2> QED  BY <1>1, <1>2, <2>1, Zenon DEF Inv
<1> QED  BY ZenonT(40), <1>3, <1>4

LEMMA AcquireKeeps ==
    ASSUME SetFacts, Inv, NEW a \in Acquirers, P!Acquire(a)
    PROVE  Inv'
<1>1. /\ pool.pc[a] = "none" /\ open = 1 /\ open' = 1 /\ Flags'
      /\ UNCHANGED <<alive, detached, txn>>
  BY DEF P!Acquire, Inv, Flags
<1>2. PICK s \in {"waiting", "failed"} :
        pool' = P!Dispatch([pool EXCEPT !.waiters = Append(@, a), !.pc[a] = s,
                              !.cancelled = IF s = "failed" THEN @ \cup {a} ELSE @])
  BY Zenon DEF P!Acquire
<1> DEFINE p == [pool EXCEPT !.waiters = Append(@, a), !.pc[a] = s,
                   !.cancelled = IF s = "failed" THEN @ \cup {a} ELSE @]
           n0 == Len(pool.waiters)
<1>3. /\ p.idle = pool.idle /\ p.user = pool.user /\ p.totalCount = pool.totalCount
      /\ p.where = pool.where /\ p.pc = [pool.pc EXCEPT ![a] = s]
      /\ p.waiters = Append(pool.waiters, a)
      /\ p.cancelled \in {pool.cancelled, pool.cancelled \cup {a}}
  BY DEF Inv, PoolInv, PoolType
<1>4. /\ p.waiters \in Seq(Acquirers) /\ n0 \in Nat /\ Len(p.waiters) = n0 + 1
      /\ \A i \in 1..n0 : p.waiters[i] = pool.waiters[i]
      /\ p.waiters[n0 + 1] = a
  BY <1>3, LastAdded DEF Inv, PoolInv, PoolType
<1>5. p \in PoolType
  <2> DEFINE q1 == [pool EXCEPT !.waiters = Append(@, a)]
             q2 == [q1 EXCEPT !.pc[a] = s]
             q3 == [q2 EXCEPT !.cancelled = @ \cup {a}]
  <2>1. q1 \in PoolType
    BY <1>3, <1>4, Zenon DEF Inv, PoolInv, PoolType
  <2>2. q2 \in PoolType
    <3> HIDE DEF q1
    <3> QED  BY <2>1, Zenon DEF PoolType, Steps
  <2>3. q3 \in PoolType
    <3> HIDE DEF q2
    <3>1. q2.cancelled \cup {a} \in SUBSET Acquirers
      BY <2>2 DEF PoolType
    <3> QED  BY <2>2, <3>1, ZenonT(40) DEF PoolType
  <2>4. p = IF s = "failed" THEN q3 ELSE q2
    <3>1. CASE s = "failed"
      BY <3>1
    <3>2. CASE s # "failed"
      <4>1. p = [q2 EXCEPT !.cancelled = @]
        BY <3>2
      <4> HIDE DEF q2, p
      <4> QED  BY <2>2, <3>2, <4>1 DEF PoolType
    <3> QED  BY <3>1, <3>2
  <2> QED  BY <2>2, <2>3, <2>4
<1>6. pool' = P!Dispatch(p)
  BY ZenonT(40), <1>2
<1> HIDE DEF p, n0
<1>7. \A i \in 1..n0 : pool.waiters[i] # a /\ pool.waiters[i] \in Acquirers
  <2>1. /\ pool.waiters \in Seq(Acquirers)
        /\ \A i \in 1..n0 : pool.pc[pool.waiters[i]] # "none"
    BY ZenonT(40), InvFields DEF PoolInv, n0
  <2> QED  BY <1>1, <1>4, <2>1 DEF n0
<1>8. Claimed(p) = Claimed(pool) /\ \A c \in Claimed(p) : pool.user[c] # a /\ pool.user[c] \in Acquirers
  BY SMTT(40), <1>1, <1>3, InvFields DEF Claimed, PoolInv
<1>9. /\ p.pc[a] # "none" /\ \A b \in Acquirers : b # a => p.pc[b] = pool.pc[b]
  BY ZenonT(40), <1>3, InvFields
<1>10. PoolInv(p)
  <2>0. \A i \in 1..Len(p.waiters) : i \in 1..n0 \/ i = n0 + 1
    BY <1>4
  <2>1. Distinct(p.waiters)
    <3>1. \A i, j \in 1..n0 : pool.waiters[i] = pool.waiters[j] => i = j
      BY DEF Distinct, Inv, PoolInv, n0
    <3> QED  BY ZenonT(40), <1>4, <1>7, <2>0, <3>1 DEF Distinct
  <2>2. \A i \in 1..Len(p.waiters) : p.pc[p.waiters[i]] # "none"
    <3>1. \A i \in 1..n0 : pool.pc[pool.waiters[i]] # "none"
      BY InvFields DEF PoolInv, n0
    <3> QED  BY <1>4, <1>7, <1>9, <2>0, <3>1, ZenonT(40)
  <2>3. ASSUME NEW c \in Claimed(p)
        PROVE  /\ p.pc[p.user[c]] # "none"
               /\ \A i \in 1..Len(p.waiters) : p.waiters[i] # p.user[c]
    <3>1. /\ pool.pc[pool.user[c]] # "none" /\ pool.user[c] # a /\ pool.user[c] \in Acquirers
          /\ \A i \in 1..n0 : pool.waiters[i] # pool.user[c]
      BY ZenonT(40), <1>8, InvFields DEF PoolInv, n0
    <3> QED  BY ZenonT(40), <1>3, <1>4, <1>9, <2>0, <3>1
  <2>4. /\ Distinct(p.idle)
        /\ \A c \in Conns : p.where[c] = "idle" <=> \E i \in 1..Len(p.idle) : p.idle[i] = c
        /\ \A c, d \in Claimed(p) : p.user[c] = p.user[d] => c = d
    BY <1>3, <1>8 DEF Inv, PoolInv
  <2> QED  BY <1>5, <2>1, <2>2, <2>3, <2>4, Zenon DEF PoolInv
<1>11. CountInv(p, detached')
  BY ZenonT(40), <1>1, <1>3 DEF Inv, CountInv, Counted
<1>12. Near(p)
  <2>1. \A i \in Live(p) : i \in Live(pool) \/ i = n0 + 1
    BY SMTT(40), ZenonT(40), <1>3, <1>4 DEF Live, n0
  <2>2. Settled(pool)
    BY ZenonT(40), <1>1 DEF Inv
  <2> QED  BY <1>3, <2>1, <2>2, ZenonT(40) DEF Near, Settled
<1>13. TxnInv(p, alive', txn')
  <2>1. \A c \in Conns : pool.where[c] = "lent" => c \in Claimed(p)
    BY ZenonT(40), <1>8 DEF Claimed
  <2> QED  BY <1>1, <1>3, <1>8, <1>9, <2>1 DEF Inv, TxnInv
<1> QED  BY ZenonT(40), <1>1, <1>6, <1>10, <1>11, <1>12, <1>13, DispatchEnds

LEMMA CancelKeeps ==
    ASSUME Inv, NEW a \in Acquirers, P!Cancel(a)
    PROVE  Inv'
<1>1. /\ pool'.idle = pool.idle /\ pool'.user = pool.user /\ pool'.totalCount = pool.totalCount
      /\ pool'.where = pool.where /\ pool'.waiters = pool.waiters
      /\ pool'.cancelled = pool.cancelled \cup {a}
      /\ pool'.pc = [pool.pc EXCEPT ![a] = IF @ = "waiting" THEN "failed" ELSE @]
      /\ pool' \in PoolType
      /\ UNCHANGED <<alive, detached, txn, open>>
  <2>1. /\ pool' = [pool EXCEPT !.cancelled = @ \cup {a},
                               !.pc[a] = IF @ = "waiting" THEN "failed" ELSE @]
        /\ UNCHANGED <<alive, detached, txn, open>>
    BY ZenonT(40) DEF P!Cancel
  <2>2. pool \in PoolType
    BY DEF Inv, PoolInv
  <2>3. /\ pool'.idle = pool.idle /\ pool'.user = pool.user /\ pool'.totalCount = pool.totalCount
        /\ pool'.where = pool.where /\ pool'.waiters = pool.waiters
        /\ pool'.cancelled = pool.cancelled \cup {a}
        /\ pool'.pc = [pool.pc EXCEPT ![a] = IF @ = "waiting" THEN "failed" ELSE @]
    BY ZenonT(40), <2>1, <2>2 DEF PoolType
  <2>4. pool' \in PoolType
    <3> DEFINE q == [pool EXCEPT !.cancelled = @ \cup {a}]
    <3>0. pool.cancelled \cup {a} \in SUBSET Acquirers
      BY InvFields
    <3>1. q \in PoolType /\ q.pc = pool.pc
      BY ZenonT(40), <2>2, <3>0 DEF PoolType
    <3>2. pool' = [q EXCEPT !.pc[a] = IF pool.pc[a] = "waiting" THEN "failed" ELSE pool.pc[a]]
      BY <2>1, <2>2 DEF PoolType
    <3>3. (IF pool.pc[a] = "waiting" THEN "failed" ELSE pool.pc[a]) \in Steps
      BY <2>2 DEF PoolType, Steps
    <3> HIDE DEF q
    <3> QED  BY ZenonT(40), <3>1, <3>2, <3>3 DEF PoolType
  <2> QED  BY <2>1, <2>3, <2>4
<1>2. Moved(pool, pool')
  <2>1. Claimed(pool') = Claimed(pool)
    BY <1>1 DEF Claimed
  <2>2. \A b \in Acquirers : pool.pc[b] # "none" => pool'.pc[b] # "none"
    BY <1>1, InvFields
  <2> QED  BY Zenon, <1>1, <2>1, <2>2 DEF Moved
<1>3. PoolInv(pool')
  BY ZenonT(40), <1>2, MovesKeep, InvFields
<1>4. TxnInv(pool', alive, txn)
  <2>1. TxnInv(pool, alive, txn) /\ pool.user \in [Conns -> Acquirers] /\ pool.pc \in [Acquirers -> Steps]
    BY ZenonT(40), InvFields
  <2>2. \A b \in Acquirers : pool.pc[b] \in {"txn", "leaving"} => pool'.pc[b] = pool.pc[b]
    BY ZenonT(40), <1>1, <2>1
  <2> QED  BY <1>1, <2>1, <2>2 DEF TxnInv
<1>5. open = 1 => CountInv(pool', detached) /\ Settled(pool')
  BY <1>1 DEF Inv, CountInv, Counted, Settled, Live
<1> QED  BY ZenonT(40), <1>1, <1>3, <1>4, <1>5 DEF Inv, Flags

(* A step that changes nothing of the pool but where its caller is. *)
LEMMA StepEnds ==
    ASSUME Inv, NEW a \in Acquirers, NEW s \in Steps \ {"none"}, pool' = [pool EXCEPT !.pc[a] = s],
           Flags', UNCHANGED <<detached, open>>, TxnInv(pool, alive, txn)'
    PROVE  Inv'
<1>1. /\ pool'.idle = pool.idle /\ pool'.user = pool.user /\ pool'.totalCount = pool.totalCount
      /\ pool'.where = pool.where /\ pool'.waiters = pool.waiters
      /\ pool'.cancelled = pool.cancelled /\ pool'.pc = [pool.pc EXCEPT ![a] = s]
      /\ pool' \in PoolType
  BY Zenon DEF Inv, PoolInv, PoolType
<1>2. Moved(pool, pool')
  <2>1. \A b \in Acquirers : pool.pc[b] # "none" => pool'.pc[b] # "none"
    BY ZenonT(40), <1>1 DEF Inv, PoolInv, PoolType
  <2> QED  BY ZenonT(40), <1>1, <2>1 DEF Moved, Claimed
<1>3. PoolInv(pool')
  BY ZenonT(40), <1>2, MovesKeep DEF Inv
<1>4. open = 1 => CountInv(pool', detached) /\ Settled(pool')
  BY <1>1 DEF Inv, CountInv, Counted, Settled, Live
<1> QED  BY ZenonT(40), <1>1, <1>3, <1>4 DEF Inv

LEMMA AcquireReturnsKeeps ==
    ASSUME Inv, NEW a \in Acquirers, P!AcquireReturns(a)
    PROVE  Inv'
<1>1. UNCHANGED <<alive, txn, open>> /\ "lent" \in Places /\ {"holding", "done"} \subseteq Steps \ {"none"}
  <2>1. "lent" \in Places /\ {"holding", "done"} \subseteq Steps \ {"none"}
    BY DEF Places, Steps
  <2> QED  BY <2>1, Zenon DEF P!AcquireReturns
<1>2. ASSUME NEW c \in Conns, pool.where[c] = "promised", pool.user[c] = a,
             pool' = [pool EXCEPT !.where[c] = "lent", !.pc[a] = "holding"],
             detached' = [detached EXCEPT ![c] = 0]
      PROVE  Inv'
  <2>1. Flags' /\ c \in Claimed(pool) /\ txn[c] = "none"
    BY <1>1, <1>2 DEF Inv, Flags, Claimed, TxnInv
  <2>2. OnlyOf(c, pool', alive', txn')
    BY <1>1, <1>2, <2>1 DEF OnlyOf, Inv, PoolInv, PoolType
  <2>3. TxnInv(pool, alive, txn)'
    BY <2>2, OthersTxn DEF TxnInv
  <2>4. Counted(pool', detached') = Counted(pool, detached)
    BY <1>2 DEF Counted, Inv, PoolInv, PoolType, Flags
  <2> QED  BY <1>1, <1>2, <2>1, <2>3, <2>4, MoveEnds, Zenon
<1>3. ASSUME pool.pc[a] = "failed", pool' = [pool EXCEPT !.pc[a] = "done"], detached' = detached
      PROVE  Inv'
  <2>1. TxnInv(pool', alive', txn')
    BY ZenonT(40), <1>1, <1>3 DEF Inv, TxnInv, PoolInv, PoolType
  <2>2. Flags' /\ TxnInv(pool, alive, txn)'
    BY <1>1, <1>3, <2>1 DEF Inv, Flags, TxnInv
  <2> QED  BY ZenonT(40), <1>1, <1>3, <2>2, StepEnds
<1> QED  BY <1>2, <1>3, ZenonT(40) DEF P!AcquireReturns

(* A connection that is dropped outside a transaction. *)
LEMMA DropKeeps ==
    ASSUME Inv, NEW a \in Acquirers, NEW c \in Conns, P!Drop(a, c, "done"),
           txn' = [txn EXCEPT ![c] = "none"]
    PROVE  Inv'
<1>1. /\ c \in Claimed(pool) /\ pool.where[c] = "lent" /\ pool.user[c] = a
      /\ UNCHANGED <<alive, open>> /\ detached' = [detached EXCEPT ![c] = 1] /\ Flags'
  BY SMTT(20) DEF P!Drop, Claimed, Inv, Flags
<1>2. ASSUME NEW w \in {"returning", "none"},
             pool' = [pool EXCEPT !.where[c] = w, !.pc[a] = "done"],
             w = "returning" <=> detached[c] = 0 /\ open = 1
      PROVE  Inv'
  <2>1. OnlyOf(c, pool', alive', txn')
    <3>1. /\ pool'.user = pool.user /\ txn'[c] = "none"
          /\ \A x \in Conns : x # c => pool'.where[x] = pool.where[x] /\ txn'[x] = txn[x]
          /\ \A b \in Acquirers : b # a => pool'.pc[b] = pool.pc[b]
      BY <1>2 DEF Inv, PoolInv, PoolType, Flags
    <3> QED  BY ZenonT(40), <1>1, <3>1 DEF OnlyOf
  <2>2. TxnInv(pool, alive, txn)'
    <3>1. TxnInv(pool', alive', txn')
      BY ZenonT(40), <2>1, OthersTxn
    <3> QED  BY <3>1 DEF TxnInv
  <2>3. open = 1 => Counted(pool', detached') = Counted(pool, detached)
    <3>1. /\ pool'.where[c] = w /\ detached'[c] = 1 /\ detached[c] \in {0, 1}
          /\ \A x \in Conns : x # c => pool'.where[x] = pool.where[x] /\ detached'[x] = detached[x]
      BY <1>1, <1>2 DEF Inv, PoolInv, PoolType, Flags
    <3> SUFFICES ASSUME open = 1, NEW x \in Conns
                 PROVE  x \in Counted(pool', detached') <=> x \in Counted(pool, detached)
      BY DEF Counted
    <3>2. CASE x = c
      BY ZenonT(40), <1>1, <1>2, <3>1, <3>2 DEF Counted
    <3>3. CASE x # c
      BY ZenonT(40), <3>1, <3>3 DEF Counted
    <3> QED  BY ZenonT(40), <3>2, <3>3
  <2>4. /\ w \in Places /\ "done" \in Steps \ {"none"} /\ (w = "idle" <=> pool.where[c] = "idle")
        /\ w \notin {"connecting", "promised", "lent"}
        /\ open # 1 => w \notin {"connecting", "returning"}
    BY ZenonT(40), <1>1, <1>2 DEF Places, Steps
  <2> QED  BY <1>1, <1>2, <2>2, <2>3, <2>4, MoveEnds, Zenon
<1>3. CASE detached[c] = 0 /\ open = 1
  BY ZenonT(40), <1>2, <1>3 DEF P!Drop
<1>4. CASE ~(detached[c] = 0 /\ open = 1)
  BY <1>2, <1>4, Zenon DEF P!Drop
<1> QED  BY <1>3, <1>4

(* Who is not in a transaction does not leave the session in one. *)
LEMMA OutsideTxn ==
    ASSUME Inv, NEW a \in Acquirers, NEW c \in Conns, NEW s, P!Holds(a, c, s), s \notin {"txn", "leaving"}
    PROVE  txn[c] = "none" /\ txn = [txn EXCEPT ![c] = "none"]
BY DEF Inv, TxnInv, Flags, P!Holds

(* What a holder does with its connection. *)
Uses(a, c) ==
    \/ P!Release(a, c) \/ P!Abandon(a, c) \/ P!AutoFinish(a, c)
    \/ P!Begin(a, c) \/ P!StatementFails(a, c) \/ P!Finish(a, c) \/ P!TakeBack(a, c)

LEMMA UsesKeep ==
    ASSUME Inv, NEW a \in Acquirers, NEW c \in Conns, Uses(a, c)
    PROVE  Inv'
<1>0. {"txn", "txnDone", "holding", "leaving"} \subseteq Steps \ {"none"}
  BY DEF Steps
<1>1. ASSUME NEW s \in {"txn", "txnDone", "holding", "leaving"}, NEW t \in {"none", "open", "aborted"},
             c \in Claimed(pool), pool.user[c] = a, pool.where[c] = "lent",
             t # "none" => s \in {"txn", "leaving"} /\ alive[c] = 1,
             pool' = [pool EXCEPT !.pc[a] = s], txn' = [txn EXCEPT ![c] = t],
             UNCHANGED <<alive, detached, open>>
      PROVE  Inv'
  <2>1. Flags'
    BY <1>1 DEF Inv, Flags
  <2>2. OnlyOf(c, pool', alive', txn')
    <3>1. /\ pool \in PoolType /\ txn \in [Conns -> {"none", "open", "aborted"}]
      BY DEF Inv, PoolInv, Flags
    <3>2. /\ pool'.where = pool.where /\ pool'.user = pool.user /\ pool'.pc[a] = s
          /\ \A b \in Acquirers : b # a => pool'.pc[b] = pool.pc[b]
          /\ txn'[c] = t /\ \A x \in Conns : x # c => txn'[x] = txn[x]
      BY <1>1, <3>1 DEF PoolType
    <3> QED  BY <1>1, <3>2 DEF OnlyOf
  <2>3. TxnInv(pool', alive', txn')
    BY <2>2, OthersTxn
  <2> QED  BY ZenonT(40), <1>0, <1>1, <2>1, <2>3, StepEnds
<1>2. ASSUME NEW s, P!Holds(a, c, s)
      PROVE  /\ c \in Claimed(pool) /\ pool.user[c] = a /\ pool.where[c] = "lent" /\ pool.pc[a] = s
             /\ txn[c] \in {"none", "open", "aborted"} /\ txn = [txn EXCEPT ![c] = txn[c]]
             /\ txn[c] # "none" => alive[c] = 1 /\ s \in {"txn", "leaving"}
  BY <1>2 DEF P!Holds, Claimed, Inv, Flags, TxnInv
<1>3. CASE P!Release(a, c)
  BY <1>3, OutsideTxn, DropKeeps DEF P!Release
<1>4. CASE P!Abandon(a, c)
  BY ZenonT(40), <1>1, <1>2, <1>4 DEF P!Abandon
<1>5. CASE P!AutoFinish(a, c)
  BY <1>5, DropKeeps, Zenon DEF P!AutoFinish
<1>6. CASE P!Begin(a, c)
  <2>1. P!Holds(a, c, "holding")
    BY <1>6 DEF P!Begin
  <2>2. CASE P!Drop(a, c, "done") /\ txn' = txn
    BY ZenonT(40), <2>1, <2>2, OutsideTxn, DropKeeps
  <2>3. CASE /\ alive[c] = 1 /\ txn' = [txn EXCEPT ![c] = "open"]
             /\ pool' = [pool EXCEPT !.pc[a] = "txn"] /\ UNCHANGED <<alive, detached, open>>
    BY ZenonT(40), <1>1, <1>2, <2>1, <2>3
  <2> QED  BY ZenonT(40), <1>6, <2>2, <2>3 DEF P!Begin
<1>7. CASE P!StatementFails(a, c)
  <2>1. P!Holds(a, c, "txn") /\ alive[c] = 1 /\ txn' = [txn EXCEPT ![c] = "aborted"]
        /\ pool' = pool /\ UNCHANGED <<alive, detached, open>>
    BY ZenonT(40), <1>7 DEF P!StatementFails
  <2>2. pool = [pool EXCEPT !.pc[a] = "txn"]
    BY <1>2, <2>1 DEF Inv, PoolInv, PoolType
  <2> QED  BY ZenonT(40), <1>1, <1>2, <2>1, <2>2
<1>8. CASE P!Finish(a, c)
  <2>1. PICK s \in {"txn", "txnDone"} : pool' = [pool EXCEPT !.pc[a] = s]
    BY ZenonT(40), <1>8 DEF P!Finish
  <2> QED  BY ZenonT(40), <1>1, <1>2, <1>8, <2>1 DEF P!Finish
<1>9. CASE P!TakeBack(a, c)
  BY SMTT(40), <1>1, <1>2, <1>9 DEF P!TakeBack
<1> QED  BY ZenonT(40), <1>3, <1>4, <1>5, <1>6, <1>7, <1>8, <1>9 DEF Uses

LEMMA CloseKeeps == Inv /\ P!ClosePool => Inv'
<1> SUFFICES ASSUME Inv, P!ClosePool PROVE Inv'
  BY ZenonT(40)
<1>1. /\ pool'.idle = <<>> /\ pool'.waiters = <<>> /\ pool'.user = pool.user
      /\ pool'.where = [c \in Conns |-> IF pool.where[c] = "idle" THEN "none" ELSE pool.where[c]]
      /\ pool'.pc = pool.pc /\ open' # 1 /\ UNCHANGED <<alive, detached, txn>>
  BY SMTT(20) DEF P!ClosePool, Inv, PoolInv, PoolType
<1>2. pool' \in PoolType
  BY NoneQueued, Zenon DEF P!ClosePool, Inv, PoolInv, PoolType, Places
<1>3. Claimed(pool') = Claimed(pool)
  BY ZenonT(40), <1>1 DEF Claimed
<1>4. PoolInv(pool')
  <2>1. Distinct(pool'.idle) /\ Distinct(pool'.waiters)
    BY <1>1 DEF Distinct
  <2>2. \A c \in Conns : pool'.where[c] # "idle"
    BY <1>1
  <2>3. \A i : i \notin 1..Len(pool'.idle) /\ i \notin 1..Len(pool'.waiters)
    BY <1>1
  <2>4. /\ \A c, d \in Claimed(pool) : pool.user[c] = pool.user[d] => c = d
        /\ \A c \in Claimed(pool) : pool.pc[pool.user[c]] # "none"
    BY InvFields DEF PoolInv
  <2>5. /\ \A c, d \in Claimed(pool') : pool'.user[c] = pool'.user[d] => c = d
        /\ \A c \in Claimed(pool') : pool'.pc[pool'.user[c]] # "none"
    BY <1>1, <1>3, <2>4, Zenon
  <2> QED  BY <1>2, <2>1, <2>2, <2>3, <2>5, ZenonT(40) DEF PoolInv
<1>5. \A c \in Conns : pool'.where[c] \notin {"connecting", "returning"}
  BY SMTT(40), <1>1 DEF P!ClosePool
<1>6. TxnInv(pool', alive, txn)
  <2>1. TxnInv(pool, alive, txn)
    BY InvFields
  <2>2. \A c \in Conns : pool.where[c] = "lent" => pool'.where[c] = "lent"
    BY ZenonT(40), <1>1
  <2> QED  BY ZenonT(40), <1>1, <2>1, <2>2 DEF TxnInv
<1> QED  BY ZenonT(40), <1>1, <1>4, <1>5, <1>6 DEF Inv, Flags

LEMMA PoolStep == ASSUME SetFacts PROVE Inv /\ [P!Next]_pVars => Inv'
<1> SUFFICES ASSUME Inv, [P!Next]_pVars PROVE Inv'
  OBVIOUS
<1>1. CASE P!ClosePool
  BY ZenonT(40), <1>1, CloseKeeps
<1>2. ASSUME NEW c \in Conns, P!Connecting(c) \/ P!Returned(c) \/ P!Breaks(c) PROVE Inv'
  BY ZenonT(40), <1>2, ConnectSucceedsKeeps, ConnectFailsKeeps, ReturnedKeeps, BreaksKeeps DEF P!Connecting
<1>3. ASSUME NEW a \in Acquirers, P!Acquire(a) \/ P!Cancel(a) \/ P!AcquireReturns(a) PROVE Inv'
  BY ZenonT(40), <1>3, AcquireKeeps, CancelKeeps, AcquireReturnsKeeps
<1>4. ASSUME NEW a \in Acquirers, NEW c \in Conns, Uses(a, c) PROVE Inv'
  BY ZenonT(40), <1>4, UsesKeep
<1>5. CASE UNCHANGED pVars
  BY ZenonT(40), <1>5 DEF pVars, Inv, Flags
<1>6. ASSUME NEW a \in Acquirers, P!LetGo(a) PROVE Inv'
  BY <1>4, <1>6 DEF P!LetGo, Uses
<1>7. ASSUME NEW a \in Acquirers, NEW c \in Conns,
             P!Begin(a, c) \/ P!StatementFails(a, c) \/ P!Finish(a, c) \/ P!TakeBack(a, c)
      PROVE  Inv'
  BY <1>4, <1>7 DEF Uses
<1> QED  BY ZenonT(40), <1>1, <1>2, <1>3, <1>5, <1>6, <1>7 DEF P!Next

LEMMA PoolImplies == Inv => PoolAccounted /\ NoTransactionLeaks
<1> SUFFICES ASSUME Inv PROVE PoolAccounted /\ NoTransactionLeaks
  BY ZenonT(40)
<1>1. P!NoTransactionLeaks
  BY DEF Inv, TxnInv, P!NoTransactionLeaks
<1>2. ASSUME open = 1 PROVE P!PoolAccounted
  <2>0. \A S : P!Cardinality(S) = Cardinality(S)
    BY ZenonT(40) DEF P!Cardinality, Cardinality
  <2>1. CountInv(pool, detached) /\ Settled(pool)
    BY ZenonT(40), <1>2 DEF Inv
  <2>2. {pool.idle[i] : i \in 1..Len(pool.idle)} = {c \in Conns : pool.where[c] = "idle"}
    <3>1. \A i \in 1..Len(pool.idle) : pool.idle[i] \in Conns
      <4>1. pool.idle \in Seq(Conns)
        BY InvFields
      <4> QED  BY <4>1
    <3>2. \A c \in Conns : pool.where[c] = "idle" <=> \E i \in 1..Len(pool.idle) : pool.idle[i] = c
      BY DEF Inv, PoolInv
    <3> QED  BY <3>1, <3>2, Zenon
  <2>3. (\E i \in 1..Len(pool.waiters) : pool.waiters[i] \notin pool.cancelled) =>
           pool.idle = <<>> /\ pool.totalCount = MaxSize
    BY <2>1 DEF Settled, Live
  <2>4. pool.totalCount = Cardinality({c \in Conns : pool.where[c] \notin {"none", "lent"}}
                            \cup {c \in Conns : pool.where[c] = "lent" /\ detached[c] = 0})
    BY <2>1, Zenon DEF CountInv, Counted
  <2>5. pool.totalCount <= MaxSize
    BY <2>1 DEF CountInv
  <2> QED  BY ZenonT(40), <2>0, <2>2, <2>3, <2>4, <2>5 DEF P!PoolAccounted
<1>3. open # 1 => P!PoolAccounted
  BY DEF P!PoolAccounted
<1> QED  BY ZenonT(40), <1>1, <1>2, <1>3 DEF PoolAccounted, NoTransactionLeaks
-----------------------------------------------------------------------------
(* PgConnectionImpl. *)

InFlush == {"flushing", "flushReady", "flushCanceled"}

(* libpq accepts a command only when the server owes no result; a command  *)
(* that is being flushed has not been answered; and while a promise waits, *)
(* what is on its way from the server is the answer to the query that made *)
(* it.                                                                     *)
OwnInv ==
    /\ n \in Nat
    /\ server \in [asks : Nat, sent : Nat, whole : {0, 1}, unread : {0, 1}, eof : {0, 1}]
    /\ busy = 0 => server.asks = 0 /\ server.whole = 0
    /\ query \in InFlush => busy = 1 /\ server.asks = 0 /\ server.whole = 0
    /\ promise # 0 => /\ server.asks # 0 => server.asks = n
                      /\ server.whole = 1 => server.sent = n
    /\ query = "resumed" => got = n /\ promise = 0

(* Initially nothing is under way: a connection before connect(). *)
LEMMA OwnInit == Init => OwnInv
BY DEF Init, OwnInv, Idle, InFlush

(* connect() and its token touch nothing the invariant speaks of but the   *)
(* place of a query that is being flushed.                                 *)
LEMMA ConnectingKeeps == OwnInv /\ Connecting => OwnInv'
<1> SUFFICES ASSUME OwnInv, Connecting PROVE OwnInv'
  OBVIOUS
<1> UNCHANGED <<n, server, busy, query, promise, got>>
  BY DEF Connecting, ConnectStarts, ConnectEvent, ConnectPolls, ConnectCanceled, pqVars
<1> QED  BY DEF OwnInv

(* cancelAll() in the token's callback moves a query from "flushing" to    *)
(* "flushCanceled" and no other.                                           *)
LEMMA TokenKeeps == OwnInv /\ Cancel => OwnInv'
BY ZenonT(40) DEF OwnInv, Cancel, CancelAll, pqVars, InFlush

(* sendAndReceive() keeps the invariant: a query begins when libpq is not  *)
(* busy, so the server owes nothing, and a query that throws takes its     *)
(* promise with it.                                                        *)
LEMMA QueryingKeeps == OwnInv /\ Querying => OwnInv'
<1> SUFFICES ASSUME OwnInv, Querying PROVE OwnInv'
  OBVIOUS
<1> USE DEF OwnInv, InFlush
<1>t. ASSUME NEW r, Throws(r) PROVE query' = "none" /\ promise' = 0
  BY ZenonT(40), <1>t DEF Throws, HandleBroken, CancelAll
<1>1. CASE Query
  <2>1. CASE busy = 1
    BY <1>1, <1>t, <2>1 DEF Query
  <2>2. CASE busy # 1 /\ Throws(reader)
    BY <1>1, <1>t, <2>2 DEF Query, Flushed
  <2>3. CASE busy # 1 /\ ~Throws(reader)
    <3>1. /\ n' = n + 1 /\ busy = 0 /\ busy' = 1 /\ promise' = n + 1
          /\ \/ query' = "waiting" /\ server' = Flushed(n + 1)
             \/ query' = "flushing" /\ UNCHANGED server
      BY ZenonT(40), <1>1, <2>3 DEF Query
    <3> QED  BY <3>1 DEF Flushed
  <2> QED  BY ZenonT(40), <2>1, <2>2, <2>3
<1>2. CASE FlushEvent
  BY <1>2 DEF FlushEvent, pqVars
<1>3. CASE FlushEnds
  <2>1. CASE Throws(reader)
    <3>1. query' = "none" /\ promise' = 0 /\ busy = 1 /\ UNCHANGED <<n, got, busy>>
      BY ZenonT(40), <1>3, <1>t, <2>1 DEF FlushEnds
    <3>2. server' = server \/ server' = Flushed(n)
      BY <1>3 DEF FlushEnds
    <3> QED  BY <3>1, <3>2 DEF Flushed
  <2>2. CASE ~Throws(reader)
    <3>1. /\ query' \in {"failed", "waiting"} /\ server' = Flushed(n) /\ busy = 1
          /\ UNCHANGED <<n, got, busy, promise>>
      BY ZenonT(40), <1>3, <2>2 DEF FlushEnds
    <3> QED  BY <3>1 DEF Flushed
  <2> QED  BY ZenonT(40), <2>1, <2>2
<1>4. CASE FlushCanceled
  BY ZenonT(40), <1>4, <1>t DEF FlushCanceled
<1>5. CASE QueryEnds
  BY ZenonT(40), <1>5 DEF QueryEnds
<1> QED  BY ZenonT(40), <1>1, <1>2, <1>3, <1>4, <1>5 DEF Querying

(* readLoop() keeps the invariant: it hands a whole result to the promise  *)
(* there is, and a loop that ends leaves an exception and no promise.      *)
LEMMA ReadingKeeps == OwnInv /\ Reading => OwnInv'
<1> SUFFICES ASSUME OwnInv, Reading PROVE OwnInv'
  OBVIOUS
<1> USE DEF OwnInv, InFlush
<1>g. ASSUME ReaderGone, UNCHANGED <<n, busy, server>> PROVE OwnInv'
  <2>1. promise' = 0 /\ (promise = 0 => got' = got)
    BY <1>g DEF ReaderGone
  <2>2. query' \in InFlush => query \in InFlush
    BY ZenonT(40), <1>g DEF ReaderGone, HandleBroken, CancelAll
  <2>3. query' = "resumed" => query = "resumed"
    BY <1>g DEF ReaderGone, HandleBroken, CancelAll
  <2> QED  BY ZenonT(40), <1>g, <2>1, <2>2, <2>3
<1>1. CASE ReadEvent
  BY ZenonT(40), <1>1 DEF ReadEvent, pqVars
<1>2. CASE ReaderRuns
  <2>1. CASE server.eof = 1
    BY <1>2, <1>g, <2>1 DEF ReaderRuns
  <2>2. CASE server.eof = 0 /\ server.whole = 0
    BY <1>2, <2>2 DEF ReaderRuns
  <2>3. CASE server.eof = 0 /\ server.whole = 1
    BY <1>2, <2>3 DEF ReaderRuns, Idle
  <2> QED  BY ZenonT(40), <2>1, <2>2, <2>3
<1>3. CASE ReaderCanceled
  BY ZenonT(40), <1>3, <1>g DEF ReaderCanceled
<1> QED  BY ZenonT(40), <1>1, <1>2, <1>3 DEF Reading

(* The server answers the query it was sent and no other. *)
LEMMA ServingKeeps == OwnInv /\ Serving => OwnInv'
<1> SUFFICES ASSUME OwnInv, Serving PROVE OwnInv'
  OBVIOUS
<1> USE DEF OwnInv, InFlush
<1>1. CASE Answers
  BY ZenonT(40), <1>1 DEF Answers, pqVars
<1>2. CASE Notifies
  BY <1>2 DEF Notifies, pqVars
<1>3. CASE HangsUp
  BY <1>3 DEF HangsUp, pqVars
<1> QED  BY <1>1, <1>2, <1>3 DEF Serving

(* A query is given the answer to itself, however many were cancelled      *)
(* before it: sendAndReceive() never returns the late answer to an earlier *)
(* one.                                                                    *)
THEOREM ResultsMatch == Spec => []ResultIsOwn
<1>1. OwnInv /\ [Next]_vars => OwnInv'
  <2>1. OwnInv /\ UNCHANGED vars => OwnInv'
    BY ZenonT(40) DEF OwnInv, vars
  <2> QED  BY ZenonT(40), <2>1, ConnectingKeeps, QueryingKeeps, ReadingKeeps, ServingKeeps, TokenKeeps DEF Next
<1>2. OwnInv => ResultIsOwn
  BY ZenonT(40) DEF OwnInv, ResultIsOwn
<1> QED  BY OwnInit, <1>1, <1>2, PTL DEF Spec
-----------------------------------------------------------------------------
(* The facts the pool's proofs took about finite sets and numbers hold. *)
INSTANCE FiniteSetTheorems

LEMMA LeastExists ==
    ASSUME NEW T, T \subseteq Nat, T # {}
    PROVE  \E x \in T : \A y \in T : x <= y
<1> DEFINE R == OpToRel(<, Nat)
<1>1. IsWellFoundedOn(R, Nat)
  BY ZenonT(40), NatLessThanWellFounded
<1>2. \E x \in T : \A y \in T : ~ (<<y, x>> \in R)
  <2> HIDE DEF R
  <2> QED  BY <1>1, WFMin, Zenon
<1>3. R = {ss \in Nat \X Nat : ss[1] < ss[2]}
  BY DEF OpToRel
<1>4. PICK x \in T : \A y \in T : ~ (<<y, x>> \in R)
  BY ZenonT(40), <1>2
<1> HIDE DEF R
<1>5. ASSUME NEW y \in T PROVE x <= y
  <2>1. <<y, x>> \in Nat \X Nat /\ <<y, x>>[1] = y /\ <<y, x>>[2] = x
    BY ZenonT(40)
  <2>2. ~ (y < x)
    BY ZenonT(40), <1>3, <1>4, <2>1
  <2> QED  BY <2>2
<1> QED  BY ZenonT(40), <1>5

LEMMA SetFactsHold == SetFacts
<1>1. \A T \in SUBSET Nat : T # {} => \E x \in T : \A y \in T : x <= y
  BY LeastExists, ZenonT(40)
<1>2. Cardinality({}) = 0
  BY ZenonT(40), FS_EmptySet
<1>3. \A S : IsFiniteSet(S) => Cardinality(S) \in Nat
  BY ZenonT(40), FS_CardinalityType
<1>4. ASSUME NEW S, IsFiniteSet(S), NEW x
      PROVE  /\ x \notin S => Cardinality(S \cup {x}) = Cardinality(S) + 1
             /\ x \in S => /\ IsFiniteSet(S \ {x})
                           /\ Cardinality(S \ {x}) = Cardinality(S) - 1
  BY ZenonT(40), <1>4, FS_AddElement, FS_RemoveElement
<1>5. ASSUME NEW S, IsFiniteSet(S), NEW T, IsFiniteSet(T)
      PROVE  Cardinality(S \cup T) = Cardinality(S) + Cardinality(T) - Cardinality(S \cap T)
  BY ZenonT(40), <1>5, FS_Union
<1>6. ASSUME NEW S, NEW T, IsFiniteSet(T), NEW f \in [S -> T], \A x, y \in S : f[x] = f[y] => x = y
      PROVE  IsFiniteSet(S) /\ Cardinality(S) <= Cardinality(T)
  <2>1. f \in Injection(S, T)
    BY ZenonT(40), <1>6 DEF Injection, IsInjective
  <2> QED  BY ZenonT(40), <1>6, <2>1, FS_Injection
<1>7. ASSUME NEW T, IsFiniteSet(T), NEW S \in SUBSET T PROVE IsFiniteSet(S)
  BY ZenonT(40), <1>7, FS_Subset
<1> QED  BY <1>1, <1>2, <1>3, <1>4, <1>5, <1>6, <1>7, Zenon DEF SetFacts

LEMMA PoolAlways == PgSpec => []Inv
<1>1. PgInit => Inv
  BY ZenonT(40), PoolInit, SetFactsHold DEF PgInit
<1>2. Inv /\ [PgNext]_<<on, vars, pVars>> => Inv'
  BY ZenonT(40), PoolStep, SetFactsHold DEF PgNext
<1> QED  BY <1>1, <1>2, PTL DEF PgSpec

(* totalCount is the number of connections the pool answers for and never  *)
(* exceeds maxSize, and nobody waits while the pool could serve them.      *)
THEOREM PoolCounts == PgSpec => []PoolAccounted
BY PoolAlways, PoolImplies, PTL

(* No connection is idle, promised or on its way back inside a transaction *)
(* somebody left unfinished.                                               *)
THEOREM PoolLendsClean == PgSpec => []NoTransactionLeaks
BY PoolAlways, PoolImplies, PTL
=============================================================================
