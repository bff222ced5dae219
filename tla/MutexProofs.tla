---------------------------- MODULE MutexProofs ----------------------------
(***************************************************************************)
(* The safety invariants of Mutex, and that it implements FifoLock, for    *)
(* any set of coroutines.                                                  *)
(***************************************************************************)
EXTENDS Mutex, TLAPS

(* WaitersAccounted, list by list. *)
ListsAccounted ==
    /\ \A i \in 1..Len(waiters) : pc[waiters[i]] = "waiting"
    /\ \A i \in 1..Len(chain) : pc[chain[i]] = "waiting"
    /\ \A c \in Coros : pc[c] = "waiting" =>
          \/ \E i \in 1..Len(waiters) : waiters[i] = c
          \/ \E i \in 1..Len(chain) : chain[i] = c
    /\ \A i, j \in 1..Len(waiters) : waiters[i] = waiters[j] => i = j
    /\ \A i, j \in 1..Len(chain) : chain[i] = chain[j] => i = j
    /\ \A i \in 1..Len(waiters), j \in 1..Len(chain) : waiters[i] # chain[j]

(* The inductive invariant. *)
IInv == TypeOK /\ MutualExclusion /\ LockAccounted /\ ListsAccounted

LEMMA ReverseProps ==
    ASSUME NEW S, NEW s \in Seq(S)
    PROVE  /\ Reverse(s) \in Seq(S)
           /\ Len(Reverse(s)) = Len(s)
           /\ \A i \in 1..Len(s) : Reverse(s)[i] = s[Len(s) - i + 1]
           /\ s # <<>> => Reverse(s) # <<>>
BY DEF Reverse

LEMMA ConsProps ==
    ASSUME NEW S, NEW s \in Seq(S), NEW e \in S
    PROVE  /\ <<e>> \o s \in Seq(S)
           /\ Len(<<e>> \o s) = Len(s) + 1
           /\ (<<e>> \o s)[1] = e
           /\ \A i \in 1..Len(s) : (<<e>> \o s)[i + 1] = s[i]
           /\ \A i \in 1..Len(s) + 1 : i # 1 => (<<e>> \o s)[i] = s[i - 1]
OBVIOUS

LEMMA TailProps ==
    ASSUME NEW S, NEW s \in Seq(S), s # <<>>
    PROVE  /\ Tail(s) \in Seq(S)
           /\ Len(s) \in Nat \ {0}
           /\ Len(Tail(s)) = Len(s) - 1
           /\ \A i \in 1..Len(s) - 1 : Tail(s)[i] = s[i + 1]
OBVIOUS

LEMMA InitInv == Init => IInv
<1> SUFFICES ASSUME Init PROVE IInv
  BY ZenonT(40)
<1> USE DEF Init
<1>1. TypeOK
  BY DEF TypeOK, Unlocking
<1>2. \A c \in Coros : ~Owns(c)
  BY ZenonT(40) DEF Owns, Unlocking
<1>3. MutualExclusion
  BY ZenonT(40), <1>2 DEF MutualExclusion
<1>4. LockAccounted
  BY ZenonT(40), <1>2 DEF LockAccounted
<1>5. ListsAccounted
  BY DEF ListsAccounted
<1> QED
  BY ZenonT(40), <1>1, <1>3, <1>4, <1>5 DEF IInv

LEMMA CasEnqueueInv ==
    ASSUME IInv, NEW c \in Coros, CasEnqueue(c)
    PROVE  IInv'
<1> DEFINE n == Len(chain)
<1>1. /\ chain \in Seq(Coros) /\ n \in Nat
      /\ waiters \in Seq(Coros) /\ waiters' = waiters
      /\ state # Unlocked /\ state' = c /\ c # Unlocked
      /\ pc[c] = "cas" /\ pc'[c] = "waiting"
      /\ \A d \in Coros \ {c} : pc'[d] = pc[d]
  BY MutexAssumption DEF IInv, TypeOK, CasEnqueue, EnqueueOn, Goto
<1>2. /\ chain' \in Seq(Coros)
      /\ Len(chain') = n + 1
      /\ chain'[1] = c
      /\ \A i \in 1..n + 1 : i # 1 => i - 1 \in 1..n /\ chain'[i] = chain[i - 1]
      /\ \A i \in 1..n : i + 1 \in 1..n + 1 /\ chain'[i + 1] = chain[i]
  BY <1>1, ConsProps DEF CasEnqueue, EnqueueOn
<1>3. \A i \in 1..n : chain[i] \in Coros \ {c}
  BY <1>1 DEF IInv, ListsAccounted
<1>4. \A i \in 1..Len(waiters) : waiters[i] \in Coros \ {c}
  BY <1>1 DEF IInv, ListsAccounted
<1>5. TypeOK'
  BY ZenonT(40), <1>1, <1>2 DEF IInv, TypeOK, CasEnqueue, EnqueueOn, Goto, Unlocking
<1>6. \A d \in Coros : Owns(d)' <=> Owns(d)
  BY ZenonT(40), <1>1 DEF Owns, Unlocking
<1>7. MutualExclusion'
  BY ZenonT(40), <1>6 DEF IInv, MutualExclusion
<1>8. LockAccounted'
  <2>1. chain' # <<>>
    BY <1>1, <1>2
  <2>2. \A d \in Coros : pc'[d] \in Unlocking => pc[d] = pc'[d]
    BY ZenonT(40), <1>1 DEF Unlocking
  <2> QED
    BY <1>1, <1>2, <1>6, <2>1, <2>2 DEF IInv, LockAccounted, Unlocking
<1>9. ListsAccounted'
  <2> HIDE DEF n
  <2>1. \A i \in 1..Len(waiters') : pc'[waiters'[i]] = "waiting"
    BY <1>1, <1>4 DEF IInv, ListsAccounted
  <2>2. \A i \in 1..Len(chain') : pc'[chain'[i]] = "waiting"
    <3>1. ASSUME NEW i \in 1..n + 1 PROVE pc'[chain'[i]] = "waiting"
      <4>1. CASE i = 1
        BY ZenonT(40), <1>1, <1>2, <4>1
      <4>2. CASE i # 1
        <5>1. i - 1 \in 1..n /\ chain'[i] = chain[i - 1]
          BY ZenonT(40), <1>2, <4>2
        <5>2. pc[chain[i - 1]] = "waiting"
          BY ZenonT(40), <5>1 DEF IInv, ListsAccounted, n
        <5> QED
          BY ZenonT(40), <5>1, <5>2, <1>1, <1>3
      <4> QED
        BY ZenonT(40), <4>1, <4>2
    <3> QED
      BY ZenonT(40), <3>1, <1>2
  <2>3. ASSUME NEW d \in Coros, pc'[d] = "waiting"
        PROVE  \/ \E i \in 1..Len(waiters') : waiters'[i] = d
               \/ \E i \in 1..Len(chain') : chain'[i] = d
    <3>1. CASE d = c
      BY <1>1, <1>2, <3>1
    <3>2. CASE d # c
      <4>1. \/ \E i \in 1..Len(waiters) : waiters[i] = d
            \/ \E i \in 1..n : chain[i] = d
        BY ZenonT(40), <1>1, <2>3, <3>2 DEF IInv, ListsAccounted, n
      <4> QED
        BY <4>1, <1>1, <1>2
    <3> QED
      BY ZenonT(40), <3>1, <3>2
  <2>4. \A i, j \in 1..Len(waiters') : waiters'[i] = waiters'[j] => i = j
    BY ZenonT(40), <1>1 DEF IInv, ListsAccounted
  <2>5. ASSUME NEW i \in 1..n + 1, NEW j \in 1..n + 1, chain'[i] = chain'[j]
        PROVE  i = j
    <3>1. \A k \in 1..n + 1 : k # 1 => chain'[k] # c
      BY <1>2, <1>3
    <3>a. CASE i = 1 \/ j = 1
      BY ZenonT(40), <1>2, <2>5, <3>1, <3>a
    <3>b. CASE i # 1 /\ j # 1
      <4>1. i - 1 \in 1..n /\ j - 1 \in 1..n /\ chain[i - 1] = chain[j - 1]
        BY ZenonT(40), <1>2, <2>5, <3>b
      <4>2. i - 1 = j - 1
        BY ZenonT(40), <4>1 DEF IInv, ListsAccounted, n
      <4> QED
        BY <4>2, <1>1
    <3> QED
      BY ZenonT(40), <3>a, <3>b
  <2>6. ASSUME NEW i \in 1..Len(waiters), NEW j \in 1..n + 1
        PROVE  waiters[i] # chain'[j]
    <3>1. CASE j = 1
      BY ZenonT(40), <1>2, <1>4, <3>1
    <3>2. CASE j # 1
      <4>1. j - 1 \in 1..n /\ chain'[j] = chain[j - 1]
        BY ZenonT(40), <1>2, <3>2
      <4>2. \A a \in 1..Len(waiters), b \in 1..n : waiters[a] # chain[b]
        BY ZenonT(40) DEF IInv, ListsAccounted, n
      <4> QED
        BY ZenonT(40), <4>1, <4>2
    <3> QED
      BY ZenonT(40), <3>1, <3>2
  <2> QED
    BY SMTT(40), <1>1, <1>2, <2>1, <2>2, <2>3, <2>4, <2>5, <2>6 DEF ListsAccounted
<1> QED
  BY ZenonT(40), <1>5, <1>7, <1>8, <1>9 DEF IInv

LEMMA ReleaseInv ==
    ASSUME IInv, NEW c \in Coros, Release(c)
    PROVE  IInv'
<1>1. /\ chain' = chain /\ waiters' = waiters /\ waiters = <<>>
      /\ pc[c] = "release" /\ pc'[c] \in {"idle", "take"}
      /\ \A d \in Coros \ {c} : pc'[d] = pc[d]
  BY ZenonT(40) DEF IInv, TypeOK, LockAccounted, Release, Goto
<1>2. \A d \in Coros \ {c} : ~Owns(d) /\ ~Owns(d)'
  BY ZenonT(40), <1>1 DEF IInv, MutualExclusion, Owns, Unlocking
<1>3. TypeOK'
  BY ZenonT(40) DEF IInv, TypeOK, Release, Goto, Unlocking
<1>4. MutualExclusion'
  BY <1>2 DEF MutualExclusion
<1>5. LockAccounted'
  <2>1. state # Unlocked
    BY ZenonT(40), <1>1 DEF IInv, LockAccounted, Owns, Unlocking
  <2>2. CASE state = Null
    <3>1. chain = <<>> /\ state' = Unlocked /\ pc'[c] = "idle"
      BY <1>1, <2>2, MutexAssumption DEF IInv, TypeOK, LockAccounted, Release, Goto
    <3>2. \A d \in Coros : ~Owns(d)'
      BY ZenonT(40), <1>2, <3>1 DEF Owns, Unlocking
    <3> QED
      BY ZenonT(40), <1>1, <1>2, <3>1, <3>2 DEF LockAccounted, Owns, Unlocking
  <2>3. CASE state # Null
    <3>1. chain # <<>> /\ state' = state /\ pc'[c] = "take" /\ Owns(c)'
      BY ZenonT(40), <1>1, <2>1, <2>3 DEF IInv, TypeOK, LockAccounted, Release, Goto, Owns, Unlocking
    <3> QED
      BY ZenonT(40), <1>1, <1>2, <2>1, <3>1 DEF IInv, LockAccounted, Owns, Unlocking
  <2> QED
    BY ZenonT(40), <2>2, <2>3
<1>6. ListsAccounted'
  <2>1. \A d \in Coros : pc'[d] = "waiting" <=> pc[d] = "waiting"
    BY <1>1
  <2> QED
    BY <1>1, <2>1 DEF IInv, TypeOK, ListsAccounted
<1> QED
  BY <1>3, <1>4, <1>5, <1>6 DEF IInv

LEMMA TakeInv ==
    ASSUME IInv, NEW c \in Coros, Take(c)
    PROVE  IInv'
<1> DEFINE n == Len(chain)
<1>1. /\ chain \in Seq(Coros) /\ n \in Nat /\ chain # <<>>
      /\ waiters = <<>> /\ chain' = <<>> /\ waiters' = Reverse(chain)
      /\ state' = Null
      /\ pc[c] = "take" /\ pc'[c] = "handoff"
      /\ \A d \in Coros \ {c} : pc'[d] = pc[d]
  BY DEF IInv, TypeOK, LockAccounted, Take, TakeAs, Goto
<1>2. /\ waiters' \in Seq(Coros)
      /\ waiters' # <<>>
      /\ Len(waiters') = n
      /\ \A i \in 1..n : waiters'[i] = chain[n - i + 1]
  BY ZenonT(40), <1>1, ReverseProps
<1> HIDE DEF n
<1>3. \A i \in 1..n : n - i + 1 \in 1..n /\ chain[i] = waiters'[n - i + 1]
  <2> TAKE i \in 1..n
  <2> DEFINE k == n - i + 1
  <2>1. k \in 1..n /\ n - k + 1 = i
    BY <1>1
  <2> HIDE DEF k
  <2>2. waiters'[k] = chain[n - k + 1]
    BY ZenonT(40), <1>2, <2>1
  <2> QED
    BY ZenonT(40), <2>1, <2>2 DEF k
<1>4. TypeOK'
  BY <1>1, <1>2 DEF IInv, TypeOK, Take, TakeAs, Goto, Unlocking
<1>5. \A d \in Coros : Owns(d)' <=> Owns(d)
  BY ZenonT(40), <1>1 DEF Owns, Unlocking
<1>6. MutualExclusion'
  BY ZenonT(40), <1>5 DEF IInv, MutualExclusion
<1>7. LockAccounted'
  <2>1. \A d \in Coros \ {c} : pc'[d] \notin {"take", "release", "handoff"}
    BY ZenonT(40), <1>1 DEF IInv, MutualExclusion, Owns, Unlocking
  <2>2. Owns(c)'
    BY ZenonT(40), <1>1 DEF Owns, Unlocking
  <2> QED
    BY ZenonT(40), <1>1, <1>2, <2>1, <2>2, MutexAssumption DEF LockAccounted
<1>8. ListsAccounted'
  <2>1. \A d \in Coros : pc'[d] = "waiting" <=> pc[d] = "waiting"
    BY ZenonT(40), <1>1
  <2>2. \A i \in 1..n : waiters'[i] \in Coros /\ pc'[waiters'[i]] = "waiting"
    <3> TAKE i \in 1..n
    <3>1. n - i + 1 \in 1..n /\ waiters'[i] = chain[n - i + 1]
      BY ZenonT(40), <1>2, <1>3
    <3>2. chain[n - i + 1] \in Coros /\ pc[chain[n - i + 1]] = "waiting"
      BY <1>1, <3>1 DEF IInv, ListsAccounted, n
    <3> QED
      BY ZenonT(40), <2>1, <3>1, <3>2
  <2>3. \A d \in Coros : pc'[d] = "waiting" => \E i \in 1..n : waiters'[i] = d
    <3> SUFFICES ASSUME NEW d \in Coros, pc'[d] = "waiting"
                 PROVE  \E i \in 1..n : waiters'[i] = d
      BY ZenonT(40)
    <3>1. PICK i \in 1..n : chain[i] = d
      BY <1>1, <2>1 DEF IInv, ListsAccounted, n
    <3> QED
      BY ZenonT(40), <1>3, <3>1
  <2>4. ASSUME NEW i \in 1..n, NEW j \in 1..n, waiters'[i] = waiters'[j]
        PROVE  i = j
    <3>1. /\ n - i + 1 \in 1..n /\ n - j + 1 \in 1..n
          /\ chain[n - i + 1] = chain[n - j + 1]
      BY ZenonT(40), <1>2, <1>3, <2>4
    <3>2. n - i + 1 = n - j + 1
      BY <3>1 DEF IInv, ListsAccounted, n
    <3> QED
      BY <3>2, <1>1
  <2>5. Len(chain') = 0
    BY ZenonT(40), <1>1
  <2> QED
    BY SMTT(40), <1>2, <2>2, <2>3, <2>4, <2>5 DEF ListsAccounted
<1> QED
  BY ZenonT(40), <1>4, <1>6, <1>7, <1>8 DEF IInv

LEMMA HandoffInv ==
    ASSUME IInv, NEW c \in Coros, Handoff(c)
    PROVE  IInv'
<1> DEFINE w == waiters[1]
           n == Len(waiters)
<1>1. /\ waiters \in Seq(Coros) /\ waiters # <<>> /\ waiters' = Tail(waiters)
      /\ chain \in Seq(Coros) /\ chain' = chain /\ state' = state
      /\ pc[c] = "handoff"
  BY ZenonT(40) DEF IInv, TypeOK, Handoff
<1>2. /\ n \in Nat \ {0}
      /\ waiters' \in Seq(Coros)
      /\ Len(waiters') = n - 1
      /\ \A i \in 1..n - 1 : i + 1 \in 1..n /\ waiters'[i] = waiters[i + 1]
  BY <1>1, TailProps
<1>3. w \in Coros /\ pc[w] = "waiting" /\ w # c
  BY <1>1, <1>2 DEF IInv, ListsAccounted
<1>4. /\ pc'[c] = "idle" /\ pc'[w] = "granted"
      /\ \A d \in Coros \ {c, w} : pc'[d] = pc[d]
  BY ZenonT(40), <1>3 DEF IInv, TypeOK, Handoff
<1> HIDE DEF w, n
<1>5. TypeOK'
  <2>1. pc' \in [Coros -> {"idle", "load", "cas", "waiting", "owner", "granted"}
                             \cup Unlocking]
    BY ZenonT(40), <1>3 DEF IInv, TypeOK, Handoff, w
  <2> QED
    BY ZenonT(40), <1>1, <1>2, <2>1 DEF IInv, TypeOK, Handoff
<1>6. \A d \in Coros : Owns(d)' <=> d = w
  BY ZenonT(40), <1>1, <1>3, <1>4 DEF IInv, MutualExclusion, Owns, Unlocking
<1>7. MutualExclusion'
  BY ZenonT(40), <1>6 DEF MutualExclusion
<1>8. LockAccounted'
  <2>1. state # Unlocked
    BY ZenonT(40), <1>1 DEF IInv, LockAccounted, Owns, Unlocking
  <2>2. \A d \in Coros : pc'[d] \notin {"take", "release", "handoff"}
    BY ZenonT(40), <1>4, <1>6 DEF Owns, Unlocking
  <2> QED
    BY ZenonT(40), <1>1, <1>3, <1>6, <2>1, <2>2 DEF IInv, LockAccounted
<1>9. ListsAccounted'
  <2>1. \A i \in 1..n - 1 : waiters'[i] \in Coros \ {w} /\ pc[waiters'[i]] = "waiting"
    <3> TAKE i \in 1..n - 1
    <3>1. i + 1 \in 1..n /\ 1 \in 1..n /\ i + 1 # 1 /\ waiters'[i] = waiters[i + 1]
      BY <1>2
    <3>2. waiters[i + 1] \in Coros
      BY <3>1, <1>1 DEF n
    <3> QED
      BY <3>1, <3>2 DEF IInv, ListsAccounted, n, w
  <2>2. \A i \in 1..Len(chain) : chain[i] \in Coros \ {w} /\ pc[chain[i]] = "waiting"
    <3>1. 1 \in 1..n
      BY <1>2
    <3> QED
      BY <1>1, <3>1 DEF IInv, ListsAccounted, n, w
  <2>3. \A d \in Coros \ {w} : pc'[d] = "waiting" <=> pc[d] = "waiting"
    BY ZenonT(40), <1>1, <1>4
  <2>4. ASSUME NEW d \in Coros, pc'[d] = "waiting"
        PROVE  \/ \E i \in 1..n - 1 : waiters'[i] = d
               \/ \E i \in 1..Len(chain) : chain[i] = d
    <3>1. d # w /\ pc[d] = "waiting"
      BY ZenonT(40), <2>3, <2>4, <1>4
    <3>2. CASE \E i \in 1..n : waiters[i] = d
      <4>1. PICK i \in 1..n : waiters[i] = d
        BY ZenonT(40), <3>2
      <4>2. i # 1
        BY ZenonT(40), <4>1, <3>1 DEF w
      <4>3. i - 1 \in 1..n - 1 /\ (i - 1) + 1 = i
        BY <4>2, <1>2
      <4> QED
        BY ZenonT(40), <4>1, <4>3, <1>2
    <3> QED
      BY ZenonT(40), <3>1, <3>2 DEF IInv, ListsAccounted, n
  <2>5. ASSUME NEW i \in 1..n - 1, NEW j \in 1..n - 1, waiters'[i] = waiters'[j]
        PROVE  i = j
    <3>1. i + 1 \in 1..n /\ j + 1 \in 1..n /\ waiters[i + 1] = waiters[j + 1]
      BY ZenonT(40), <1>2, <2>5
    <3>2. i + 1 = j + 1
      BY ZenonT(40), <3>1 DEF IInv, ListsAccounted, n
    <3> QED
      BY <3>2, <1>2
  <2>6. ASSUME NEW i \in 1..n - 1, NEW j \in 1..Len(chain)
        PROVE  waiters'[i] # chain[j]
    <3>1. i + 1 \in 1..n /\ waiters'[i] = waiters[i + 1]
      BY ZenonT(40), <1>2
    <3>2. \A a \in 1..n, b \in 1..Len(chain) : waiters[a] # chain[b]
      BY ZenonT(40) DEF IInv, ListsAccounted, n
    <3> QED
      BY ZenonT(40), <3>1, <3>2
  <2>7. \A i, j \in 1..Len(chain) : chain[i] = chain[j] => i = j
    BY ZenonT(40) DEF IInv, ListsAccounted
  <2> QED
    <3>1. \A i \in 1..n - 1 : pc'[waiters'[i]] = "waiting"
      BY ZenonT(40), <2>1, <2>3
    <3>2. \A i \in 1..Len(chain) : pc'[chain[i]] = "waiting"
      BY ZenonT(40), <2>2, <2>3
    <3> QED
      <4>1. chain' = chain /\ Len(waiters') = n - 1
        BY ZenonT(40), <1>1, <1>2
      <4>2. \A i, j \in 1..n - 1 : waiters'[i] = waiters'[j] => i = j
        BY ZenonT(40), <2>5
      <4>3. \A d \in Coros : pc'[d] = "waiting" =>
               \/ \E i \in 1..n - 1 : waiters'[i] = d
               \/ \E i \in 1..Len(chain) : chain[i] = d
        BY ZenonT(40), <2>4
      <4> QED
        BY SMTT(40), <4>1, <4>2, <4>3, <2>6, <2>7, <3>1, <3>2 DEF ListsAccounted
<1> QED
  BY ZenonT(40), <1>5, <1>7, <1>8, <1>9 DEF IInv

(* Steps that leave both lists alone, and suspend and resume nobody, keep  *)
(* the lists accounted for.                                                *)
LEMMA ListsKept ==
    ASSUME IInv, UNCHANGED <<chain, waiters>>,
           \A d \in Coros : pc'[d] = "waiting" <=> pc[d] = "waiting"
    PROVE  ListsAccounted'
<1>1. chain' = chain /\ waiters' = waiters
  OBVIOUS
<1>2. /\ \A i \in 1..Len(chain) : chain[i] \in Coros
      /\ \A i \in 1..Len(waiters) : waiters[i] \in Coros
  BY DEF IInv, TypeOK
<1>3. /\ \A i \in 1..Len(waiters) : pc'[waiters[i]] = "waiting"
      /\ \A i \in 1..Len(chain) : pc'[chain[i]] = "waiting"
  BY ZenonT(40), <1>2 DEF IInv, ListsAccounted
<1>4. \A d \in Coros : pc'[d] = "waiting" =>
         \/ \E i \in 1..Len(waiters) : waiters[i] = d
         \/ \E i \in 1..Len(chain) : chain[i] = d
  BY ZenonT(40) DEF IInv, ListsAccounted
<1> QED
  BY <1>1, <1>3, <1>4 DEF IInv, ListsAccounted

LEMMA NextInv == IInv /\ [Next]_vars => IInv'
<1> SUFFICES ASSUME IInv, [Next]_vars PROVE IInv'
  BY ZenonT(40)
<1> USE MutexAssumption
<1>1. CASE UNCHANGED vars
  <2>1. TypeOK' /\ MutualExclusion' /\ LockAccounted'
    BY ZenonT(40), <1>1 DEF IInv, TypeOK, MutualExclusion, LockAccounted, Owns, Unlocking, vars
  <2>2. ListsAccounted'
    BY ZenonT(40), <1>1 DEF IInv, ListsAccounted, vars
  <2> QED
    BY ZenonT(40), <2>1, <2>2 DEF IInv
<1>2. ASSUME NEW c \in Coros, TryLock(c) PROVE IInv'
  <2>1. TypeOK'
    BY <1>2 DEF IInv, TypeOK, Unlocking, TryLock, Goto
  <2>2. MutualExclusion'
    BY <1>2 DEF IInv, TypeOK, MutualExclusion, LockAccounted, Owns, Unlocking, TryLock, Goto
  <2>3. LockAccounted'
    BY <1>2 DEF IInv, TypeOK, LockAccounted, Owns, Unlocking, TryLock, Goto
  <2>4. ListsAccounted'
    <3>1. UNCHANGED <<chain, waiters>>
      BY ZenonT(40), <1>2 DEF TryLock, Goto
    <3>2. \A d \in Coros : pc'[d] = "waiting" <=> pc[d] = "waiting"
      BY <1>2 DEF IInv, TypeOK, TryLock, Goto
    <3> QED
      BY ZenonT(40), <3>1, <3>2, ListsKept
  <2> QED
    BY ZenonT(40), <2>1, <2>2, <2>3, <2>4 DEF IInv
<1>3. ASSUME NEW c \in Coros, AwaitSuspend(c) PROVE IInv'
  <2>1. TypeOK'
    BY <1>3 DEF IInv, TypeOK, Unlocking, AwaitSuspend, Goto
  <2>2. MutualExclusion'
    BY <1>3 DEF IInv, TypeOK, MutualExclusion, LockAccounted, Owns, Unlocking, AwaitSuspend, Goto
  <2>3. LockAccounted'
    BY <1>3 DEF IInv, TypeOK, LockAccounted, Owns, Unlocking, AwaitSuspend, Goto
  <2>4. ListsAccounted'
    <3>1. UNCHANGED <<chain, waiters>>
      BY ZenonT(40), <1>3 DEF AwaitSuspend, Goto
    <3>2. \A d \in Coros : pc'[d] = "waiting" <=> pc[d] = "waiting"
      BY <1>3 DEF IInv, TypeOK, AwaitSuspend, Goto
    <3> QED
      BY ZenonT(40), <3>1, <3>2, ListsKept
  <2> QED
    BY ZenonT(40), <2>1, <2>2, <2>3, <2>4 DEF IInv
<1>4. ASSUME NEW c \in Coros, LoadState(c) PROVE IInv'
  <2>1. TypeOK'
    BY <1>4 DEF IInv, TypeOK, Unlocking, LoadState, Goto
  <2>2. MutualExclusion'
    BY <1>4 DEF IInv, TypeOK, MutualExclusion, LockAccounted, Owns, Unlocking, LoadState, Goto
  <2>3. LockAccounted'
    BY <1>4 DEF IInv, TypeOK, LockAccounted, Owns, Unlocking, LoadState, Goto
  <2>4. ListsAccounted'
    <3>1. UNCHANGED <<chain, waiters>>
      BY ZenonT(40), <1>4 DEF LoadState, Goto
    <3>2. \A d \in Coros : pc'[d] = "waiting" <=> pc[d] = "waiting"
      BY <1>4 DEF IInv, TypeOK, LoadState, Goto
    <3> QED
      BY ZenonT(40), <3>1, <3>2, ListsKept
  <2> QED
    BY ZenonT(40), <2>1, <2>2, <2>3, <2>4 DEF IInv
<1>5. ASSUME NEW c \in Coros, CasFailed(c) PROVE IInv'
  <2>1. TypeOK'
    BY <1>5 DEF IInv, TypeOK, Unlocking, CasFailed
  <2>2. MutualExclusion'
    BY <1>5 DEF IInv, TypeOK, MutualExclusion, LockAccounted, Owns, Unlocking, CasFailed
  <2>3. LockAccounted'
    BY <1>5 DEF IInv, TypeOK, LockAccounted, Owns, Unlocking, CasFailed
  <2>4. ListsAccounted'
    <3>1. UNCHANGED <<chain, waiters>>
      BY ZenonT(40), <1>5 DEF CasFailed
    <3>2. \A d \in Coros : pc'[d] = "waiting" <=> pc[d] = "waiting"
      BY <1>5 DEF IInv, TypeOK, CasFailed
    <3> QED
      BY ZenonT(40), <3>1, <3>2, ListsKept
  <2> QED
    BY ZenonT(40), <2>1, <2>2, <2>3, <2>4 DEF IInv
<1>6. ASSUME NEW c \in Coros, CasAcquire(c) PROVE IInv'
  <2>1. TypeOK'
    BY <1>6 DEF IInv, TypeOK, Unlocking, CasAcquire, Goto
  <2>2. MutualExclusion'
    BY <1>6 DEF IInv, TypeOK, MutualExclusion, LockAccounted, Owns, Unlocking, CasAcquire, Goto
  <2>3. LockAccounted'
    BY <1>6 DEF IInv, TypeOK, LockAccounted, Owns, Unlocking, CasAcquire, Goto
  <2>4. ListsAccounted'
    <3>1. UNCHANGED <<chain, waiters>>
      BY ZenonT(40), <1>6 DEF CasAcquire, Goto
    <3>2. \A d \in Coros : pc'[d] = "waiting" <=> pc[d] = "waiting"
      BY <1>6 DEF IInv, TypeOK, CasAcquire, Goto
    <3> QED
      BY ZenonT(40), <3>1, <3>2, ListsKept
  <2> QED
    BY ZenonT(40), <2>1, <2>2, <2>3, <2>4 DEF IInv
<1>7. ASSUME NEW c \in Coros, CasEnqueue(c) PROVE IInv'
  BY ZenonT(40), <1>7, CasEnqueueInv
<1>8. ASSUME NEW c \in Coros, Unlock(c) PROVE IInv'
  <2>1. TypeOK'
    BY <1>8 DEF IInv, TypeOK, Unlocking, Unlock, Goto
  <2>2. MutualExclusion'
    BY <1>8 DEF IInv, TypeOK, MutualExclusion, LockAccounted, Owns, Unlocking, Unlock, Goto
  <2>3. LockAccounted'
    BY <1>8 DEF IInv, TypeOK, LockAccounted, Owns, Unlocking, Unlock, Goto
  <2>4. ListsAccounted'
    <3>1. UNCHANGED <<chain, waiters>>
      BY ZenonT(40), <1>8 DEF Unlock, Goto
    <3>2. \A d \in Coros : pc'[d] = "waiting" <=> pc[d] = "waiting"
      BY <1>8 DEF IInv, TypeOK, Unlock, Goto
    <3> QED
      BY ZenonT(40), <3>1, <3>2, ListsKept
  <2> QED
    BY ZenonT(40), <2>1, <2>2, <2>3, <2>4 DEF IInv
<1>9. ASSUME NEW c \in Coros, Release(c) PROVE IInv'
  BY ZenonT(40), <1>9, ReleaseInv
<1>10. ASSUME NEW c \in Coros, Take(c) PROVE IInv'
  BY ZenonT(40), <1>10, TakeInv
<1>11. ASSUME NEW c \in Coros, Handoff(c) PROVE IInv'
  BY ZenonT(40), <1>11, HandoffInv
<1>12. ASSUME NEW c \in Coros, AwaitResume(c) PROVE IInv'
  <2>1. TypeOK'
    BY <1>12 DEF IInv, TypeOK, Unlocking, AwaitResume, Goto
  <2>2. MutualExclusion'
    BY <1>12 DEF IInv, TypeOK, MutualExclusion, LockAccounted, Owns, Unlocking, AwaitResume, Goto
  <2>3. LockAccounted'
    BY <1>12 DEF IInv, TypeOK, LockAccounted, Owns, Unlocking, AwaitResume, Goto
  <2>4. ListsAccounted'
    <3>1. UNCHANGED <<chain, waiters>>
      BY ZenonT(40), <1>12 DEF AwaitResume, Goto
    <3>2. \A d \in Coros : pc'[d] = "waiting" <=> pc[d] = "waiting"
      BY <1>12 DEF IInv, TypeOK, AwaitResume, Goto
    <3> QED
      BY ZenonT(40), <3>1, <3>2, ListsKept
  <2> QED
    BY ZenonT(40), <2>1, <2>2, <2>3, <2>4 DEF IInv
<1> QED
  BY ZenonT(40), <1>1, <1>2, <1>3, <1>4, <1>5, <1>6, <1>7, <1>8, <1>9, <1>10, <1>11, <1>12
  DEF Next, Step, UnlockStep

LEMMA InvariantHolds == Spec => []IInv
  BY InitInv, NextInv, PTL DEF Spec

(* The invariant in the form the model checker checks: waiters_ and the    *)
(* chain, read as one line.                                                *)
LEMMA ListsGiveLine == IInv => WaitersAccounted
<1> SUFFICES ASSUME IInv PROVE WaitersAccounted
  OBVIOUS
<1> DEFINE line == waiters \o chain
           m == Len(waiters)
           n == Len(chain)
<1>1. waiters \in Seq(Coros) /\ chain \in Seq(Coros) /\ m \in Nat /\ n \in Nat
  BY DEF IInv, TypeOK
<1>2. /\ line \in Seq(Coros) /\ Len(line) = m + n
      /\ DOMAIN line = 1..m + n
      /\ \A i \in 1..m + n : line[i] = IF i <= m THEN waiters[i] ELSE chain[i - m]
  BY <1>1
<1> HIDE DEF line, m, n
<1>3. \A i \in 1..m + n : i <= m => i \in 1..m /\ line[i] = waiters[i]
  BY <1>1, <1>2
<1>4. \A i \in 1..m + n : i > m => i - m \in 1..n /\ line[i] = chain[i - m]
  BY <1>1, <1>2
<1>5. ASSUME NEW i \in 1..m + n PROVE line[i] \in Waiting
  <2>1. line[i] \in Coros
    BY <1>2
  <2>2. pc[line[i]] = "waiting"
    BY <1>1, <1>3, <1>4 DEF IInv, ListsAccounted, m, n
  <2> QED
    BY ZenonT(40), <2>1, <2>2 DEF Waiting
<1>6. ASSUME NEW d \in Waiting PROVE \E i \in 1..m + n : line[i] = d
  <2>1. CASE \E i \in 1..m : waiters[i] = d
    BY <2>1, <1>1, <1>2
  <2>2. CASE \E i \in 1..n : chain[i] = d
    <3>1. PICK i \in 1..n : chain[i] = d
      BY ZenonT(40), <2>2
    <3>2. i + m \in 1..m + n /\ i + m > m /\ (i + m) - m = i
      BY <1>1
    <3> QED
      BY ZenonT(40), <1>4, <3>1, <3>2
  <2> QED
    BY ZenonT(40), <2>1, <2>2 DEF IInv, ListsAccounted, Waiting, m, n
<1>7. ToSet(line) = Waiting
  BY ZenonT(40), <1>2, <1>5, <1>6 DEF ToSet
<1>8. ASSUME NEW i \in 1..m + n, NEW j \in 1..m + n, line[i] = line[j]
      PROVE  i = j
  <2>1. CASE i <= m /\ j <= m
    BY <1>3, <1>8, <2>1 DEF IInv, ListsAccounted, m
  <2>2. CASE i > m /\ j > m
    <3>1. i - m = j - m
      BY <1>4, <1>8, <2>2 DEF IInv, ListsAccounted, n
    <3> QED
      BY <1>1, <3>1
  <2>3. CASE i <= m /\ j > m
    BY <1>3, <1>4, <1>8, <2>3 DEF IInv, ListsAccounted, m, n
  <2>4. CASE i > m /\ j <= m
    BY <1>3, <1>4, <1>8, <2>4 DEF IInv, ListsAccounted, m, n
  <2> QED
    BY <1>1, <2>1, <2>2, <2>3, <2>4
<1> QED
  BY ZenonT(40), <1>2, <1>7, <1>8 DEF WaitersAccounted, line

(* The variables keep their types. *)
THEOREM TypeCorrect == Spec => []TypeOK
  BY InvariantHolds, PTL DEF IInv

(* However many coroutines race for the mutex, scoped_lock() lets one in   *)
(* at a time.                                                              *)
THEOREM MutexExcludes == Spec => []MutualExclusion
  BY InvariantHolds, PTL DEF IInv

(* unlock()'s and the destructor's asserts never fire.                     *)
THEOREM AssertsHold == Spec => []LockAccounted
  BY InvariantHolds, PTL DEF IInv

(* No awaiter is lost between asynclockImpl() and unlock(), and none is in *)
(* line twice.                                                             *)
THEOREM NoWaiterLost == Spec => []WaitersAccounted
  BY InvariantHolds, ListsGiveLine, PTL
-----------------------------------------------------------------------------
(* Mutex implements FifoLock. *)

LEMMA SameSeq ==
    ASSUME NEW S, NEW s \in Seq(S), NEW t \in Seq(S), Len(s) = Len(t),
           \A i \in 1..Len(s) : s[i] = t[i]
    PROVE  s = t
<1>1. /\ s = [i \in 1..Len(s) |-> s[i]]
      /\ t = [i \in 1..Len(t) |-> t[i]]
  OBVIOUS
<1> QED  BY ZenonT(40), <1>1

LEMMA EmptyJoins ==
    ASSUME NEW S, NEW s \in Seq(S)
    PROVE  <<>> \o s = s /\ s \o <<>> = s
<1>1. /\ <<>> \o s \in Seq(S) /\ Len(<<>> \o s) = Len(s)
      /\ \A i \in 1..Len(s) : (<<>> \o s)[i] = s[i]
  OBVIOUS
<1>2. /\ s \o <<>> \in Seq(S) /\ Len(s \o <<>>) = Len(s)
      /\ \A i \in 1..Len(s) : (s \o <<>>)[i] = s[i]
  OBVIOUS
<1> QED  BY ZenonT(40), <1>1, <1>2, SameSeq

LEMMA EmptyReversed == Reverse(<<>>) = <<>>
BY DEF Reverse

LEMMA JoinProps ==
    ASSUME NEW S, NEW s \in Seq(S), NEW t \in Seq(S)
    PROVE  /\ s \o t \in Seq(S) /\ Len(s \o t) = Len(s) + Len(t)
           /\ \A i \in 1..Len(s) + Len(t) :
                 (s \o t)[i] = IF i <= Len(s) THEN s[i] ELSE t[i - Len(s)]
OBVIOUS

(* An awaiter put in front of the chain is at the end of the line. *)
LEMMA EnqueuedLast ==
    ASSUME NEW S, NEW s \in Seq(S), NEW t \in Seq(S), NEW e \in S
    PROVE  s \o Reverse(<<e>> \o t) = Append(s \o Reverse(t), e)
<1> DEFINE u == <<e>> \o t
           a == Reverse(u)
           b == Reverse(t)
           m == Len(s)
           n == Len(t)
<1>1. /\ u \in Seq(S) /\ Len(u) = n + 1 /\ u[1] = e /\ m \in Nat /\ n \in Nat
      /\ \A i \in 1..n : u[i + 1] = t[i]
  BY ConsProps
<1>2. /\ b \in Seq(S) /\ Len(b) = n
      /\ \A i \in 1..n : b[i] = t[n - i + 1]
  BY ZenonT(40), ReverseProps
<1> HIDE DEF u, b
<1>3. /\ a \in Seq(S) /\ Len(a) = n + 1
      /\ \A i \in 1..n + 1 : a[i] = u[(n + 1) - i + 1]
  BY <1>1, ReverseProps
<1> HIDE DEF a
<1>4. a[n + 1] = e
  <2>1. n + 1 \in 1..n + 1 /\ (n + 1) - (n + 1) + 1 = 1
    BY <1>1
  <2> QED  BY ZenonT(40), <1>1, <1>3, <2>1
<1>5. ASSUME NEW i \in 1..n PROVE a[i] = b[i]
  <2>1. /\ i \in 1..n + 1 /\ n - i + 1 \in 1..n /\ (n + 1) - i + 1 = (n - i + 1) + 1
    BY <1>1
  <2> QED  BY ZenonT(40), <1>1, <1>2, <1>3, <2>1
<1>6. /\ s \o a \in Seq(S) /\ Len(s \o a) = m + (n + 1)
      /\ \A i \in 1..m + (n + 1) : (s \o a)[i] = IF i <= m THEN s[i] ELSE a[i - m]
  <2>1. /\ s \o a \in Seq(S) /\ Len(s \o a) = Len(s) + Len(a)
        /\ \A i \in 1..Len(s) + Len(a) :
              (s \o a)[i] = IF i <= Len(s) THEN s[i] ELSE a[i - Len(s)]
    <3>1. s \in Seq(S) /\ a \in Seq(S)
      BY ZenonT(40), <1>3
    <3> HIDE DEF m, n
    <3> QED  BY ZenonT(40), <3>1, JoinProps
  <2> QED  BY ZenonT(40), <2>1, <1>3 DEF m, n
<1>7. /\ s \o b \in Seq(S) /\ Len(s \o b) = m + n
      /\ \A i \in 1..m + n : (s \o b)[i] = IF i <= m THEN s[i] ELSE b[i - m]
  <2>1. /\ s \o b \in Seq(S) /\ Len(s \o b) = Len(s) + Len(b)
        /\ \A i \in 1..Len(s) + Len(b) :
              (s \o b)[i] = IF i <= Len(s) THEN s[i] ELSE b[i - Len(s)]
    <3>1. s \in Seq(S) /\ b \in Seq(S)
      BY ZenonT(40), <1>2
    <3> HIDE DEF m, n
    <3> QED  BY ZenonT(40), <3>1, JoinProps
  <2> QED  BY ZenonT(40), <2>1, <1>2 DEF m, n
<1> DEFINE v == s \o b
<1> HIDE DEF v, m, n
<1>8. /\ Append(v, e) \in Seq(S) /\ Len(Append(v, e)) = m + (n + 1)
      /\ Append(v, e)[m + (n + 1)] = e
      /\ \A i \in 1..m + n : Append(v, e)[i] = v[i]
  <2>1. v \in Seq(S) /\ Len(v) = m + n /\ m + n \in Nat /\ m + (n + 1) = (m + n) + 1
    BY <1>1, <1>7 DEF v
  <2> QED  BY <2>1
<1>9. ASSUME NEW i \in 1..m + (n + 1) PROVE (s \o a)[i] = Append(v, e)[i]
  <2>1. CASE i <= m
    <3>1. i \in 1..m + n
      BY <1>1, <2>1
    <3> QED  BY ZenonT(40), <1>6, <1>7, <1>8, <2>1, <3>1 DEF v
  <2>2. CASE i > m /\ i <= m + n
    <3>1. i \in 1..m + n /\ i - m \in 1..n /\ ~(i <= m)
      BY <1>1, <2>2
    <3>2. v[i] = b[i - m] /\ (s \o a)[i] = a[i - m]
      BY ZenonT(40), <1>6, <1>7, <3>1 DEF v
    <3> QED  BY ZenonT(40), <1>5, <1>8, <3>1, <3>2
  <2>3. CASE i = m + (n + 1)
    <3>1. i - m = n + 1 /\ ~(i <= m)
      BY <1>1, <2>3
    <3> QED  BY ZenonT(40), <1>4, <1>6, <1>8, <2>3, <3>1
  <2>4. i <= m \/ (i > m /\ i <= m + n) \/ i = m + (n + 1)
    BY <1>1
  <2> QED  BY ZenonT(40), <2>1, <2>2, <2>3, <2>4
<1> QED  BY ZenonT(40), <1>6, <1>8, <1>9, SameSeq DEF a, b, u, v

(* The line goes on with the waiter after the first. *)
LEMMA FirstLeaves ==
    ASSUME NEW S, NEW s \in Seq(S), s # <<>>, NEW t \in Seq(S)
    PROVE  /\ s \o t # <<>> /\ Head(s \o t) = s[1] /\ s[1] \in S
           /\ Tail(s) \o t = Tail(s \o t)
<1> DEFINE u == s \o t
           v == Tail(s) \o t
           m == Len(s)
           n == Len(t)
<1>1. /\ u \in Seq(S) /\ Len(u) = m + n /\ n \in Nat /\ m \in Nat \ {0}
      /\ \A i \in 1..m + n : u[i] = IF i <= m THEN s[i] ELSE t[i - m]
  OBVIOUS
<1>2. /\ Tail(s) \in Seq(S) /\ Len(Tail(s)) = m - 1
      /\ \A i \in 1..m - 1 : Tail(s)[i] = s[i + 1]
  BY ZenonT(40), TailProps
<1>3. /\ v \in Seq(S) /\ Len(v) = m - 1 + n
      /\ \A i \in 1..m - 1 + n : v[i] = IF i <= m - 1 THEN Tail(s)[i] ELSE t[i - (m - 1)]
  BY <1>1, <1>2
<1> HIDE DEF u, v
<1>4. u # <<>> /\ Head(u) = s[1] /\ s[1] \in S
  BY <1>1
<1>5. /\ Tail(u) \in Seq(S) /\ Len(Tail(u)) = m + n - 1
      /\ \A i \in 1..m + n - 1 : Tail(u)[i] = u[i + 1]
  BY <1>1, <1>4, TailProps
<1>6. ASSUME NEW i \in 1..m - 1 + n PROVE v[i] = Tail(u)[i]
  <2> HIDE DEF m, n
  <2>1. i \in 1..m + n - 1 /\ i + 1 \in 1..m + n /\ (i + 1) - m = i - (m - 1)
    BY <1>1
  <2>2. CASE i <= m - 1
    <3>1. i \in 1..m - 1 /\ i + 1 <= m
      BY <1>1, <2>2
    <3> QED  BY ZenonT(40), <1>1, <1>2, <1>3, <1>5, <2>1, <2>2, <3>1
  <2>3. CASE i > m - 1
    <3>1. ~(i <= m - 1) /\ ~(i + 1 <= m)
      BY <1>1, <2>3
    <3> QED  BY ZenonT(40), <1>1, <1>3, <1>5, <2>1, <3>1
  <2> QED  BY <1>1, <2>2, <2>3
<1>7. m - 1 + n = m + n - 1
  BY <1>1
<1>8. v = Tail(u)
  BY ZenonT(40), <1>3, <1>5, <1>6, <1>7, SameSeq
<1> QED  BY ZenonT(40), <1>4, <1>8 DEF u, v

LEMMA OwnerFound ==
    ASSUME IInv, NEW c \in Coros, Owns(c)
    PROVE  Owner = c
BY ZenonT(40) DEF Owner, IInv, MutualExclusion

LEMMA OwnerFoundNext ==
    ASSUME IInv', NEW c \in Coros, Owns(c)'
    PROVE  Owner' = c
BY ZenonT(40) DEF Owner, IInv, MutualExclusion

(* A step that changes neither who owns the mutex nor the line is a        *)
(* stuttering step of the lock.                                            *)
LEMMA OwnerKept ==
    ASSUME \A c \in Coros : Owns(c)' <=> Owns(c)
    PROVE  Owner' = Owner
<1>1. CASE \E c \in Coros : Owns(c)
  <2>1. (CHOOSE c \in Coros : Owns(c)') = (CHOOSE c \in Coros : Owns(c))
    BY ZenonT(40)
  <2> QED  BY ZenonT(40), <1>1, <2>1 DEF Owner
<1>2. CASE ~\E c \in Coros : Owns(c)
  BY ZenonT(40), <1>2 DEF Owner
<1> QED  BY ZenonT(40), <1>1, <1>2

LEMMA AcquireRefines ==
    ASSUME IInv, IInv', NEW c \in Coros, TryLock(c) \/ CasAcquire(c)
    PROVE  Abstract!Acquire(c)
<1>1. state = Unlocked /\ pc' = [pc EXCEPT ![c] = "owner"] /\ UNCHANGED <<chain, waiters>>
  BY ZenonT(40) DEF TryLock, CasAcquire, Goto
<1>2. Owner = Null
  BY ZenonT(40), <1>1 DEF IInv, LockAccounted, Owner
<1>3. Owns(c)'
  BY ZenonT(40), <1>1 DEF IInv, TypeOK, Owns
<1>4. Owner' = c
  BY ZenonT(40), <1>3, OwnerFoundNext
<1> QED  BY ZenonT(40), <1>1, <1>2, <1>4 DEF Abstract!Acquire

LEMMA EnqueueRefines ==
    ASSUME IInv, NEW c \in Coros, CasEnqueue(c)
    PROVE  Abstract!Enqueue(c)
<1>1. /\ state # Unlocked /\ pc[c] = "cas" /\ pc' = [pc EXCEPT ![c] = "waiting"]
      /\ waiters' = waiters /\ chain' = <<c>> \o chain
  BY ZenonT(40) DEF CasEnqueue, EnqueueOn, Goto
<1>2. PICK d \in Coros : Owns(d)
  BY ZenonT(40), <1>1 DEF IInv, LockAccounted
<1>3. Owner = d
  BY ZenonT(40), <1>2, OwnerFound
<1>4. d # c /\ d # Null
  BY ZenonT(40), <1>1, <1>2, MutexAssumption DEF Owns, Unlocking
<1>5. \A e \in Coros : Owns(e)' <=> Owns(e)
  BY ZenonT(40), <1>1 DEF IInv, TypeOK, Owns, Unlocking
<1>6. Owner' = Owner
  BY ZenonT(40), <1>5, OwnerKept
<1>7. waiters \in Seq(Coros) /\ chain \in Seq(Coros)
  BY ZenonT(40) DEF IInv, TypeOK
<1>8. waiters' \o Reverse(chain') = Append(waiters \o Reverse(chain), c)
  <2>1. waiters \o Reverse(<<c>> \o chain) = Append(waiters \o Reverse(chain), c)
    BY SMTT(40), <1>7, EnqueuedLast
  <2> QED  BY ZenonT(40), <1>1, <2>1
<1> QED  BY ZenonT(40), <1>3, <1>4, <1>6, <1>8 DEF Abstract!Enqueue

LEMMA ReleaseRefines ==
    ASSUME IInv, IInv', NEW c \in Coros, Release(c)
    PROVE  Abstract!Unlock(c) \/ UNCHANGED Abstract!lvars
<1>1. UNCHANGED <<chain, waiters>> /\ pc[c] = "release" /\ Owns(c)
  BY ZenonT(40) DEF Release, Owns, Unlocking
<1>2. CASE state # Null
  <2>1. pc' = [pc EXCEPT ![c] = "take"]
    BY ZenonT(40), <1>2 DEF Release, Goto
  <2>2. \A d \in Coros : Owns(d)' <=> Owns(d)
    BY ZenonT(40), <1>1, <2>1 DEF IInv, TypeOK, Owns, Unlocking
  <2>3. Owner' = Owner
    BY ZenonT(40), <2>2, OwnerKept
  <2> QED  BY ZenonT(40), <1>1, <2>3 DEF Abstract!lvars
<1>3. CASE state = Null
  <2>1. state' = Unlocked
    BY ZenonT(40), <1>3 DEF Release
  <2>2. Owner = c /\ Owner' = Null
    BY ZenonT(40), <1>1, <2>1, OwnerFound DEF IInv, LockAccounted, Owner
  <2>3. chain = <<>> /\ waiters = <<>>
    BY <1>1, <1>3, MutexAssumption DEF IInv, TypeOK, LockAccounted
  <2>4. waiters \o Reverse(chain) = <<>>
    BY <2>3, EmptyReversed, EmptyJoins
  <2> QED  BY ZenonT(40), <1>1, <2>2, <2>4 DEF Abstract!Unlock
<1> QED  BY ZenonT(40), <1>2, <1>3

LEMMA TakeRefines ==
    ASSUME IInv, NEW c \in Coros, Take(c)
    PROVE  UNCHANGED Abstract!lvars
<1>1. /\ pc[c] = "take" /\ pc' = [pc EXCEPT ![c] = "handoff"]
      /\ chain' = <<>> /\ waiters' = Reverse(chain)
  BY ZenonT(40) DEF Take, TakeAs, Goto
<1>2. waiters = <<>> /\ Reverse(chain) \in Seq(Coros)
  BY ZenonT(40), <1>1, ReverseProps DEF IInv, TypeOK, LockAccounted
<1>3. \A d \in Coros : Owns(d)' <=> Owns(d)
  BY ZenonT(40), <1>1 DEF IInv, TypeOK, Owns, Unlocking
<1>4. Owner' = Owner
  BY ZenonT(40), <1>3, OwnerKept
<1>5. waiters' \o Reverse(chain') = waiters \o Reverse(chain)
  BY ZenonT(40), <1>1, <1>2, EmptyReversed, EmptyJoins
<1> QED  BY ZenonT(40), <1>4, <1>5 DEF Abstract!lvars

LEMMA HandoffRefines ==
    ASSUME IInv, IInv', NEW c \in Coros, Handoff(c)
    PROVE  Abstract!Unlock(c)
<1>1. /\ pc[c] = "handoff" /\ waiters # <<>> /\ waiters' = Tail(waiters)
      /\ pc' = [pc EXCEPT ![c] = "idle", ![waiters[1]] = "granted"] /\ chain' = chain
  BY ZenonT(40) DEF Handoff
<1>2. waiters \in Seq(Coros) /\ Reverse(chain) \in Seq(Coros)
  BY ZenonT(40), ReverseProps DEF IInv, TypeOK
<1>3. PICK w \in Coros : w = waiters[1]
  BY <1>1, <1>2
<1>4. Owns(c) /\ Owns(w)'
  BY ZenonT(40), <1>1, <1>3 DEF IInv, TypeOK, Owns, Unlocking
<1>5. Owner = c /\ Owner' = w
  BY ZenonT(40), <1>3, <1>4, OwnerFound, OwnerFoundNext
<1>6. /\ waiters \o Reverse(chain) # <<>> /\ Head(waiters \o Reverse(chain)) = w
      /\ Tail(waiters) \o Reverse(chain) = Tail(waiters \o Reverse(chain))
  BY ZenonT(40), <1>1, <1>2, <1>3, FirstLeaves
<1> QED  BY ZenonT(40), <1>1, <1>5, <1>6 DEF Abstract!Unlock

(* The other steps of a coroutine leave the owner and the line alone. *)
LEMMA InnerRefines ==
    ASSUME IInv, NEW c \in Coros,
           AwaitSuspend(c) \/ LoadState(c) \/ CasFailed(c) \/ Unlock(c) \/ AwaitResume(c)
    PROVE  UNCHANGED Abstract!lvars
<1>1. UNCHANGED <<chain, waiters>>
  BY ZenonT(40) DEF AwaitSuspend, LoadState, CasFailed, Unlock, AwaitResume
<1>2. \A d \in Coros : Owns(d)' <=> Owns(d)
  BY ZenonT(40) DEF IInv, TypeOK, Owns, Unlocking, AwaitSuspend, LoadState, CasFailed, Unlock,
         AwaitResume, Goto
<1>3. Owner' = Owner
  BY ZenonT(40), <1>2, OwnerKept
<1> QED  BY ZenonT(40), <1>1, <1>3 DEF Abstract!lvars

LEMMA StepRefines ==
    ASSUME IInv, IInv', [Next]_vars
    PROVE  [Abstract!LNext]_(Abstract!lvars)
<1>1. CASE UNCHANGED vars
  <2>1. \A d \in Coros : Owns(d)' <=> Owns(d)
    BY ZenonT(40), <1>1 DEF vars, Owns
  <2>2. Owner' = Owner
    BY ZenonT(40), <2>1, OwnerKept
  <2> QED  BY ZenonT(40), <1>1, <2>2 DEF vars, Abstract!lvars
<1>2. ASSUME NEW c \in Coros, Step(c) PROVE [Abstract!LNext]_(Abstract!lvars)
  <2>1. CASE TryLock(c) \/ CasAcquire(c)
    BY ZenonT(40), <2>1, AcquireRefines DEF Abstract!LNext
  <2>2. CASE CasEnqueue(c)
    BY ZenonT(40), <2>2, EnqueueRefines DEF Abstract!LNext
  <2>3. CASE Release(c)
    BY ZenonT(40), <2>3, ReleaseRefines DEF Abstract!LNext
  <2>4. CASE Take(c)
    BY ZenonT(40), <2>4, TakeRefines
  <2>5. CASE Handoff(c)
    BY ZenonT(40), <2>5, HandoffRefines DEF Abstract!LNext
  <2>6. CASE AwaitSuspend(c) \/ LoadState(c) \/ CasFailed(c) \/ Unlock(c) \/ AwaitResume(c)
    BY ZenonT(40), <2>6, InnerRefines
  <2> QED  BY ZenonT(40), <1>2, <2>1, <2>2, <2>3, <2>4, <2>5, <2>6 DEF Step, UnlockStep
<1> QED  BY ZenonT(40), <1>1, <1>2 DEF Next

LEMMA InitRefines == Init => Abstract!LInit
<1> SUFFICES ASSUME Init PROVE Abstract!LInit
  BY ZenonT(40)
<1>1. Owner = Null
  BY ZenonT(40) DEF Init, Owner, Owns, Unlocking
<1>2. waiters \o Reverse(chain) = <<>>
  BY EmptyReversed, EmptyJoins DEF Init
<1> QED  BY ZenonT(40), <1>1, <1>2 DEF Abstract!LInit

(* Mutex implements the FIFO lock, for any set of coroutines: the lock is  *)
(* handed over in the order in which the awaiters enqueued, nobody         *)
(* overtakes a suspended one, and it is never free while somebody waits.   *)
THEOREM MutexIsFifo == Spec => IsFifoLock
<1>1. IInv /\ IInv' /\ [Next]_vars => [Abstract!LNext]_(Abstract!lvars)
  BY StepRefines
<1> QED  BY <1>1, InitRefines, InvariantHolds, PTL DEF Spec, IsFifoLock, Abstract!LSpec
=============================================================================
