----------------------------- MODULE QueueProofs -----------------------------
(***************************************************************************)
(* That MpscQueue uses live nodes only, leaks none, and implements the     *)
(* abstract FIFO queue, for any producers, values and addresses.           *)
(***************************************************************************)
EXTENDS MCScheduler, TLAPS

Last == Len(order)

(* head_ and tail_ are the ends of the order. *)
Ends ==
    /\ alive => Last # 0 /\ order[Last] = tail
    /\ Last # 0 => head = order[1]
    /\ Last = 0 => head = Null

(* A node is in the order once, from its allocation to its deletion. *)
NodesOnce ==
    /\ \A i, j \in 1..Last : order[i] = order[j] => i = j
    /\ \A i \in 1..Last : order[i] \in heap
    /\ \A x \in heap : \E i \in 1..Last : order[i] = x

(* A node leads to the one behind it, unless a push has yet to link it. *)
Links ==
    /\ \A i \in 1..Last - 1 : \/ next[order[i]] = order[i + 1]
                              \/ next[order[i]] = Null /\ \E p \in pushing : prev[p] = order[i]
    /\ Last # 0 => next[order[Last]] = Null

(* Each push in flight has one gap of the order to close. *)
Gap(p, i) == prev[p] = order[i] /\ node[p] = order[i + 1] /\ next[order[i]] = Null

Pushes ==
    /\ \A p \in pushing : \E i \in 1..Last - 1 : Gap(p, i)
    /\ \A p, q \in pushing : prev[p] = prev[q] => p = q

Consumer ==
    /\ popNext # Null => alive /\ popNext = next[head]
    /\ ~alive => pushing = {}

QueueInv == Queue!TypeOK /\ Ends /\ NodesOnce /\ Links /\ Pushes /\ Consumer

LEMMA QueueInit == LoopInit => QueueInv
<1> SUFFICES ASSUME LoopInit PROVE QueueInv
  OBVIOUS
<1>1. Queue!Init
  BY DEF LoopInit
<1>2. order = <<head>> /\ head \in Nodes /\ Last = 1 /\ order[1] = head
  BY <1>1 DEF Queue!Init, Last
<1>3. Queue!TypeOK
  BY <1>1, <1>2 DEF Queue!Init, Queue!TypeOK
<1>4. Ends /\ NodesOnce
  BY <1>1, <1>2 DEF Queue!Init, Ends, NodesOnce
<1>5. Links /\ Pushes /\ Consumer
  BY <1>1, <1>2 DEF Queue!Init, Links, Pushes, Consumer
<1> QED  BY <1>3, <1>4, <1>5 DEF QueueInv

(* What the invariant says of the types. *)
LEMMA QueueFields ==
    ASSUME QueueInv
    PROVE  /\ order \in Seq(Nodes) /\ Last \in Nat
           /\ \A i \in 1..Last : order[i] \in Nodes
           /\ next \in [Nodes -> Nodes \cup {Null}] /\ value \in [Nodes -> Values \cup {Nullopt}]
           /\ heap \subseteq Nodes /\ pushing \subseteq Producers /\ tail \in Nodes
           /\ node \in [Producers -> Nodes \cup {Null}]
           /\ prev \in [Producers -> Nodes \cup {Null}]
BY DEF QueueInv, Queue!TypeOK, Last

LEMMA ExchangeKeeps ==
    ASSUME QueueInv, NEW p \in Producers, NEW v \in Values, Queue!PushExchange(p, v)
    PROVE  QueueInv'
<1> DEFINE n == Last
<1>1. PICK x \in Nodes \ heap :
          /\ heap' = heap \cup {x}
          /\ value' = [value EXCEPT ![x] = v]
          /\ next' = [next EXCEPT ![x] = Null]
          /\ node' = [node EXCEPT ![p] = x]
          /\ prev' = [prev EXCEPT ![p] = tail]
          /\ tail' = x
          /\ order' = Append(order, x)
  BY ZenonT(40) DEF Queue!PushExchange
<1>2. /\ alive /\ p \notin pushing /\ pushing' = pushing \cup {p}
      /\ head' = head /\ popNext' = popNext /\ popped' = popped /\ alive' = alive
  BY DEF Queue!PushExchange
<1>3. /\ n \in Nat \ {0} /\ order[n] = tail /\ head = order[1]
  BY <1>2, QueueFields DEF QueueInv, Ends
<1>4. /\ order' \in Seq(Nodes) /\ Last' = n + 1 /\ order'[n + 1] = x
      /\ \A i \in 1..n : order'[i] = order[i]
  BY <1>1, QueueFields DEF Last
<1>5. \A i \in 1..n : order[i] \in Nodes /\ order[i] \in heap /\ order[i] # x
  BY ZenonT(40), <1>1, QueueFields DEF QueueInv, NodesOnce
<1> HIDE DEF n
<1>6. /\ \A i \in 1..n : next'[order[i]] = next[order[i]]
      /\ next'[x] = Null
      /\ \A q \in pushing : q # p /\ prev'[q] = prev[q] /\ node'[q] = node[q]
      /\ prev'[p] = tail /\ node'[p] = x
  BY <1>1, <1>2, <1>5, QueueFields
<1>7. Queue!TypeOK'
  <2>1. /\ next' \in [Nodes -> Nodes \cup {Null}] /\ value' \in [Nodes -> Values \cup {Nullopt}]
        /\ heap' \subseteq Nodes /\ pushing' \subseteq Producers /\ tail' \in Nodes
        /\ node' \in [Producers -> Nodes \cup {Null}]
        /\ prev' \in [Producers -> Nodes \cup {Null}]
    BY ZenonT(40), <1>1, <1>2, QueueFields
  <2>2. \A q \in pushing' : node'[q] \in Nodes /\ prev'[q] \in Nodes
    BY <1>1, <1>2, <1>6, QueueFields DEF QueueInv, Queue!TypeOK
  <2> QED  BY ZenonT(40), <1>2, <1>4, <2>1, <2>2 DEF QueueInv, Queue!TypeOK
<1>8. Ends'
  <2>1. order'[Last'] = tail' /\ Last' # 0 /\ head' = order'[1]
    BY <1>1, <1>2, <1>3, <1>4
  <2> QED  BY ZenonT(40), <2>1 DEF Ends
<1>9. NodesOnce'
  <2>1. ASSUME NEW i \in 1..n + 1, NEW j \in 1..n + 1, order'[i] = order'[j] PROVE i = j
    <3>1. CASE i \in 1..n /\ j \in 1..n
      BY ZenonT(40), <1>4, <2>1, <3>1 DEF QueueInv, NodesOnce, n
    <3>2. CASE i = n + 1 \/ j = n + 1
      BY <1>3, <1>4, <1>5, <2>1, <3>2
    <3> QED  BY <1>3, <3>1, <3>2
  <2>2. ASSUME NEW i \in 1..n + 1 PROVE order'[i] \in heap'
    <3>1. CASE i = n + 1  BY ZenonT(40), <1>1, <1>4, <3>1
    <3>2. CASE i \in 1..n  BY ZenonT(40), <1>1, <1>4, <1>5, <3>2
    <3> QED  BY <1>3, <3>1, <3>2
  <2>3. ASSUME NEW y \in heap' PROVE \E i \in 1..n + 1 : order'[i] = y
    <3>1. CASE y = x
      BY <1>3, <1>4, <3>1
    <3>2. CASE y \in heap
      <4>1. PICK i \in 1..n : order[i] = y
        BY <3>2 DEF QueueInv, NodesOnce, n
      <4> QED  BY <1>3, <1>4, <4>1
    <3> QED  BY ZenonT(40), <1>1, <3>1, <3>2
  <2> QED  BY ZenonT(40), <1>4, <2>1, <2>2, <2>3 DEF NodesOnce
<1>10. Links'
  <2>1. ASSUME NEW i \in 1..n
        PROVE  \/ next'[order'[i]] = order'[i + 1]
               \/ next'[order'[i]] = Null /\ \E q \in pushing' : prev'[q] = order'[i]
    <3>1. CASE i = n
      <4>1. next[order[n]] = Null
        BY ZenonT(40), <1>3 DEF QueueInv, Links, n
      <4> QED  BY ZenonT(40), <1>2, <1>3, <1>4, <1>6, <3>1, <4>1
    <3>2. CASE i # n
      <4>1. i \in 1..n - 1 /\ i + 1 \in 1..n
        BY <1>3, <3>2
      <4>2. CASE next[order[i]] = order[i + 1]
        BY ZenonT(40), <1>4, <1>6, <4>1, <4>2
      <4>3. CASE next[order[i]] = Null /\ \E q \in pushing : prev[q] = order[i]
        BY ZenonT(40), <1>2, <1>4, <1>6, <4>3
      <4> QED  BY ZenonT(40), <4>1, <4>2, <4>3 DEF QueueInv, Links, n
    <3> QED  BY ZenonT(40), <3>1, <3>2
  <2>2. next'[order'[n + 1]] = Null
    BY ZenonT(40), <1>4, <1>6
  <2>3. (n + 1) - 1 = n
    BY <1>3
  <2> QED  BY ZenonT(40), <1>4, <2>1, <2>2, <2>3 DEF Links
<1>11. Pushes'
  <2>1. ASSUME NEW q \in pushing' PROVE \E i \in 1..n : Gap(q, i)'
    <3>1. CASE q = p
      <4>1. next[order[n]] = Null /\ n \in 1..n
        BY <1>3 DEF QueueInv, Links, n
      <4>2. prev'[q] = order'[n] /\ node'[q] = order'[n + 1] /\ next'[order'[n]] = Null
        BY ZenonT(40), <1>3, <1>4, <1>6, <3>1, <4>1
      <4> QED  BY ZenonT(40), <4>1, <4>2 DEF Gap
    <3>2. CASE q \in pushing
      <4>1. PICK i \in 1..n - 1 : Gap(q, i)
        BY <3>2 DEF QueueInv, Pushes, n
      <4>2. i \in 1..n /\ i + 1 \in 1..n
        BY <1>3
      <4>3. prev'[q] = order'[i] /\ node'[q] = order'[i + 1] /\ next'[order'[i]] = Null
        BY ZenonT(40), <1>4, <1>6, <3>2, <4>1, <4>2 DEF Gap
      <4> QED  BY ZenonT(40), <4>2, <4>3 DEF Gap
    <3> QED  BY ZenonT(40), <1>2, <3>1, <3>2
  <2>2. ASSUME NEW q \in pushing PROVE prev[q] # tail
    <3>1. PICK i \in 1..n - 1 : Gap(q, i)
      BY DEF QueueInv, Pushes, n
    <3>2. i \in 1..n /\ n \in 1..n /\ i # n
      BY <1>3
    <3> QED  BY ZenonT(40), <1>3, <3>1, <3>2 DEF Gap, QueueInv, NodesOnce, n
  <2>3. ASSUME NEW q \in pushing', NEW r \in pushing', prev'[q] = prev'[r] PROVE q = r
    <3>1. CASE q \in pushing /\ r \in pushing
      BY ZenonT(40), <1>6, <2>3, <3>1 DEF QueueInv, Pushes
    <3>2. CASE q = p \/ r = p
      BY ZenonT(40), <1>2, <1>6, <2>2, <2>3, <3>2
    <3> QED  BY ZenonT(40), <1>2, <3>1, <3>2
  <2>4. (n + 1) - 1 = n
    BY <1>3
  <2> QED  BY ZenonT(40), <1>4, <2>1, <2>3, <2>4 DEF Pushes
<1>12. Consumer'
  <2>1. head \in Nodes /\ next'[head] = next[head]
    BY <1>3, <1>5, <1>6
  <2> QED  BY ZenonT(40), <1>2, <2>1 DEF QueueInv, Consumer
<1> QED  BY ZenonT(40), <1>7, <1>8, <1>9, <1>10, <1>11, <1>12 DEF QueueInv

LEMMA LinkKeeps ==
    ASSUME QueueInv, NEW p \in Producers, Queue!PushLink(p)
    PROVE  QueueInv'
<1> DEFINE n == Last
<1>1. /\ p \in pushing /\ pushing' = pushing \ {p}
      /\ next' = [next EXCEPT ![prev[p]] = node[p]]
      /\ node' = [node EXCEPT ![p] = Null] /\ prev' = [prev EXCEPT ![p] = Null]
      /\ head' = head /\ tail' = tail /\ value' = value /\ heap' = heap
      /\ popNext' = popNext /\ popped' = popped /\ alive' = alive /\ order' = order
  BY DEF Queue!PushLink
<1>2. PICK k \in 1..n - 1 : Gap(p, k)
  BY <1>1 DEF QueueInv, Pushes
<1>3. n \in Nat /\ k \in 1..n /\ k + 1 \in 1..n /\ n \in 1..n /\ k # n
  BY <1>2, QueueFields
<1>4. Last' = n
  BY ZenonT(40), <1>1 DEF Last
<1> HIDE DEF n
<1>5. /\ next'[order[k]] = order[k + 1]
      /\ \A i \in 1..n : i # k => next'[order[i]] = next[order[i]]
  <2>1. \A i \in 1..n : order[i] \in Nodes /\ (order[i] = order[k] => i = k)
    BY ZenonT(40), <1>3, QueueFields DEF QueueInv, NodesOnce, n
  <2> QED  BY ZenonT(40), <1>1, <1>2, <1>3, <2>1, QueueFields DEF Gap
<1>6. \A q \in pushing' : q \in pushing /\ q # p /\ prev'[q] = prev[q] /\ node'[q] = node[q]
  BY ZenonT(40), <1>1, QueueFields
<1>7. \A q \in pushing : prev[q] = order[k] => q = p
  BY <1>1, <1>2 DEF Gap, QueueInv, Pushes
<1>8. Queue!TypeOK'
  <2>1. node[p] \in Nodes /\ prev[p] \in Nodes
    BY <1>1 DEF QueueInv, Queue!TypeOK
  <2>2. /\ next' \in [Nodes -> Nodes \cup {Null}] /\ pushing' \subseteq Producers
        /\ node' \in [Producers -> Nodes \cup {Null}]
        /\ prev' \in [Producers -> Nodes \cup {Null}]
    BY ZenonT(40), <1>1, <2>1, QueueFields
  <2>3. \A q \in pushing' : node'[q] \in Nodes /\ prev'[q] \in Nodes
    BY <1>6 DEF QueueInv, Queue!TypeOK
  <2> QED  BY ZenonT(40), <1>1, <2>2, <2>3 DEF QueueInv, Queue!TypeOK
<1>9. Ends' /\ NodesOnce'
  BY ZenonT(40), <1>1, <1>4 DEF QueueInv, Ends, NodesOnce, n
<1>10. Links'
  <2>1. ASSUME NEW i \in 1..n - 1
        PROVE  \/ next'[order[i]] = order[i + 1]
               \/ next'[order[i]] = Null /\ \E q \in pushing' : prev'[q] = order[i]
    <3>1. CASE i = k
      BY ZenonT(40), <1>5, <3>1
    <3>2. CASE i # k
      <4>1. i \in 1..n /\ k \in 1..n
        BY <1>3
      <4>2. next'[order[i]] = next[order[i]]
        BY ZenonT(40), <1>5, <3>2, <4>1
      <4>3. order[i] # order[k]
        BY ZenonT(40), <3>2, <4>1 DEF QueueInv, NodesOnce, n
      <4>4. ASSUME NEW q \in pushing, prev[q] = order[i]
            PROVE  q \in pushing' /\ prev'[q] = order[i]
        <5>1. q # p
          BY ZenonT(40), <1>2, <4>3, <4>4 DEF Gap
        <5> QED  BY ZenonT(40), <1>1, <1>6, <4>4, <5>1
      <4> QED  BY <4>2, <4>4 DEF QueueInv, Links, n
    <3> QED  BY ZenonT(40), <3>1, <3>2
  <2>2. next'[order[n]] = Null
    BY <1>3, <1>5 DEF QueueInv, Links, n
  <2>3. ASSUME NEW i \in 1..n - 1
        PROVE  \/ next'[order'[i]] = order'[i + 1]
               \/ next'[order'[i]] = Null /\ \E q \in pushing' : prev'[q] = order'[i]
    BY ZenonT(40), <1>1, <2>1
  <2>4. next'[order'[n]] = Null
    BY ZenonT(40), <1>1, <2>2
  <2> QED  BY ZenonT(40), <1>4, <2>3, <2>4 DEF Links
<1>11. Pushes'
  <2>1. ASSUME NEW q \in pushing' PROVE \E i \in 1..n - 1 : Gap(q, i)'
    <3>1. PICK i \in 1..n - 1 : Gap(q, i)
      BY <1>6 DEF QueueInv, Pushes, n
    <3>2. i \in 1..n /\ i # k
      BY <1>3, <1>6, <1>7, <3>1 DEF Gap
    <3>3. prev'[q] = order'[i] /\ node'[q] = order'[i + 1] /\ next'[order'[i]] = Null
      BY <1>1, <1>5, <1>6, <3>1, <3>2 DEF Gap
    <3> QED  BY ZenonT(40), <3>3 DEF Gap
  <2>2. \A q, r \in pushing' : prev'[q] = prev'[r] => q = r
    BY <1>6 DEF QueueInv, Pushes
  <2> QED  BY ZenonT(40), <1>4, <2>1, <2>2 DEF Pushes
<1>12. Consumer'
  <2>1. ASSUME popNext # Null PROVE next'[head] = next[head]
    <3>1. head = order[1] /\ next[head] # Null /\ 1 \in 1..n
      BY <1>3, <2>1 DEF QueueInv, Ends, Consumer, n
    <3>2. 1 # k
      BY ZenonT(40), <1>2, <3>1 DEF Gap
    <3> QED  BY <1>5, <3>1, <3>2
  <2>2. pushing = {} => pushing' = {}
    BY ZenonT(40), <1>1
  <2> QED  BY ZenonT(40), <1>1, <2>1, <2>2 DEF QueueInv, Consumer
<1> QED  BY ZenonT(40), <1>8, <1>9, <1>10, <1>11, <1>12 DEF QueueInv

(* The order without its first node, which nobody is pushing behind. *)
LEMMA FirstGone ==
    ASSUME QueueInv, Last # 0, order' = Tail(order), next[head] # Null \/ pushing = {},
           heap' = heap \ {head}, next' = next, pushing' = pushing, node' = node, prev' = prev
    PROVE  /\ NodesOnce' /\ Links' /\ Pushes' /\ Last' = Last - 1 /\ Last \in Nat \ {0}
           /\ order' \in Seq(Nodes) /\ heap' \subseteq Nodes
           /\ \A i \in 1..Last - 1 : order'[i] = order[i + 1] /\ i + 1 \in 1..Last
           /\ Last = 1 => next[head] = Null
           /\ Last # 1 => next[head] = order[2] /\ order[2] \in Nodes
<1> DEFINE n == Last
<1>1. /\ order' \in Seq(Nodes) /\ Last' = n - 1 /\ n \in Nat \ {0}
      /\ \A i \in 1..n - 1 : order'[i] = order[i + 1] /\ i + 1 \in 1..n
  BY QueueFields DEF Last
<1>2. head = order[1] /\ 1 \in 1..n
  BY <1>1 DEF QueueInv, Ends
<1> HIDE DEF n
<1>3. NodesOnce'
  <2>1. ASSUME NEW i \in 1..n - 1, NEW j \in 1..n - 1, order'[i] = order'[j] PROVE i = j
    <3>1. order[i + 1] = order[j + 1] /\ i + 1 \in 1..n /\ j + 1 \in 1..n
      BY ZenonT(40), <1>1, <2>1
    <3>2. i + 1 = j + 1
      BY ZenonT(40), <3>1 DEF QueueInv, NodesOnce, n
    <3> QED  BY <1>1, <3>2
  <2>2. ASSUME NEW i \in 1..n - 1 PROVE order'[i] \in heap'
    <3>1. order[i + 1] \in heap /\ i + 1 # 1
      BY <1>1 DEF QueueInv, NodesOnce, n
    <3>2. order[i + 1] # head
      BY <1>1, <1>2, <3>1 DEF QueueInv, NodesOnce, n
    <3> QED  BY ZenonT(40), <1>1, <3>1, <3>2
  <2>3. ASSUME NEW x \in heap' PROVE \E i \in 1..n - 1 : order'[i] = x
    <3>1. PICK i \in 1..n : order[i] = x
      BY DEF QueueInv, NodesOnce, n
    <3>2. i # 1
      BY ZenonT(40), <1>2, <3>1
    <3>3. i - 1 \in 1..n - 1 /\ (i - 1) + 1 = i
      BY <1>1, <3>2
    <3> QED  BY ZenonT(40), <1>1, <3>1, <3>3
  <2> QED  BY ZenonT(40), <1>1, <2>1, <2>2, <2>3 DEF NodesOnce
<1>4. Links'
  <2>1. ASSUME NEW i \in 1..(n - 1) - 1
        PROVE  \/ next[order'[i]] = order'[i + 1]
               \/ next[order'[i]] = Null /\ \E q \in pushing : prev[q] = order'[i]
    <3>1. i \in 1..n - 1 /\ i + 1 \in 1..n - 1
      BY <1>1
    <3> QED  BY ZenonT(40), <1>1, <3>1 DEF QueueInv, Links, n
  <2>2. ASSUME n - 1 # 0 PROVE next[order'[n - 1]] = Null
    <3>1. n - 1 \in 1..n - 1 /\ (n - 1) + 1 = n
      BY <1>1, <2>2
    <3> QED  BY ZenonT(40), <1>1, <3>1 DEF QueueInv, Links, n
  <2> QED  BY ZenonT(40), <1>1, <2>1, <2>2 DEF Links
<1>5. Pushes'
  <2>1. ASSUME NEW q \in pushing PROVE \E i \in 1..(n - 1) - 1 : Gap(q, i)'
    <3>1. PICK i \in 1..n - 1 : Gap(q, i)
      BY DEF QueueInv, Pushes, n
    <3>2. i # 1
      BY ZenonT(40), <1>2, <3>1 DEF Gap
    <3>3. i - 1 \in 1..(n - 1) - 1 /\ i - 1 \in 1..n - 1 /\ (i - 1) + 1 = i
      BY <1>1, <3>2
    <3>4. /\ order'[i - 1] = order[i] /\ order'[(i - 1) + 1] = order[i + 1]
      BY ZenonT(40), <1>1, <3>3
    <3>5. prev'[q] = order'[i - 1] /\ node'[q] = order'[(i - 1) + 1] /\ next'[order'[i - 1]] = Null
      BY ZenonT(40), <3>1, <3>4 DEF Gap
    <3> QED  BY ZenonT(40), <3>3, <3>5 DEF Gap
  <2> QED  BY ZenonT(40), <1>1, <2>1 DEF QueueInv, Pushes
<1>6. heap' \subseteq Nodes
  BY QueueFields
<1>7. n = 1 => next[head] = Null
  BY ZenonT(40), <1>2 DEF QueueInv, Links, n
<1>8. ASSUME n # 1 PROVE next[head] = order[2] /\ order[2] \in Nodes
  <2>1. 1 \in 1..n - 1 /\ 2 \in 1..n /\ 1 + 1 = 2
    BY <1>1, <1>8
  <2> QED  BY ZenonT(40), <1>2, <2>1, QueueFields DEF QueueInv, Links, n
<1> QED  BY ZenonT(40), <1>1, <1>3, <1>4, <1>5, <1>6, <1>7, <1>8 DEF n

LEMMA TakeKeeps ==
    ASSUME QueueInv, Queue!PopTake
    PROVE  QueueInv' /\ Last \in Nat /\ Last > 1 /\ popNext = order[2]
<1>1. /\ popNext # Null /\ popped' = value[popNext]
      /\ value' = [value EXCEPT ![popNext] = Nullopt] /\ heap' = heap \ {head}
      /\ head' = popNext /\ popNext' = Null /\ order' = Tail(order)
      /\ tail' = tail /\ next' = next /\ pushing' = pushing /\ node' = node /\ prev' = prev
      /\ alive' = alive
  BY DEF Queue!PopTake, Queue!Advance
<1>2. alive /\ popNext = next[head] /\ Last # 0 /\ order[Last] = tail
  BY <1>1 DEF QueueInv, Consumer, Ends
<1>3. /\ NodesOnce' /\ Links' /\ Pushes' /\ Last' = Last - 1 /\ Last \in Nat \ {0}
      /\ order' \in Seq(Nodes) /\ heap' \subseteq Nodes
      /\ \A i \in 1..Last - 1 : order'[i] = order[i + 1] /\ i + 1 \in 1..Last
      /\ Last = 1 => next[head] = Null
      /\ Last # 1 => next[head] = order[2] /\ order[2] \in Nodes
  BY ZenonT(40), <1>1, <1>2, FirstGone
<1>4. Last \in Nat /\ Last > 1 /\ popNext = order[2] /\ popNext \in Nodes
  BY <1>1, <1>2, <1>3
<1>5. Queue!TypeOK'
  <2>1. /\ value' \in [Nodes -> Values \cup {Nullopt}] /\ popped' \in Values \cup {Nullopt}
    BY <1>1, <1>4, QueueFields
  <2> QED  BY ZenonT(40), <1>1, <1>3, <1>4, <2>1 DEF QueueInv, Queue!TypeOK
<1>6. Ends'
  <2>1. Last' # 0 /\ order'[Last'] = order[Last] /\ order'[1] = order[2]
    <3>1. Last - 1 \in 1..Last - 1 /\ 1 \in 1..Last - 1 /\ (Last - 1) + 1 = Last /\ Last - 1 # 0
      BY <1>4
    <3> QED  BY <1>3, <3>1
  <2> QED  BY ZenonT(40), <1>1, <1>2, <1>4, <2>1 DEF Ends
<1>7. Consumer'
  BY ZenonT(40), <1>1, <1>2 DEF Consumer
<1> QED  BY ZenonT(40), <1>3, <1>4, <1>5, <1>6, <1>7 DEF QueueInv

LEMMA DestroyNodeKeeps ==
    ASSUME QueueInv, Queue!DestroyNode
    PROVE  QueueInv'
<1>1. /\ ~alive /\ head # Null /\ head' = next[head] /\ heap' = heap \ {head}
      /\ order' = Tail(order)
      /\ tail' = tail /\ next' = next /\ value' = value /\ pushing' = pushing
      /\ node' = node /\ prev' = prev /\ popNext' = popNext /\ popped' = popped
      /\ alive' = alive
  BY DEF Queue!DestroyNode
<1>2. Last # 0 /\ pushing = {} /\ popNext = Null
  BY ZenonT(40), <1>1 DEF QueueInv, Ends, Consumer
<1>3. /\ NodesOnce' /\ Links' /\ Pushes' /\ Last' = Last - 1 /\ Last \in Nat \ {0}
      /\ order' \in Seq(Nodes) /\ heap' \subseteq Nodes
      /\ \A i \in 1..Last - 1 : order'[i] = order[i + 1] /\ i + 1 \in 1..Last
      /\ Last = 1 => next[head] = Null
      /\ Last # 1 => next[head] = order[2] /\ order[2] \in Nodes
  BY ZenonT(40), <1>1, <1>2, FirstGone
<1>4. head' \in Nodes \cup {Null}
  BY <1>1, <1>3
<1>5. Queue!TypeOK'
  BY ZenonT(40), <1>1, <1>3, <1>4 DEF QueueInv, Queue!TypeOK
<1>6. Ends'
  <2>1. ASSUME Last' # 0 PROVE head' = order'[1]
    <3>1. 1 \in 1..Last - 1 /\ 1 + 1 = 2 /\ Last # 1
      BY <1>3, <2>1
    <3> QED  BY ZenonT(40), <1>1, <1>3, <3>1
  <2>2. Last' = 0 => head' = Null
    BY <1>1, <1>3
  <2> QED  BY ZenonT(40), <1>1, <2>1, <2>2 DEF Ends
<1>7. Consumer'
  BY ZenonT(40), <1>1, <1>2 DEF Consumer
<1> QED  BY ZenonT(40), <1>3, <1>5, <1>6, <1>7 DEF QueueInv

(* The steps that read. *)
LEMMA ReadsKeep ==
    ASSUME QueueInv, Queue!PopEmpty \/ Queue!PopLoad \/ Queue!Destroy \/ UNCHANGED queueVars
    PROVE  QueueInv'
<1>1. /\ order' = order /\ next' = next /\ pushing' = pushing /\ prev' = prev /\ node' = node
      /\ heap' = heap /\ head' = head /\ tail' = tail /\ value' = value
  BY ZenonT(40) DEF Queue!PopEmpty, Queue!PopLoad, Queue!Destroy, queueVars
<1>2. NodesOnce' /\ Links' /\ Pushes'
  BY ZenonT(40), <1>1 DEF QueueInv, NodesOnce, Links, Pushes, Gap, Last
<1>3. popNext' \in Nodes \cup {Null} /\ popped' \in Values \cup {Nullopt}
  <2>1. popNext \in Nodes \cup {Null} /\ popped \in Values \cup {Nullopt}
    BY DEF QueueInv, Queue!TypeOK
  <2>2. CASE Queue!PopLoad
    <3>1. head \in Nodes
      BY ZenonT(40), <2>2 DEF Queue!PopLoad, QueueInv, Queue!TypeOK
    <3> QED  BY <2>1, <2>2, <3>1, QueueFields DEF Queue!PopLoad
  <2>3. CASE Queue!PopEmpty
    BY <2>1, <2>3 DEF Queue!PopEmpty
  <2>4. CASE Queue!Destroy \/ UNCHANGED queueVars
    BY ZenonT(40), <2>1, <2>4 DEF Queue!Destroy, queueVars
  <2> QED  BY ZenonT(40), <2>2, <2>3, <2>4
<1>4. Ends' /\ Consumer' /\ alive' \in BOOLEAN /\ (alive' => head' \in Nodes)
  <2>1. Queue!TypeOK /\ Ends /\ Consumer
    BY DEF QueueInv
  <2>2. CASE Queue!PopEmpty
    BY ZenonT(40), <1>1, <2>1, <2>2 DEF Queue!PopEmpty, Queue!TypeOK, Ends, Consumer, Last
  <2>3. CASE Queue!PopLoad
    BY ZenonT(40), <1>1, <2>1, <2>3 DEF Queue!PopLoad, Queue!TypeOK, Ends, Consumer, Last
  <2>4. CASE Queue!Destroy
    BY ZenonT(40), <1>1, <2>1, <2>4 DEF Queue!Destroy, Queue!TypeOK, Ends, Consumer, Last
  <2>5. CASE UNCHANGED queueVars
    BY ZenonT(40), <1>1, <2>1, <2>5 DEF queueVars, Queue!TypeOK, Ends, Consumer, Last
  <2> QED  BY ZenonT(40), <2>2, <2>3, <2>4, <2>5
<1>5. Queue!TypeOK'
  BY ZenonT(40), <1>1, <1>3, <1>4 DEF QueueInv, Queue!TypeOK
<1> QED  BY ZenonT(40), <1>2, <1>4, <1>5 DEF QueueInv

LEMMA QueueStep == QueueInv /\ [LoopNext]_allVars => QueueInv'
<1> SUFFICES ASSUME QueueInv, [LoopNext]_allVars PROVE QueueInv'
  OBVIOUS
<1>1. CASE Queue!Next
  BY ZenonT(40), <1>1, ExchangeKeeps, LinkKeeps, TakeKeeps, DestroyNodeKeeps, ReadsKeep DEF Queue!Next
<1>2. CASE UNCHANGED queueVars
  BY ZenonT(40), <1>2, ReadsKeep
<1>3. Queue!Next \/ UNCHANGED queueVars
  BY ZenonT(40) DEF LoopNext, allVars, RegistryRests, QueueGone
<1> QED  BY ZenonT(40), <1>1, <1>2, <1>3

LEMMA QueueAlways == LoopSpec => []QueueInv
BY QueueInit, QueueStep, PTL DEF LoopSpec

(* For any producers, values and addresses, however an address is reused:  *)
(* the store of push() hits a node that is still there and that no other   *)
(* push stores into, pop() reads live nodes only, and every allocated node *)
(* is on the way from head_ to tail_.                                      *)
THEOREM QueueKeepsNodes == LoopSpec => []QueueNodesAccounted
<1>1. QueueInv => QueueNodesAccounted
  <2> SUFFICES ASSUME QueueInv PROVE Queue!TypeOK /\ Queue!NodesAccounted
    BY DEF QueueNodesAccounted
  <2>1. ASSUME NEW p \in pushing PROVE prev[p] \in heap /\ next[prev[p]] = Null
    <3>1. PICK i \in 1..Last - 1 : Gap(p, i)
      BY DEF QueueInv, Pushes
    <3>2. i \in 1..Last
      BY QueueFields
    <3> QED  BY <3>1, <3>2 DEF Gap, QueueInv, NodesOnce
  <2>2. \A p, q \in pushing : prev[p] = prev[q] => p = q
    BY DEF QueueInv, Pushes
  <2>3. head # Null => head \in heap
    <3>1. Last # 0 => 1 \in 1..Last
      BY QueueFields
    <3> QED  BY <3>1 DEF QueueInv, Ends, NodesOnce
  <2>4. ASSUME popNext # Null PROVE popNext \in heap
    <3>1. alive /\ popNext = next[head] /\ Last # 0 /\ head = order[1]
      BY ZenonT(40), <2>4 DEF QueueInv, Consumer, Ends
    <3>2. Last # 1
      BY <2>4, <3>1 DEF QueueInv, Links
    <3>3. 1 \in 1..Last - 1 /\ 1 + 1 \in 1..Last
      BY <3>1, <3>2, QueueFields
    <3>4. popNext = order[1 + 1]
      BY ZenonT(40), <2>4, <3>1, <3>3 DEF QueueInv, Links
    <3> QED  BY <3>3, <3>4 DEF QueueInv, NodesOnce
  <2>5. heap = {order[i] : i \in 1..Last}
    <3>1. ASSUME NEW x \in heap PROVE x \in {order[i] : i \in 1..Last}
      BY ZenonT(40) DEF QueueInv, NodesOnce
    <3>2. ASSUME NEW x \in {order[i] : i \in 1..Last} PROVE x \in heap
      <4>1. PICK i \in 1..Last : x = order[i]
        BY ZenonT(40), <3>2
      <4> QED  BY ZenonT(40), <4>1 DEF QueueInv, NodesOnce
    <3> QED  BY ZenonT(40), <3>1, <3>2
  <2> QED  BY ZenonT(40), <2>1, <2>2, <2>3, <2>4, <2>5 DEF QueueInv, Queue!NodesAccounted, Last
<1> QED  BY <1>1, QueueAlways, PTL
-----------------------------------------------------------------------------
(* The queue implements the abstract one. *)

(* Who pushes an entry: nobody if it is linked, else the one whose gap it  *)
(* follows.                                                                *)
Pushers ==
    \A i \in 1..Last - 1 :
       \/ next[order[i]] # Null /\ Queue!Pusher(i) = Null
       \/ \E p \in pushing : Gap(p, i) /\ Queue!Pusher(i) = p

LEMMA PushersFound == QueueInv => Pushers
<1> SUFFICES ASSUME QueueInv, NEW i \in 1..Last - 1
             PROVE  \/ next[order[i]] # Null /\ Queue!Pusher(i) = Null
                    \/ \E p \in pushing : Gap(p, i) /\ Queue!Pusher(i) = p
  BY DEF Pushers
<1>1. i \in 1..Last /\ i + 1 \in 1..Last /\ Last \in Nat
  BY SMTT(40), QueueFields
<1>2. CASE next[order[i]] # Null
  BY <1>2 DEF Queue!Pusher
<1>3. CASE next[order[i]] = Null
  <2>1. order[i + 1] # Null
    BY ZenonT(40), <1>1, QueueFields, QueueAssumption
  <2>2. PICK p \in pushing : prev[p] = order[i]
    BY <1>3, <2>1 DEF QueueInv, Links
  <2>3. PICK k \in 1..Last - 1 : Gap(p, k)
    BY DEF QueueInv, Pushes
  <2>4. k \in 1..Last /\ k + 1 \in 1..Last
    BY <1>1
  <2>5. k = i
    BY ZenonT(40), <1>1, <2>2, <2>3, <2>4 DEF Gap, QueueInv, NodesOnce
  <2>6. Gap(p, i) /\ node[p] = order[i + 1]
    BY ZenonT(40), <2>3, <2>5 DEF Gap
  <2>7. ASSUME NEW q \in pushing, node[q] = order[i + 1] PROVE q = p
    <3>1. PICK j \in 1..Last - 1 : Gap(q, j)
      BY DEF QueueInv, Pushes
    <3>2. j \in 1..Last /\ j + 1 \in 1..Last
      BY <1>1
    <3>3. j + 1 = i + 1
      BY ZenonT(40), <1>1, <2>7, <3>1, <3>2 DEF Gap, QueueInv, NodesOnce
    <3>4. j = i
      BY <1>1, <3>3
    <3>5. prev[q] = prev[p]
      BY ZenonT(40), <2>2, <3>1, <3>4 DEF Gap
    <3> QED  BY ZenonT(40), <3>5 DEF QueueInv, Pushes
  <2>8. (CHOOSE q \in pushing : node[q] = order[i + 1]) = p
    BY ZenonT(40), <2>6, <2>7
  <2> QED  BY ZenonT(40), <1>3, <2>6, <2>8 DEF Queue!Pusher
<1> QED  BY ZenonT(40), <1>2, <1>3

LEMMA PushersFoundNext == ASSUME QueueInv' PROVE Pushers'
<1>1. (QueueInv => Pushers)'
  BY PushersFound, PTL
<1> QED  BY <1>1

(* An entry that is neither linked nor pushed by somebody else in a step   *)
(* keeps its pusher.                                                       *)
LEMMA PusherKept ==
    ASSUME QueueInv, QueueInv', NEW i \in 1..Last - 1, NEW j \in 1..Last' - 1,
           order'[j] = order[i], next'[order[i]] = next[order[i]],
           \A q \in pushing : prev[q] = order[i] => q \in pushing' /\ prev'[q] = prev[q]
    PROVE  Queue!Pusher(j)' = Queue!Pusher(i)
<1>1. \/ next[order[i]] # Null /\ Queue!Pusher(i) = Null
      \/ \E p \in pushing : Gap(p, i) /\ Queue!Pusher(i) = p
  BY ZenonT(40), PushersFound DEF Pushers
<1>2. \/ next'[order'[j]] # Null /\ Queue!Pusher(j)' = Null
      \/ \E p \in pushing' : Gap(p, j)' /\ Queue!Pusher(j)' = p
  BY ZenonT(40), PushersFoundNext DEF Pushers
<1>3. CASE next[order[i]] # Null
  BY ZenonT(40), <1>1, <1>2, <1>3 DEF Gap
<1>4. CASE next[order[i]] = Null
  <2>1. PICK p \in pushing : Gap(p, i) /\ Queue!Pusher(i) = p
    BY ZenonT(40), <1>1, <1>4
  <2>2. PICK q \in pushing' : Gap(q, j)' /\ Queue!Pusher(j)' = q
    BY ZenonT(40), <1>2, <1>4
  <2>3. p \in pushing' /\ prev'[p] = order[i]
    BY ZenonT(40), <2>1 DEF Gap
  <2>4. prev'[q] = order[i]
    BY ZenonT(40), <2>2 DEF Gap
  <2>5. \A a, b \in pushing' : prev'[a] = prev'[b] => a = b
    BY ZenonT(40) DEF QueueInv, Pushes
  <2>6. p = q
    BY <2>2, <2>3, <2>4, <2>5
  <2> QED  BY ZenonT(40), <2>1, <2>2, <2>6
<1> QED  BY ZenonT(40), <1>3, <1>4

(* The abstract queue. *)
Contents ==
    [i \in 1..(Len(order) - 1) |-> [val |-> value[order[i + 1]], by |-> Queue!Pusher(i)]]

Content == [val : Values \cup {Nullopt}, by : Producers \cup {Null}]

Size == IF Last = 0 THEN 0 ELSE Last - 1

ContentsAre ==
    /\ Contents \in Seq(Content) /\ Size \in Nat /\ Len(Contents) = Size /\ 1..Size = 1..Last - 1
    /\ \A i \in 1..Size : Contents[i] = [val |-> value[order[i + 1]], by |-> Queue!Pusher(i)]

LEMMA ContentsFound == QueueInv => ContentsAre
<1> SUFFICES ASSUME QueueInv PROVE ContentsAre
  OBVIOUS
<1>1. Last \in Nat /\ Size \in Nat /\ 1..Size = 1..Last - 1
  BY QueueFields DEF Size
<1>2. ASSUME NEW i \in 1..Size
      PROVE  [val |-> value[order[i + 1]], by |-> Queue!Pusher(i)] \in Content
  <2>1. i \in 1..Last - 1 /\ i + 1 \in 1..Last
    BY <1>1 DEF Size
  <2>2. value[order[i + 1]] \in Values \cup {Nullopt}
    BY <2>1, QueueFields
  <2>3. Queue!Pusher(i) \in Producers \cup {Null}
    BY <2>1, PushersFound, QueueFields DEF Pushers
  <2> QED  BY <2>2, <2>3 DEF Content
<1>3. Contents = [i \in 1..Size |-> [val |-> value[order[i + 1]], by |-> Queue!Pusher(i)]]
  BY ZenonT(40), <1>1 DEF Contents, Last
<1> HIDE DEF Contents, Content
<1> QED  BY <1>1, <1>2, <1>3 DEF ContentsAre

LEMMA ContentsFoundNext == ASSUME QueueInv' PROVE ContentsAre'
<1>1. (QueueInv => ContentsAre)'
  BY ContentsFound, PTL
<1> QED  BY <1>1

LEMMA SameSeq ==
    ASSUME NEW S, NEW s \in Seq(S), NEW t \in Seq(S), Len(s) = Len(t),
           \A i \in 1..Len(s) : s[i] = t[i]
    PROVE  s = t
<1>1. /\ s = [i \in 1..Len(s) |-> s[i]]
      /\ t = [i \in 1..Len(t) |-> t[i]]
  OBVIOUS
<1> QED  BY <1>1

LEMMA ExchangeRefines ==
    ASSUME QueueInv, QueueInv', NEW p \in Producers, NEW v \in Values, Queue!PushExchange(p, v)
    PROVE  Queue!Abstract!Exchange(p, v)
<1>1. PICK n \in Nat \ {0} : n = Last
  <2>1. Last # 0
    BY ZenonT(40) DEF Queue!PushExchange, QueueInv, Ends
  <2> QED  BY <2>1, QueueFields
<1>2. PICK x \in Nodes \ heap :
          /\ value' = [value EXCEPT ![x] = v]
          /\ next' = [next EXCEPT ![x] = Null]
          /\ node' = [node EXCEPT ![p] = x]
          /\ prev' = [prev EXCEPT ![p] = tail]
          /\ order' = Append(order, x)
  BY ZenonT(40) DEF Queue!PushExchange
<1>3. /\ alive /\ p \notin pushing /\ pushing' = pushing \cup {p}
      /\ popped' = popped /\ alive' = alive /\ order[n] = tail
  BY ZenonT(40), <1>1 DEF Queue!PushExchange, QueueInv, Ends
<1>4. /\ Last' = n + 1 /\ order'[n + 1] = x
      /\ \A i \in 1..n : order'[i] = order[i] /\ order[i] \in Nodes /\ order[i] # x
  <2>1. \A i \in 1..n : order[i] \in Nodes /\ order[i] # x
    BY <1>1, <1>2, QueueFields DEF QueueInv, NodesOnce
  <2>2. order \in Seq(Nodes) /\ Len(order) = n /\ x \in Nodes
    BY ZenonT(40), <1>1, QueueFields DEF Last
  <2>3. /\ Len(order') = n + 1 /\ order'[n + 1] = x
        /\ \A i \in 1..n : order'[i] = order[i]
    BY <1>2, <2>2
  <2> QED  BY ZenonT(40), <2>1, <2>3 DEF Last
<1>5. Size = n - 1 /\ Size' = n
  <2>1. Size = n - 1
    BY ZenonT(40), <1>1 DEF Size
  <2>2. Size' = n
    BY <1>1, <1>4 DEF Size
  <2> QED  BY ZenonT(40), <2>1, <2>2
<1>6. /\ Contents \in Seq(Content) /\ Len(Contents) = n - 1 /\ 1..n - 1 = 1..Last - 1
      /\ \A i \in 1..n - 1 : Contents[i] = [val |-> value[order[i + 1]], by |-> Queue!Pusher(i)]
  BY ZenonT(40), <1>1, <1>5, ContentsFound DEF ContentsAre
<1>7. /\ Contents' \in Seq(Content) /\ Len(Contents') = n /\ 1..n = 1..Last' - 1
      /\ \A i \in 1..n : Contents'[i] = [val |-> value'[order'[i + 1]], by |-> Queue!Pusher(i)']
  BY ZenonT(40), <1>5, ContentsFoundNext DEF ContentsAre, Content
<1>8. ASSUME NEW i \in 1..n - 1 PROVE Contents'[i] = Contents[i]
  <2>1. i \in 1..n /\ i + 1 \in 1..n /\ i \in 1..Last - 1 /\ i \in 1..Last' - 1
    BY <1>1, <1>4
  <2>2. order'[i] = order[i] /\ next'[order[i]] = next[order[i]]
    BY ZenonT(40), <1>2, <1>4, <2>1, QueueFields
  <2>3. \A q \in pushing : q \in pushing' /\ prev'[q] = prev[q]
    BY ZenonT(40), <1>2, <1>3, QueueFields
  <2>4. Queue!Pusher(i)' = Queue!Pusher(i)
    BY ZenonT(40), <2>1, <2>2, <2>3, PusherKept
  <2>5. value'[order'[i + 1]] = value[order[i + 1]]
    BY ZenonT(40), <1>2, <1>4, <2>1, QueueFields
  <2> QED  BY ZenonT(40), <1>6, <1>7, <2>1, <2>4, <2>5
<1>9. Contents'[n] = [val |-> v, by |-> p]
  <2>1. n \in 1..n /\ n \in 1..Last' - 1 /\ n \in 1..Last
    BY SMTT(40), <1>1, <1>4
  <2>2. value'[order'[n + 1]] = v
    BY ZenonT(40), <1>2, <1>4, QueueFields
  <2>3. next'[order'[n]] = Null
    <3>1. next[order[n]] = Null
      BY <1>1 DEF QueueInv, Links
    <3> QED  BY ZenonT(40), <1>2, <1>4, <2>1, <3>1, QueueFields
  <2>4. PICK q \in pushing' : Gap(q, n)' /\ Queue!Pusher(n)' = q
    BY ZenonT(40), <2>1, <2>3, PushersFoundNext DEF Pushers
  <2>5. prev'[q] = order'[n] /\ prev'[p] = order'[n] /\ p \in pushing'
    <3>1. prev'[q] = order'[n]
      BY ZenonT(40), <2>4 DEF Gap
    <3> QED  BY ZenonT(40), <1>2, <1>3, <1>4, <2>1, <3>1, QueueFields
  <2>6. \A a, b \in pushing' : prev'[a] = prev'[b] => a = b
    BY ZenonT(40) DEF QueueInv, Pushes
  <2>7. Queue!Pusher(n)' = p
    BY ZenonT(40), <2>4, <2>5, <2>6
  <2> QED  BY ZenonT(40), <1>7, <2>1, <2>2, <2>7
<1>10. [val |-> v, by |-> p] \in Content
  BY DEF Content
<1>11. Contents' = Append(Contents, [val |-> v, by |-> p])
  <2> DEFINE e == [val |-> v, by |-> p]
  <2>1. /\ Append(Contents, e) \in Seq(Content) /\ Len(Append(Contents, e)) = n
        /\ Append(Contents, e)[n] = e
        /\ \A i \in 1..n - 1 : Append(Contents, e)[i] = Contents[i]
    <3> HIDE DEF e, Content, Contents
    <3>1. e \in Content
      BY <1>10 DEF e
    <3>2. (n - 1) + 1 = n /\ n - 1 \in Nat
      BY <1>1
    <3> QED  BY <1>6, <3>1, <3>2
  <2> HIDE DEF e
  <2>2. \A i \in 1..n : i \in 1..n - 1 \/ i = n
    BY <1>1
  <2>3. \A i \in 1..n : Contents'[i] = Append(Contents, e)[i]
    BY ZenonT(40), <1>8, <1>9, <2>1, <2>2 DEF e
  <2> QED  BY ZenonT(40), <1>7, <2>1, <2>3, SameSeq DEF e
<1>12. ASSUME NEW i \in 1..Len(Contents) PROVE Contents[i].by # p
  <2>1. i \in 1..n - 1 /\ i \in 1..Last - 1
    BY ZenonT(40), <1>6
  <2>2. Queue!Pusher(i) # p
    BY ZenonT(40), <1>3, <2>1, PushersFound, QueueAssumption DEF Pushers
  <2>3. Contents[i] = [val |-> value[order[i + 1]], by |-> Queue!Pusher(i)]
    BY ZenonT(40), <1>6, <2>1
  <2> QED  BY <2>2, <2>3
<1> QED  BY ZenonT(40), <1>3, <1>11, <1>12
         DEF Queue!Abstract!Exchange, Queue!Abstract!Exchanged, Queue!Abstract!Pushing, Contents

LEMMA LinkRefines ==
    ASSUME QueueInv, QueueInv', NEW p \in Producers, Queue!PushLink(p)
    PROVE  Queue!Abstract!Link(p)
<1>1. /\ p \in pushing /\ pushing' = pushing \ {p}
      /\ next' = [next EXCEPT ![prev[p]] = node[p]]
      /\ prev' = [prev EXCEPT ![p] = Null] /\ value' = value /\ order' = order
      /\ popped' = popped /\ alive' = alive
  BY DEF Queue!PushLink
<1>2. PICK k \in 1..Last - 1 : Gap(p, k)
  BY <1>1 DEF QueueInv, Pushes
<1>3. Last' = Last /\ Size' = Size /\ Last \in Nat /\ k \in 1..Last
  BY <1>1, QueueFields DEF Last, Size
<1>4. /\ Contents \in Seq(Content) /\ Len(Contents) = Size /\ 1..Size = 1..Last - 1
      /\ \A i \in 1..Size : Contents[i] = [val |-> value[order[i + 1]], by |-> Queue!Pusher(i)]
  BY ZenonT(40), ContentsFound DEF ContentsAre
<1>5. /\ Contents' \in Seq(Content) /\ Len(Contents') = Size
      /\ \A i \in 1..Size : Contents'[i] = [val |-> value[order[i + 1]], by |-> Queue!Pusher(i)']
  BY ZenonT(40), <1>1, <1>3, ContentsFoundNext DEF ContentsAre, Content
<1>6. Queue!Pusher(k) = p /\ Queue!Pusher(k)' = Null
  <2>1. Queue!Pusher(k) = p
    <3>1. PICK q \in pushing : Gap(q, k) /\ Queue!Pusher(k) = q
      BY ZenonT(40), <1>2, PushersFound DEF Pushers, Gap
    <3> QED  BY <1>1, <1>2, <3>1 DEF Gap, QueueInv, Pushes
  <2>2. next'[order'[k]] # Null
    <3>1. prev[p] \in Nodes /\ node[p] \in Nodes /\ prev[p] = order[k]
      BY ZenonT(40), <1>1, <1>2 DEF QueueInv, Queue!TypeOK, Gap
    <3> QED  BY ZenonT(40), <1>1, <3>1, QueueFields, QueueAssumption
  <2>3. Queue!Pusher(k)' = Null
    BY ZenonT(40), <2>2 DEF Queue!Pusher
  <2> QED  BY ZenonT(40), <2>1, <2>3
<1>7. ASSUME NEW i \in 1..Last - 1, i # k
      PROVE  Queue!Pusher(i) # p /\ Queue!Pusher(i)' = Queue!Pusher(i)
  <2>1. i \in 1..Last /\ order[i] \in Nodes
    BY <1>3, QueueFields
  <2>2. order[i] # order[k]
    BY ZenonT(40), <1>3, <1>7, <2>1 DEF QueueInv, NodesOnce
  <2>3. prev[p] # order[i]
    BY ZenonT(40), <1>2, <2>2 DEF Gap
  <2>4. next'[order[i]] = next[order[i]]
    BY ZenonT(40), <1>1, <2>1, <2>3, QueueFields
  <2>5. \A q \in pushing : prev[q] = order[i] => q \in pushing' /\ prev'[q] = prev[q]
    BY ZenonT(40), <1>1, <2>3, QueueFields
  <2>6. Queue!Pusher(i)' = Queue!Pusher(i)
    BY ZenonT(40), <1>1, <1>3, <2>4, <2>5, PusherKept
  <2>7. Queue!Pusher(i) # p
    <3>1. p # Null
      BY QueueAssumption
    <3> QED  BY ZenonT(40), <2>3, <3>1, PushersFound DEF Pushers, Gap
  <2> QED  BY ZenonT(40), <2>6, <2>7
<1>8. ASSUME NEW i \in 1..Size
      PROVE  Contents'[i] = [val |-> Contents[i].val,
                             by |-> IF Contents[i].by = p THEN Null ELSE Contents[i].by]
  <2>1. Contents[i].val = value[order[i + 1]] /\ Contents[i].by = Queue!Pusher(i)
    <3>1. Contents[i] = [val |-> value[order[i + 1]], by |-> Queue!Pusher(i)]
      BY ZenonT(40), <1>4
    <3> QED  BY <3>1
  <2>2. Contents'[i] = [val |-> value[order[i + 1]], by |-> Queue!Pusher(i)']
    BY ZenonT(40), <1>5
  <2>3. CASE i = k
    BY ZenonT(40), <1>6, <2>1, <2>2, <2>3
  <2>4. CASE i # k
    BY ZenonT(40), <1>4, <1>7, <2>1, <2>2, <2>4
  <2> QED  BY ZenonT(40), <2>3, <2>4
<1>9. Contents' = [i \in 1..Len(Contents) |->
                     [val |-> Contents[i].val,
                      by |-> IF Contents[i].by = p THEN Null ELSE Contents[i].by]]
  <2>1. Contents' = [i \in 1..Size |-> Contents'[i]]
    <3> HIDE DEF Contents, Content
    <3> QED  BY <1>5
  <2> HIDE DEF Contents
  <2> QED  BY ZenonT(40), <1>4, <1>8, <2>1
<1>10. k \in 1..Len(Contents) /\ Contents[k].by = p
  <2>1. Contents[k] = [val |-> value[order[k + 1]], by |-> Queue!Pusher(k)] /\ k \in 1..Len(Contents)
    BY ZenonT(40), <1>4
  <2> QED  BY <1>6, <2>1
<1> QED  BY ZenonT(40), <1>1, <1>9, <1>10
         DEF Queue!Abstract!Link, Queue!Abstract!Completed, Queue!Abstract!Pushing, Contents

(* The abstract queue loses its first entry with the first node. *)
LEMMA FirstTaken ==
    ASSUME QueueInv, QueueInv', Last > 1, order' = Tail(order), next' = next,
           pushing' = pushing, prev' = prev,
           \A x \in Nodes : x # order[2] => value'[x] = value[x]
    PROVE  /\ Contents' = Tail(Contents) /\ Contents # <<>>
           /\ Contents[1] = [val |-> value[order[2]], by |-> Queue!Pusher(1)]
<1>1. PICK n \in Nat : n = Last /\ n > 1
  BY QueueFields
<1>2. /\ Last' = n - 1
      /\ \A i \in 1..n - 1 : order'[i] = order[i + 1] /\ i + 1 \in 1..n
  <2>1. order \in Seq(Nodes) /\ Len(order) = n
    BY <1>1, QueueFields DEF Last
  <2> QED  BY <1>1, <2>1 DEF Last
<1>3. Size = n - 1 /\ Size' = n - 2 /\ (n - 1) - 1 = n - 2 /\ n - 2 \in Nat /\ n - 1 \in Nat \ {0}
  <2>1. Size = n - 1
    BY <1>1 DEF Size
  <2>2. Size' = n - 2
    BY <1>1, <1>2 DEF Size
  <2> QED  BY <1>1, <2>1, <2>2
<1>4. /\ Contents \in Seq(Content) /\ Len(Contents) = n - 1
      /\ \A i \in 1..n - 1 : Contents[i] = [val |-> value[order[i + 1]], by |-> Queue!Pusher(i)]
  BY ZenonT(40), <1>3, ContentsFound DEF ContentsAre
<1>5. /\ Contents' \in Seq(Content) /\ Len(Contents') = n - 2
      /\ \A i \in 1..n - 2 : Contents'[i] = [val |-> value'[order'[i + 1]], by |-> Queue!Pusher(i)']
  BY ZenonT(40), <1>3, ContentsFoundNext DEF ContentsAre, Content
<1>6. ASSUME NEW i \in 1..n - 2 PROVE Contents'[i] = Contents[i + 1]
  <2>1. /\ i \in 1..n - 1 /\ i + 1 \in 1..n - 1 /\ i \in 1..Last' - 1 /\ i + 1 \in 1..Last - 1
        /\ 2 \in 1..n /\ (i + 1) + 1 \in 1..n /\ (i + 1) + 1 # 2
    BY <1>1, <1>2
  <2>2. order'[i] = order[i + 1] /\ order'[i + 1] = order[(i + 1) + 1]
    BY ZenonT(40), <1>2, <2>1
  <2>3. Queue!Pusher(i)' = Queue!Pusher(i + 1)
    BY ZenonT(40), <2>1, <2>2, PusherKept
  <2>4. order[(i + 1) + 1] # order[2] /\ order[(i + 1) + 1] \in Nodes
    BY <1>1, <2>1, QueueFields DEF QueueInv, NodesOnce
  <2>5. value'[order'[i + 1]] = value[order[(i + 1) + 1]]
    BY ZenonT(40), <2>2, <2>4
  <2> QED  BY ZenonT(40), <1>4, <1>5, <2>1, <2>3, <2>5
<1>7. /\ Tail(Contents) \in Seq(Content) /\ Len(Tail(Contents)) = n - 2 /\ Contents # <<>>
      /\ \A i \in 1..n - 2 : Tail(Contents)[i] = Contents[i + 1]
  <2> HIDE DEF Contents, Content
  <2> QED  BY <1>3, <1>4
<1>8. Contents' = Tail(Contents)
  BY ZenonT(40), <1>5, <1>6, <1>7, SameSeq
<1>9. 1 \in 1..n - 1 /\ 1 + 1 = 2
  BY <1>1
<1> QED  BY ZenonT(40), <1>4, <1>7, <1>8, <1>9

LEMMA TakeRefines ==
    ASSUME QueueInv, QueueInv', Queue!PopTake
    PROVE  Queue!Abstract!PopSome
<1>1. /\ popNext # Null /\ popped' = value[popNext]
      /\ value' = [value EXCEPT ![popNext] = Nullopt]
      /\ order' = Tail(order) /\ next' = next /\ pushing' = pushing /\ prev' = prev
      /\ alive' = alive
  BY DEF Queue!PopTake, Queue!Advance
<1>2. Last \in Nat /\ Last > 1 /\ popNext = order[2]
  BY ZenonT(40), TakeKeeps
<1>3. alive /\ next[order[1]] # Null
  BY ZenonT(40), <1>1 DEF QueueInv, Consumer, Ends
<1>4. \A x \in Nodes : x # order[2] => value'[x] = value[x]
  BY ZenonT(40), <1>1, <1>2, QueueFields
<1>5. /\ Contents' = Tail(Contents) /\ Contents # <<>>
      /\ Contents[1] = [val |-> value[order[2]], by |-> Queue!Pusher(1)]
  BY ZenonT(40), <1>1, <1>2, <1>4, FirstTaken
<1>6. Queue!Pusher(1) = Null
  BY ZenonT(40), <1>3 DEF Queue!Pusher
<1>7. Contents[1].val = popped' /\ Contents[1].by = Null
  BY <1>1, <1>2, <1>5, <1>6
<1> QED  BY ZenonT(40), <1>1, <1>3, <1>5, <1>7
         DEF Queue!Abstract!PopSome, Queue!Abstract!Visible, Contents

LEMMA EmptyRefines ==
    ASSUME QueueInv, Queue!PopEmpty, Contents' = Contents
    PROVE  Queue!Abstract!PopNone
<1>1. alive /\ next[head] = Null /\ popped' = Nullopt /\ alive' = alive
  BY DEF Queue!PopEmpty
<1>2. head = order[1] /\ Last # 0 /\ Last \in Nat
  BY ZenonT(40), <1>1, QueueFields DEF QueueInv, Ends
<1>3. /\ Len(Contents) = Size /\ 1..Size = 1..Last - 1 /\ Contents \in Seq(Content)
      /\ \A i \in 1..Size : Contents[i] = [val |-> value[order[i + 1]], by |-> Queue!Pusher(i)]
  BY ZenonT(40), ContentsFound DEF ContentsAre
<1>4. ASSUME Contents # <<>> PROVE Contents[1].by # Null
  <2>1. 1 \in 1..Size
    <3> HIDE DEF Contents, Content
    <3> QED  BY <1>3, <1>4
  <2>2. Contents[1] = [val |-> value[order[1 + 1]], by |-> Queue!Pusher(1)] /\ 1 \in 1..Last - 1
    BY ZenonT(40), <1>3, <2>1
  <2>3. PICK p \in pushing : Queue!Pusher(1) = p
    BY ZenonT(40), <1>1, <1>2, <2>2, PushersFound DEF Pushers
  <2>4. p # Null
    BY QueueFields, QueueAssumption
  <2> QED  BY <2>2, <2>3, <2>4
<1> QED  BY ZenonT(40), <1>1, <1>4 DEF Queue!Abstract!PopNone, Queue!Abstract!Visible, Contents

LEMMA DestroyRefines ==
    ASSUME QueueInv, Queue!Destroy, Contents' = Contents
    PROVE  Queue!Abstract!Close
<1>1. alive /\ pushing = {} /\ popped' = popped /\ alive' = FALSE
  BY DEF Queue!Destroy
<1>2. ASSUME NEW p \in Producers, NEW i \in 1..Len(Contents) PROVE Contents[i].by # p
  <2>1. /\ i \in 1..Last - 1
        /\ Contents[i] = [val |-> value[order[i + 1]], by |-> Queue!Pusher(i)]
    BY ZenonT(40), ContentsFound DEF ContentsAre
  <2>2. Queue!Pusher(i) = Null
    BY ZenonT(40), <1>1, <2>1, PushersFound DEF Pushers
  <2> QED  BY <2>1, <2>2, QueueAssumption
<1> QED  BY ZenonT(40), <1>1, <1>2 DEF Queue!Abstract!Close, Queue!Abstract!Pushing, Contents

LEMMA DestroyNodeRefines ==
    ASSUME QueueInv, QueueInv', Queue!DestroyNode
    PROVE  Queue!Abstract!Discard \/ UNCHANGED Queue!Abstract!qvars
<1>1. /\ ~alive /\ head # Null /\ order' = Tail(order) /\ next' = next /\ value' = value
      /\ pushing' = pushing /\ prev' = prev /\ popped' = popped /\ alive' = alive
  BY DEF Queue!DestroyNode
<1>2. Last # 0 /\ Last \in Nat
  BY ZenonT(40), <1>1, QueueFields DEF QueueInv, Ends
<1>3. CASE Last > 1
  <2>1. Contents' = Tail(Contents) /\ Contents # <<>>
    BY ZenonT(40), <1>1, <1>3, FirstTaken
  <2> QED  BY ZenonT(40), <1>1, <2>1 DEF Queue!Abstract!Discard, Contents
<1>4. CASE Last = 1
  <2>1. Last' = 0
    <3>1. order \in Seq(Nodes) /\ Len(order) = 1
      BY ZenonT(40), <1>4, QueueFields DEF Last
    <3> QED  BY <1>1, <3>1 DEF Last
  <2>2. Size = 0 /\ Size' = 0
    <3>1. Size = 0
      BY <1>4 DEF Size
    <3>2. Size' = 0
      BY <2>1 DEF Size
    <3> QED  BY ZenonT(40), <3>1, <3>2
  <2>3. /\ Contents \in Seq(Content) /\ Len(Contents) = 0
        /\ Contents' \in Seq(Content) /\ Len(Contents') = 0
    BY ZenonT(40), <2>2, ContentsFound, ContentsFoundNext DEF ContentsAre, Content
  <2>4. Contents' = Contents
    <3> HIDE DEF Contents, Content
    <3> QED  BY <2>3
  <2> QED  BY ZenonT(40), <1>1, <2>4 DEF Queue!Abstract!qvars, Contents
<1> QED  BY <1>2, <1>3, <1>4

LEMMA QueueStepRefines ==
    ASSUME QueueInv, QueueInv', [LoopNext]_allVars
    PROVE  [Queue!Abstract!QNext]_(Queue!Abstract!qvars)
<1>1. ASSUME UNCHANGED <<order, value, next, pushing, node>> PROVE Contents' = Contents
  BY ZenonT(40), <1>1 DEF Contents, Queue!Pusher
<1>2. CASE UNCHANGED queueVars
  <2>1. Contents' = Contents /\ popped' = popped /\ alive' = alive
    BY ZenonT(40), <1>1, <1>2 DEF queueVars
  <2> QED  BY ZenonT(40), <2>1 DEF Queue!Abstract!qvars, Contents
<1>3. CASE Queue!PopLoad
  <2>1. Contents' = Contents /\ popped' = popped /\ alive' = alive
    BY ZenonT(40), <1>1, <1>3 DEF Queue!PopLoad
  <2> QED  BY ZenonT(40), <2>1 DEF Queue!Abstract!qvars, Contents
<1>4. CASE Queue!PopEmpty
  BY ZenonT(40), <1>1, <1>4, EmptyRefines DEF Queue!PopEmpty, Queue!Abstract!QNext
<1>5. CASE Queue!Destroy
  BY ZenonT(40), <1>1, <1>5, DestroyRefines DEF Queue!Destroy, Queue!Abstract!QNext
<1>6. CASE Queue!PopTake
  BY ZenonT(40), <1>6, TakeRefines DEF Queue!Abstract!QNext
<1>7. CASE Queue!DestroyNode
  BY ZenonT(40), <1>7, DestroyNodeRefines DEF Queue!Abstract!QNext
<1>8. ASSUME NEW p \in Producers, Queue!PushLink(p)
      PROVE  [Queue!Abstract!QNext]_(Queue!Abstract!qvars)
  BY ZenonT(40), <1>8, LinkRefines DEF Queue!Abstract!QNext
<1>9. ASSUME NEW p \in Producers, NEW v \in Values, Queue!PushExchange(p, v)
      PROVE  [Queue!Abstract!QNext]_(Queue!Abstract!qvars)
  BY ZenonT(40), <1>9, ExchangeRefines DEF Queue!Abstract!QNext
<1>10. Queue!Next \/ UNCHANGED queueVars
  BY ZenonT(40) DEF LoopNext, allVars, RegistryRests, QueueGone
<1> QED  BY ZenonT(40), <1>2, <1>3, <1>4, <1>5, <1>6, <1>7, <1>8, <1>9, <1>10 DEF Queue!Next

LEMMA QueueInitRefines == LoopInit => Queue!Abstract!QInit
<1> SUFFICES ASSUME LoopInit PROVE Queue!Abstract!QInit
  OBVIOUS
<1>1. popped = Nullopt /\ alive = TRUE /\ order = <<head>>
  BY DEF LoopInit, Queue!Init
<1>2. Last = 1 /\ Size = 0
  BY <1>1 DEF Last, Size
<1>3. Contents \in Seq(Content) /\ Len(Contents) = 0
  BY ZenonT(40), <1>2, QueueInit, ContentsFound DEF ContentsAre
<1>4. Contents = <<>>
  <2> HIDE DEF Contents, Content
  <2> QED  BY <1>3
<1> QED  BY ZenonT(40), <1>1, <1>4 DEF Queue!Abstract!QInit, Contents

(* MpscQueue implements the FIFO queue, for any producers, values and      *)
(* addresses: pop() returns what was pushed, in the order of the exchanges *)
(* of tail_, each value once, and finds nothing only if there is nothing   *)
(* or the oldest push has not stored its link.                             *)
THEOREM QueueImplementsFifo == LoopSpec => QueueIsFifo
<1>1. QueueInv /\ QueueInv' /\ [LoopNext]_allVars
        => [Queue!Abstract!QNext]_(Queue!Abstract!qvars)
  BY QueueStepRefines
<1> QED  BY <1>1, QueueInitRefines, QueueAlways, PTL
         DEF LoopSpec, QueueIsFifo, Queue!IsFifo, Queue!Abstract!QSpec
==============================================================================
