----------------------------- MODULE MpscQueue -----------------------------
(***************************************************************************)
(* The lock-free multi-producer single-consumer queue of                   *)
(* include/nitrocoro/core/MpscQueue.h: one action per access to shared     *)
(* memory.  Nodes are addresses; `new' takes any address that is not       *)
(* allocated, so an address may be reused while a stale pointer to it is   *)
(* still held somewhere.  Atomics are sequentially consistent.             *)
(***************************************************************************)
EXTENDS Naturals, Sequences

CONSTANTS Producers, Values, Nullopt,
          Nodes,      \* addresses operator new can return
          Null        \* nullptr

VARIABLES
    head, tail,       \* head_ and tail_
    next, value,      \* Node::next and Node::value of every address
    heap,             \* the allocated addresses
    pushing,          \* the producers between the exchange and the store
    node, prev,       \* a pushing producer's `node' and `prev'
    popNext,          \* the consumer's `next' inside pop(), or Null
    popped,           \* the result of the last pop()
    alive,            \* FALSE once the destructor has been entered
    order             \* history: head_ and the nodes behind it, in the
                      \* order of their tail_.exchange

vars == <<head, tail, next, value, heap, pushing, node, prev, popNext, popped,
          alive, order>>

(* MpscQueue(): head_ and tail_ point at a stub. *)
Init ==
    /\ head \in Nodes
    /\ tail = head
    /\ next = [n \in Nodes |-> Null]
    /\ value = [n \in Nodes |-> Nullopt]
    /\ heap = {head}
    /\ pushing = {}
    /\ node = [p \in Producers |-> Null]
    /\ prev = [p \in Producers |-> Null]
    /\ popNext = Null
    /\ popped = Nullopt
    /\ alive = TRUE
    /\ order = <<head>>

(* push(): allocate the node and exchange it for tail_. *)
PushExchange(p, v) ==
    /\ alive
    /\ p \notin pushing
    /\ \E n \in Nodes \ heap :
          /\ heap' = heap \cup {n}
          /\ value' = [value EXCEPT ![n] = v]
          /\ next' = [next EXCEPT ![n] = Null]
          /\ node' = [node EXCEPT ![p] = n]
          /\ prev' = [prev EXCEPT ![p] = tail]
          /\ tail' = n
          /\ order' = Append(order, n)
    /\ pushing' = pushing \cup {p}
    /\ UNCHANGED <<head, popNext, popped, alive>>

(* push(): prev->next.store(node). *)
PushLink(p) ==
    /\ p \in pushing
    /\ next' = [next EXCEPT ![prev[p]] = node[p]]
    /\ pushing' = pushing \ {p}
    /\ node' = [node EXCEPT ![p] = Null]
    /\ prev' = [prev EXCEPT ![p] = Null]
    /\ UNCHANGED <<head, tail, value, heap, popNext, popped, alive, order>>

(* pop(): head->next is null, return nullopt. *)
PopEmpty ==
    /\ alive
    /\ popNext = Null
    /\ next[head] = Null
    /\ popped' = Nullopt
    /\ UNCHANGED <<head, tail, next, value, heap, pushing, node, prev, popNext,
                   alive, order>>

(* pop(): head->next is loaded and is not null. *)
PopLoad ==
    /\ alive
    /\ popNext = Null
    /\ next[head] # Null
    /\ popNext' = next[head]
    /\ UNCHANGED <<head, tail, next, value, heap, pushing, node, prev, popped,
                   alive, order>>

(* pop(): move the value out, advance head_, delete the old head. *)
Advance(result, newHead, freed) ==
    /\ popNext # Null
    /\ popped' = result
    /\ value' = [value EXCEPT ![popNext] = Nullopt]
    /\ heap' = heap \ freed
    /\ head' = newHead
    /\ popNext' = Null
    /\ order' = Tail(order)
    /\ UNCHANGED <<tail, next, pushing, node, prev, alive>>

BugFreeNext == Advance(value[popNext], popNext, {popNext})
BugOldValue == Advance(value[head], popNext, {head})

PopTake == Advance(value[popNext], popNext, {head})

(* ~MpscQueue() is entered; its owner guarantees that nobody uses the queue. *)
Destroy ==
    /\ alive
    /\ pushing = {}
    /\ popNext = Null
    /\ alive' = FALSE
    /\ UNCHANGED <<head, tail, next, value, heap, pushing, node, prev, popNext,
                   popped, order>>

(* ~MpscQueue(): one iteration of the loop. *)
DestroyNode ==
    /\ ~alive
    /\ head # Null
    /\ head' = next[head]
    /\ heap' = heap \ {head}
    /\ order' = Tail(order)
    /\ UNCHANGED <<tail, next, value, pushing, node, prev, popNext, popped, alive>>

Next ==
    \/ \E p \in Producers : PushLink(p) \/ \E v \in Values : PushExchange(p, v)
    \/ PopEmpty \/ PopLoad \/ PopTake
    \/ Destroy \/ DestroyNode

Spec == Init /\ [][Next]_vars
-----------------------------------------------------------------------------
(* Every variable has its type; head_ and the pointers of a pushing        *)
(* producer are addresses.                                                 *)
TypeOK ==
    /\ head \in Nodes \cup {Null}
    /\ alive => head \in Nodes
    /\ tail \in Nodes
    /\ next \in [Nodes -> Nodes \cup {Null}]
    /\ value \in [Nodes -> Values \cup {Nullopt}]
    /\ heap \in SUBSET Nodes
    /\ pushing \in SUBSET Producers
    /\ node \in [Producers -> Nodes \cup {Null}]
    /\ prev \in [Producers -> Nodes \cup {Null}]
    /\ \A p \in pushing : node[p] \in Nodes /\ prev[p] \in Nodes
    /\ popNext \in Nodes \cup {Null}
    /\ popped \in Values \cup {Nullopt}
    /\ alive \in BOOLEAN
    /\ order \in Seq(Nodes)

(* The store prev->next of a push that has exchanged tail_ but not linked  *)
(* its node yet never hits a node that pop() has already deleted, and two  *)
(* producers never store into the same node; pop() dereferences live nodes *)
(* only; and every allocated node is still on the way from head_ to tail_: *)
(* none is leaked, none freed twice.                                       *)
NodesAccounted ==
    /\ \A p \in pushing : prev[p] \in heap /\ next[prev[p]] = Null
    /\ \A p, q \in pushing : prev[p] = prev[q] => p = q
    /\ head # Null => head \in heap
    /\ popNext # Null => popNext \in heap
    /\ heap = {order[i] : i \in 1..Len(order)}

(* The queue implements the abstract queue: an entry is linked once its    *)
(* predecessor's next has been stored, until then it belongs to its pusher. *)
Pusher(i) ==
    IF next[order[i]] # Null THEN Null
    ELSE CHOOSE p \in pushing : node[p] = order[i + 1]

Abstract == INSTANCE FifoQueue WITH
    Linked <- Null,
    queue <- [i \in 1..(Len(order) - 1) |->
                [val |-> value[order[i + 1]], by |-> Pusher(i)]]

(* Values come out in the order of their tail_.exchange, each exactly      *)
(* once; pop() finds nothing only if there is nothing or the oldest push   *)
(* has not stored its link.                                                *)
IsFifo == Abstract!QSpec
=============================================================================
