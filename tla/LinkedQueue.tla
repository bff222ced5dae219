---------------------------- MODULE LinkedQueue ----------------------------
(***************************************************************************)
(* A FIFO queue whose push() takes two steps, as in MpscQueue.h: the entry *)
(* takes its place in the order (tail_.exchange) and is linked later       *)
(* (prev->next is stored).  Until then the entry is `by' the thread that   *)
(* is pushing it, and hides every entry behind it: pop() finds nothing     *)
(* although completed pushes are waiting in the queue.                     *)
(***************************************************************************)
EXTENDS Naturals, Sequences

CONSTANT Linked      \* the `by' of an entry whose push has completed

Exchanged(q, p, v) == Append(q, [val |-> v, by |-> p])

Pushing(q, p) == \E i \in 1..Len(q) : q[i].by = p

Completed(q, p) ==
    [i \in 1..Len(q) |->
       [val |-> q[i].val, by |-> IF q[i].by = p THEN Linked ELSE q[i].by]]

(* A pop() now would find an entry. *)
Visible(q) == q # <<>> /\ q[1].by = Linked
=============================================================================
