----------------------------- MODULE FifoQueue -----------------------------
(***************************************************************************)
(* What MpscQueue (include/nitrocoro/core/MpscQueue.h) promises its users: *)
(* a FIFO queue, except that a push in flight hides what is behind it.     *)
(***************************************************************************)
EXTENDS LinkedQueue

CONSTANTS Producers,  \* threads other than the consumer's
          Values,     \* what may be pushed
          Nullopt     \* what pop() returns when it finds nothing

VARIABLES queue,      \* the entries in order of their tail_.exchange
          popped,     \* the result of the last pop()
          alive       \* FALSE once the destructor has been entered

qvars == <<queue, popped, alive>>

QInit == queue = <<>> /\ popped = Nullopt /\ alive = TRUE

(* push(): the entry takes its place in the order. *)
Exchange(p, v) ==
    /\ alive
    /\ ~Pushing(queue, p)
    /\ queue' = Exchanged(queue, p, v)
    /\ UNCHANGED <<popped, alive>>

(* push(): the predecessor's next is stored. *)
Link(p) ==
    /\ Pushing(queue, p)
    /\ queue' = Completed(queue, p)
    /\ UNCHANGED <<popped, alive>>

PopSome ==
    /\ alive
    /\ Visible(queue)
    /\ popped' = queue[1].val
    /\ queue' = Tail(queue)
    /\ UNCHANGED alive

PopNone ==
    /\ alive
    /\ ~Visible(queue)
    /\ popped' = Nullopt
    /\ UNCHANGED <<queue, alive>>

(* The destructor: only when no push is in flight. *)
Close ==
    /\ alive
    /\ \A p \in Producers : ~Pushing(queue, p)
    /\ alive' = FALSE
    /\ UNCHANGED <<queue, popped>>

Discard ==
    /\ ~alive
    /\ queue # <<>>
    /\ queue' = Tail(queue)
    /\ UNCHANGED <<popped, alive>>

QNext ==
    \/ \E p \in Producers : Link(p) \/ \E v \in Values : Exchange(p, v)
    \/ PopSome \/ PopNone \/ Close \/ Discard

QSpec == QInit /\ [][QNext]_qvars
=============================================================================
