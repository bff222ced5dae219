---------------------------- MODULE MCScheduler ----------------------------
(***************************************************************************)
(* The parts of the scheduler for TLC.  A behaviour is one of `on':        *)
(*   "loop": the event loop, with two other threads, two tasks that sleep  *)
(*     and one that sleeps longer than an int of milliseconds;             *)
(*   "registry": the registration of three channels on two descriptors,    *)
(*     made and destroyed on any thread, without a guard, with handlers    *)
(*     that run the user's code (MCIo has channels with a guard);          *)
(*   "queue": the lock-free queue of the loop.  Three threads push while   *)
(*     its consumer pops; with four nodes, one more than the threads, each *)
(*     address is freed and reused.                                        *)
(***************************************************************************)
EXTENDS Scheduler, TLC

CONSTANTS Fds, MaxId, Producers, Values, Nodes, Null, Nullopt

ASSUME QueueAssumption == Null \notin Nodes \cup Producers

VARIABLES on,
          lastId, fdOf, chan, events, file, owned, ctx, epoll, queue, reported,
          failed,
          head, tail, next, value, heap, pushing, node, prev, popNext, popped,
          alive, order

R == INSTANCE IoRegistry WITH
    batch <- reported, Guarded <- FALSE, Elsewhere <- TRUE, Callbacks <- TRUE
Queue == INSTANCE MpscQueue

rVars == <<lastId, fdOf, chan, events, file, owned, ctx, epoll, queue, reported,
           failed>>
queueVars == <<head, tail, next, value, heap, pushing, node, prev, popNext,
               popped, alive, order>>

(* Threads, the tasks that are alike and descriptors are compared for      *)
(* equality only, and every property is a safety property.                 *)
Symmetry == Permutations(Threads) \cup Permutations(Tasks \ LongSleepers)
              \cup Permutations(Fds)

(* The components that rest have one initial state. *)
LoopInit ==
    /\ on \in {"loop", "registry", "queue"}
    /\ Init /\ R!Init /\ Queue!Init
    /\ on # "queue" => head = CHOOSE n \in Nodes : TRUE

allVars == <<on, vars, rVars, queueVars>>

(* Nobody has to make another channel, and a destroyed queue is left       *)
(* alone; the loop never gets stuck.                                       *)
RegistryRests == on = "registry" /\ UNCHANGED allVars
QueueGone == on = "queue" /\ head = Null /\ UNCHANGED allVars

LoopNext ==
    \/ on = "loop" /\ Next /\ UNCHANGED <<on, rVars, queueVars>>
    \/ on = "registry" /\ R!Next /\ UNCHANGED <<on, vars, queueVars>>
    \/ on = "queue" /\ Queue!Next /\ UNCHANGED <<on, vars, rVars>>
    \/ RegistryRests \/ QueueGone

LoopSpec == LoopInit /\ [][LoopNext]_allVars
-----------------------------------------------------------------------------
(* ioContexts_, the channels and epoll agree on what is watched, however   *)
(* late the dispatched operations of an earlier channel of the descriptor  *)
(* come; no epoll_ctl() throws, no handler is set twice, and no event      *)
(* finds a context without handler: see IoRegistry!RegistryAgrees and      *)
(* IoRegistry!UpdatesSucceed.                                              *)
RegistryAgrees ==
    on = "registry" => R!TypeOK /\ R!RegistryAgrees /\ R!UpdatesSucceed

(* MpscQueue::push() and pop() use live nodes only and leak none: see      *)
(* MpscQueue!NodesAccounted.                                               *)
QueueNodesAccounted == on = "queue" => Queue!TypeOK /\ Queue!NodesAccounted

(* What MpscQueue::pop() returns is what was pushed, in the order of the   *)
(* exchanges of tail_: see MpscQueue!IsFifo.                               *)
QueueIsFifo == Queue!IsFifo
=============================================================================
