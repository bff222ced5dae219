-------------------------------- MODULE MCIo --------------------------------
(***************************************************************************)
(* Channels and their registration, for TLC.  A behaviour is one of `on':  *)
(* one channel on a socket, in either trigger mode; or the life of four    *)
(* channels on two descriptors, made on the loop's thread with setGuard()  *)
(* as Socket does, so that each descriptor is reused while the removal of  *)
(* its previous channel is still queued.  (MCScheduler has channels        *)
(* without a guard and on any thread.)                                     *)
(*                                                                         *)
(* The socket takes one byte at a time and a write has two, so that a      *)
(* write suspends in the middle.                                           *)
(***************************************************************************)
EXTENDS Naturals, Sequences

CONSTANTS Fds, MaxId, RecvMax, SendMax, WriteMax

ASSUME IoAssumption ==
    MaxId \in Nat /\ RecvMax \in Nat /\ SendMax \in Nat /\ WriteMax \in Nat

VARIABLES on,
          lastId, fdOf, chan, events, file, owned, ctx, epoll, queue, batch,
          failed,
          inq, outq, fin, err, mode, interest, armed, avail, errored, waiter,
          canceled, pc, wait, todo, result, running, ready

R == INSTANCE IoRegistry WITH
    Guarded <- TRUE, Elsewhere <- FALSE, Callbacks <- FALSE

C == INSTANCE Channel WITH queue <- ready

rVars == <<lastId, fdOf, chan, events, file, owned, ctx, epoll, queue, batch,
           failed>>
cVars == <<inq, outq, fin, err, mode, interest, armed, avail, errored, waiter,
           canceled, pc, wait, todo, result, running, ready>>

IoInit ==
    /\ on \in {"channel", "registry"}
    /\ C!Init /\ R!Init
    /\ on # "channel" => mode = "ET"

ioVars == <<on, rVars, cVars>>

(* Nobody has to make another channel; a socket's channel never stops. *)
RegistryRests == on = "registry" /\ UNCHANGED ioVars

IoNext ==
    \/ on = "channel" /\ C!Next /\ UNCHANGED <<on, rVars>>
    \/ on = "registry" /\ R!Next /\ UNCHANGED <<on, cVars>>
    \/ RegistryRests

(* The fairness of Channel and of IoRegistry, where each of them runs. *)
IoSpec ==
    /\ IoInit /\ [][IoNext]_ioVars
    /\ SF_cVars(on = "channel" /\ C!PollEvents)
    /\ SF_cVars(on = "channel" /\ C!Resume)
    /\ SF_cVars(on = "channel" /\ C!CallRead)
    /\ SF_cVars(on = "channel" /\ C!CallWrite)
    /\ \A d \in {"read", "write"} : WF_cVars(on = "channel" /\ C!Await(d))
    /\ WF_cVars(on = "channel" /\ C!Drain)
    /\ SF_rVars(on = "registry" /\ (R!PopSet \/ R!PopRemove))
    /\ WF_rVars(on = "registry" /\ \E e \in batch : R!HandleEvent(e))
-----------------------------------------------------------------------------
(* No order of event, error, cancellation and suspension loses the edge a  *)
(* channel's coroutine waits for: see Channel!NoLostEdge.                  *)
NoLostEdge == on = "channel" => C!NoLostEdge

(* A channel resumes whom it should, once: see Channel!WaitersAccounted. *)
ChannelWaiters == on = "channel" => C!TypeOK /\ C!WaitersAccounted

(* With a guard no assertion of setIoHandler(), updateIo() and removeIo()  *)
(* fails, no epoll_ctl() throws, and no channel is called with the event   *)
(* of an earlier one of the same descriptor: see                           *)
(* IoRegistry!UpdatesSucceed, RemoveFindsContext and EventsReachTheirOwn.  *)
GuardedIsSafe ==
    on = "registry" => /\ R!TypeOK
                       /\ R!UpdatesSucceed /\ R!RemoveFindsContext
                       /\ R!EventsReachTheirOwn

(* Channel operations end, and destroyed channels are removed in the end:  *)
(* see Channel!OperationsEnd and IoRegistry!Reclaimed.                     *)
IoEnds == C!OperationsEnd /\ R!Reclaimed
=============================================================================
