----------------------------- MODULE IoRegistry -----------------------------
(***************************************************************************)
(* The registration of channels with epoll: ioContexts_ of                 *)
(* src/Scheduler.cc (setIoHandler, updateIo, removeIo), and the            *)
(* constructor and the destructor of Channel and CallbackChannel           *)
(* (src/Channel.cc), which dispatch to the scheduler's thread.             *)
(*                                                                         *)
(* A channel is known by its id.  Every channel is made for a new open     *)
(* file, known by the channel's id too; the descriptor, a number, is       *)
(* reused as soon as its file is closed.  The kernel forgets a closed file. *)
(***************************************************************************)
EXTENDS Naturals, Sequences

CONSTANTS Fds,        \* descriptors
          MaxId,      \* how many channels are made
          Guarded,    \* setGuard() was called with the owner of the file
          Elsewhere,  \* channels are made on other threads too
          Callbacks   \* event handlers run the user's code (CallbackChannel)

Ids == 1..MaxId

NoId == 0   \* no descriptor, no file, no context

VARIABLES
    lastId,    \* the sequence of nextIoId()
    fdOf,      \* fd_ of each channel
    chan,      \* the life of each channel
    events,    \* events_ of each channel: 1 if not 0
    file,      \* the open file behind each descriptor
    owned,     \* the files whose user still holds them
    ctx,       \* ioContexts_: id, whether handler is set, addedToEpoll
    epoll,     \* the files epoll watches
    queue,     \* dispatched functions: setIoHandler and removeIo
    batch,     \* events epoll_wait returned that have not been handled
    failed     \* the assertions and exceptions met

vars == <<lastId, fdOf, chan, events, file, owned, ctx, epoll, queue, batch, failed>>

NoContext == [id |-> NoId, handler |-> 0, added |-> 0]

Init ==
    /\ lastId = 0
    /\ fdOf = [i \in Ids |-> NoId]
    /\ chan = [i \in Ids |-> "none"]
    /\ events = [i \in Ids |-> 0]
    /\ file = [fd \in Fds |-> NoId]
    /\ owned = {}
    /\ ctx = [fd \in Fds |-> NoContext]
    /\ epoll = {}
    /\ queue = <<>> /\ batch = {} /\ failed = {}

(* An assertion that failed or an exception nobody catches ends the program. *)
Up == failed = {}
-----------------------------------------------------------------------------
(* setIoHandler() for channel i: the stale operation of an older channel   *)
(* is ignored, the context of an older one is replaced.                    *)
BugSetIoHandler(fd, i) ==
    /\ ctx' = [ctx EXCEPT ![fd] = [id |-> i, handler |-> 1, added |-> 0]]
    /\ UNCHANGED failed

SetIoHandler(fd, i) ==
    /\ ctx' = IF ctx[fd].id = i THEN [ctx EXCEPT ![fd].handler = 1]
              ELSE IF i < ctx[fd].id THEN ctx
              ELSE [ctx EXCEPT ![fd] = [id |-> i, handler |-> 1, added |-> 0]]
    /\ failed' = IF ctx[fd].id = i /\ ctx[fd].handler = 1 THEN failed \cup {"set"}
                 ELSE failed

(* EPOLL_CTL_ADD, MOD and DEL act on the file behind the descriptor. *)
CanAdd(fd) == file[fd] # NoId /\ file[fd] \notin epoll
CanMod(fd) == file[fd] \in epoll

(* updateIo() for channel i; `on' is whether it wants any event. *)
UpdateIo(fd, i, on) ==
    LET c == IF ctx[fd].id = i THEN ctx[fd] ELSE [id |-> i, handler |-> 0, added |-> 0]
        fails == on = 1 /\ ~(IF c.added = 1 THEN CanMod(fd) ELSE CanAdd(fd))
    IN  IF i < ctx[fd].id
          THEN UNCHANGED <<ctx, epoll, failed>>
          ELSE /\ ctx' = [ctx EXCEPT ![fd] = [c EXCEPT !.added = on]]
               /\ epoll' = IF on = 1 THEN epoll \cup {file[fd]}
                           ELSE IF c.added = 1 THEN epoll \ {file[fd]} ELSE epoll
               /\ failed' = IF fails THEN failed \cup {"update"} ELSE failed

(* removeIo() for channel i takes away its own context only; epoll then    *)
(* forgets the files in `closed'.                                          *)
RemovedBy(fd, mine, closed) ==
    /\ failed' = IF ctx[fd].id = NoId THEN failed \cup {"remove"} ELSE failed
    /\ ctx' = IF mine THEN [ctx EXCEPT ![fd] = NoContext] ELSE ctx
    /\ epoll' = (IF mine /\ ctx[fd].added = 1 THEN epoll \ {file[fd]} ELSE epoll) \ closed

BugRemoveIo(fd, i, closed) == RemovedBy(fd, TRUE, closed)

RemoveIo(fd, i, closed) == RemovedBy(fd, ctx[fd].id = i, closed)
-----------------------------------------------------------------------------
(* Channel life.  What the user's coroutines do on the scheduler's thread  *)
(* happens between events only if a handler runs them.                     *)
BugOnLoop == Up

OnLoop == Up /\ (batch = {} \/ Callbacks)

(* The scheduler's thread gets hold of a channel made elsewhere through    *)
(* the same queue, after its set.                                          *)
Arrived(i) == \A k \in 1..Len(queue) : queue[k] # [op |-> "set", id |-> i]

(* socket() or accept4() returns a descriptor that is not in use, and the  *)
(* constructor takes the next id.                                          *)
Open(i, fd) ==
    /\ lastId < MaxId /\ i = lastId + 1
    /\ file[fd] = NoId
    /\ lastId' = i
    /\ fdOf' = [fdOf EXCEPT ![i] = fd]
    /\ chan' = [chan EXCEPT ![i] = "live"]
    /\ file' = [file EXCEPT ![fd] = i]
    /\ owned' = owned \cup {i}
    /\ UNCHANGED <<events, epoll, batch>>

(* The constructor on the scheduler's thread: dispatch() calls ... *)
Construct(i, fd) ==
    /\ OnLoop
    /\ Open(i, fd)
    /\ SetIoHandler(fd, i)
    /\ UNCHANGED queue

(* ... and on another thread it pushes. *)
ConstructElsewhere(i, fd) ==
    /\ Elsewhere /\ Up
    /\ Open(i, fd)
    /\ queue' = Append(queue, [op |-> "set", id |-> i])
    /\ UNCHANGED <<ctx, failed>>

(* enableReading() and the like, and disableAll(), on the scheduler's      *)
(* thread, while the descriptor is open.                                   *)
SetEvents(i, on) ==
    /\ OnLoop
    /\ chan[i] = "live" /\ Arrived(i) /\ events[i] # on
    /\ file[fdOf[i]] = i
    /\ events' = [events EXCEPT ![i] = on]
    /\ UpdateIo(fdOf[i], i, on)
    /\ UNCHANGED <<lastId, fdOf, chan, file, owned, queue, batch>>

(* A file is closed when its last owner lets go of it. *)
WithoutFiles(closed) == [fd \in Fds |-> IF file[fd] \in closed THEN NoId ELSE file[fd]]

(* The function the destructor dispatches: removeIo(), then the guard is   *)
(* released.                                                               *)
Remove(i) ==
    LET closed == {i} \ owned IN
    /\ RemoveIo(fdOf[i], i, closed)
    /\ file' = WithoutFiles(closed)
    /\ chan' = [chan EXCEPT ![i] = "removed"]
    /\ UNCHANGED <<lastId, fdOf, events, owned, batch>>

(* The destructor on the scheduler's thread, and on another one. *)
Destruct(i) ==
    /\ OnLoop
    /\ chan[i] = "live" /\ Arrived(i)
    /\ Remove(i)
    /\ UNCHANGED queue

DestructElsewhere(i) ==
    /\ Up
    /\ chan[i] = "live"
    /\ chan' = [chan EXCEPT ![i] = "destroyed"]
    /\ queue' = Append(queue, [op |-> "remove", id |-> i])
    /\ UNCHANGED <<lastId, fdOf, events, file, owned, ctx, epoll, batch, failed>>

(* The user lets go of the file: with a guard once the channel is          *)
(* destroyed, and without one at any time.                                 *)
BugLetGo(i) ==
    /\ Up
    /\ i \in owned /\ chan[i] # "live"
    /\ owned' = owned \ {i}
    /\ file' = WithoutFiles({i})
    /\ epoll' = epoll \ {i}
    /\ UNCHANGED <<lastId, fdOf, chan, events, ctx, queue, batch, failed>>

LetGo(i) ==
    LET closed == IF Guarded /\ chan[i] # "removed" THEN {} ELSE {i} IN
    /\ Up
    /\ i \in owned
    /\ Guarded => chan[i] # "live"
    /\ owned' = owned \ {i}
    /\ file' = WithoutFiles(closed)
    /\ epoll' = epoll \ closed
    /\ UNCHANGED <<lastId, fdOf, chan, events, ctx, queue, batch, failed>>
-----------------------------------------------------------------------------
(* The loop. *)

(* process_ready_queue(): a dispatched function is called.  The set of a   *)
(* channel that has been destroyed since does nothing.                     *)
PopSet ==
    /\ Up /\ batch = {}
    /\ queue # <<>> /\ queue[1].op = "set"
    /\ queue' = Tail(queue)
    /\ LET i == queue[1].id IN
          IF chan[i] = "live" THEN SetIoHandler(fdOf[i], i) ELSE UNCHANGED <<ctx, failed>>
    /\ UNCHANGED <<lastId, fdOf, chan, events, file, owned, epoll, batch>>

PopRemove ==
    /\ Up /\ batch = {}
    /\ queue # <<>> /\ queue[1].op = "remove"
    /\ queue' = Tail(queue)
    /\ Remove(queue[1].id)

(* epoll_wait() returns events of some of the files it watches. *)
Poll ==
    /\ Up /\ batch = {}
    /\ \E ready \in SUBSET epoll \ {{}} :
          batch' = {[fd |-> fdOf[i], file |-> i] : i \in ready}
    /\ UNCHANGED <<lastId, fdOf, chan, events, file, owned, ctx, epoll, queue, failed>>

(* process_io_events(): the handler of the descriptor's context, if there  *)
(* is one, is called.                                                      *)
HandleEvent(e) ==
    /\ Up /\ e \in batch
    /\ batch' = batch \ {e}
    /\ failed' = IF ctx[e.fd].id # NoId /\ ctx[e.fd].handler = 0
                   THEN failed \cup {"call"} ELSE failed
    /\ UNCHANGED <<lastId, fdOf, chan, events, file, owned, ctx, epoll, queue>>

Next ==
    \/ \E i \in Ids, fd \in Fds : Construct(i, fd) \/ ConstructElsewhere(i, fd)
    \/ \E i \in Ids : \/ \E on \in 0..1 : SetEvents(i, on)
                      \/ Destruct(i) \/ DestructElsewhere(i) \/ LetGo(i)
    \/ PopSet \/ PopRemove \/ Poll
    \/ \E e \in batch : HandleEvent(e)

Spec == Init /\ [][Next]_vars

(* The loop goes on, process_ready_queue() follows every poll; nobody has  *)
(* to make or to destroy a channel.                                        *)
FairSpec ==
    /\ Spec
    /\ SF_vars(PopSet \/ PopRemove)
    /\ WF_vars(\E e \in batch : HandleEvent(e))
-----------------------------------------------------------------------------
Contexts == [id : {NoId} \cup Ids, handler : 0..1, added : 0..1]

(* The variables have their types. *)
TypeOK ==
    /\ lastId \in 0..MaxId
    /\ fdOf \in [Ids -> Fds \cup {NoId}]
    /\ chan \in [Ids -> {"none", "live", "destroyed", "removed"}]
    /\ events \in [Ids -> 0..1]
    /\ file \in [Fds -> Ids \cup {NoId}]
    /\ owned \in SUBSET Ids
    /\ ctx \in [Fds -> Contexts]
    /\ epoll \in SUBSET Ids
    /\ queue \in Seq([op : {"set", "remove"}, id : Ids])
    /\ batch \in SUBSET [fd : Fds, file : Ids]
    /\ failed \in SUBSET {"set", "update", "remove", "call"}

(* A live channel that wants events of an open descriptor is watched by    *)
(* epoll and its own handler is in its context, whatever late              *)
(* setIoHandler() or removeIo() an earlier channel of the same descriptor  *)
(* still has coming.                                                       *)
InterestKept ==
    \A i \in Ids :
       chan[i] = "live" /\ i \in owned /\ events[i] = 1 =>
          /\ i \in epoll
          /\ ctx[fdOf[i]] = [id |-> i, handler |-> 1, added |-> 1]

(* epoll watches no file behind the scheduler's back: whatever it watches  *)
(* is open and is the file of the context that is marked as added.         *)
NothingWatchedUnknown ==
    \A i \in epoll : file[fdOf[i]] = i /\ ctx[fdOf[i]].id = i /\ ctx[fdOf[i]].added = 1

(* A channel that has been removed leaves nothing behind: no context, no   *)
(* watched file and, once its user has let go of it, no open descriptor.   *)
NothingLeftBehind ==
    \A i \in Ids, fd \in Fds : chan[i] = "removed" =>
       /\ ctx[fd].id # i
       /\ i \notin epoll
       /\ i \notin owned => file[fd] # i

(* The scheduler, the channels and epoll agree on what is watched: no      *)
(* interest is lost and none is left behind.                               *)
RegistryAgrees == InterestKept /\ NothingWatchedUnknown /\ NothingLeftBehind

(* updateIo() never throws: EPOLL_CTL_ADD meets a file that is not watched *)
(* and EPOLL_CTL_MOD one that is; setIoHandler() never finds the handler   *)
(* set (its assert), and no event meets a context without handler.         *)
UpdatesSucceed == failed \subseteq {"remove"}

(* removeIo() finds a context for its descriptor: assert(iter !=           *)
(* ioContexts_.end()).                                                     *)
RemoveFindsContext == "remove" \notin failed

(* An event is handled by the channel whose file it is about, or by none:  *)
(* an event that is behind in the batch never goes to the next channel of  *)
(* its descriptor.                                                         *)
EventsReachTheirOwn ==
    \A e \in batch : LET i == ctx[e.fd].id IN
       i # NoId /\ chan[i] = "live" => i = e.file

(* Every destroyed channel is taken out of ioContexts_ and of epoll in the *)
(* end (only so many are made, so that some day none is left to remove).   *)
Reclaimed ==
    []<>(\A i \in Ids : chan[i] # "destroyed")
=============================================================================
