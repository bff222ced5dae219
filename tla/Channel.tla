------------------------------ MODULE Channel ------------------------------
(***************************************************************************)
(* io::Channel (include/nitrocoro/io/Channel.h, src/Channel.cc) on a       *)
(* stream socket whose reading is enabled, with the adapters BufferReader  *)
(* and BufferWriter: one coroutine that reads and one that writes, as the  *)
(* class allows, cancellation, and the socket and epoll below it.          *)
(*                                                                         *)
(* Everything here runs on the scheduler's thread: an operation runs from  *)
(* its start or resumption to its next suspension while only the kernel's  *)
(* side moves.  Each direction has its own flag, waiter and cancel flag.   *)
(***************************************************************************)
EXTENDS Naturals, Sequences, FiniteSets

CONSTANTS RecvMax, SendMax,  \* what the socket's two buffers hold
          WriteMax           \* the longest write

Dirs == {"read", "write"}

VARIABLES
    inq, outq,     \* bytes to be read, bytes the peer has not taken
    fin,           \* 1 once the peer has closed its direction
    err,           \* a reset connection: "none", "pending" (SO_ERROR) or "told"
    mode,          \* triggerMode_
    interest,      \* events_, and what epoll watches
    armed,         \* 1 while the socket is on epoll's ready list
    avail,         \* readable and writable
    errored,
    waiter,        \* readableWaiter and writableWaiter: 1 if set
    canceled,      \* readCanceled and writeCanceled
    pc,            \* where the operation of each direction is
    wait,          \* pendingWait: 1 for Read or Write, 0 for None
    todo,          \* the bytes BufferWriter has still to write
    result,        \* what the operation returned, until the next one begins
    running,       \* the operation that has the thread
    queue          \* readyQueue_

socket == <<inq, outq, fin, err>>
epoll == <<mode, interest, armed>>
flags == <<avail, errored, waiter, canceled>>
ops == <<pc, wait, todo, result, running>>
vars == <<socket, epoll, flags, ops, queue>>

Init ==
    /\ inq = 0 /\ outq = 0 /\ fin = 0 /\ err = "none"
    /\ mode \in {"ET", "LT"} /\ interest = {"in"} /\ armed = 0
    /\ avail = [read |-> 0, write |-> 1] /\ errored = 0
    /\ waiter = [d \in Dirs |-> 0] /\ canceled = [d \in Dirs |-> 0]
    /\ pc = [d \in Dirs |-> "idle"] /\ wait = [d \in Dirs |-> 0] /\ todo = 0
    /\ result = [d \in Dirs |-> "none"]
    /\ running = "nobody" /\ queue = <<>>
-----------------------------------------------------------------------------
(* The socket and epoll. *)

(* What epoll reports of the socket; errors are reported unasked. *)
Revents(events) ==
    IF events = {} THEN {} ELSE
       {e \in events : e = "in" /\ (inq > 0 \/ fin = 1 \/ err # "none")}
         \cup {e \in events : e = "out" /\ (outq < SendMax \/ err # "none")}
         \cup {e \in {"err"} : err = "pending"}
         \cup {e \in {"hup"} : err # "none"}

Arm(event) == armed' = IF event \in interest \cup {"err"} /\ interest # {} THEN 1 ELSE armed

DataArrives ==
    /\ inq < RecvMax /\ fin = 0 /\ err = "none"
    /\ inq' = inq + 1
    /\ Arm("in")
    /\ UNCHANGED <<outq, fin, err, mode, interest, flags, ops, queue>>

FinArrives ==
    /\ fin = 0 /\ err = "none"
    /\ fin' = 1
    /\ Arm("in")
    /\ UNCHANGED <<inq, outq, err, mode, interest, flags, ops, queue>>

ResetArrives ==
    /\ err = "none"
    /\ err' = "pending"
    /\ Arm("err")
    /\ UNCHANGED <<inq, outq, fin, mode, interest, flags, ops, queue>>

(* The peer takes bytes: an edge only if the buffer was full. *)
Drain ==
    /\ outq > 0 /\ err = "none"
    /\ outq' = outq - 1
    /\ IF outq = SendMax THEN Arm("out") ELSE UNCHANGED armed
    /\ UNCHANGED <<inq, fin, err, mode, interest, flags, ops, queue>>

(* updateIo(): EPOLL_CTL_MOD or ADD looks at the socket, DEL forgets it. *)
UpdateIo(events) ==
    /\ interest' = events
    /\ armed' = IF events = {} THEN 0 ELSE IF Revents(events) # {} THEN 1 ELSE armed
    /\ UNCHANGED mode

EnableWriting == IF "out" \in interest THEN UNCHANGED epoll
                 ELSE UpdateIo(interest \cup {"out"})

DisableWriting == IF "out" \in interest THEN UpdateIo(interest \ {"out"})
                  ELSE UNCHANGED epoll
-----------------------------------------------------------------------------
(* The loop's side: events, cancellation. *)

(* The waiters of the directions in ds, in order, are scheduled. *)
Slot(d, ds) == IF d \in ds /\ waiter[d] = 1 THEN <<d>> ELSE <<>>
Woken(ds) == Slot("read", ds) \o Slot("write", ds)

Wake(ds) ==
    /\ queue' = queue \o Woken(ds)
    /\ waiter' = [d \in Dirs |-> IF d \in ds THEN 0 ELSE waiter[d]]
    /\ pc' = [d \in Dirs |-> IF d \in ds /\ waiter[d] = 1 THEN "scheduled" ELSE pc[d]]

(* handleIoEvents() *)
HandleIoEvents(ev) ==
    /\ errored' = IF "err" \in ev THEN 1 ELSE errored
    /\ avail' = [read |-> IF ev \cap {"in", "hup"} # {} THEN 1 ELSE avail["read"],
                 write |-> IF "out" \in ev THEN 1 ELSE avail["write"]]
    /\ Wake(IF "err" \in ev THEN Dirs
            ELSE {d \in Dirs : \/ d = "read" /\ ev \cap {"in", "hup"} # {}
                               \/ d = "write" /\ "out" \in ev})
    /\ UNCHANGED <<canceled, wait, todo, result, running>>

(* epoll_wait() reports the socket and its handler is called. *)
PollEvents ==
    /\ running = "nobody"
    /\ armed = 1
    /\ armed' = IF mode = "LT" /\ Revents(interest) # {} THEN 1 ELSE 0
    /\ HandleIoEvents(Revents(interest))
    /\ UNCHANGED <<socket, mode, interest>>

(* cancelRead(), cancelWrite() and cancelAll(): only a coroutine that is   *)
(* suspended is cancelled.                                                 *)
BugCancel(ds) ==
    /\ running = "nobody"
    /\ canceled' = [d \in Dirs |-> IF d \in ds THEN 1 ELSE canceled[d]]
    /\ Wake(ds)
    /\ UNCHANGED <<socket, epoll, avail, errored, wait, todo, result, running>>

Cancel(ds) ==
    /\ running = "nobody"
    /\ canceled' = [d \in Dirs |-> IF d \in ds /\ waiter[d] = 1 THEN 1 ELSE canceled[d]]
    /\ Wake(ds)
    /\ UNCHANGED <<socket, epoll, avail, errored, wait, todo, result, running>>
-----------------------------------------------------------------------------
(* performImpl() *)

(* performRead() and performWrite() with a new adapter. *)
Begin(d) ==
    /\ pc[d] = "idle"
    /\ wait' = [wait EXCEPT ![d] = 1]
    /\ result' = [result EXCEPT ![d] = "none"]
    /\ IF d = "write" THEN todo' \in 0..WriteMax ELSE UNCHANGED todo

(* Called on the scheduler's thread ... *)
Start(d) ==
    /\ running = "nobody"
    /\ Begin(d)
    /\ pc' = [pc EXCEPT ![d] = "loop"]
    /\ running' = d
    /\ UNCHANGED <<socket, epoll, flags, queue>>

(* ... or elsewhere: switch_to() schedules the coroutine. *)
StartElsewhere(d) ==
    /\ Begin(d)
    /\ pc' = [pc EXCEPT ![d] = "switching"]
    /\ queue' = Append(queue, d)
    /\ UNCHANGED <<socket, epoll, flags, running>>

(* The operation returns; its adapter and pendingWait are gone. *)
Return(d, r) ==
    /\ wait' = [wait EXCEPT ![d] = 0]
    /\ todo' = IF d = "write" THEN 0 ELSE todo
    /\ result' = [result EXCEPT ![d] = r]
    /\ pc' = [pc EXCEPT ![d] = "idle"]
    /\ running' = "nobody"

(* The head of the loop: suspend (await_ready(), await_suspend()), or go   *)
(* on to the call, also when an error leaves nothing to wait for.          *)
Await(d) ==
    /\ running = d /\ pc[d] = "loop"
    /\ IF wait[d] = 1 /\ avail[d] = 0 /\ errored = 0
         THEN /\ waiter' = [waiter EXCEPT ![d] = 1]
              /\ pc' = [pc EXCEPT ![d] = "suspended"]
              /\ running' = "nobody"
         ELSE /\ pc' = [pc EXCEPT ![d] = "call"]
              /\ UNCHANGED <<waiter, running>>
    /\ UNCHANGED <<socket, epoll, avail, errored, canceled, wait, todo, result, queue>>

(* process_ready_queue() resumes the operation: after a suspension the     *)
(* cancel flag is looked at, and reset.                                    *)
Resume ==
    /\ running = "nobody" /\ queue # <<>>
    /\ queue' = Tail(queue)
    /\ LET d == queue[1] IN
          IF pc[d] = "scheduled" /\ canceled[d] = 1
            THEN /\ canceled' = [canceled EXCEPT ![d] = 0]
                 /\ Return(d, "Canceled")
            ELSE /\ running' = d
                 /\ pc' = [pc EXCEPT ![d] = IF @ = "switching" THEN "loop" ELSE "call"]
                 /\ UNCHANGED <<canceled, result, wait, todo>>
    /\ UNCHANGED <<socket, epoll, avail, errored, waiter>>

Calls(d) == running = d /\ pc[d] = "call"

(* NeedRead and NeedWrite: the flag is cleared and the loop waits. *)
BugNeed(d) ==
    /\ wait' = [wait EXCEPT ![d] = 1]
    /\ pc' = [pc EXCEPT ![d] = "loop"]
    /\ UNCHANGED <<avail, result, running>>

Need(d) ==
    /\ avail' = [avail EXCEPT ![d] = 0]
    /\ wait' = [wait EXCEPT ![d] = 1]
    /\ pc' = [pc EXCEPT ![d] = "loop"]
    /\ UNCHANGED <<result, running>>

Retry(d) ==
    /\ wait' = [wait EXCEPT ![d] = 0]
    /\ pc' = [pc EXCEPT ![d] = "loop"]
    /\ UNCHANGED <<result, running>>

(* A system call of either adapter is interrupted: EINTR. *)
Interrupted(d) ==
    /\ Calls(d)
    /\ Retry(d)
    /\ UNCHANGED <<socket, epoll, flags, todo, queue>>

(* BufferReader: ::read() returns data, the pending error, 0 or EAGAIN. *)
CallRead ==
    /\ Calls("read")
    /\ \/ /\ inq > 0
          /\ \E n \in 1..inq : inq' = inq - n
          /\ Return("read", "Success")
          /\ UNCHANGED <<err, avail>>
       \/ /\ inq = 0 /\ err = "pending"
          /\ err' = "told"
          /\ Return("read", "Error")
          /\ UNCHANGED <<inq, avail>>
       \/ /\ inq = 0 /\ err # "pending" /\ (fin = 1 \/ err = "told")
          /\ Return("read", "Eof")
          /\ UNCHANGED <<inq, err, avail>>
       \/ /\ inq = 0 /\ err = "none" /\ fin = 0
          /\ Need("read")
          /\ UNCHANGED <<inq, err, todo>>
    /\ UNCHANGED <<outq, fin, epoll, errored, waiter, canceled, queue>>

(* BufferWriter: nothing to write. *)
CallWriteNothing ==
    /\ Calls("write") /\ todo = 0
    /\ Return("write", "Success")
    /\ UNCHANGED <<socket, epoll, flags, queue>>

(* BufferWriter: ::write() takes n bytes; if they are not all, Retry. *)
CallWriteSome ==
    /\ Calls("write") /\ err = "none"
    /\ \E n \in 1..(SendMax - outq) :
          /\ n <= todo
          /\ outq' = outq + n
          /\ \/ n = todo /\ DisableWriting /\ Return("write", "Success")
             \/ n < todo /\ todo' = todo - n /\ Retry("write") /\ UNCHANGED epoll
    /\ UNCHANGED <<inq, fin, err, flags, queue>>

(* BufferWriter: EAGAIN. *)
BugCallWriteFull ==
    /\ Calls("write") /\ todo > 0 /\ err = "none" /\ outq = SendMax
    /\ Need("write")
    /\ UNCHANGED <<socket, epoll, errored, waiter, canceled, todo, queue>>

CallWriteFull ==
    /\ Calls("write") /\ todo > 0 /\ err = "none" /\ outq = SendMax
    /\ EnableWriting
    /\ Need("write")
    /\ UNCHANGED <<socket, errored, waiter, canceled, todo, queue>>

(* BufferWriter: ECONNRESET and EPIPE count as Eof, any other error as Error. *)
CallWriteFails ==
    /\ Calls("write") /\ todo > 0 /\ err # "none"
    /\ err' = "told"
    /\ \/ Return("write", "Eof")
       \/ err = "pending" /\ Return("write", "Error")
    /\ UNCHANGED <<inq, outq, fin, epoll, flags, queue>>

CallWrite == CallWriteNothing \/ CallWriteSome \/ CallWriteFull \/ CallWriteFails

Kernel == DataArrives \/ FinArrives \/ ResetArrives \/ Drain

Next ==
    \/ Kernel \/ PollEvents
    \/ \E ds \in SUBSET Dirs \ {{}} : Cancel(ds)
    \/ \E d \in Dirs : Start(d) \/ StartElsewhere(d) \/ Await(d) \/ Interrupted(d)
    \/ Resume \/ CallRead \/ CallWrite

Spec == Init /\ [][Next]_vars

(* The loop polls, resumes what is ready, and operations run on; the peer  *)
(* reads what it is sent.  System calls are not interrupted for ever, and  *)
(* since events are polled between resumptions only, a coroutine cannot    *)
(* starve them for ever either.                                            *)
FairSpec ==
    /\ Spec
    /\ SF_vars(PollEvents) /\ SF_vars(Resume) /\ SF_vars(CallRead) /\ SF_vars(CallWrite)
    /\ \A d \in Dirs : WF_vars(Await(d))
    /\ WF_vars(Drain)
-----------------------------------------------------------------------------
(* The variables have their types, and no operation is inside performImpl()'s *)
(* loop unless it has the scheduler's thread.                              *)
TypeOK ==
    /\ inq \in 0..RecvMax /\ outq \in 0..SendMax /\ fin \in 0..1
    /\ err \in {"none", "pending", "told"}
    /\ mode \in {"ET", "LT"} /\ interest \in SUBSET {"in", "out"} /\ armed \in 0..1
    /\ avail \in [Dirs -> 0..1] /\ errored \in 0..1
    /\ waiter \in [Dirs -> 0..1] /\ canceled \in [Dirs -> 0..1]
    /\ pc \in [Dirs -> {"idle", "switching", "loop", "call", "suspended", "scheduled"}]
    /\ wait \in [Dirs -> 0..1] /\ todo \in 0..WriteMax
    /\ result \in [Dirs -> {"none", "Success", "Eof", "Error", "Canceled"}]
    /\ running \in Dirs \cup {"nobody"}
    /\ \A d \in Dirs : running = d <=> pc[d] \in {"loop", "call"}
    /\ queue \in Seq(Dirs)

(* No edge is lost: while a coroutine is suspended on a socket it could    *)
(* use, epoll still has an event to report, in either trigger mode, and a  *)
(* suspended writer has its event enabled.                                 *)
NoLostEdge ==
    /\ waiter["read"] = 1 /\ (inq > 0 \/ fin = 1 \/ err # "none") => armed = 1
    /\ waiter["write"] = 1 => "out" \in interest
    /\ waiter["write"] = 1 /\ (outq < SendMax \/ err # "none") => armed = 1

(* A coroutine that is suspended is in its direction's slot, one that was  *)
(* woken is in the ready queue once, and no other is in either: an event,  *)
(* an error and a cancellation that meet never resume an operation twice.  *)
(* A cancel flag is for the operation it woke and never left for a later   *)
(* one.                                                                    *)
WaitersAccounted ==
    \A d \in Dirs :
       /\ waiter[d] = 1 <=> pc[d] = "suspended"
       /\ Cardinality({k \in 1..Len(queue) : queue[k] = d})
            = IF pc[d] \in {"switching", "scheduled"} THEN 1 ELSE 0
       /\ canceled[d] = 1 => pc[d] = "scheduled"

(* The scheduler's thread always comes back from an operation, which never *)
(* spins between the flag and the system call; a write returns, however    *)
(* little the socket takes at a time; and a suspended read goes on once    *)
(* there is something to return.                                           *)
OperationsEnd ==
    /\ []<>(running = "nobody")
    /\ []<>(pc["write"] = "idle")
    /\ []<>~(pc["read"] = "suspended" /\ (inq > 0 \/ fin = 1 \/ err # "none"))
=============================================================================
