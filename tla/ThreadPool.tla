----------------------------- MODULE ThreadPool -----------------------------
(***************************************************************************)
(* ThreadPool (include/nitrocoro/utils/TaskQueue.h, src/TaskQueue.cc): a   *)
(* queue of tasks under a mutex, workers that wait on a condition variable,*)
(* and the destructor.  A region under the mutex is one step; a notify,    *)
(* which comes after it, is another.  What a task does is for the module   *)
(* that posts it to say.                                                   *)
(***************************************************************************)
EXTENDS Naturals, Sequences

CONSTANT Workers

VARIABLES tasks,   \* tasks_
          stop,    \* stop_
          worker,  \* where each worker is: "check", "blocked", "run", "exited"
          job      \* the task a worker runs

pool == <<tasks, stop, worker, job>>

NoTask == "no task"

PoolInit ==
    /\ tasks = <<>> /\ stop = 0
    /\ worker = [w \in Workers |-> "check"]
    /\ job = [w \in Workers |-> NoTask]

(* post(): the region, and cv_.notify_one() *)
Post(t) ==
    /\ tasks' = Append(tasks, t)
    /\ UNCHANGED <<stop, worker, job>>

BugNotifyOne == UNCHANGED pool

NotifyOne ==
    /\ \/ \E w \in Workers :
             worker[w] = "blocked" /\ worker' = [worker EXCEPT ![w] = "check"]
       \/ (\A w \in Workers : worker[w] # "blocked") /\ UNCHANGED worker
    /\ UNCHANGED <<tasks, stop, job>>

(* workerThread(): the predicate, stop_ before any task that is left. *)
Check(w) ==
    /\ worker[w] = "check"
    /\ IF stop = 1
         THEN worker' = [worker EXCEPT ![w] = "exited"] /\ UNCHANGED <<tasks, job>>
       ELSE IF tasks # <<>>
         THEN /\ worker' = [worker EXCEPT ![w] = "run"]
              /\ job' = [job EXCEPT ![w] = Head(tasks)]
              /\ tasks' = Tail(tasks)
       ELSE worker' = [worker EXCEPT ![w] = "blocked"] /\ UNCHANGED <<tasks, job>>
    /\ UNCHANGED stop

(* A condition variable may wake a thread for no reason. *)
WakeSpuriously(w) ==
    /\ worker[w] = "blocked"
    /\ worker' = [worker EXCEPT ![w] = "check"]
    /\ UNCHANGED <<tasks, stop, job>>

(* The task has returned. *)
TaskDone(w) ==
    /\ worker[w] = "run"
    /\ worker' = [worker EXCEPT ![w] = "check"]
    /\ job' = [job EXCEPT ![w] = NoTask]
    /\ UNCHANGED <<tasks, stop>>

(* ~ThreadPool(): stop_ is set, then everybody is notified and joined. *)
StopPool ==
    /\ stop = 0
    /\ stop' = 1
    /\ UNCHANGED <<tasks, worker, job>>

NotifyAll ==
    /\ stop = 1
    /\ worker' = [w \in Workers |-> IF worker[w] = "blocked" THEN "check" ELSE worker[w]]
    /\ UNCHANGED <<tasks, stop, job>>
=============================================================================
