---------------------------- MODULE DnsResolver ----------------------------
(***************************************************************************)
(* net::DnsResolver (src/DnsResolver.cc) over a ThreadPool: coroutines     *)
(* that resolve keys, the cache with its expiry queue, the lookups that    *)
(* several callers share, and the end of the resolver and of the pool.     *)
(*                                                                         *)
(* A region under State::mutex is one step.  An address list is the time   *)
(* at which its lookup was answered.  A caller's frame keeps State and the *)
(* pool alive until resolveImpl() returns.                                 *)
(***************************************************************************)
EXTENDS ThreadPool, FiniteSets

CONSTANTS Callers, Keys,
          TTL,         \* ttl
          PurgeEvery,  \* the writes between two purges: 16 in the code
          MaxTime      \* the last moment of a behaviour

VARIABLES now,          \* the steady clock
          resolver,     \* 1 until ~DnsResolver()
          cache,        \* for each key Null or [made, expiry]
          pending,      \* for each key the callers whose promises wait for it
          expiryQueue,  \* pairs of an expiry and a key
          writes,       \* writeCount modulo PurgeEvery
          caller,       \* where each caller is
          ask, asked,   \* its key and its `now'
          via,          \* how it is answered: "hit", "new" or "joined"
          got,          \* what it was answered: a time, MaxTime + 1 for an exception
          step,         \* where a worker is in doResolve()
          stamp,        \* its `now'
          taken         \* its `waiters'

dns == <<now, resolver, cache, pending, expiryQueue, writes, caller, ask, asked, via, got,
         step, stamp, taken>>
vars == <<pool, dns>>

Null == [made |-> 0, expiry |-> 0]    \* no entry: it has always expired

Init ==
    /\ PoolInit
    /\ now = 1 /\ resolver = 1
    /\ cache = [k \in Keys |-> Null] /\ pending = [k \in Keys |-> {}]
    /\ expiryQueue = {} /\ writes = 0
    /\ caller = [c \in Callers |-> "idle"]
    /\ ask = [c \in Callers |-> NoTask] /\ asked = [c \in Callers |-> 0]
    /\ via = [c \in Callers |-> "none"] /\ got = [c \in Callers |-> 0]
    /\ step = [w \in Workers |-> "none"] /\ stamp = [w \in Workers |-> 0]
    /\ taken = [w \in Workers |-> {}]

Tick ==
    /\ now < MaxTime
    /\ now' = now + 1
    /\ UNCHANGED <<pool, resolver, cache, pending, expiryQueue, writes, caller, ask, asked, via,
                   got, step, stamp, taken>>

(* weakState.lock() succeeds: the resolver, a frame or a task holds State. *)
Calling(c) == caller[c] \in {"reading", "post", "notify", "waiting", "done"}

StateAlive ==
    \/ resolver = 1
    \/ \E c \in Callers : Calling(c)
    \/ \E w \in Workers : step[w] \in {"store", "purge", "fail", "deliver"}
-----------------------------------------------------------------------------
(* resolveImpl(): the clock is read, then the mutex taken. *)
Resolve(c, k) ==
    /\ resolver = 1
    /\ caller[c] = "idle"
    /\ caller' = [caller EXCEPT ![c] = "reading"]
    /\ ask' = [ask EXCEPT ![c] = k] /\ asked' = [asked EXCEPT ![c] = now]
    /\ UNCHANGED <<pool, now, resolver, cache, pending, expiryQueue, writes, via, got, step, stamp,
                   taken>>

BugUsable(c) == asked[c] <= cache[ask[c]].expiry

Usable(c) == asked[c] < cache[ask[c]].expiry

ReadCache(c) ==
    /\ caller[c] = "reading"
    /\ \/ /\ Usable(c)
          /\ got' = [got EXCEPT ![c] = cache[ask[c]].made]
          /\ via' = [via EXCEPT ![c] = "hit"]
          /\ caller' = [caller EXCEPT ![c] = "done"]
          /\ UNCHANGED pending
       \/ /\ ~Usable(c)
          /\ pending' = [pending EXCEPT ![ask[c]] = @ \cup {c}]
          /\ IF pending[ask[c]] # {}
               THEN /\ via' = [via EXCEPT ![c] = "joined"]
                    /\ caller' = [caller EXCEPT ![c] = "waiting"]
               ELSE /\ via' = [via EXCEPT ![c] = "new"]
                    /\ caller' = [caller EXCEPT ![c] = "post"]
          /\ UNCHANGED got
    /\ UNCHANGED <<pool, now, resolver, cache, expiryQueue, writes, ask, asked, step, stamp, taken>>

PostLookup(c) ==
    /\ caller[c] = "post"
    /\ Post(ask[c])
    /\ caller' = [caller EXCEPT ![c] = "notify"]
    /\ UNCHANGED <<now, resolver, cache, pending, expiryQueue, writes, ask, asked, via, got,
                   step, stamp, taken>>

(* The future may hold the answer already: then get() does not wait. *)
NotifyPool(c) ==
    /\ caller[c] = "notify"
    /\ NotifyOne
    /\ caller' = [caller EXCEPT ![c] = IF got[c] = 0 THEN "waiting" ELSE "done"]
    /\ UNCHANGED <<now, resolver, cache, pending, expiryQueue, writes, ask, asked, via, got,
                   step, stamp, taken>>
(* co_return: the frame is gone. *)
Return(c) ==
    /\ caller[c] = "done"
    /\ caller' = [caller EXCEPT ![c] = "idle"]
    /\ ask' = [ask EXCEPT ![c] = NoTask] /\ asked' = [asked EXCEPT ![c] = 0]
    /\ got' = [got EXCEPT ![c] = 0] /\ via' = [via EXCEPT ![c] = "none"]
    /\ UNCHANGED <<pool, now, resolver, cache, pending, expiryQueue, writes, step, stamp, taken>>
-----------------------------------------------------------------------------
(* doResolve() *)

TakeJob(w) ==
    /\ Check(w)
    /\ step' = [step EXCEPT ![w] = IF worker'[w] = "run" THEN "lookup" ELSE "none"]
    /\ UNCHANGED <<now, resolver, cache, pending, expiryQueue, writes, caller, ask, asked, via,
                   got, stamp, taken>>

(* getaddrinfo() returns: State is gone and the task ends, or it gave      *)
(* addresses, and `now' is read, or it gave none that can be used.         *)
Answer(w) ==
    /\ step[w] = "lookup"
    /\ IF StateAlive
         THEN /\ \/ step' = [step EXCEPT ![w] = "store"] /\ stamp' = [stamp EXCEPT ![w] = now]
                 \/ step' = [step EXCEPT ![w] = "fail"] /\ UNCHANGED stamp
              /\ UNCHANGED pool
         ELSE step' = [step EXCEPT ![w] = "none"] /\ TaskDone(w) /\ UNCHANGED stamp
    /\ UNCHANGED <<now, resolver, cache, pending, expiryQueue, writes, caller, ask, asked, via,
                   got, taken>>

(* The waiters of the key are moved out of pending. *)
BugTakeWaiters(w) ==
    /\ taken' = [taken EXCEPT ![w] = pending[job[w]]]
    /\ UNCHANGED pending

TakeWaiters(w) ==
    /\ taken' = [taken EXCEPT ![w] = pending[job[w]]]
    /\ pending' = [pending EXCEPT ![job[w]] = {}]

Store(w) ==
    /\ step[w] = "store"
    /\ LET expiry == stamp[w] + TTL IN
          /\ cache' = [cache EXCEPT ![job[w]] = [made |-> stamp[w], expiry |-> expiry]]
          /\ expiryQueue' = expiryQueue \cup {<<expiry, job[w]>>}
    /\ TakeWaiters(w)
    /\ writes' = (writes + 1) % PurgeEvery
    /\ step' = [step EXCEPT ![w] = IF writes = 0 THEN "purge" ELSE "deliver"]
    /\ UNCHANGED <<pool, now, resolver, caller, ask, asked, via, got, stamp>>

(* Everything in the queue that had expired is dropped, from the cache too *)
(* unless the key was stored again since.                                  *)
Purge(w) ==
    /\ step[w] = "purge"
    /\ LET old == {e \in expiryQueue : e[1] <= stamp[w]} IN
          /\ expiryQueue' = expiryQueue \ old
          /\ cache' = [k \in Keys |-> IF (\E e \in old : e[2] = k) /\ cache[k].expiry <= stamp[w]
                                        THEN Null ELSE cache[k]]
    /\ step' = [step EXCEPT ![w] = "deliver"]
    /\ UNCHANGED <<pool, now, resolver, pending, writes, caller, ask, asked, via, got, stamp, taken>>

Fail(w) ==
    /\ step[w] = "fail"
    /\ TakeWaiters(w)
    /\ stamp' = [stamp EXCEPT ![w] = MaxTime + 1]      \* an exception
    /\ step' = [step EXCEPT ![w] = "deliver"]
    /\ UNCHANGED <<pool, now, resolver, cache, expiryQueue, writes, caller, ask, asked, via, got>>

(* set_value() or set_exception() for each of the waiters, which are       *)
(* resumed; one that is still notifying the pool finds the future ready.   *)
Deliver(w) ==
    /\ step[w] = "deliver"
    /\ got' = [c \in Callers |-> IF c \in taken[w] THEN stamp[w] ELSE got[c]]
    /\ caller' = [c \in Callers |-> IF c \in taken[w] /\ caller[c] = "waiting" THEN "done"
                                    ELSE caller[c]]
    /\ step' = [step EXCEPT ![w] = "none"]
    /\ taken' = [taken EXCEPT ![w] = {}] /\ stamp' = [stamp EXCEPT ![w] = 0]
    /\ TaskDone(w)
    /\ UNCHANGED <<now, resolver, cache, pending, expiryQueue, writes, ask, asked, via>>
-----------------------------------------------------------------------------
(* ~DnsResolver(), and ~ThreadPool() when nobody holds the pool any more. *)
DestroyResolver ==
    /\ resolver = 1
    /\ resolver' = 0
    /\ UNCHANGED <<pool, now, cache, pending, expiryQueue, writes, caller, ask, asked, via, got,
                   step, stamp, taken>>

DestroyPool ==
    /\ resolver = 0 /\ \A c \in Callers : ~Calling(c)
    /\ StopPool \/ (NotifyAll /\ worker' # worker)
    /\ UNCHANGED dns

Spurious(w) == WakeSpuriously(w) /\ UNCHANGED dns

Work(w) == TakeJob(w) \/ Answer(w) \/ Store(w) \/ Purge(w) \/ Fail(w) \/ Deliver(w)

Next ==
    \/ Tick \/ DestroyResolver \/ DestroyPool
    \/ \E c \in Callers : (\E k \in Keys : Resolve(c, k)) \/ ReadCache(c) \/ PostLookup(c) \/ NotifyPool(c) \/ Return(c)
    \/ \E w \in Workers : Work(w) \/ Spurious(w)

Spec == Init /\ [][Next]_vars

(* The threads run and getaddrinfo() returns. *)
FairSpec ==
    /\ Spec
    /\ \A c \in Callers : WF_vars(ReadCache(c) \/ PostLookup(c) \/ NotifyPool(c) \/ Return(c))
    /\ \A w \in Workers : WF_vars(Work(w))
    /\ WF_vars(DestroyPool)
-----------------------------------------------------------------------------
(* Every key somebody waits for has exactly one lookup on its way: about   *)
(* to be posted, queued, or running and not yet at the region that takes   *)
(* the waiters; and no lookup is on its way for a key nobody waits for.    *)
(* Every cache entry is in the expiry queue, so a purge can find it.       *)
LookupsAccounted ==
    \A k \in Keys :
       /\ Cardinality({c \in Callers : caller[c] = "post" /\ ask[c] = k})
            + Len(SelectSeq(tasks, LAMBDA t : t = k))
            + Cardinality({w \in Workers : job[w] = k /\ step[w] \in {"lookup", "store", "fail"}})
          = IF pending[k] = {} THEN 0 ELSE 1
       /\ cache[k] # Null => <<cache[k].expiry, k>> \in expiryQueue

(* No caller is given what had expired when it called: a cached answer was *)
(* made less than TTL before, the answer to a lookup of its own after.     *)
AnswersFresh ==
    \A c \in Callers :
       /\ via[c] = "hit" => asked[c] < got[c] + TTL
       /\ via[c] = "new" /\ got[c] # 0 => asked[c] <= got[c]

(* Every resolve() returns, an answer or an exception, also when the       *)
(* resolver is destroyed meanwhile; and then the pool's threads end.       *)
ResolveReturns ==
    /\ \A c \in Callers : []<>~Calling(c)
    /\ \A w \in Workers : []<>(stop = 1 => worker[w] = "exited")
=============================================================================
