------------------------------- MODULE IoProofs -------------------------------
(***************************************************************************)
(* That a channel loses no edge and resumes whom it should, for any socket *)
(* buffers and any length of the writes; and that channels made on the     *)
(* loop's thread with a guard meet no failing assertion and no event of    *)
(* another channel, for any number of channels and descriptors.            *)
(***************************************************************************)
EXTENDS MCIo, Integers, FiniteSets, TLAPS

(* The registry. *)

Known(i) == chan[i] \in {"live", "destroyed"}

(* A channel that has not been removed has its descriptor, its file and    *)
(* its context to itself, and epoll watches it if it wants events ...      *)
OwnContext ==
    \A i \in R!Ids : Known(i) =>
       /\ i <= lastId /\ fdOf[i] \in Fds /\ file[fdOf[i]] = i
       /\ ctx[fdOf[i]] = [id |-> i, handler |-> 1, added |-> events[i]]
       /\ i \in epoll <=> events[i] = 1

(* ... and nothing else is in ioContexts_ or watched. *)
NoOtherContext ==
    /\ \A fd \in Fds : ctx[fd].id # 0 => Known(ctx[fd].id) /\ fdOf[ctx[fd].id] = fd
    /\ \A i \in epoll : Known(i)

FilesKnown == \A fd \in Fds : file[fd] # 0 => file[fd] <= lastId /\ fdOf[file[fd]] = fd

NotYetMade == \A i \in R!Ids : i > lastId => chan[i] = "none" /\ events[i] = 0

(* What is queued is the removal of a destroyed channel, each once. *)
RemovalsOnce ==
    /\ \A k \in 1..Len(queue) : queue[k].op = "remove" /\ chan[queue[k].id] = "destroyed"
    /\ \A j, k \in 1..Len(queue) : queue[j].id = queue[k].id => j = k

(* An event that has not been handled meets the context it is about. *)
BatchCurrent == \A e \in batch : ctx[e.fd].id = e.file

RegInv ==
    /\ R!TypeOK /\ failed = {}
    /\ OwnContext /\ NoOtherContext /\ FilesKnown /\ NotYetMade /\ RemovalsOnce /\ BatchCurrent
-----------------------------------------------------------------------------
LEMMA RegInit == IoInit => RegInv
<1> SUFFICES ASSUME IoInit PROVE RegInv
  OBVIOUS
<1> USE IoAssumption DEF IoInit, R!Init, R!NoId
<1>1. R!TypeOK
  BY DEF R!TypeOK, R!Contexts, R!NoContext, R!Ids
<1>2. OwnContext /\ NoOtherContext /\ NotYetMade
  BY DEF OwnContext, NoOtherContext, NotYetMade, Known, R!Ids, R!NoContext
<1>3. FilesKnown /\ RemovalsOnce /\ BatchCurrent /\ failed = {}
  BY DEF FilesKnown, RemovalsOnce, BatchCurrent
<1> QED  BY <1>1, <1>2, <1>3 DEF RegInv

(* The constructor's descriptor has no context: a file was closed only     *)
(* after its channel was removed.                                          *)
LEMMA RegConstruct ==
    ASSUME RegInv, NEW i \in R!Ids, NEW fd \in Fds, R!Construct(i, fd)
    PROVE  RegInv'
<1> USE IoAssumption DEF R!NoId
<1>1. /\ batch = {} /\ lastId < MaxId /\ i = lastId + 1 /\ file[fd] = 0 /\ lastId' = i
      /\ fdOf' = [fdOf EXCEPT ![i] = fd] /\ chan' = [chan EXCEPT ![i] = "live"]
      /\ file' = [file EXCEPT ![fd] = i] /\ owned' = owned \cup {i}
      /\ UNCHANGED <<events, epoll, batch, queue>>
  BY DEF R!Construct, R!OnLoop, R!Open
<1>2. /\ lastId \in Nat /\ lastId \in 0..MaxId /\ fdOf \in [R!Ids -> Fds \cup {0}] /\ ctx \in [Fds -> R!Contexts]
      /\ chan \in [R!Ids -> {"none", "live", "destroyed", "removed"}]
      /\ file \in [Fds -> R!Ids \cup {0}] /\ events \in [R!Ids -> 0..1]
  BY DEF RegInv, R!TypeOK
<1>3. ctx[fd].id = 0
  <2>1. ctx[fd].id # 0 => file[fd] = ctx[fd].id
    BY ZenonT(40), <1>2 DEF RegInv, NoOtherContext, OwnContext, R!Contexts
  <2> QED  BY <1>1, <2>1
<1>4. /\ ctx' = [ctx EXCEPT ![fd] = [id |-> i, handler |-> 1, added |-> 0]]
      /\ failed' = failed
  BY <1>1, <1>2, <1>3 DEF R!Construct, R!SetIoHandler, R!Ids
<1>5. /\ chan[i] = "none" /\ events[i] = 0 /\ i \notin epoll
  <2>1. i > lastId
    BY <1>1, <1>2
  <2> QED  BY <2>1 DEF RegInv, NotYetMade, NoOtherContext, Known
<1>6. ASSUME NEW j \in R!Ids, Known(j)
      PROVE  j # i /\ fdOf[j] # fd
  <2>1. file[fdOf[j]] = j
    BY ZenonT(40), <1>6 DEF RegInv, OwnContext
  <2>2. j # 0
    BY DEF R!Ids
  <2> QED  BY <1>1, <1>5, <1>6, <2>1, <2>2 DEF Known
<1>7. R!TypeOK'
  <2>1. [id |-> i, handler |-> 1, added |-> 0] \in R!Contexts
    BY DEF R!Contexts
  <2>2. ctx' \in [Fds -> R!Contexts]
    BY <1>2, <1>4, <2>1
  <2> QED  BY <1>1, <1>2, <1>4, <2>2 DEF RegInv, R!TypeOK, R!Ids
<1>8. OwnContext'
  <2> SUFFICES ASSUME NEW j \in R!Ids, Known(j)'
               PROVE  /\ j <= lastId' /\ fdOf'[j] \in Fds /\ file'[fdOf'[j]] = j
                      /\ ctx'[fdOf'[j]] = [id |-> j, handler |-> 1, added |-> events'[j]]
                      /\ j \in epoll' <=> events'[j] = 1
    BY DEF OwnContext
  <2>1. CASE j = i
    BY <1>1, <1>2, <1>4, <1>5, <2>1
  <2>2. CASE j # i
    <3>1. Known(j)
      BY <1>1, <1>2, <2>2 DEF Known
    <3>2. /\ j <= lastId /\ fdOf[j] \in Fds /\ file[fdOf[j]] = j
          /\ ctx[fdOf[j]] = [id |-> j, handler |-> 1, added |-> events[j]]
          /\ j \in epoll <=> events[j] = 1
          /\ fdOf[j] # fd
      BY ZenonT(40), <3>1, <1>6 DEF RegInv, OwnContext
    <3>3. fdOf'[j] = fdOf[j] /\ file'[fdOf[j]] = file[fdOf[j]] /\ ctx'[fdOf[j]] = ctx[fdOf[j]]
      BY ZenonT(40), <1>1, <1>2, <1>4, <2>2, <3>2
    <3> QED  BY <1>1, <1>2, <3>2, <3>3 DEF R!Ids
  <2> QED  BY <2>1, <2>2
<1>9. NoOtherContext'
  <2>1. ASSUME NEW g \in Fds, ctx'[g].id # 0
        PROVE  chan'[ctx'[g].id] \in {"live", "destroyed"} /\ fdOf'[ctx'[g].id] = g
    <3>1. CASE g = fd
      <4>1. ctx'[g].id = i
        BY <1>2, <1>4, <3>1
      <4> QED  BY ZenonT(40), <1>1, <1>2, <3>1, <4>1
    <3>2. CASE g # fd
      <4>1. ctx'[g] = ctx[g] /\ ctx[g].id \in R!Ids /\ Known(ctx[g].id) /\ fdOf[ctx[g].id] = g
        BY ZenonT(40), <1>2, <1>4, <2>1, <3>2 DEF RegInv, NoOtherContext, R!Contexts
      <4>2. ctx[g].id # i
        BY ZenonT(40), <1>6, <4>1
      <4> QED  BY ZenonT(40), <1>1, <1>2, <4>1, <4>2 DEF Known
    <3> QED  BY <3>1, <3>2
  <2>2. ASSUME NEW j \in epoll PROVE Known(j)'
    BY <1>1, <1>2, <1>5 DEF RegInv, NoOtherContext, Known, R!TypeOK
  <2> QED  BY ZenonT(40), <1>1, <2>1, <2>2 DEF NoOtherContext, Known
<1>10. FilesKnown'
  <2> SUFFICES ASSUME NEW g \in Fds, file'[g] # 0
               PROVE  file'[g] <= lastId' /\ fdOf'[file'[g]] = g
    BY DEF FilesKnown
  <2>1. CASE g = fd
    BY <1>1, <1>2, <2>1
  <2>2. CASE g # fd
    <3>1. file'[g] = file[g] /\ file[g] \in R!Ids /\ file[g] <= lastId /\ fdOf[file[g]] = g
      BY ZenonT(40), <1>1, <1>2, <2>2 DEF RegInv, FilesKnown
    <3>2. file[g] \in Int /\ file[g] # i /\ file[g] <= i
      BY <1>1, <1>2, <3>1 DEF R!Ids
    <3> QED  BY ZenonT(40), <1>1, <1>2, <3>1, <3>2
  <2> QED  BY <2>1, <2>2
<1>11. NotYetMade'
  BY <1>1, <1>2 DEF RegInv, NotYetMade, R!Ids
<1>12. RemovalsOnce'
  BY <1>1, <1>2, <1>5 DEF RegInv, RemovalsOnce, R!TypeOK
<1>13. BatchCurrent'
  BY ZenonT(40), <1>1 DEF BatchCurrent
<1> QED  BY ZenonT(40), <1>4, <1>7, <1>8, <1>9, <1>10, <1>11, <1>12, <1>13 DEF RegInv

(* enableReading() and disableAll() find their own context, and epoll in   *)
(* the state it says.                                                      *)
LEMMA RegSetEvents ==
    ASSUME RegInv, NEW i \in R!Ids, NEW want \in 0..1, R!SetEvents(i, want)
    PROVE  RegInv'
<1> USE IoAssumption DEF R!NoId
<1> DEFINE fd == fdOf[i]
<1>1. /\ batch = {} /\ chan[i] = "live" /\ events[i] # want
      /\ events' = [events EXCEPT ![i] = want]
      /\ UNCHANGED <<lastId, fdOf, chan, file, owned, queue, batch>>
  BY DEF R!SetEvents, R!OnLoop
<1>2. /\ ctx \in [Fds -> R!Contexts] /\ events \in [R!Ids -> 0..1] /\ epoll \in SUBSET R!Ids
  BY DEF RegInv, R!TypeOK
<1>3. /\ fd \in Fds /\ file[fd] = i /\ i # 0 /\ ~(i < i)
      /\ ctx[fd] = [id |-> i, handler |-> 1, added |-> events[i]]
      /\ i \in epoll <=> events[i] = 1
  <2>1. i # 0 /\ ~(i < i)
    BY DEF R!Ids
  <2> QED  BY <1>1, <2>1 DEF RegInv, OwnContext, Known
<1>4. /\ ctx' = [ctx EXCEPT ![fd] = [id |-> i, handler |-> 1, added |-> want]]
      /\ epoll' = IF want = 1 THEN epoll \cup {i} ELSE epoll \ {i}
      /\ failed' = failed
  <2> DEFINE c == IF ctx[fd].id = i THEN ctx[fd] ELSE [id |-> i, handler |-> 0, added |-> 0]
             fails == want = 1 /\ ~(IF c.added = 1 THEN R!CanMod(fd) ELSE R!CanAdd(fd))
  <2>1. c = [id |-> i, handler |-> 1, added |-> events[i]]
    BY <1>3
  <2>2. /\ ctx' = [ctx EXCEPT ![fd] = [c EXCEPT !.added = want]]
        /\ epoll' = IF want = 1 THEN epoll \cup {file[fd]}
                    ELSE IF c.added = 1 THEN epoll \ {file[fd]} ELSE epoll
        /\ failed' = IF fails THEN failed \cup {"update"} ELSE failed
    BY <1>3 DEF R!SetEvents, R!UpdateIo
  <2> HIDE DEF c
  <2>3. ~fails
    BY ZenonT(40), <1>1, <1>2, <1>3, <2>1 DEF R!CanAdd
  <2>4. [c EXCEPT !.added = want] = [id |-> i, handler |-> 1, added |-> want]
    BY <2>1
  <2>5. want = 0 => c.added = 1
    BY <1>1, <1>2, <2>1
  <2>6. ctx' = [ctx EXCEPT ![fd] = [id |-> i, handler |-> 1, added |-> want]]
    BY ZenonT(40), <2>2, <2>4
  <2>7. epoll' = IF want = 1 THEN epoll \cup {i} ELSE epoll \ {i}
    BY <1>3, <2>2, <2>5
  <2> HIDE DEF fails
  <2>8. failed' = failed
    BY <2>2, <2>3
  <2> QED  BY ZenonT(40), <2>6, <2>7, <2>8
<1> HIDE DEF fd
<1>5. R!TypeOK'
  <2>1. [id |-> i, handler |-> 1, added |-> want] \in R!Contexts
    BY DEF R!Contexts
  <2>2. ctx' \in [Fds -> R!Contexts] /\ events' \in [R!Ids -> 0..1] /\ epoll' \in SUBSET R!Ids
    BY ZenonT(40), <1>1, <1>2, <1>4, <2>1
  <2> QED  BY <1>1, <1>4, <2>2 DEF RegInv, R!TypeOK
<1>6. OwnContext'
  <2> SUFFICES ASSUME NEW j \in R!Ids, Known(j)'
               PROVE  /\ j <= lastId' /\ fdOf'[j] \in Fds /\ file'[fdOf'[j]] = j
                      /\ ctx'[fdOf'[j]] = [id |-> j, handler |-> 1, added |-> events'[j]]
                      /\ j \in epoll' <=> events'[j] = 1
    BY DEF OwnContext
  <2>1. /\ j <= lastId /\ fdOf[j] \in Fds /\ file[fdOf[j]] = j
        /\ ctx[fdOf[j]] = [id |-> j, handler |-> 1, added |-> events[j]]
        /\ j \in epoll <=> events[j] = 1
    BY <1>1 DEF RegInv, OwnContext, Known
  <2>2. CASE j = i
    BY ZenonT(40), <1>1, <1>2, <1>3, <1>4, <2>1, <2>2 DEF fd
  <2>3. CASE j # i
    <3>1. fdOf[j] # fd
      BY ZenonT(40), <1>3, <2>1, <2>3
    <3> QED  BY ZenonT(40), <1>1, <1>2, <1>4, <2>1, <2>3, <3>1
  <2> QED  BY ZenonT(40), <2>2, <2>3
<1>7. NoOtherContext'
  <2>1. \A g \in Fds : ctx'[g].id = ctx[g].id
    BY <1>2, <1>3, <1>4
  <2>2. \A j \in epoll' : j \in epoll \/ j = i
    BY <1>4
  <2> QED  BY ZenonT(40), <1>1, <2>1, <2>2 DEF RegInv, NoOtherContext, Known
<1>8. NotYetMade'
  <2>0. i <= lastId
    BY ZenonT(40), <1>1 DEF RegInv, OwnContext, Known
  <2>1. i <= lastId /\ i \in Int /\ lastId \in Int
    BY <2>0 DEF RegInv, R!Ids, R!TypeOK
  <2> QED  BY <1>1, <1>2, <2>1 DEF RegInv, NotYetMade
<1>9. FilesKnown' /\ RemovalsOnce' /\ BatchCurrent'
  BY <1>1 DEF RegInv, FilesKnown, RemovalsOnce, BatchCurrent
<1> QED  BY ZenonT(40), <1>4, <1>5, <1>6, <1>7, <1>8, <1>9 DEF RegInv

(* removeIo() meets the context of its own channel, and its descriptor is  *)
(* closed, if at all, after it.                                            *)
LEMMA RegRemove ==
    ASSUME RegInv, NEW i \in R!Ids, Known(i), batch = {}, R!Remove(i),
           queue' \in Seq([op : {"set", "remove"}, id : R!Ids])
    PROVE  /\ R!TypeOK' /\ failed' = {}
           /\ OwnContext' /\ NoOtherContext' /\ FilesKnown' /\ NotYetMade' /\ BatchCurrent'
<1> USE IoAssumption DEF R!NoId
<1> DEFINE fd == fdOf[i]
           closed == {i} \ owned
<1>1. /\ chan' = [chan EXCEPT ![i] = "removed"]
      /\ file' = [g \in Fds |-> IF file[g] \in closed THEN 0 ELSE file[g]]
      /\ UNCHANGED <<lastId, fdOf, events, owned, batch>>
  BY DEF R!Remove, R!WithoutFiles
<1>2. /\ ctx \in [Fds -> R!Contexts] /\ epoll \in SUBSET R!Ids /\ file \in [Fds -> R!Ids \cup {0}]
      /\ chan \in [R!Ids -> {"none", "live", "destroyed", "removed"}] /\ events \in [R!Ids -> 0..1]
  BY DEF RegInv, R!TypeOK
<1>3. /\ fd \in Fds /\ file[fd] = i /\ i # 0
      /\ ctx[fd] = [id |-> i, handler |-> 1, added |-> events[i]]
      /\ i \in epoll <=> events[i] = 1
  <2>1. i # 0
    BY DEF R!Ids
  <2> QED  BY <2>1 DEF RegInv, OwnContext
<1>4. /\ ctx' = [ctx EXCEPT ![fd] = R!NoContext]
      /\ failed' = failed
      /\ epoll' = epoll \ {i}
  <2>1. /\ failed' = IF ctx[fd].id = 0 THEN failed \cup {"remove"} ELSE failed
        /\ ctx' = IF ctx[fd].id = i THEN [ctx EXCEPT ![fd] = R!NoContext] ELSE ctx
        /\ epoll' = (IF ctx[fd].id = i /\ ctx[fd].added = 1 THEN epoll \ {file[fd]} ELSE epoll) \ closed
    BY ZenonT(40) DEF R!Remove, R!RemoveIo, R!RemovedBy
  <2>2. ctx[fd].id = i /\ ctx[fd].added = events[i]
    BY <1>3
  <2>3. epoll' = epoll \ {i}
    BY <1>2, <1>3, <2>1, <2>2
  <2> QED  BY ZenonT(40), <1>3, <2>1, <2>2, <2>3
<1> HIDE DEF fd, closed
<1>5. closed \subseteq {i}
  BY DEF closed
<1>6. R!TypeOK'
  <2>1. R!NoContext \in R!Contexts
    BY DEF R!Contexts, R!NoContext
  <2>2. /\ ctx' \in [Fds -> R!Contexts] /\ epoll' \in SUBSET R!Ids /\ file' \in [Fds -> R!Ids \cup {0}]
        /\ chan' \in [R!Ids -> {"none", "live", "destroyed", "removed"}]
    BY ZenonT(40), <1>1, <1>2, <1>4, <2>1
  <2> QED  BY <1>1, <1>4, <2>2 DEF RegInv, R!TypeOK
<1>7. OwnContext'
  <2> SUFFICES ASSUME NEW j \in R!Ids, Known(j)'
               PROVE  /\ j <= lastId' /\ fdOf'[j] \in Fds /\ file'[fdOf'[j]] = j
                      /\ ctx'[fdOf'[j]] = [id |-> j, handler |-> 1, added |-> events'[j]]
                      /\ j \in epoll' <=> events'[j] = 1
    BY ZenonT(40) DEF OwnContext
  <2>1. j # i /\ Known(j)
    BY <1>1, <1>2 DEF Known
  <2>2. /\ j <= lastId /\ fdOf[j] \in Fds /\ file[fdOf[j]] = j
        /\ ctx[fdOf[j]] = [id |-> j, handler |-> 1, added |-> events[j]]
        /\ j \in epoll <=> events[j] = 1
    BY ZenonT(40), <2>1 DEF RegInv, OwnContext
  <2>3. fdOf[j] # fd
    BY ZenonT(40), <1>3, <2>1, <2>2
  <2>4. file'[fdOf[j]] = j
    BY ZenonT(40), <1>1, <1>5, <2>1, <2>2
  <2>5. ctx'[fdOf[j]] = ctx[fdOf[j]]
    BY <1>2, <1>4, <2>2, <2>3
  <2> QED  BY ZenonT(40), <1>1, <1>4, <2>1, <2>2, <2>4, <2>5
<1>8. NoOtherContext'
  <2>1. ASSUME NEW g \in Fds, ctx'[g].id # 0
        PROVE  chan'[ctx'[g].id] \in {"live", "destroyed"} /\ fdOf'[ctx'[g].id] = g
    <3>1. g # fd /\ ctx'[g] = ctx[g]
      BY <1>2, <1>4, <2>1 DEF R!NoContext
    <3>2. ctx[g].id \in R!Ids /\ Known(ctx[g].id) /\ fdOf[ctx[g].id] = g
      BY <1>2, <2>1, <3>1 DEF RegInv, NoOtherContext, R!Contexts
    <3>3. ctx[g].id # i
      BY ZenonT(40), <3>1, <3>2 DEF fd
    <3> QED  BY ZenonT(40), <1>1, <1>2, <3>1, <3>2, <3>3 DEF Known
  <2>2. ASSUME NEW j \in epoll' PROVE Known(j)'
    BY <1>1, <1>2, <1>4 DEF RegInv, NoOtherContext, Known
  <2> QED  BY ZenonT(40), <2>1, <2>2 DEF NoOtherContext, Known
<1>9. FilesKnown'
  <2> SUFFICES ASSUME NEW g \in Fds, file'[g] # 0
               PROVE  file'[g] <= lastId' /\ fdOf'[file'[g]] = g
    BY DEF FilesKnown
  <2>1. file'[g] = file[g]
    BY <1>1
  <2> QED  BY <1>1, <2>1 DEF RegInv, FilesKnown
<1>10. NotYetMade'
  <2>1. ASSUME NEW j \in R!Ids, j > lastId PROVE j # i
    BY <2>1 DEF RegInv, NotYetMade, Known
  <2> QED  BY <1>1, <1>2, <2>1 DEF RegInv, NotYetMade
<1>11. BatchCurrent'
  BY <1>1 DEF BatchCurrent
<1> QED  BY ZenonT(40), <1>4, <1>6, <1>7, <1>8, <1>9, <1>10, <1>11 DEF RegInv

LEMMA RegStep == RegInv /\ R!Next => RegInv'
<1> SUFFICES ASSUME RegInv, R!Next PROVE RegInv'
  OBVIOUS
<1> USE IoAssumption DEF R!NoId
<1>0. /\ queue \in Seq([op : {"set", "remove"}, id : R!Ids]) /\ RemovalsOnce /\ failed = {}
      /\ chan \in [R!Ids -> {"none", "live", "destroyed", "removed"}]
      /\ epoll \in SUBSET R!Ids
  BY DEF RegInv, R!TypeOK
<1> DEFINE E == [op : {"set", "remove"}, id : R!Ids]
<1>a. \A x \in E : x.id \in R!Ids
  OBVIOUS
<1>b. queue \in Seq(E) /\ Len(queue) \in Nat /\ \A k \in 1..Len(queue) : queue[k].id \in R!Ids
  <2> HIDE DEF E
  <2>1. queue \in Seq(E)
    BY <1>0 DEF E
  <2> QED  BY <1>a, <2>1
<1>1. ASSUME NEW i \in R!Ids, NEW fd \in Fds, R!Construct(i, fd) \/ R!ConstructElsewhere(i, fd)
      PROVE  RegInv'
  BY <1>1, RegConstruct DEF R!ConstructElsewhere
<1>2. ASSUME NEW i \in R!Ids, NEW want \in 0..1, R!SetEvents(i, want) PROVE RegInv'
  BY <1>2, RegSetEvents
<1>3. ASSUME NEW i \in R!Ids, R!Destruct(i) PROVE RegInv'
  <2>1. batch = {} /\ chan[i] = "live" /\ R!Remove(i) /\ UNCHANGED queue
    BY <1>3 DEF R!Destruct, R!OnLoop
  <2>2. /\ R!TypeOK' /\ failed' = {}
        /\ OwnContext' /\ NoOtherContext' /\ FilesKnown' /\ NotYetMade' /\ BatchCurrent'
    BY ZenonT(40), <1>0, <2>1, RegRemove DEF Known
  <2>3. chan' = [chan EXCEPT ![i] = "removed"]
    BY ZenonT(40), <2>1 DEF R!Remove
  <2>4. RemovalsOnce'
    BY <1>0, <2>1, <2>3 DEF RemovalsOnce
  <2> QED  BY <2>2, <2>4 DEF RegInv
<1>4. ASSUME NEW i \in R!Ids, R!DestructElsewhere(i) PROVE RegInv'
  <2>1. /\ chan[i] = "live" /\ chan' = [chan EXCEPT ![i] = "destroyed"]
        /\ queue' = Append(queue, [op |-> "remove", id |-> i])
        /\ UNCHANGED <<lastId, fdOf, events, file, owned, ctx, epoll, batch, failed>>
    BY <1>4 DEF R!DestructElsewhere
  <2>2. \A j \in R!Ids : Known(j)' <=> Known(j)
    BY <1>0, <2>1 DEF Known
  <2>3. OwnContext' /\ NoOtherContext'
    <3>1. OwnContext'
      BY ZenonT(40), <2>1, <2>2 DEF RegInv, OwnContext
    <3>2. \A g \in Fds : ctx[g].id # 0 => ctx[g].id \in R!Ids
      BY DEF RegInv, R!TypeOK, R!Contexts
    <3> QED  BY ZenonT(40), <1>0, <2>1, <2>2, <3>1, <3>2 DEF RegInv, NoOtherContext
  <2>4. NotYetMade'
    BY <1>0, <2>1 DEF RegInv, NotYetMade
  <2>5. RemovalsOnce'
    <3>1. /\ Len(queue') = Len(queue) + 1 /\ Len(queue) \in Nat
          /\ \A k \in 1..Len(queue) : queue'[k] = queue[k] /\ queue[k].id \in R!Ids
          /\ queue'[Len(queue) + 1] = [op |-> "remove", id |-> i]
      <4>1. [op |-> "remove", id |-> i] \in E
        OBVIOUS
      <4> HIDE DEF E
      <4> QED  BY <1>b, <2>1, <4>1
    <3>2. \A k \in 1..Len(queue) : queue[k].id # i
      BY ZenonT(40), <1>0, <2>1 DEF RemovalsOnce
    <3>3. ASSUME NEW k \in 1..Len(queue')
          PROVE  queue'[k].op = "remove" /\ chan'[queue'[k].id] = "destroyed"
      BY <1>0, <2>1, <3>1 DEF RemovalsOnce
    <3>4. ASSUME NEW j \in 1..Len(queue'), NEW k \in 1..Len(queue'), queue'[j].id = queue'[k].id
          PROVE  j = k
      BY <1>0, <3>1, <3>2, <3>4 DEF RemovalsOnce
    <3> QED  BY ZenonT(40), <3>3, <3>4 DEF RemovalsOnce
  <2>6. R!TypeOK' /\ failed' = {}
    <3>1. queue' \in Seq([op : {"set", "remove"}, id : R!Ids])
      BY <1>0, <2>1
    <3> QED  BY ZenonT(40), <1>0, <2>1, <3>1 DEF RegInv, R!TypeOK
  <2> QED  BY ZenonT(40), <2>1, <2>3, <2>4, <2>5, <2>6 DEF RegInv, FilesKnown, BatchCurrent
<1>5. ASSUME NEW i \in R!Ids, R!LetGo(i) PROVE RegInv'
  <2> DEFINE closed == IF chan[i] # "removed" THEN {} ELSE {i}
  <2>1. /\ owned' = owned \ {i} /\ epoll' = epoll \ closed
        /\ file' = [g \in Fds |-> IF file[g] \in closed THEN 0 ELSE file[g]]
        /\ UNCHANGED <<lastId, fdOf, chan, events, ctx, queue, batch, failed>>
    BY <1>5 DEF R!LetGo, R!WithoutFiles
  <2>2. \A j \in R!Ids : Known(j) => j \notin closed
    BY DEF Known
  <2> HIDE DEF closed
  <2>3. epoll' = epoll
    BY <1>0, <2>1, <2>2 DEF RegInv, NoOtherContext
  <2>4. OwnContext'
    <3> SUFFICES ASSUME NEW j \in R!Ids, Known(j)
                 PROVE  fdOf[j] \in Fds /\ file'[fdOf[j]] = file[fdOf[j]]
      BY <2>1, <2>3 DEF RegInv, OwnContext, Known
    <3>1. fdOf[j] \in Fds /\ file[fdOf[j]] = j
      BY ZenonT(40) DEF RegInv, OwnContext
    <3> QED  BY ZenonT(40), <2>1, <2>2, <3>1
  <2>5. FilesKnown'
    <3> SUFFICES ASSUME NEW g \in Fds, file'[g] # 0
                 PROVE  file'[g] <= lastId' /\ fdOf'[file'[g]] = g
      BY DEF FilesKnown
    <3>1. file'[g] = file[g]
      BY <2>1
    <3> QED  BY ZenonT(40), <2>1, <3>1 DEF RegInv, FilesKnown
  <2>6. R!TypeOK'
    <3>1. file' \in [Fds -> R!Ids \cup {0}] /\ owned' \in SUBSET R!Ids
      BY <2>1 DEF RegInv, R!TypeOK
    <3> QED  BY ZenonT(40), <2>1, <2>3, <3>1 DEF RegInv, R!TypeOK
  <2> QED  BY <2>1, <2>3, <2>4, <2>5, <2>6 DEF RegInv, NoOtherContext, Known, NotYetMade, RemovalsOnce, BatchCurrent
<1>6. ~R!PopSet
  BY <1>0 DEF R!PopSet, RemovalsOnce
<1>7. CASE R!PopRemove
  <2> DEFINE i == queue[1].id
  <2>1. /\ batch = {} /\ queue # <<>> /\ queue' = Tail(queue) /\ R!Remove(i)
    BY <1>7 DEF R!PopRemove
  <2>2. /\ i \in R!Ids /\ 1 \in 1..Len(queue) /\ Len(queue) \in Nat
        /\ Tail(queue) \in Seq(E)
        /\ Len(Tail(queue)) = Len(queue) - 1
        /\ \A k \in 1..(Len(queue) - 1) : Tail(queue)[k] = queue[k + 1]
    <3> HIDE DEF E
    <3> QED  BY <1>b, <2>1
  <2>3. Known(i)
    BY ZenonT(40), <1>0, <2>2 DEF RemovalsOnce, Known
  <2> HIDE DEF i
  <2>4. /\ R!TypeOK' /\ failed' = {}
        /\ OwnContext' /\ NoOtherContext' /\ FilesKnown' /\ NotYetMade' /\ BatchCurrent'
    BY ZenonT(40), <2>1, <2>2, <2>3, RegRemove
  <2>5. chan' = [chan EXCEPT ![i] = "removed"]
    BY <2>1 DEF R!Remove
  <2>6. RemovalsOnce'
    <3>1. ASSUME NEW k \in 1..Len(queue')
          PROVE  /\ k + 1 \in 1..Len(queue) /\ queue'[k] = queue[k + 1]
                 /\ queue[k + 1].id \in R!Ids /\ queue[k + 1].id # i
      <4>1. k + 1 \in 1..Len(queue) /\ queue'[k] = queue[k + 1] /\ k + 1 # 1
        BY <2>1, <2>2
      <4>2. queue[k + 1].id \in R!Ids
        BY ZenonT(40), <1>b, <4>1
      <4>3. queue[k + 1].id # i
        BY ZenonT(40), <1>0, <2>2, <4>1 DEF RemovalsOnce, i
      <4> QED  BY <4>1, <4>2, <4>3
    <3>2. ASSUME NEW k \in 1..Len(queue')
          PROVE  queue'[k].op = "remove" /\ chan'[queue'[k].id] = "destroyed"
      BY <1>0, <2>5, <3>1 DEF RemovalsOnce
    <3>3. ASSUME NEW j \in 1..Len(queue'), NEW k \in 1..Len(queue'), queue'[j].id = queue'[k].id
          PROVE  j = k
      <4>1. j + 1 = k + 1
        BY SMTT(40), <1>0, <3>1, <3>3 DEF RemovalsOnce
      <4> QED  BY <4>1
    <3> QED  BY <3>2, <3>3 DEF RemovalsOnce
  <2> QED  BY <2>4, <2>6 DEF RegInv
<1>8. CASE R!Poll
  <2>1. PICK some \in SUBSET epoll \ {{}} : batch' = {[fd |-> fdOf[i], file |-> i] : i \in some}
    BY ZenonT(40), <1>8 DEF R!Poll
  <2>2. UNCHANGED <<lastId, fdOf, chan, events, file, owned, ctx, epoll, queue, failed>>
    BY <1>8 DEF R!Poll
  <2>3. ASSUME NEW i \in some PROVE i \in R!Ids /\ fdOf[i] \in Fds /\ ctx[fdOf[i]].id = i
    <3>1. i \in R!Ids /\ Known(i)
      BY <1>0 DEF RegInv, NoOtherContext
    <3>2. /\ fdOf[i] \in Fds
          /\ ctx[fdOf[i]] = [id |-> i, handler |-> 1, added |-> events[i]]
      BY <3>1 DEF RegInv, OwnContext
    <3> QED  BY <3>1, <3>2
  <2>4. BatchCurrent'
    BY <2>1, <2>2, <2>3 DEF BatchCurrent
  <2>5. batch' \in SUBSET [fd : Fds, file : R!Ids]
    BY <2>1, <2>3
  <2> QED  BY <2>2, <2>4, <2>5 DEF RegInv, R!TypeOK, OwnContext, NoOtherContext, Known, FilesKnown, NotYetMade, RemovalsOnce
<1>9. ASSUME NEW e \in batch, R!HandleEvent(e) PROVE RegInv'
  <2>1. /\ batch' = batch \ {e}
        /\ failed' = IF ctx[e.fd].id # 0 /\ ctx[e.fd].handler = 0 THEN failed \cup {"call"} ELSE failed
        /\ UNCHANGED <<lastId, fdOf, chan, events, file, owned, ctx, epoll, queue>>
    BY <1>9 DEF R!HandleEvent
  <2>2. ctx[e.fd].id # 0 => ctx[e.fd].handler = 1
    <3>1. e.fd \in Fds
      BY ZenonT(40) DEF RegInv, R!TypeOK
    <3> DEFINE i == ctx[e.fd].id
    <3>2. i # 0 => i \in R!Ids /\ Known(i) /\ fdOf[i] = e.fd
      BY <3>1 DEF RegInv, R!TypeOK, R!Contexts, NoOtherContext
    <3> HIDE DEF i
    <3>3. i # 0 => ctx[e.fd] = [id |-> i, handler |-> 1, added |-> events[i]]
      BY <3>2 DEF RegInv, OwnContext
    <3> QED  BY <3>3 DEF i
  <2>3. failed' = {}
    BY <1>0, <2>1, <2>2
  <2>4. batch' \in SUBSET [fd : Fds, file : R!Ids] /\ BatchCurrent'
    BY <2>1 DEF RegInv, R!TypeOK, BatchCurrent
  <2> QED  BY ZenonT(40), <2>1, <2>3, <2>4 DEF RegInv, R!TypeOK, OwnContext, NoOtherContext, Known, FilesKnown, NotYetMade, RemovalsOnce
<1> QED  BY ZenonT(40), <1>1, <1>2, <1>3, <1>4, <1>5, <1>6, <1>7, <1>8, <1>9 DEF R!Next

(* For any descriptors and any number of channels made on the loop's       *)
(* thread with setGuard(), destroyed on any thread: no assertion of        *)
(* setIoHandler(), updateIo() or removeIo() fails, no epoll_ctl() throws,  *)
(* and no event that is still in the batch reaches the next channel of its *)
(* descriptor.                                                             *)
THEOREM GuardKeepsApart == IoSpec => []GuardedIsSafe
<1>1. IoInit => RegInv
  BY RegInit
<1>2. RegInv /\ [IoNext]_ioVars => RegInv'
  <2> SUFFICES ASSUME RegInv, [IoNext]_ioVars PROVE RegInv'
    OBVIOUS
  <2>1. CASE R!Next
    BY <2>1, RegStep
  <2>2. CASE UNCHANGED rVars
    BY ZenonT(40), <2>2 DEF rVars, RegInv, R!TypeOK, OwnContext, NoOtherContext, Known, FilesKnown,
                NotYetMade, RemovalsOnce, BatchCurrent
  <2> QED  BY <2>1, <2>2 DEF IoNext, RegistryRests, ioVars
<1>3. RegInv => GuardedIsSafe
  BY DEF RegInv, GuardedIsSafe, R!UpdatesSucceed, R!RemoveFindsContext, R!EventsReachTheirOwn,
         BatchCurrent
<1> QED  BY <1>1, <1>2, <1>3, PTL DEF IoSpec
-------------------------------------------------------------------------------
(* The channel. *)

Dirs == {"read", "write"}

Distinct(s) == \A i, j \in 1..Len(s) : s[i] = s[j] => i = j

Queued(d, s) == \E k \in 1..Len(s) : s[k] = d

(* Who waits where: WaitersAccounted, without the counting. *)
LineInv ==
    /\ Distinct(ready)
    /\ \A d \in Dirs : /\ waiter[d] = 1 <=> pc[d] = "suspended"
                       /\ Queued(d, ready) <=> pc[d] \in {"switching", "scheduled"}
                       /\ canceled[d] = 1 => pc[d] = "scheduled"

Readable == inq > 0 \/ fin = 1 \/ err # "none"
Writable == outq < SendMax \/ err # "none"

(* A writer that is past its wait, or will be when it is resumed. *)
WriterPasses ==
    \/ pc["write"] = "call"
    \/ pc["write"] = "loop" /\ wait["write"] = 0
    \/ pc["write"] = "scheduled" /\ canceled["write"] = 0

(* A flag that is down is down because the socket was seen to have         *)
(* nothing, with the event enabled, so what comes later leaves its edge.   *)
EdgeInv ==
    /\ "in" \in interest
    /\ errored = 1 => err # "none"
    /\ \A d \in Dirs : waiter[d] = 1 => avail[d] = 0 /\ errored = 0
    /\ avail["read"] = 0 /\ Readable => armed = 1
    /\ avail["write"] = 0 /\ errored = 0 => "out" \in interest /\ (Writable => armed = 1)
    /\ WriterPasses => avail["write"] = 1 \/ errored = 1
    /\ pc["write"] = "switching" => wait["write"] = 1

ChanInv == C!TypeOK /\ LineInv /\ EdgeInv
-----------------------------------------------------------------------------
LEMMA ChanInit == IoInit => ChanInv
<1> SUFFICES ASSUME IoInit PROVE ChanInv
  OBVIOUS
<1> USE IoAssumption DEF IoInit, C!Init
<1>1. C!TypeOK
  BY DEF C!TypeOK, C!Dirs
<1>2. LineInv
  BY DEF LineInv, Distinct, Queued, Dirs, C!Dirs
<1>3. EdgeInv
  BY DEF EdgeInv, Readable, WriterPasses, Dirs, C!Dirs
<1> QED  BY <1>1, <1>2, <1>3 DEF ChanInv

LEMMA AppendLine ==
    ASSUME NEW s \in Seq(Dirs), Distinct(s), NEW e \in Dirs, ~Queued(e, s)
    PROVE  /\ Append(s, e) \in Seq(Dirs)
           /\ Distinct(Append(s, e))
           /\ \A d \in Dirs : Queued(d, Append(s, e)) <=> Queued(d, s) \/ d = e
<1>1. /\ Append(s, e) \in Seq(Dirs) /\ Len(Append(s, e)) = Len(s) + 1 /\ Len(s) \in Nat
      /\ \A k \in 1..Len(s) : Append(s, e)[k] = s[k]
      /\ Append(s, e)[Len(s) + 1] = e
  OBVIOUS
<1>2. Distinct(Append(s, e))
  BY <1>1 DEF Distinct, Queued
<1>3. ASSUME NEW d \in Dirs PROVE Queued(d, Append(s, e)) <=> Queued(d, s) \/ d = e
  BY <1>1 DEF Queued
<1> QED  BY <1>1, <1>2, <1>3

LEMMA JoinLines ==
    ASSUME NEW s \in Seq(Dirs), Distinct(s), NEW t \in Seq(Dirs), Distinct(t),
           \A d \in Dirs : ~(Queued(d, s) /\ Queued(d, t))
    PROVE  /\ s \o t \in Seq(Dirs)
           /\ Distinct(s \o t)
           /\ \A d \in Dirs : Queued(d, s \o t) <=> Queued(d, s) \/ Queued(d, t)
<1> DEFINE u == s \o t
<1>1. /\ u \in Seq(Dirs) /\ Len(u) = Len(s) + Len(t) /\ Len(s) \in Nat /\ Len(t) \in Nat
      /\ \A k \in 1..Len(s) : u[k] = s[k] /\ k \in 1..Len(u)
      /\ \A k \in 1..Len(t) : u[Len(s) + k] = t[k] /\ Len(s) + k \in 1..Len(u)
  OBVIOUS
<1> HIDE DEF u
<1>2. ASSUME NEW k \in 1..Len(u)
      PROVE  \/ k \in 1..Len(s) /\ u[k] = s[k]
             \/ k - Len(s) \in 1..Len(t) /\ u[k] = t[k - Len(s)]
  <2>1. CASE k <= Len(s)  BY <1>1, <2>1
  <2>2. CASE k > Len(s)
    <3>1. k - Len(s) \in 1..Len(t) /\ Len(s) + (k - Len(s)) = k
      BY <1>1, <2>2
    <3> QED  BY ZenonT(40), <1>1, <3>1
  <2> QED  BY <1>1, <2>1, <2>2
<1>3. Distinct(u)
  <2> SUFFICES ASSUME NEW i \in 1..Len(u), NEW k \in 1..Len(u), u[i] = u[k] PROVE i = k
    BY DEF Distinct
  <2>1. u[i] \in Dirs
    BY <1>1
  <2>2. CASE i \in 1..Len(s) /\ u[i] = s[i] /\ k \in 1..Len(s) /\ u[k] = s[k]
    BY ZenonT(40), <2>2 DEF Distinct
  <2>3. CASE /\ i - Len(s) \in 1..Len(t) /\ u[i] = t[i - Len(s)]
             /\ k - Len(s) \in 1..Len(t) /\ u[k] = t[k - Len(s)]
    <3>1. i - Len(s) = k - Len(s)
      BY ZenonT(40), <2>3 DEF Distinct
    <3> QED  BY <1>1, <3>1
  <2>4. CASE i \in 1..Len(s) /\ u[i] = s[i] /\ k - Len(s) \in 1..Len(t) /\ u[k] = t[k - Len(s)]
    BY ZenonT(40), <2>1, <2>4 DEF Queued
  <2>5. CASE k \in 1..Len(s) /\ u[k] = s[k] /\ i - Len(s) \in 1..Len(t) /\ u[i] = t[i - Len(s)]
    BY ZenonT(40), <2>1, <2>5 DEF Queued
  <2> QED  BY ZenonT(40), <1>2, <2>2, <2>3, <2>4, <2>5
<1>4. ASSUME NEW d \in Dirs PROVE Queued(d, u) <=> Queued(d, s) \/ Queued(d, t)
  <2>1. Queued(d, u) => Queued(d, s) \/ Queued(d, t)
    BY ZenonT(40), <1>2 DEF Queued
  <2>2. Queued(d, s) => Queued(d, u)
    BY <1>1 DEF Queued
  <2>3. Queued(d, t) => Queued(d, u)
    BY ZenonT(40), <1>1 DEF Queued
  <2> QED  BY <2>1, <2>2, <2>3
<1> QED  BY <1>1, <1>3, <1>4 DEF u

LEMMA SlotLine ==
    ASSUME NEW e \in Dirs, NEW ds
    PROVE  /\ C!Slot(e, ds) \in Seq(Dirs) /\ Distinct(C!Slot(e, ds))
           /\ \A d \in Dirs : Queued(d, C!Slot(e, ds)) <=> d = e /\ e \in ds /\ waiter[e] = 1
<1>1. CASE e \in ds /\ waiter[e] = 1
  <2>1. C!Slot(e, ds) = <<e>>
    BY <1>1 DEF C!Slot
  <2>2. <<e>> \in Seq(Dirs) /\ Len(<<e>>) = 1 /\ <<e>>[1] = e
    OBVIOUS
  <2> QED  BY <1>1, <2>1, <2>2 DEF Distinct, Queued
<1>2. CASE ~(e \in ds /\ waiter[e] = 1)
  <2>1. C!Slot(e, ds) = <<>>
    BY <1>2 DEF C!Slot
  <2> QED  BY <1>2, <2>1 DEF Distinct, Queued
<1> QED  BY ZenonT(40), <1>1, <1>2

(* What the wake-up of the directions in ds does to the ready queue. *)
LEMMA WakeLines ==
    ASSUME C!TypeOK, LineInv, NEW ds \in SUBSET Dirs, C!Wake(ds)
    PROVE  /\ ready' \in Seq(Dirs)
           /\ Distinct(ready')
           /\ \A d \in Dirs : Queued(d, ready') <=>
                                 Queued(d, ready) \/ (d \in ds /\ waiter[d] = 1)
<1>1. ready \in Seq(Dirs) /\ Distinct(ready) /\ "read" \in Dirs /\ "write" \in Dirs
  BY ZenonT(40) DEF C!TypeOK, C!Dirs, Dirs, LineInv
<1>2. \A d \in Dirs : waiter[d] = 1 => ~Queued(d, ready)
  BY DEF LineInv
<1> DEFINE t == C!Slot("read", ds) \o C!Slot("write", ds)
<1>3. ready' = ready \o t
  BY DEF C!Wake, C!Woken
<1>4. /\ t \in Seq(Dirs) /\ Distinct(t)
      /\ \A d \in Dirs : Queued(d, t) <=> Queued(d, C!Slot("read", ds)) \/ Queued(d, C!Slot("write", ds))
  BY <1>1, SlotLine, JoinLines
<1>5. \A d \in Dirs : Queued(d, t) <=> d \in ds /\ waiter[d] = 1
  BY <1>1, <1>4, SlotLine DEF Dirs
<1> HIDE DEF t
<1> QED  BY ZenonT(40), <1>1, <1>2, <1>3, <1>4, <1>5, JoinLines

LEMMA TailLine ==
    ASSUME NEW s \in Seq(Dirs), Distinct(s), s # <<>>
    PROVE  /\ Tail(s) \in Seq(Dirs) /\ s[1] \in Dirs
           /\ Distinct(Tail(s))
           /\ \A d \in Dirs : Queued(d, Tail(s)) <=> Queued(d, s) /\ d # s[1]
<1>1. /\ Tail(s) \in Seq(Dirs) /\ Len(Tail(s)) = Len(s) - 1 /\ Len(s) \in Nat \ {0}
      /\ \A k \in 1..Len(Tail(s)) : Tail(s)[k] = s[k + 1]
      /\ s[1] \in Dirs
  OBVIOUS
<1>2. Distinct(Tail(s))
  <2> SUFFICES ASSUME NEW i \in 1..Len(Tail(s)), NEW j \in 1..Len(Tail(s)),
                      Tail(s)[i] = Tail(s)[j]
               PROVE  i = j
    BY DEF Distinct
  <2>1. i + 1 \in 1..Len(s) /\ j + 1 \in 1..Len(s) /\ s[i + 1] = s[j + 1]
    BY <1>1
  <2>2. i + 1 = j + 1
    BY <2>1 DEF Distinct
  <2> QED  BY <2>2
<1>3. ASSUME NEW d \in Dirs PROVE Queued(d, Tail(s)) <=> Queued(d, s) /\ d # s[1]
  <2>1. ASSUME Queued(d, Tail(s)) PROVE Queued(d, s) /\ d # s[1]
    <3>1. PICK k \in 1..Len(Tail(s)) : Tail(s)[k] = d
      BY <2>1 DEF Queued
    <3>2. k + 1 \in 1..Len(s) /\ s[k + 1] = d /\ 1 \in 1..Len(s) /\ k + 1 # 1
      BY <1>1, <3>1
    <3> QED  BY <3>2 DEF Queued, Distinct
  <2>2. ASSUME Queued(d, s), d # s[1] PROVE Queued(d, Tail(s))
    <3>1. PICK k \in 1..Len(s) : s[k] = d
      BY <2>2 DEF Queued
    <3>2. k - 1 \in 1..Len(Tail(s)) /\ Tail(s)[k - 1] = d
      BY <1>1, <2>2, <3>1
    <3> QED  BY ZenonT(40), <3>2 DEF Queued
  <2> QED  BY <2>1, <2>2
<1> QED  BY <1>1, <1>2, <1>3
-----------------------------------------------------------------------------
LEMMA WakeType ==
    ASSUME C!TypeOK, LineInv, NEW ds \in SUBSET Dirs, C!Wake(ds), running = "nobody"
    PROVE  /\ ready' \in Seq(Dirs)
           /\ waiter' \in [Dirs -> 0..1]
           /\ pc' \in [Dirs -> {"idle", "switching", "loop", "call", "suspended", "scheduled"}]
           /\ \A d \in Dirs : pc'[d] \notin {"loop", "call"}
<1>1. ready' \in Seq(Dirs)
  BY WakeLines
<1> QED  BY <1>1 DEF C!Wake, C!TypeOK, C!Dirs, Dirs

LEMMA EpollType ==
    ASSUME C!TypeOK, C!EnableWriting \/ C!DisableWriting \/ UNCHANGED C!epoll
    PROVE  interest' \in SUBSET {"in", "out"} /\ armed' \in 0..1 /\ mode' = mode
<1>1. interest \in SUBSET {"in", "out"} /\ armed \in 0..1
  BY DEF C!TypeOK
<1>2. CASE UNCHANGED C!epoll
  BY <1>1, <1>2 DEF C!epoll
<1>3. ASSUME NEW wanted, C!UpdateIo(wanted)
      PROVE  interest' = wanted /\ armed' \in 0..1 /\ mode' = mode
  <2>1. interest' = wanted /\ mode' = mode
    BY ZenonT(40), <1>3 DEF C!UpdateIo
  <2>2. armed' = IF wanted = {} THEN 0 ELSE IF C!Revents(wanted) # {} THEN 1 ELSE armed
    BY <1>3 DEF C!UpdateIo
  <2> QED  BY <1>1, <2>1, <2>2
<1>4. CASE C!EnableWriting
  <2>1. UNCHANGED C!epoll \/ C!UpdateIo(interest \cup {"out"})
    BY <1>4 DEF C!EnableWriting
  <2>2. interest \cup {"out"} \in SUBSET {"in", "out"}
    BY <1>1
  <2> QED  BY ZenonT(40), <1>2, <1>3, <2>1, <2>2
<1>5. CASE C!DisableWriting
  <2>1. UNCHANGED C!epoll \/ C!UpdateIo(interest \ {"out"})
    BY <1>5 DEF C!DisableWriting
  <2>2. interest \ {"out"} \in SUBSET {"in", "out"}
    BY <1>1
  <2> QED  BY ZenonT(40), <1>2, <1>3, <2>1, <2>2
<1> QED  BY ZenonT(40), <1>2, <1>4, <1>5

LEMMA TypeStep == C!TypeOK /\ LineInv /\ C!Next => C!TypeOK'
<1> SUFFICES ASSUME C!TypeOK, LineInv, C!Next PROVE C!TypeOK'
  OBVIOUS
<1>0. C!Dirs = Dirs
  BY ZenonT(40) DEF C!Dirs, Dirs
<1> USE IoAssumption
<1>1. CASE C!Kernel
  <2> USE DEF C!Arm, C!flags, C!ops, C!TypeOK
  <2>1. CASE C!DataArrives  BY <2>1 DEF C!DataArrives
  <2>2. CASE C!FinArrives  BY <2>2 DEF C!FinArrives
  <2>3. CASE C!ResetArrives  BY <2>3 DEF C!ResetArrives
  <2>4. CASE C!Drain  BY <2>4 DEF C!Drain
  <2> QED  BY ZenonT(40), <1>1, <2>1, <2>2, <2>3, <2>4 DEF C!Kernel
<1>2. CASE C!PollEvents
  <2>1. PICK ds \in SUBSET Dirs : C!Wake(ds)
    BY <1>2, <1>0 DEF C!PollEvents, C!HandleIoEvents, Dirs
  <2>2. /\ ready' \in Seq(Dirs)
        /\ waiter' \in [Dirs -> 0..1]
        /\ pc' \in [Dirs -> {"idle", "switching", "loop", "call", "suspended", "scheduled"}]
        /\ \A d \in Dirs : pc'[d] \notin {"loop", "call"}
    BY ZenonT(40), <1>2, <2>1, WakeType DEF C!PollEvents
  <2>3. avail' \in [Dirs -> 0..1] /\ errored' \in 0..1
    BY <1>2 DEF C!PollEvents, C!HandleIoEvents, C!TypeOK, C!Dirs, Dirs
  <2> QED  BY <1>2, <1>0, <2>2, <2>3 DEF C!PollEvents, C!HandleIoEvents, C!socket, C!TypeOK, Dirs
<1>3. ASSUME NEW ds \in SUBSET Dirs, C!Cancel(ds) PROVE C!TypeOK'
  <2>1. /\ ready' \in Seq(Dirs)
        /\ waiter' \in [Dirs -> 0..1]
        /\ pc' \in [Dirs -> {"idle", "switching", "loop", "call", "suspended", "scheduled"}]
        /\ \A d \in Dirs : pc'[d] \notin {"loop", "call"}
    BY ZenonT(40), <1>3, WakeType DEF C!Cancel
  <2> QED  BY ZenonT(40), <1>3, <1>0, <2>1 DEF C!Cancel, C!socket, C!epoll, C!TypeOK, Dirs
<1>4. ASSUME NEW d \in Dirs, C!Start(d) PROVE C!TypeOK'
  BY <1>4 DEF C!Start, C!Begin, C!socket, C!epoll, C!flags, C!TypeOK, C!Dirs, Dirs
<1>5. ASSUME NEW d \in Dirs, C!StartElsewhere(d) PROVE C!TypeOK'
  BY <1>5 DEF C!StartElsewhere, C!Begin, C!socket, C!epoll, C!flags, C!TypeOK, C!Dirs, Dirs
<1>6. ASSUME NEW d \in Dirs, C!Await(d) PROVE C!TypeOK'
  BY <1>6 DEF C!Await, C!socket, C!epoll, C!TypeOK, C!Dirs, Dirs
<1>7. ASSUME NEW d \in Dirs, C!Interrupted(d) PROVE C!TypeOK'
  BY <1>7 DEF C!Interrupted, C!Calls, C!Retry, C!socket, C!epoll, C!flags, C!TypeOK, C!Dirs, Dirs
<1>8. CASE C!Resume
  <2>1. Tail(ready) \in Seq(Dirs) /\ ready[1] \in Dirs /\ Queued(ready[1], ready)
    <3>1. ready \in Seq(Dirs) /\ ready # <<>> /\ Distinct(ready)
      BY <1>8 DEF C!Resume, C!TypeOK, C!Dirs, Dirs, LineInv
    <3>2. Queued(ready[1], ready)
      BY <3>1 DEF Queued
    <3> QED  BY ZenonT(40), <3>1, <3>2, TailLine
  <2>2. pc[ready[1]] \in {"switching", "scheduled"}
    BY ZenonT(40), <2>1 DEF LineInv
  <2> QED  BY <1>8, <1>0, <2>1, <2>2 DEF C!Resume, C!Return, C!socket, C!epoll, C!TypeOK, C!Dirs, Dirs
<1>9. CASE C!CallRead
  BY <1>9 DEF C!CallRead, C!Calls, C!Return, C!Need, C!epoll, C!TypeOK, C!Dirs
<1>10. CASE C!CallWriteNothing
  BY <1>10 DEF C!CallWriteNothing, C!Calls, C!Return, C!socket, C!epoll, C!flags, C!TypeOK, C!Dirs
<1>11. CASE C!CallWriteSome
  <2>1. PICK n \in 1..(SendMax - outq) :
           /\ n <= todo
           /\ outq' = outq + n
           /\ \/ n = todo /\ C!DisableWriting /\ C!Return("write", "Success")
              \/ n < todo /\ todo' = todo - n /\ C!Retry("write") /\ UNCHANGED C!epoll
    BY <1>11 DEF C!CallWriteSome
  <2>2. outq' \in 0..SendMax /\ n \in Nat \ {0} /\ todo \in 0..WriteMax
    BY <2>1 DEF C!TypeOK
  <2>5. interest' \in SUBSET {"in", "out"} /\ armed' \in 0..1 /\ mode' = mode
    BY ZenonT(40), <2>1, EpollType
  <2>3. /\ todo' \in 0..WriteMax
        /\ wait' \in [Dirs -> 0..1]
        /\ result' \in [Dirs -> {"none", "Success", "Eof", "Error", "Canceled"}]
        /\ \/ pc' = [pc EXCEPT !["write"] = "idle"] /\ running' = "nobody"
           \/ pc' = [pc EXCEPT !["write"] = "loop"] /\ running' = running
    <3>1. wait \in [Dirs -> 0..1] /\ result \in [Dirs -> {"none", "Success", "Eof", "Error", "Canceled"}]
      BY <1>0 DEF C!TypeOK
    <3>2. CASE C!Return("write", "Success")
      <4>1. /\ wait' = [wait EXCEPT !["write"] = 0] /\ todo' = 0
            /\ result' = [result EXCEPT !["write"] = "Success"]
            /\ pc' = [pc EXCEPT !["write"] = "idle"] /\ running' = "nobody"
        BY <3>2 DEF C!Return
      <4>2. wait' \in [Dirs -> 0..1] /\ todo' \in 0..WriteMax
        BY <3>1, <4>1 DEF Dirs
      <4>3. result' \in [Dirs -> {"none", "Success", "Eof", "Error", "Canceled"}]
        BY ZenonT(40), <3>1, <4>1
      <4> QED  BY ZenonT(40), <4>1, <4>2, <4>3
    <3>3. CASE n < todo /\ todo' = todo - n /\ C!Retry("write")
      <4>1. /\ wait' = [wait EXCEPT !["write"] = 0] /\ result' = result
            /\ pc' = [pc EXCEPT !["write"] = "loop"] /\ running' = running
        BY <3>3 DEF C!Retry
      <4>2. wait' \in [Dirs -> 0..1]
        BY <3>1, <4>1 DEF Dirs
      <4>3. todo' \in 0..WriteMax
        BY <2>2, <3>3
      <4> QED  BY ZenonT(40), <3>1, <4>1, <4>2, <4>3
    <3> QED  BY ZenonT(40), <2>1, <3>2, <3>3
  <2>4. running = "write" /\ UNCHANGED <<inq, fin, err, C!flags, ready>>
    BY ZenonT(40), <1>11 DEF C!CallWriteSome, C!Calls
  <2> QED  BY <1>0, <2>2, <2>3, <2>4, <2>5 DEF C!flags, C!TypeOK, Dirs
<1>12. CASE C!CallWriteFull
  <2>1. interest' \in SUBSET {"in", "out"} /\ armed' \in 0..1 /\ mode' = mode
    BY ZenonT(40), <1>12, EpollType DEF C!CallWriteFull
  <2> QED  BY <1>12, <2>1 DEF C!CallWriteFull, C!Calls, C!Need, C!socket, C!TypeOK, C!Dirs
<1>13. CASE C!CallWriteFails
  BY <1>13 DEF C!CallWriteFails, C!Calls, C!Return, C!epoll, C!flags, C!TypeOK, C!Dirs
<1> QED
  BY ZenonT(40), <1>0, <1>1, <1>2, <1>3, <1>4, <1>5, <1>6, <1>7, <1>8, <1>9, <1>10, <1>11, <1>12, <1>13
     DEF C!Next, C!CallWrite

(* An operation that has the thread is neither in a slot nor queued. *)
LEMMA LineStep == C!TypeOK /\ LineInv /\ C!Next => LineInv'
<1> SUFFICES ASSUME C!TypeOK, LineInv, C!Next PROVE LineInv'
  OBVIOUS
<1>0. C!Dirs = Dirs
  BY DEF C!Dirs, Dirs
<1>a. ready \in Seq(Dirs) /\ Distinct(ready)
  BY ZenonT(40), <1>0 DEF C!TypeOK, LineInv
<1>b. ASSUME NEW ds \in SUBSET Dirs, C!Wake(ds), running = "nobody",
             \A d \in Dirs : canceled'[d] = 1 => canceled[d] = 1 \/ (d \in ds /\ waiter[d] = 1)
      PROVE  LineInv'
  <2>1. /\ Distinct(ready')
        /\ \A d \in Dirs : Queued(d, ready') <=>
                              Queued(d, ready) \/ (d \in ds /\ waiter[d] = 1)
    BY ZenonT(40), <1>b, WakeLines
  <2>2. ASSUME NEW d \in Dirs
        PROVE  /\ waiter'[d] = IF d \in ds THEN 0 ELSE waiter[d]
               /\ pc'[d] = IF d \in ds /\ waiter[d] = 1 THEN "scheduled" ELSE pc[d]
               /\ waiter[d] \in 0..1
    BY ZenonT(40), <1>b, <1>0 DEF C!Wake, C!TypeOK
  <2>3. ASSUME NEW d \in Dirs
        PROVE  /\ waiter'[d] = 1 <=> pc'[d] = "suspended"
               /\ Queued(d, ready') <=> pc'[d] \in {"switching", "scheduled"}
               /\ canceled'[d] = 1 => pc'[d] = "scheduled"
    BY <1>b, <2>1, <2>2 DEF LineInv
  <2> QED  BY ZenonT(40), <2>1, <2>3 DEF LineInv
<1>c. ASSUME UNCHANGED ready, UNCHANGED <<waiter, canceled>>, NEW d \in Dirs, NEW p,
             pc' = [pc EXCEPT ![d] = p], p \in {"idle", "loop", "call"},
             pc[d] \in {"idle", "loop", "call"}
      PROVE  LineInv'
  BY ZenonT(40), <1>0, <1>c DEF LineInv, C!TypeOK
<1>1. CASE C!Kernel
  BY ZenonT(40), <1>1 DEF C!Kernel, C!DataArrives, C!FinArrives, C!ResetArrives, C!Drain,
              C!flags, C!ops, LineInv
<1>2. CASE C!PollEvents
  <2>1. PICK ds \in SUBSET Dirs : C!Wake(ds)
    BY ZenonT(40), <1>2, <1>0 DEF C!PollEvents, C!HandleIoEvents, Dirs
  <2> QED  BY ZenonT(40), <1>b, <1>2, <2>1 DEF C!PollEvents, C!HandleIoEvents
<1>3. ASSUME NEW ds \in SUBSET Dirs, C!Cancel(ds) PROVE LineInv'
  <2>1. \A d \in Dirs : canceled'[d] = 1 => canceled[d] = 1 \/ (d \in ds /\ waiter[d] = 1)
    BY <1>3, <1>0 DEF C!Cancel
  <2> QED  BY ZenonT(40), <1>b, <1>3, <2>1 DEF C!Cancel
<1>4. ASSUME NEW d \in Dirs, C!Start(d) PROVE LineInv'
  BY ZenonT(40), <1>4, <1>c DEF C!Start, C!Begin, C!flags
<1>5. ASSUME NEW d \in Dirs, C!StartElsewhere(d) PROVE LineInv'
  <2>1. /\ pc[d] = "idle" /\ pc' = [pc EXCEPT ![d] = "switching"]
        /\ ready' = Append(ready, d) /\ UNCHANGED <<waiter, canceled>>
    BY ZenonT(40), <1>5 DEF C!StartElsewhere, C!Begin, C!flags
  <2>2. ~Queued(d, ready)
    BY ZenonT(40), <2>1 DEF LineInv
  <2>3. /\ Distinct(ready')
        /\ \A e \in Dirs : Queued(e, ready') <=> Queued(e, ready) \/ e = d
    BY ZenonT(40), <1>a, <2>1, <2>2, AppendLine
  <2>4. ASSUME NEW e \in Dirs
        PROVE  /\ waiter'[e] = 1 <=> pc'[e] = "suspended"
               /\ Queued(e, ready') <=> pc'[e] \in {"switching", "scheduled"}
               /\ canceled'[e] = 1 => pc'[e] = "scheduled"
    <3>1. pc'[e] = IF e = d THEN "switching" ELSE pc[e]
      BY ZenonT(40), <1>0, <2>1 DEF C!TypeOK
    <3> QED  BY <2>1, <2>3, <3>1 DEF LineInv
  <2> QED  BY <2>3, <2>4 DEF LineInv
<1>6. ASSUME NEW d \in Dirs, C!Await(d) PROVE LineInv'
  <2>1. CASE wait[d] = 1 /\ avail[d] = 0 /\ errored = 0
    BY SMTT(40), <1>0, <1>6, <2>1 DEF C!Await, LineInv, C!TypeOK
  <2>2. CASE ~(wait[d] = 1 /\ avail[d] = 0 /\ errored = 0)
    BY ZenonT(40), <1>c, <1>6, <2>2 DEF C!Await
  <2> QED  BY ZenonT(40), <2>1, <2>2
<1>7. ASSUME NEW d \in Dirs, C!Interrupted(d) PROVE LineInv'
  BY ZenonT(40), <1>7, <1>c DEF C!Interrupted, C!Calls, C!Retry, C!flags
<1>8. CASE C!Resume
  <2> DEFINE d == ready[1]
  <2>1. /\ d \in Dirs /\ Distinct(Tail(ready)) /\ Queued(d, ready)
        /\ \A e \in Dirs : Queued(e, Tail(ready)) <=> Queued(e, ready) /\ e # d
    <3>1. ready # <<>>
      BY <1>8 DEF C!Resume
    <3>2. Queued(ready[1], ready)
      BY <1>a, <3>1 DEF Queued
    <3> QED  BY ZenonT(40), <1>a, <3>1, <3>2, TailLine
  <2>2. pc[d] \in {"switching", "scheduled"}
    BY <2>1 DEF LineInv
  <2>3. ready' = Tail(ready) /\ UNCHANGED waiter
    BY ZenonT(40), <1>8 DEF C!Resume
  <2>4. /\ pc'[d] \in {"idle", "loop", "call"} /\ canceled'[d] # 1
        /\ \A e \in Dirs \ {d} : pc'[e] = pc[e] /\ canceled'[e] = canceled[e]
    <3>1. CASE pc[d] = "scheduled" /\ canceled[d] = 1
      BY <1>0, <1>8, <2>1, <3>1 DEF C!Resume, C!Return, C!TypeOK
    <3>2. CASE ~(pc[d] = "scheduled" /\ canceled[d] = 1)
      <4>1. canceled[d] # 1
        BY ZenonT(40), <2>1, <2>2, <3>2 DEF LineInv
      <4>2. /\ pc' = [pc EXCEPT ![d] = IF pc[d] = "switching" THEN "loop" ELSE "call"]
            /\ UNCHANGED canceled
        BY ZenonT(40), <1>8, <3>2 DEF C!Resume
      <4>3. pc \in [Dirs -> {"idle", "switching", "loop", "call", "suspended", "scheduled"}]
        BY ZenonT(40), <1>0 DEF C!TypeOK
      <4> QED  BY ZenonT(40), <2>1, <4>1, <4>2, <4>3
    <3> QED  BY ZenonT(40), <3>1, <3>2
  <2> HIDE DEF d
  <2>5. ASSUME NEW e \in Dirs
        PROVE  /\ waiter'[e] = 1 <=> pc'[e] = "suspended"
               /\ Queued(e, ready') <=> pc'[e] \in {"switching", "scheduled"}
               /\ canceled'[e] = 1 => pc'[e] = "scheduled"
    BY ZenonT(40), <2>1, <2>2, <2>3, <2>4 DEF LineInv
  <2> QED  BY ZenonT(40), <2>1, <2>3, <2>5 DEF LineInv
<1>9. CASE C!CallRead
  BY <1>9, <1>c DEF C!CallRead, C!Calls, C!Return, C!Need, Dirs
<1>10. CASE C!CallWrite
  <2>1. /\ pc["write"] = "call" /\ UNCHANGED <<ready, waiter, canceled>>
        /\ pc' \in {[pc EXCEPT !["write"] = "idle"], [pc EXCEPT !["write"] = "loop"]}
    BY ZenonT(40), <1>10 DEF C!CallWrite, C!CallWriteNothing, C!CallWriteSome, C!CallWriteFull,
                 C!CallWriteFails, C!Calls, C!Return, C!Need, C!Retry, C!flags
  <2> QED  BY ZenonT(40), <1>c, <2>1 DEF Dirs
<1> QED
  BY ZenonT(40), <1>0, <1>1, <1>2, <1>3, <1>4, <1>5, <1>6, <1>7, <1>8, <1>9, <1>10 DEF C!Next
-----------------------------------------------------------------------------
(* What epoll reports, event by event. *)
LEMMA ReventsAre ==
    ASSUME NEW wanted, "in" \in wanted
    PROVE  /\ "in" \in C!Revents(wanted) <=> Readable
           /\ "out" \in C!Revents(wanted) <=> "out" \in wanted /\ Writable
           /\ "err" \in C!Revents(wanted) <=> err = "pending"
           /\ "hup" \in C!Revents(wanted) => err # "none"
<1>1. wanted # {}
  OBVIOUS
<1> QED  BY <1>1 DEF C!Revents, Readable, Writable

(* While interest has "in", changing it never disarms the socket. *)
LEMMA StaysArmed ==
    ASSUME C!TypeOK, "in" \in interest,
           C!EnableWriting \/ C!DisableWriting \/ UNCHANGED C!epoll
    PROVE  "in" \in interest' /\ (armed = 1 => armed' = 1)
<1>1. ASSUME NEW wanted, "in" \in wanted, C!UpdateIo(wanted)
      PROVE  "in" \in interest' /\ (armed = 1 => armed' = 1)
  <2>1. interest' = wanted /\ wanted # {}
    BY <1>1 DEF C!UpdateIo
  <2>2. armed' = 1 \/ armed' = armed
    BY ZenonT(40), <1>1, <2>1 DEF C!UpdateIo
  <2> QED  BY ZenonT(40), <1>1, <2>1, <2>2
<1>2. CASE C!EnableWriting
  <2>1. UNCHANGED C!epoll \/ C!UpdateIo(interest \cup {"out"})
    BY <1>2 DEF C!EnableWriting
  <2> QED  BY ZenonT(40), <1>1, <2>1 DEF C!epoll
<1>3. CASE C!DisableWriting
  <2>1. UNCHANGED C!epoll \/ C!UpdateIo(interest \ {"out"})
    BY <1>3 DEF C!DisableWriting
  <2> QED  BY <1>1, <2>1 DEF C!epoll
<1> QED  BY ZenonT(40), <1>2, <1>3 DEF C!epoll

LEMMA EdgeStep == ChanInv /\ C!Next => EdgeInv'
<1> SUFFICES ASSUME C!TypeOK, LineInv, EdgeInv, C!Next PROVE EdgeInv'
  BY DEF ChanInv
<1>0. C!Dirs = Dirs
  BY DEF C!Dirs, Dirs
<1>t. /\ DOMAIN pc = {"read", "write"} /\ DOMAIN wait = {"read", "write"}
      /\ DOMAIN avail = {"read", "write"} /\ DOMAIN canceled = {"read", "write"}
  BY <1>0 DEF C!TypeOK, Dirs
<1>1. CASE C!Kernel
  <2>0. UNCHANGED <<interest, C!flags, C!ops>>
    BY ZenonT(40), <1>1 DEF C!Kernel, C!DataArrives, C!FinArrives, C!ResetArrives, C!Drain
  <2>1. armed = 1 => armed' = 1
    BY <1>1 DEF C!Kernel, C!DataArrives, C!FinArrives, C!ResetArrives, C!Drain, C!Arm
  <2>2. err # "none" => err' # "none"
    BY <1>1 DEF C!Kernel, C!DataArrives, C!FinArrives, C!ResetArrives, C!Drain
  <2>3. "in" \in interest /\ interest # {}
    BY DEF EdgeInv
  <2>4. Readable' => Readable \/ armed' = 1
    BY ZenonT(40), <1>1, <2>3 DEF C!Kernel, C!DataArrives, C!FinArrives, C!ResetArrives, C!Drain, C!Arm, Readable
  <2>5. "out" \in interest /\ Writable' => Writable \/ armed' = 1
    <3>1. CASE C!DataArrives \/ C!FinArrives
      BY <3>1 DEF C!DataArrives, C!FinArrives, Writable
    <3>2. CASE C!ResetArrives
      BY <2>3, <3>2 DEF C!ResetArrives, C!Arm
    <3>3. CASE C!Drain /\ outq = SendMax
      BY ZenonT(40), <2>3, <3>3 DEF C!Drain, C!Arm
    <3>4. CASE C!Drain /\ outq # SendMax
      BY <3>4, IoAssumption DEF Writable, C!TypeOK
    <3> QED  BY ZenonT(40), <1>1, <3>1, <3>2, <3>3, <3>4 DEF C!Kernel
  <2> QED  BY ZenonT(40), <2>0, <2>1, <2>2, <2>4, <2>5 DEF EdgeInv, WriterPasses, C!flags, C!ops
<1>2. CASE C!PollEvents
  <2> DEFINE ev == C!Revents(interest)
  <2>1. /\ "in" \in ev <=> Readable
        /\ "out" \in ev <=> "out" \in interest /\ Writable
        /\ "err" \in ev <=> err = "pending"
        /\ "hup" \in ev => err # "none"
    BY ZenonT(40), ReventsAre DEF EdgeInv
  <2>2. UNCHANGED <<inq, outq, fin, err, interest, canceled, wait>>
    BY <1>2 DEF C!PollEvents, C!HandleIoEvents, C!socket
  <2>3. /\ errored' = IF "err" \in ev THEN 1 ELSE errored
        /\ avail' = [read |-> IF ev \cap {"in", "hup"} # {} THEN 1 ELSE avail["read"],
                     write |-> IF "out" \in ev THEN 1 ELSE avail["write"]]
        /\ C!Wake(IF "err" \in ev THEN Dirs
                  ELSE {d \in Dirs : \/ d = "read" /\ ev \cap {"in", "hup"} # {}
                                     \/ d = "write" /\ "out" \in ev})
    BY <1>0, <1>2 DEF C!PollEvents, C!HandleIoEvents
  <2> HIDE DEF ev
  <2>4. ev \cap {"in", "hup"} # {} <=> Readable
    BY <2>1 DEF Readable
  <2>5. /\ avail'["read"] = IF Readable THEN 1 ELSE avail["read"]
        /\ avail'["write"] = IF "out" \in interest /\ Writable THEN 1 ELSE avail["write"]
        /\ errored' = IF err = "pending" THEN 1 ELSE errored
    BY ZenonT(40), <2>1, <2>3, <2>4
  <2>6. /\ waiter'["read"] = IF err = "pending" \/ Readable THEN 0 ELSE waiter["read"]
        /\ waiter'["write"] = IF err = "pending" \/ ("out" \in interest /\ Writable)
                                THEN 0 ELSE waiter["write"]
        /\ pc'["write"] = IF (err = "pending" \/ ("out" \in interest /\ Writable)) /\ waiter["write"] = 1
                            THEN "scheduled" ELSE pc["write"]
    BY ZenonT(40), <1>0, <2>1, <2>3, <2>4 DEF C!Wake, Dirs
  <2>7. Readable' = Readable /\ Writable' = Writable
    BY <2>2 DEF Readable, Writable
  <2>8. /\ "in" \in interest'
        /\ errored' = 1 => err' # "none"
        /\ avail'["read"] = 0 /\ Readable' => armed' = 1
    BY <2>2, <2>5, <2>7 DEF EdgeInv
  <2>9. \A d \in Dirs : waiter'[d] = 1 => avail'[d] = 0 /\ errored' = 0
    BY <2>5, <2>6 DEF EdgeInv, Dirs
  <2>10. avail'["write"] = 0 /\ errored' = 0 => "out" \in interest' /\ (Writable' => armed' = 1)
    BY <2>2, <2>5, <2>7 DEF EdgeInv
  <2>11. /\ WriterPasses' => avail'["write"] = 1 \/ errored' = 1
         /\ pc'["write"] = "switching" => wait'["write"] = 1
    BY ZenonT(40), <2>2, <2>5, <2>6 DEF EdgeInv, WriterPasses
  <2> QED  BY ZenonT(40), <2>8, <2>9, <2>10, <2>11 DEF EdgeInv
<1>3. ASSUME NEW ds \in SUBSET Dirs, C!Cancel(ds) PROVE EdgeInv'
  <2>1. UNCHANGED <<inq, outq, fin, err, interest, armed, avail, errored, wait>>
    BY ZenonT(40), <1>3 DEF C!Cancel, C!socket, C!epoll
  <2>2. \A d \in Dirs : waiter'[d] = 1 => waiter[d] = 1
    <3>1. waiter' = [d \in Dirs |-> IF d \in ds THEN 0 ELSE waiter[d]]
      BY ZenonT(40), <1>0, <1>3 DEF C!Cancel, C!Wake
    <3> QED  BY <3>1
  <2>3. IF "write" \in ds /\ waiter["write"] = 1
          THEN pc'["write"] = "scheduled" /\ canceled'["write"] = 1
          ELSE pc'["write"] = pc["write"] /\ canceled'["write"] = canceled["write"]
    BY ZenonT(40), <1>0, <1>3 DEF C!Cancel, C!Wake, Dirs
  <2> QED  BY <2>1, <2>2, <2>3 DEF EdgeInv, WriterPasses, Readable, Writable
<1>4. ASSUME NEW d \in Dirs, C!Start(d) \/ C!StartElsewhere(d) PROVE EdgeInv'
  <2>1. /\ UNCHANGED <<inq, outq, fin, err, interest, armed, avail, errored, waiter, canceled>>
        /\ wait' = [wait EXCEPT ![d] = 1]
        /\ pc' \in {[pc EXCEPT ![d] = "loop"], [pc EXCEPT ![d] = "switching"]}
    BY ZenonT(40), <1>4 DEF C!Start, C!StartElsewhere, C!Begin, C!socket, C!epoll, C!flags
  <2> QED  BY <1>0, <2>1 DEF EdgeInv, WriterPasses, Readable, Writable, C!TypeOK, Dirs
<1>6. ASSUME NEW d \in Dirs, C!Await(d) PROVE EdgeInv'
  <2>1. /\ UNCHANGED <<inq, outq, fin, err, interest, armed, avail, errored, canceled, wait>>
        /\ pc[d] = "loop"
        /\ \/ /\ wait[d] = 1 /\ avail[d] = 0 /\ errored = 0
              /\ waiter' = [waiter EXCEPT ![d] = 1] /\ pc' = [pc EXCEPT ![d] = "suspended"]
           \/ /\ ~(wait[d] = 1 /\ avail[d] = 0 /\ errored = 0)
              /\ waiter' = waiter /\ pc' = [pc EXCEPT ![d] = "call"]
    BY SMTT(40), <1>6 DEF C!Await, C!socket, C!epoll
  <2> QED  BY <1>0, <2>1 DEF EdgeInv, WriterPasses, Readable, Writable, C!TypeOK, Dirs
<1>7. ASSUME NEW d \in Dirs, C!Interrupted(d) PROVE EdgeInv'
  <2>1. /\ UNCHANGED <<inq, outq, fin, err, interest, armed, avail, errored, waiter, canceled>>
        /\ pc[d] = "call" /\ wait' = [wait EXCEPT ![d] = 0] /\ pc' = [pc EXCEPT ![d] = "loop"]
    BY ZenonT(40), <1>7 DEF C!Interrupted, C!Calls, C!Retry, C!socket, C!epoll, C!flags
  <2> QED  BY <1>0, <2>1 DEF EdgeInv, WriterPasses, Readable, Writable, C!TypeOK, Dirs
<1>8. CASE C!Resume
  <2> DEFINE d == ready[1]
  <2>1. d \in Dirs /\ pc[d] \in {"switching", "scheduled"}
    <3>1. ready \in Seq(Dirs) /\ ready # <<>>
      BY ZenonT(40), <1>0, <1>8 DEF C!Resume, C!TypeOK
    <3>2. d \in Dirs /\ Queued(d, ready)
      BY <3>1 DEF Queued
    <3> QED  BY ZenonT(40), <3>2 DEF LineInv
  <2>2. /\ UNCHANGED <<inq, outq, fin, err, interest, armed, avail, errored, waiter>>
        /\ \/ /\ pc[d] = "scheduled" /\ canceled[d] = 1
              /\ canceled' = [canceled EXCEPT ![d] = 0] /\ pc' = [pc EXCEPT ![d] = "idle"]
              /\ wait' = [wait EXCEPT ![d] = 0]
           \/ /\ ~(pc[d] = "scheduled" /\ canceled[d] = 1) /\ UNCHANGED <<canceled, wait>>
              /\ pc' = [pc EXCEPT ![d] = IF pc[d] = "switching" THEN "loop" ELSE "call"]
    BY ZenonT(40), <1>8 DEF C!Resume, C!Return, C!socket, C!epoll
  <2> HIDE DEF d
  <2>3. \/ /\ pc'["write"] = pc["write"] /\ canceled'["write"] = canceled["write"]
           /\ wait'["write"] = wait["write"]
        \/ pc'["write"] = "idle"
        \/ pc["write"] = "switching" /\ pc'["write"] = "loop" /\ wait'["write"] = wait["write"]
        \/ pc["write"] = "scheduled" /\ canceled["write"] = 0 /\ pc'["write"] = "call"
    <3>0. canceled[d] \in {0, 1}
      BY <1>0, <2>1 DEF C!TypeOK
    <3>1. CASE d = "write"
      BY <1>t, <2>1, <2>2, <3>0, <3>1
    <3>2. CASE d = "read"
      BY <1>t, <2>2, <3>2
    <3> QED  BY <2>1, <3>1, <3>2 DEF Dirs
  <2> QED  BY <2>2, <2>3 DEF EdgeInv, WriterPasses, Readable, Writable
<1>9. CASE C!CallRead
  <2>1. /\ UNCHANGED <<outq, fin, interest, armed, errored, waiter, canceled>>
        /\ pc["read"] = "call"
        /\ pc' \in {[pc EXCEPT !["read"] = "loop"], [pc EXCEPT !["read"] = "idle"]}
        /\ wait' \in {[wait EXCEPT !["read"] = 0], [wait EXCEPT !["read"] = 1]}
    BY ZenonT(40), <1>9 DEF C!CallRead, C!Calls, C!Return, C!Need, C!epoll
  <2>2. /\ Readable' => Readable /\ UNCHANGED avail
        /\ err' # "none" <=> err # "none"
        /\ avail' = avail \/ avail' = [avail EXCEPT !["read"] = 0]
    BY <1>9, IoAssumption DEF C!CallRead, C!Return, C!Need, C!TypeOK, Readable
  <2>3. /\ pc'["write"] = pc["write"] /\ wait'["write"] = wait["write"]
        /\ avail'["write"] = avail["write"] /\ avail'["read"] \in {avail["read"], 0}
    BY <1>t, <2>1, <2>2
  <2>4. WriterPasses' = WriterPasses /\ Writable' = Writable
    BY <2>1, <2>2, <2>3 DEF WriterPasses, Writable
  <2>5. waiter["read"] # 1
    BY <2>1 DEF LineInv, Dirs
  <2> QED  BY <2>1, <2>2, <2>3, <2>4, <2>5 DEF EdgeInv, Dirs
<1>10. CASE C!CallWrite
  <2>1. /\ UNCHANGED <<inq, fin, errored, waiter, canceled>> /\ pc["write"] = "call"
        /\ err' # "none" <=> err # "none"
        /\ C!EnableWriting \/ C!DisableWriting \/ UNCHANGED C!epoll
    BY <1>10 DEF C!CallWrite, C!CallWriteNothing, C!CallWriteSome, C!CallWriteFull,
                 C!CallWriteFails, C!Calls, C!flags, C!socket
  <2>2. "in" \in interest' /\ (armed = 1 => armed' = 1)
    BY ZenonT(40), <2>1, StaysArmed DEF EdgeInv
  <2>3. Readable' = Readable
    BY <2>1 DEF Readable
  <2>4. avail["write"] = 1 \/ errored = 1
    BY ZenonT(40), <2>1 DEF EdgeInv, WriterPasses
  <2>5. CASE C!CallWriteFull
    <3>1. /\ avail' = [avail EXCEPT !["write"] = 0] /\ wait' = [wait EXCEPT !["write"] = 1]
          /\ pc' = [pc EXCEPT !["write"] = "loop"] /\ UNCHANGED <<outq, err>>
          /\ err = "none" /\ outq = SendMax
      BY <2>5 DEF C!CallWriteFull, C!Need, C!socket
    <3>2. "out" \in interest'
      BY <2>5 DEF C!CallWriteFull, C!EnableWriting, C!UpdateIo, C!epoll
    <3>3. ~Writable'
      BY SMTT(40), <3>1, IoAssumption DEF Writable
    <3> QED  BY ZenonT(40), <1>0, <2>1, <2>2, <2>3, <3>1, <3>2, <3>3 DEF EdgeInv, WriterPasses, C!TypeOK, Dirs
  <2>6. CASE ~C!CallWriteFull
    <3>1. /\ UNCHANGED avail
          /\ pc' \in {[pc EXCEPT !["write"] = "idle"], [pc EXCEPT !["write"] = "loop"]}
      BY <1>10, <2>6 DEF C!CallWrite, C!CallWriteNothing, C!CallWriteSome, C!CallWriteFails,
                         C!Return, C!Retry, C!flags
    <3>2. pc'["write"] # "switching"
      BY <1>t, <3>1
    <3> QED  BY <2>1, <2>2, <2>3, <2>4, <3>1, <3>2 DEF EdgeInv
  <2> QED  BY ZenonT(40), <2>5, <2>6
<1> QED
  BY ZenonT(40), <1>0, <1>1, <1>2, <1>3, <1>4, <1>6, <1>7, <1>8, <1>9, <1>10 DEF C!Next
-----------------------------------------------------------------------------
LEMMA ChanAlways == IoSpec => []ChanInv
<1>1. IoInit => ChanInv
  BY ChanInit
<1>2. ChanInv /\ [IoNext]_ioVars => ChanInv'
  <2> SUFFICES ASSUME ChanInv, [IoNext]_ioVars PROVE ChanInv'
    OBVIOUS
  <2>1. CASE C!Next
    BY ZenonT(40), <2>1, TypeStep, LineStep, EdgeStep DEF ChanInv
  <2>2. CASE UNCHANGED cVars
    <3>1. C!TypeOK'
      BY ZenonT(40), <2>2 DEF cVars, ChanInv, C!TypeOK
    <3>2. LineInv'
      BY ZenonT(40), <2>2 DEF cVars, ChanInv, LineInv
    <3>3. EdgeInv'
      BY <2>2 DEF cVars, ChanInv, EdgeInv, Readable, Writable, WriterPasses
    <3> QED  BY <3>1, <3>2, <3>3 DEF ChanInv
  <2> QED  BY <2>1, <2>2 DEF IoNext, RegistryRests, ioVars
<1> QED  BY <1>1, <1>2, PTL DEF IoSpec

(* Cardinality is defined by a recursive function: the functions that      *)
(* solve its equation for these sets are given.                            *)
LEMMA CountNone == Cardinality({}) = 0
<1> DEFINE G(f) == [T \in SUBSET {} |-> IF T = {} THEN 0 ELSE 1 + f[T \ {CHOOSE x : x \in T}]]
           Size == CHOOSE f : f = G(f)
<1>1. [T \in SUBSET {} |-> 0] = G([T \in SUBSET {} |-> 0])
  OBVIOUS
<1>2. Size = G(Size)
  BY <1>1, Zenon
<1>3. Cardinality({}) = Size[{}]
  BY Zenon DEF Cardinality
<1> HIDE DEF Size
<1> QED  BY <1>2, <1>3

LEMMA CountOne == \A e : Cardinality({e}) = 1
<1> TAKE e
<1> DEFINE G(f) == [T \in SUBSET {e} |-> IF T = {} THEN 0 ELSE 1 + f[T \ {CHOOSE x : x \in T}]]
           F == [T \in SUBSET {e} |-> IF T = {} THEN 0 ELSE 1]
           Size == CHOOSE f : f = G(f)
<1>1. \A T \in SUBSET {e} : T # {} => T = {e} /\ T \ {CHOOSE x : x \in T} = {} /\ (CHOOSE x : x \in T) = e
  OBVIOUS
<1>2. F = G(F)
  <2>1. ASSUME NEW T \in SUBSET {e}
        PROVE  (IF T = {} THEN 0 ELSE 1) = IF T = {} THEN 0 ELSE 1 + F[T \ {CHOOSE x : x \in T}]
    <3>1. CASE T = {}  BY <3>1
    <3>2. CASE T # {}
      <4>1. T \ {CHOOSE x : x \in T} = {}
        BY <1>1, <3>2
      <4>2. F[{}] = 0
        OBVIOUS
      <4> QED  BY <3>2, <4>1, <4>2
    <3> QED  BY <3>1, <3>2
  <2> QED  BY <2>1, Zenon
<1>3. Size = G(Size)
  BY <1>2, Zenon
<1>4. Cardinality({e}) = Size[{e}]
  BY Zenon DEF Cardinality
<1> HIDE DEF Size
<1>5. Size[{}] = 0
  BY ZenonT(40), <1>3
<1>6. Size[{e}] = 1 + Size[{e} \ {CHOOSE x : x \in {e}}]
  BY <1>3
<1>7. {e} \ {CHOOSE x : x \in {e}} = {}
  BY <1>1
<1> QED  BY <1>4, <1>5, <1>6, <1>7

(* Counting the places of a queue in which d is. *)
LEMMA LineCounted ==
    ASSUME LineInv, C!TypeOK, NEW d \in Dirs
    PROVE  Cardinality({k \in 1..Len(ready) : ready[k] = d})
             = IF pc[d] \in {"switching", "scheduled"} THEN 1 ELSE 0
<1> DEFINE T == {k \in 1..Len(ready) : ready[k] = d}
<1>1. CASE Queued(d, ready)
  <2>1. PICK k \in 1..Len(ready) : ready[k] = d
    BY <1>1 DEF Queued
  <2>2. T = {k}
    BY <2>1 DEF LineInv, Distinct
  <2> QED  BY ZenonT(40), <1>1, <2>2, CountOne DEF LineInv
<1>2. CASE ~Queued(d, ready)
  <2>1. T = {}
    BY <1>2 DEF Queued
  <2> QED  BY ZenonT(40), <1>2, <2>1, CountNone DEF LineInv
<1> QED  BY SMTT(40), <1>1, <1>2

(* In every behaviour of a channel, for any socket buffers and any length  *)
(* of the writes, while a coroutine is suspended on a socket it could use, *)
(* epoll has the event to report, and a suspended writer has enabled it:   *)
(* handleIoEvents(), the clearing of the flag on EAGAIN, enableWriting()   *)
(* and disableWriting() lose no edge in either trigger mode.               *)
THEOREM EdgesKept == IoSpec => []NoLostEdge
<1>1. ChanInv => NoLostEdge
  BY ZenonT(40) DEF ChanInv, EdgeInv, Readable, Writable, NoLostEdge, C!NoLostEdge, Dirs
<1> QED  BY <1>1, ChanAlways, PTL

(* In every behaviour of a channel its types hold, and whoever waits is in *)
(* the slot of the direction, whoever was woken by an event, an error or a *)
(* cancellation is in the ready queue once, and a cancel flag is only set  *)
(* for the operation it woke.                                              *)
THEOREM ChannelWakesOnce == IoSpec => []ChannelWaiters
<1>1. ChanInv => ChannelWaiters
  <2> SUFFICES ASSUME ChanInv PROVE C!WaitersAccounted
    BY DEF ChannelWaiters, ChanInv
  <2>1. C!Dirs = Dirs
    BY DEF C!Dirs, Dirs
  <2>2. ASSUME NEW d \in Dirs
        PROVE  C!Cardinality({k \in 1..Len(ready) : ready[k] = d})
                 = IF pc[d] \in {"switching", "scheduled"} THEN 1 ELSE 0
    <3> DEFINE T == {k \in 1..Len(ready) : ready[k] = d}
    <3>1. C!Cardinality(T) = Cardinality(T)
      BY DEF C!Cardinality, Cardinality
    <3> QED  BY ZenonT(40), <3>1, LineCounted DEF ChanInv
  <2> QED  BY ZenonT(40), <2>1, <2>2 DEF C!WaitersAccounted, ChanInv, LineInv
<1> QED  BY <1>1, ChanAlways, PTL
===============================================================================
