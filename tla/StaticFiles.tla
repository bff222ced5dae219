----------------------------- MODULE StaticFiles -----------------------------
(***************************************************************************)
(* http::staticFiles() (extensions/http): requests for files handled by    *)
(* coroutines of one scheduler, which share its FileCache, while the files *)
(* change on disk.                                                         *)
(*                                                                         *)
(* A handler runs without a suspension up to its first write: stat(), the  *)
(* conditional headers, the choice of a pre-compressed variant, the cache  *)
(* and the reading of the file are one step.  The write then takes the     *)
(* body out of the cache node it has a pointer to, in a later step.  An    *)
(* edit of a file gives it a new mtime, hence a new Last-Modified and ETag.*)
(***************************************************************************)
EXTENDS Naturals, Sequences, FiniteSets, SequencesExt

CONSTANTS Clients,       \* coroutines, each of which handles requests
          Names,         \* the names of files
          FileSizes,     \* sizes a file may have; 0 stands for "not there"
          MaxCacheSize,  \* cache_max_cache_size
          MaxFileSize,   \* cache_max_file_size, not above MaxCacheSize
          MaxEdits       \* bound on the changes of the files

VARIABLES
    disk,     \* each file, "plain" and "gz": its version (mtime) and its size
    edits,    \* edits so far: the source of versions
    lru,      \* lru_, the most recently used first; index_ is the set of its keys
    curSize,  \* currentSize_
    client    \* each handler: pc, "body" or "empty" while it writes; the node the
              \* write points to (0: its own buffer); the variant, the version the
              \* client is given and the one that was on disk then

vars == <<disk, edits, lru, curSize, client>>
Variants == {"plain", "gz"}
Idle == [pc |-> "idle", node |-> 0, variant |-> "plain", ver |-> 0, now |-> 0]

Init ==
    /\ disk = [n \in Names |-> [plain |-> [ver |-> 0, size |-> 1], gz |-> [ver |-> 0, size |-> 0]]]
    /\ edits = 0 /\ lru = <<>> /\ curSize = 0
    /\ client = [c \in Clients |-> Idle]
-----------------------------------------------------------------------------
(* A file is written, or removed. *)
Edit(n, v) ==
    /\ edits < MaxEdits /\ edits' = edits + 1
    /\ \E s \in FileSizes : disk' = [disk EXCEPT ![n][v] = [ver |-> edits + 1, size |-> s]]
    /\ UNCHANGED <<lru, curSize, client>>

(* cache_ttl passes for an entry. *)
Expires(i) ==
    /\ i \in 1..Len(lru) /\ ~lru[i].expired
    /\ lru' = [lru EXCEPT ![i].expired = TRUE]
    /\ UNCHANGED <<disk, edits, curSize, client>>
-----------------------------------------------------------------------------
(* FileCache on a state [lru, size] *)
At(key) == { i \in 1..Len(lru) : lru[i].key = key }
Evict(i) == [lru |-> RemoveAt(lru, i), size |-> curSize - lru[i].size]
Found(key) == \E i \in At(key) : ~lru[i].expired
Entry(key) == lru[CHOOSE i \in At(key) : TRUE]
ToFront(key) == LET i == CHOOSE i \in At(key) : TRUE
                IN  <<lru[i]>> \o RemoveAt(lru, i)

(* put(): the old entry goes, then the least recently used, as many as     *)
(* are needed.                                                             *)
BugRoomFor(l, incoming) ==
    CHOOSE k \in 0..Len(l) :
        /\ k = 0 \/ FoldLeft(LAMBDA a, e : a + e.size, 0, SubSeq(l, 1, k)) <= MaxCacheSize
        /\ k = Len(l) \/ FoldLeft(LAMBDA a, e : a + e.size, 0, SubSeq(l, 1, k + 1)) > MaxCacheSize

RoomFor(l, incoming) ==
    CHOOSE k \in 0..Len(l) :
        /\ k = 0 \/ FoldLeft(LAMBDA a, e : a + e.size, incoming, SubSeq(l, 1, k)) <= MaxCacheSize
        /\ k = Len(l) \/ FoldLeft(LAMBDA a, e : a + e.size, incoming, SubSeq(l, 1, k + 1)) > MaxCacheSize

Put(node) ==
    LET old == IF At(node.key) = {} THEN [lru |-> lru, size |-> curSize]
                                    ELSE Evict(CHOOSE i \in At(node.key) : TRUE)
        k == RoomFor(old.lru, node.size)
        gone == FoldLeft(LAMBDA a, e : a + e.size, 0, SubSeq(old.lru, k + 1, Len(old.lru)))
    IN  [lru |-> <<node>> \o SubSeq(old.lru, 1, k), size |-> old.size - gone + node.size]

(* The outcome of a lookup that does not serve from the cache: an entry    *)
(* that expired or is not fresh is taken out.                              *)
Without(key) == IF At(key) = {} THEN [lru |-> lru, size |-> curSize]
                                ELSE Evict(CHOOSE i \in At(key) : TRUE)

(* A node that nobody has a pointer to. *)
NewNode == CHOOSE k \in 1..(Len(lru) + Cardinality(Clients) + 1) :
              /\ \A i \in 1..Len(lru) : lru[i].id # k
              /\ \A c \in Clients : client[c].node # k

Writes(c, node, v, ver, now) ==
    client' = [client EXCEPT ![c] =
                 [pc |-> "body", node |-> node, variant |-> v, ver |-> ver, now |-> now]]

(* No body: 404, 304 to a client whose copy has the ETag or Last-Modified  *)
(* of the file, 500, or the head of a response to HEAD.                    *)
Empty(c, ver, now) ==
    client' = [client EXCEPT ![c] = [Idle EXCEPT !.pc = "empty", !.ver = ver, !.now = now]]

NotFound(c, n) ==
    /\ client[c].pc = "idle" /\ disk[n].plain.size = 0
    /\ Empty(c, 0, 0)
    /\ UNCHANGED <<disk, edits, lru, curSize>>

NotModified(c, n, copy) ==
    /\ client[c].pc = "idle" /\ disk[n].plain.size > 0
    /\ copy = disk[n].plain.ver
    /\ Empty(c, copy, disk[n].plain.ver)
    /\ UNCHANGED <<disk, edits, lru, curSize>>

(* 200, from the cache or from the file.  The freshness of an entry is     *)
(* judged by the ETag of the plain file, whatever the variant.             *)
BugFresh(key, etag) == TRUE
Fresh(key, etag) == Entry(key).etag = etag

Serve(c, n, gz, head) ==
    LET v == IF gz /\ disk[n].gz.size > 0 THEN "gz" ELSE "plain"
        f == disk[n][v]
        etag == disk[n].plain.ver
        key == <<n, v>>
        cacheable == f.size <= MaxFileSize
        node == [id |-> NewNode, key |-> key, size |-> f.size, etag |-> etag,
                 ver |-> f.ver, expired |-> FALSE]
    IN
    /\ client[c].pc = "idle" /\ disk[n].plain.size > 0
    /\ IF cacheable /\ Found(key) /\ Fresh(key, etag)
         THEN /\ lru' = ToFront(key)
              /\ IF head THEN Empty(c, 0, 0)
                         ELSE Writes(c, Entry(key).id, v, Entry(key).ver, f.ver)
              /\ UNCHANGED curSize
         ELSE IF head \/ ~cacheable
         THEN /\ lru' = IF cacheable THEN Without(key).lru ELSE lru
              /\ curSize' = IF cacheable THEN Without(key).size ELSE curSize
              /\ IF head THEN Empty(c, 0, 0) ELSE Writes(c, 0, v, f.ver, f.ver)
         ELSE /\ lru' = Put(node).lru /\ curSize' = Put(node).size
              /\ Writes(c, node.id, v, f.ver, f.ver)
    /\ UNCHANGED <<disk, edits>>

(* fopen() or fread() fails: 500, and nothing is put into the cache. *)
Unreadable(c, n, v) ==
    LET key == <<n, v>>  cacheable == disk[n][v].size <= MaxFileSize IN
    /\ client[c].pc = "idle" /\ disk[n].plain.size > 0 /\ disk[n][v].size > 0
    /\ ~(cacheable /\ Found(key) /\ Fresh(key, disk[n].plain.ver))
    /\ lru' = IF cacheable THEN Without(key).lru ELSE lru
    /\ curSize' = IF cacheable THEN Without(key).size ELSE curSize
    /\ Empty(c, 0, 0)
    /\ UNCHANGED <<disk, edits>>

(* The write, which reads the body through its pointer, is over. *)
Written(c) ==
    /\ client[c].pc # "idle"
    /\ client' = [client EXCEPT ![c] = Idle]
    /\ UNCHANGED <<disk, edits, lru, curSize>>

Next == \/ \E n \in Names, v \in Variants : Edit(n, v)
        \/ \E i \in 1..Len(lru) : Expires(i)
        \/ \E c \in Clients, n \in Names :
              \/ NotFound(c, n) \/ \E v \in Variants : Unreadable(c, n, v)
              \/ \E copy \in 0..edits : NotModified(c, n, copy)
              \/ \E gz, head \in BOOLEAN : Serve(c, n, gz, head)
        \/ \E c \in Clients : Written(c)
Spec == Init /\ [][Next]_vars
-----------------------------------------------------------------------------
(* currentSize_ is the size of what is in the cache and within its limit,  *)
(* and index_ has one entry for each node, however requests, expiry and    *)
(* changes of the files follow one another.                                *)
CacheAccounted ==
    /\ curSize = FoldLeft(LAMBDA a, e : a + e.size, 0, lru) /\ curSize <= MaxCacheSize
    /\ \A i, j \in 1..Len(lru) : lru[i].key = lru[j].key => i = j

(* A client that takes the file itself, not a pre-compressed variant, gets *)
(* the version that was on disk when its request was handled.              *)
ServedCurrent ==
    \A c \in Clients : client[c].variant = "plain" => client[c].ver = client[c].now
=============================================================================
