------------------------------- MODULE UuidMgr -------------------------------
(****************************************************************************)
(* The uuid lock manager of arbitrary_disk.c, at the grain of its mutexes.  *)
(*                                                                          *)
(* One node (arb_uuid_lock_t) per uuid in use lives in an AVL tree.  A call *)
(* of the API takes a reference on the node of its uuid under the manager   *)
(* mutex, holds the node mutex while it works on the mapped disk file, and  *)
(* gives the reference back; the last one out either parks the node in a    *)
(* cache or unmaps the disk and frees the node, deleting the file when it   *)
(* holds no pair.                                                           *)
(*                                                                          *)
(* A disk file is the set of the pairs it records; the image inside one     *)
(* file is the subject of DliTable, the version slots of one pair of        *)
(* Arbitrate.                                                               *)
(****************************************************************************)
EXTENDS Integers, Sequences, FiniteSets

CONSTANTS
    Threads,           \* threads that call the API
    Uuids,             \* keys of the tree
    Pairs,             \* duallive pairs that may be recorded under a uuid
    Nodes,             \* addresses kmem_alloc may return for a node
    ARB_MAX_UUID_NUM,  \* size of the tree beyond which cached nodes are evicted
    NoThread, NoNode, NoCall

ASSUME ThreadsFinite == IsFiniteSet(Threads)
ASSUME NodesFinite   == IsFiniteSet(Nodes)
ASSUME MaxAssumption == ARB_MAX_UUID_NUM \in Nat
ASSUME NoneDistinct  == NoThread \notin Threads /\ NoNode \notin Nodes

\* "use" is arb_select_master_slave or arb_query_master_slave: both open the
\* disk with create = 1 and insert the pair.  "remove" is arb_remove_duallive.
Calls == [op : {"use", "remove"}, uuid : Uuids, pair : Pairs]
ASSUME NoCallAssumption == NoCall \notin Calls

VARIABLES
    up,        \* between arb_disk_init and arb_disk_fini
    pc,        \* where each thread is in its call
    arg,       \* the call a thread executes
    loc,       \* the local variable n (lock) of a thread
    mgrMtx,    \* holder of mgr->mtx
    tree,      \* nodes in mgr->tree; exactly these are allocated
    cache,     \* mgr->cache, oldest first
    uuid, ref, cached, disk, owner,   \* the fields of a node; owner is of n->mtx
    file,      \* the disk file of each uuid: "none", "good", or "bad" when it
               \* has no magic number or is below the minimum size
    dlis       \* the pairs it records: head->dl_num of them

mgrVars  == <<mgrMtx, tree, cache, uuid, ref, cached>>
nodeVars == <<disk, owner>>
fileVars == <<file, dlis>>
vars == <<up, pc, arg, loc, mgrVars, nodeVars, fileVars>>

Locations == {"idle", "lock_mgr", "find", "take", "lock_node", "load",
              "work", "unlock_node", "unlock_mgr", "drop"}

\* Where a thread has mgr->mtx, where it has n->mtx, where it has a reference.
InMgr   == {"find", "take", "drop"}
InNode  == {"load", "work", "unlock_node"}
HasRef  == {"lock_node", "load", "work", "unlock_node", "unlock_mgr", "drop"}

\* Each operator named ...Bug is the definition below it with a plausible
\* mistake.  No specification uses it: it shows that a property can fail.

Init ==
    /\ up = FALSE
    /\ pc = [t \in Threads |-> "idle"]
    /\ arg = [t \in Threads |-> NoCall]
    /\ loc = [t \in Threads |-> NoNode]
    /\ mgrMtx = NoThread
    /\ tree = {}
    /\ cache = <<>>
    /\ uuid \in {[n \in Nodes |-> u] : u \in Uuids}
    /\ ref = [n \in Nodes |-> 0]
    /\ cached = [n \in Nodes |-> FALSE]
    /\ disk = [n \in Nodes |-> FALSE]
    /\ owner = [n \in Nodes |-> NoThread]
    /\ file \in [Uuids -> {"none", "bad", "good"}]
    /\ dlis \in [Uuids -> SUBSET Pairs]
    /\ \A u \in Uuids : file[u] # "good" => dlis[u] = {}

-----------------------------------------------------------------------------
(* Helpers.                                                                 *)

Members(s) == {s[i] : i \in 1..Len(s)}
NoRepetition(s) == \A i, j \in 1..Len(s) : s[i] = s[j] => i = j

\* list_remove of a node that is somewhere in the list.
ListRemove(s, x) ==
    LET k == CHOOSE i \in 1..Len(s) : s[i] = x
    IN  [i \in 1..(Len(s) - 1) |-> IF i < k THEN s[i] ELSE s[i + 1]]

SurplusBug(c, size, limit) == IF size - 1 <= limit THEN 0 ELSE 1

\* How many heads cache_cleanup takes off list c when the tree has size nodes.
Surplus(c, size, limit) ==
    IF size <= limit THEN 0
    ELSE IF size - limit <= Len(c) THEN size - limit ELSE Len(c)

UnloadedBug(S) ==
    [u \in Uuids |-> IF \E n \in S : uuid[n] = u THEN "none" ELSE file[u]]

\* arb_disk_unload of the nodes S: a mapped disk that records no pair has its
\* file deleted.
Unloaded(S) ==
    [u \in Uuids |-> IF \E n \in S : uuid[n] = u /\ disk[n] /\ dlis[u] = {}
                     THEN "none" ELSE file[u]]

\* cache_cleanup(mgr, limit), called with the tree t and the cache c: the
\* oldest nodes leave both, are unmapped and freed.
CacheCleanup(t, c, limit) ==
    LET k   == Surplus(c, Cardinality(t), limit)
        out == {c[i] : i \in 1..k}
    IN  /\ tree' = t \ out
        /\ cache' = SubSeq(c, k + 1, Len(c))
        /\ file' = Unloaded(out)

CachableBug(n) == disk[n]

\* uuid_lock_cachable: a mapped disk that records a pair.
Cachable(n) == disk[n] /\ dlis[uuid[n]] # {}

GoTo(t, from, to) == pc[t] = from /\ pc' = [pc EXCEPT ![t] = to]

-----------------------------------------------------------------------------
(* One action per step of a call.                                           *)

Call(t, c) ==
    /\ up
    /\ GoTo(t, "idle", "lock_mgr")
    /\ arg' = [arg EXCEPT ![t] = c]
    /\ UNCHANGED <<up, loc, mgrVars, nodeVars, fileVars>>

LockMgr(t) ==
    /\ mgrMtx = NoThread
    /\ mgrMtx' = t
    /\ \/ GoTo(t, "lock_mgr", "find")
       \/ GoTo(t, "unlock_mgr", "drop")
    /\ UNCHANGED <<up, arg, loc, tree, cache, uuid, ref, cached, nodeVars, fileVars>>

\* The mutex is given up between the lookup and the insertion.
FindBug(t) ==
    /\ GoTo(t, "find", "take")
    /\ \/ \E n \in tree : uuid[n] = arg[t].uuid /\ loc' = [loc EXCEPT ![t] = n]
       \/ /\ \A n \in tree : uuid[n] # arg[t].uuid
          /\ loc' = [loc EXCEPT ![t] = NoNode]
    /\ mgrMtx' = NoThread
    /\ UNCHANGED <<up, arg, tree, cache, uuid, ref, cached, nodeVars, fileVars>>

\* avl_find: the node whose key compares equal, if there is one.
Find(t) ==
    /\ GoTo(t, "find", "take")
    /\ \/ \E n \in tree : uuid[n] = arg[t].uuid /\ loc' = [loc EXCEPT ![t] = n]
       \/ /\ \A n \in tree : uuid[n] # arg[t].uuid
          /\ loc' = [loc EXCEPT ![t] = NoNode]
    /\ UNCHANGED <<up, arg, mgrVars, nodeVars, fileVars>>

\* The rest of arb_uuid_lock up to mutex_exit, when the key was not found:
\* a fresh node enters the tree, the cache is trimmed, the reference counted.
TakeNew(t) ==
    /\ GoTo(t, "take", "lock_node")
    /\ loc[t] = NoNode
    /\ \E n \in Nodes \ tree :
         /\ loc' = [loc EXCEPT ![t] = n]
         /\ uuid' = [uuid EXCEPT ![n] = arg[t].uuid]
         /\ owner' = [owner EXCEPT ![n] = NoThread]
         /\ disk' = [disk EXCEPT ![n] = FALSE]
         /\ cached' = [cached EXCEPT ![n] = FALSE]
         /\ CacheCleanup(tree \cup {n}, cache, ARB_MAX_UUID_NUM)
         /\ ref' = [ref EXCEPT ![n] = 1]
    /\ mgrMtx' = NoThread
    /\ UNCHANGED <<up, arg, dlis>>

\* A node found in the cache stays there.
TakeFoundBug(t) ==
    /\ GoTo(t, "take", "lock_node")
    /\ loc[t] # NoNode
    /\ ref' = [ref EXCEPT ![loc[t]] = @ + 1]
    /\ mgrMtx' = NoThread
    /\ UNCHANGED <<up, arg, loc, tree, cache, uuid, cached, nodeVars, fileVars>>

\* A node found by a second thread is not counted.
TakeUncountedBug(t) ==
    LET n == loc[t] IN
    /\ GoTo(t, "take", "lock_node")
    /\ n # NoNode
    /\ cache' = IF cached[n] THEN ListRemove(cache, n) ELSE cache
    /\ cached' = [cached EXCEPT ![n] = FALSE]
    /\ ref' = [ref EXCEPT ![n] = 1]
    /\ mgrMtx' = NoThread
    /\ UNCHANGED <<up, arg, loc, tree, uuid, nodeVars, fileVars>>

\* The same when it was found: a parked node leaves the cache.
TakeFound(t) ==
    LET n == loc[t] IN
    /\ GoTo(t, "take", "lock_node")
    /\ n # NoNode
    /\ cache' = IF cached[n] THEN ListRemove(cache, n) ELSE cache
    /\ cached' = [cached EXCEPT ![n] = FALSE]
    /\ ref' = [ref EXCEPT ![n] = @ + 1]
    /\ mgrMtx' = NoThread
    /\ UNCHANGED <<up, arg, loc, tree, uuid, nodeVars, fileVars>>

LockNode(t) ==
    /\ GoTo(t, "lock_node", "load")
    /\ owner[loc[t]] = NoThread
    /\ owner' = [owner EXCEPT ![loc[t]] = t]
    /\ UNCHANGED <<up, arg, loc, mgrVars, disk, fileVars>>

\* arb_disk_open_impl finds the disk mapped by an earlier holder.
AlreadyLoaded(t) ==
    /\ GoTo(t, "load", "work")
    /\ disk[loc[t]]
    /\ UNCHANGED <<up, arg, loc, mgrVars, nodeVars, fileVars>>

\* arb_disk_load maps the file; with create = 1 it makes or reformats it.
Load(t) ==
    LET u == arg[t].uuid IN
    /\ GoTo(t, "load", "work")
    /\ ~disk[loc[t]]
    /\ \/ file[u] = "good" /\ UNCHANGED fileVars
       \/ /\ file[u] # "good"
          /\ arg[t].op = "use"
          /\ file' = [file EXCEPT ![u] = "good"]
          /\ dlis' = [dlis EXCEPT ![u] = {}]
    /\ disk' = [disk EXCEPT ![loc[t]] = TRUE]
    /\ UNCHANGED <<up, arg, loc, mgrVars, owner>>

\* The early return of arb_disk_open_impl forgets arb_uuid_unlock but for the
\* node mutex.
LoadFailsBug(t) ==
    /\ GoTo(t, "load", "idle")
    /\ ~disk[loc[t]]
    /\ arg[t].op = "remove"
    /\ file[arg[t].uuid] # "good"
    /\ owner' = [owner EXCEPT ![loc[t]] = NoThread]
    /\ arg' = [arg EXCEPT ![t] = NoCall]
    /\ loc' = [loc EXCEPT ![t] = NoNode]
    /\ UNCHANGED <<up, mgrVars, disk, fileVars>>

\* With create = 0 a missing file is not made, and a bad one is deleted.
LoadFails(t) ==
    LET u == arg[t].uuid IN
    /\ GoTo(t, "load", "unlock_node")
    /\ ~disk[loc[t]]
    /\ arg[t].op = "remove"
    /\ file[u] # "good"
    /\ file' = [file EXCEPT ![u] = "none"]
    /\ UNCHANGED <<up, arg, loc, mgrVars, nodeVars, dlis>>

\* arb_disk_insert_dli with the select or query that follows it, or
\* arb_disk_remove_dli: what the call does to the set of pairs.
Work(t) ==
    LET u == arg[t].uuid
        p == arg[t].pair
    IN  /\ GoTo(t, "work", "unlock_node")
        /\ dlis' = [dlis EXCEPT ![u] =
                      IF arg[t].op = "use" THEN @ \cup {p} ELSE @ \ {p}]
        /\ UNCHANGED <<up, arg, loc, mgrVars, nodeVars, file>>

UnlockNodeBug(t) ==
    /\ GoTo(t, "unlock_node", "unlock_mgr")
    /\ UNCHANGED <<up, arg, loc, mgrVars, nodeVars, fileVars>>

UnlockNode(t) ==
    /\ GoTo(t, "unlock_node", "unlock_mgr")
    /\ owner' = [owner EXCEPT ![loc[t]] = NoThread]
    /\ UNCHANGED <<up, arg, loc, mgrVars, disk, fileVars>>

\* The rest of arb_uuid_unlock, by what happens to the node.
Return(t) ==
    /\ GoTo(t, "drop", "idle")
    /\ ref' = [ref EXCEPT ![loc[t]] = @ - 1]
    /\ mgrMtx' = NoThread
    /\ arg' = [arg EXCEPT ![t] = NoCall]
    /\ loc' = [loc EXCEPT ![t] = NoNode]
    /\ UNCHANGED <<up, uuid, nodeVars, dlis>>

\* A file without pairs is deleted although others hold the node.
DropSharedBug(t) ==
    /\ Return(t)
    /\ ref[loc[t]] # 1
    /\ file' = Unloaded({loc[t]})
    /\ UNCHANGED <<tree, cache, cached>>

DropShared(t) ==
    /\ Return(t)
    /\ ref[loc[t]] # 1
    /\ UNCHANGED <<tree, cache, cached, file>>

DropToCache(t) ==
    LET n == loc[t] IN
    /\ Return(t)
    /\ ref[n] = 1
    /\ Cachable(n)
    /\ cached' = [cached EXCEPT ![n] = TRUE]
    /\ CacheCleanup(tree, Append(cache, n), ARB_MAX_UUID_NUM)

DropAndFree(t) ==
    LET n == loc[t] IN
    /\ Return(t)
    /\ ref[n] = 1
    /\ ~Cachable(n)
    /\ tree' = tree \ {n}
    /\ file' = Unloaded({n})
    /\ UNCHANGED <<cache, cached>>

Step(t) ==
    \/ LockMgr(t) \/ Find(t) \/ TakeNew(t) \/ TakeFound(t) \/ LockNode(t)
    \/ AlreadyLoaded(t) \/ Load(t) \/ LoadFails(t) \/ Work(t) \/ UnlockNode(t)
    \/ DropShared(t) \/ DropToCache(t) \/ DropAndFree(t)

-----------------------------------------------------------------------------
(* Lifecycle.  The program stops the arbiter when no call is in progress.   *)

Start ==
    /\ ~up
    /\ up' = TRUE
    /\ UNCHANGED <<pc, arg, loc, mgrVars, nodeVars, fileVars>>

Fini ==
    /\ up
    /\ \A t \in Threads : pc[t] = "idle"
    /\ up' = FALSE
    /\ CacheCleanup(tree, cache, 0)
    /\ UNCHANGED <<pc, arg, loc, mgrMtx, uuid, ref, cached, nodeVars, dlis>>

Next ==
    \/ \E t \in Threads : Step(t) \/ \E c \in Calls : Call(t, c)
    \/ Start
    \/ Fini

Spec == Init /\ [][Next]_vars

-----------------------------------------------------------------------------
(* Properties.                                                              *)

\* Every variable of the manager has its type; in particular no reference count
\* passes below 0.
TypeOK ==
    /\ up \in BOOLEAN
    /\ pc \in [Threads -> Locations]
    /\ arg \in [Threads -> Calls \cup {NoCall}]
    /\ loc \in [Threads -> Nodes \cup {NoNode}]
    /\ mgrMtx \in Threads \cup {NoThread}
    /\ tree \subseteq Nodes
    /\ cache \in Seq(Nodes)
    /\ uuid \in [Nodes -> Uuids]
    /\ ref \in [Nodes -> Nat]
    /\ cached \in [Nodes -> BOOLEAN]
    /\ disk \in [Nodes -> BOOLEAN]
    /\ owner \in [Nodes -> Threads \cup {NoThread}]
    /\ file \in [Uuids -> {"none", "bad", "good"}]
    /\ dlis \in [Uuids -> SUBSET Pairs]

\* The threads that hold a reference on node n.
Holders(n) == {t \in Threads : pc[t] \in HasRef /\ loc[t] = n}

\* One uuid never has two nodes, so one disk file is never mapped twice with
\* two mutexes: a lookup and the insertion after it are one critical section.
UniqueUuid == \A m, n \in tree : uuid[m] = uuid[n] => m = n

\* The node a thread works on, waits for or is about to release is still the
\* allocated node of its uuid: eviction and the last unlock free no node in use.
NoUseAfterFree ==
    \A t \in Threads : pc[t] \in HasRef =>
        loc[t] \in tree /\ uuid[loc[t]] = arg[t].uuid

\* n->ref is exactly the number of threads that hold the node; it is what the
\* VERIFY of arb_uuid_unlock and the decision to free rest on.
RefExact == \A n \in tree : ref[n] = Cardinality(Holders(n))

\* Two threads are never both between arb_disk_open and arb_disk_close of
\* the same uuid, whichever nodes they hold.
DiskExclusion ==
    \A s, t \in Threads :
        /\ pc[s] \in InNode /\ pc[t] \in InNode
        /\ arg[s].uuid = arg[t].uuid
        => s = t

\* The cache lists each parked node once, and a node is parked exactly when
\* nobody holds it (VERIFY(!n->cached)); what is parked is a mapped disk with
\* pairs, so the eviction that comes later deletes no file.
CacheExact ==
    /\ NoRepetition(cache)
    /\ Members(cache) = {n \in tree : cached[n]}
    /\ \A n \in tree : cached[n] <=> ref[n] = 0
    /\ \A n \in tree : cached[n] => disk[n] /\ dlis[uuid[n]] # {}

\* The file behind a mapped disk exists and is formatted as long as the disk
\* is mapped: nobody deletes or reformats it under a holder or under the cache.
MappedFileKept == \A n \in tree : disk[n] => file[uuid[n]] = "good"

\* The tree exceeds ARB_MAX_UUID_NUM only by nodes that are in use.
CacheBound == Cardinality(tree) > ARB_MAX_UUID_NUM => cache = <<>>

\* When no call is in progress only parked nodes are left, so the
\* VERIFY(avl_numnodes(&mgr->tree) == 0) of arb_uuid_mgr_fini cannot fail.
IdleMeansCached ==
    (\A t \in Threads : pc[t] = "idle") => \A n \in tree : cached[n]

\* The inductive invariant: who is where in the code agrees with the mutexes,
\* with what find returned, and with what the node and the file are.
MgrHeld == \A t \in Threads : pc[t] \in InMgr <=> mgrMtx = t

NodeHeld == \A t \in Threads : pc[t] \in InNode => owner[loc[t]] = t

ArgKnown == \A t \in Threads : pc[t] # "idle" => arg[t] \in Calls

FindRight ==
    \A t \in Threads : pc[t] = "take" =>
        \/ loc[t] = NoNode /\ \A n \in tree : uuid[n] # arg[t].uuid
        \/ loc[t] \in tree /\ uuid[loc[t]] = arg[t].uuid

WorkMapped == \A t \in Threads : pc[t] = "work" => disk[loc[t]]

OnlyGoodFilesHold == \A u \in Uuids : file[u] # "good" => dlis[u] = {}

\* Together with the safety properties they rest on, and that rest on them.
IInv ==
    /\ TypeOK
    /\ MgrHeld
    /\ NodeHeld
    /\ ArgKnown
    /\ FindRight
    /\ WorkMapped
    /\ OnlyGoodFilesHold
    /\ UniqueUuid
    /\ NoUseAfterFree
    /\ RefExact
    /\ CacheExact
    /\ MappedFileKept

\* A pair leaves a disk file only by an arb_remove_duallive of that pair: no
\* unmapping, eviction, reload, reformatting or shutdown loses it.
OnlyRemoveTakesPairs ==
    \A u \in Uuids : \A p \in dlis[u] :
        \/ p \in dlis'[u] /\ file'[u] = "good"
        \/ \E t \in Threads :
             /\ pc[t] = "work"
             /\ arg[t] = [op |-> "remove", uuid |-> u, pair |-> p]

PairsOnlyRemovedByRemove == [][OnlyRemoveTakesPairs]_vars
=============================================================================
