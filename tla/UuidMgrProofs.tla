--------------------------- MODULE UuidMgrProofs ---------------------------
(****************************************************************************)
(* Proofs about UuidMgr, for every set of threads, uuids, pairs and nodes   *)
(* and every ARB_MAX_UUID_NUM.                                              *)
(****************************************************************************)
EXTENDS UuidMgr, FiniteSetTheorems, TLAPS

-----------------------------------------------------------------------------
(* The list operations of the cache.                                        *)

\* list_remove takes out the element it is given and nothing else, and keeps
\* a list without repetition one without repetition.
LEMMA ListRemoveFacts ==
    ASSUME NEW S, NEW s \in Seq(S), NEW x, NoRepetition(s), x \in Members(s)
    PROVE  /\ ListRemove(s, x) \in Seq(S)
           /\ NoRepetition(ListRemove(s, x))
           /\ Members(ListRemove(s, x)) = Members(s) \ {x}
<1> DEFINE k == CHOOSE i \in 1..Len(s) : s[i] = x
           d == ListRemove(s, x)
<1>1. k \in 1..Len(s) /\ s[k] = x
  BY DEF Members
<1>2. d = [i \in 1..(Len(s) - 1) |-> IF i < k THEN s[i] ELSE s[i + 1]]
  BY DEF ListRemove
<1> HIDE DEF k, d
<1>3. Len(s) \in Nat /\ \A i \in 1..Len(s) : s[i] \in S
  OBVIOUS
<1>4. d \in Seq(S) /\ Len(d) = Len(s) - 1
  BY <1>1, <1>2, <1>3
<1>5. \A i \in 1..Len(d) : d[i] = IF i < k THEN s[i] ELSE s[i + 1]
  BY <1>2, <1>4
<1>6. NoRepetition(d)
  BY <1>1, <1>3, <1>4, <1>5 DEF NoRepetition
<1>7. Members(d) \subseteq Members(s) \ {x}
  BY <1>1, <1>3, <1>4, <1>5 DEF NoRepetition, Members
<1>8. Members(s) \ {x} \subseteq Members(d)
  <2> SUFFICES ASSUME NEW j \in 1..Len(s), s[j] # x
               PROVE  \E i \in 1..Len(d) : d[i] = s[j]
    BY DEF Members
  <2>1. CASE j < k
    <3>1. j \in 1..Len(d) /\ d[j] = s[j]
      BY <2>1, <1>1, <1>3, <1>4, <1>5
    <3> QED BY <3>1
  <2>2. CASE j > k
    <3>1. j - 1 \in 1..Len(d) /\ d[j - 1] = s[j]
      BY <2>2, <1>1, <1>3, <1>4, <1>5
    <3> QED BY <3>1
  <2>3. j # k
    BY <1>1
  <2> QED BY <2>1, <2>2, <2>3, <1>1, <1>3
<1> QED BY <1>4, <1>6, <1>7, <1>8 DEF d

\* Taking k heads off a list keeps the other elements.
LEMMA DropHeads ==
    ASSUME NEW S, NEW s \in Seq(S), NoRepetition(s), NEW k \in 0..Len(s)
    PROVE  LET d == SubSeq(s, k + 1, Len(s)) IN
           /\ d \in Seq(S)
           /\ Len(d) = Len(s) - k
           /\ NoRepetition(d)
           /\ Members(d) = Members(s) \ {s[i] : i \in 1..k}
<1> DEFINE d == SubSeq(s, k + 1, Len(s))
<1>1. Len(s) \in Nat /\ \A i \in 1..Len(s) : s[i] \in S
  OBVIOUS
<1>2. d \in Seq(S) /\ Len(d) = Len(s) - k
  BY <1>1
<1>3. \A i \in 1..Len(d) : d[i] = s[i + k]
  BY <1>1, <1>2
<1> HIDE DEF d
<1>4. NoRepetition(d)
  BY <1>1, <1>2, <1>3 DEF NoRepetition
<1>5. Members(d) \subseteq Members(s) \ {s[i] : i \in 1..k}
  BY <1>1, <1>2, <1>3 DEF NoRepetition, Members
<1>6. Members(s) \ {s[i] : i \in 1..k} \subseteq Members(d)
  <2> SUFFICES ASSUME NEW j \in 1..Len(s), s[j] \notin {s[i] : i \in 1..k}
               PROVE  \E i \in 1..Len(d) : d[i] = s[j]
    BY DEF Members
  <2>1. j > k
    BY <1>1
  <2>2. j - k \in 1..Len(d) /\ d[j - k] = s[j]
    BY <2>1, <1>1, <1>2, <1>3
  <2> QED BY <2>2
<1>7. QED BY <1>2, <1>4, <1>5, <1>6 DEF d

\* list_insert_tail of a node that is not in the list.
LEMMA AppendFacts ==
    ASSUME NEW S, NEW s \in Seq(S), NEW x \in S, NoRepetition(s),
           x \notin Members(s)
    PROVE  /\ Append(s, x) \in Seq(S)
           /\ NoRepetition(Append(s, x))
           /\ Members(Append(s, x)) = Members(s) \cup {x}
<1> DEFINE d == Append(s, x)
<1>1. d \in Seq(S) /\ Len(d) = Len(s) + 1 /\ Len(s) \in Nat
  OBVIOUS
<1>2. d[Len(d)] = x /\ \A i \in 1..Len(s) : d[i] = s[i]
  OBVIOUS
<1> HIDE DEF d
<1>3. NoRepetition(d)
  BY <1>1, <1>2 DEF NoRepetition, Members
<1>4. Members(d) \subseteq Members(s) \cup {x}
  BY <1>1, <1>2 DEF Members
<1>5. Members(s) \cup {x} \subseteq Members(d)
  <2>1. x \in Members(d)
    BY <1>1, <1>2 DEF Members
  <2>2. Members(s) \subseteq Members(d)
    BY <1>1, <1>2 DEF Members
  <2> QED BY <2>1, <2>2
<1> QED BY <1>1, <1>3, <1>4, <1>5 DEF d
-----------------------------------------------------------------------------
(* Eviction, and the count of the holders of a node.                        *)

\* cache_cleanup frees only nodes of the cache it is given; as these map disks
\* that record pairs, it deletes no file.
LEMMA CleanupFacts ==
    ASSUME NEW t \in SUBSET Nodes, NEW c \in Seq(Nodes), NEW limit \in Nat,
           NoRepetition(c), \A n \in Members(c) : Cachable(n),
           file \in [Uuids -> {"none", "bad", "good"}],
           CacheCleanup(t, c, limit)
    PROVE  \E out \in SUBSET Members(c) :
              /\ tree' = t \ out
              /\ cache' \in Seq(Nodes)
              /\ NoRepetition(cache')
              /\ Members(cache') = Members(c) \ out
              /\ file' = file
<1> DEFINE k   == Surplus(c, Cardinality(t), limit)
           out == {c[i] : i \in 1..k}
<1>1. k \in 0..Len(c)
  <2>1. Cardinality(t) \in Nat
    BY NodesFinite, FS_Subset, FS_CardinalityType
  <2>2. Len(c) \in Nat
    OBVIOUS
  <2> QED BY <2>1, <2>2 DEF Surplus
<1>2. tree' = t \ out /\ cache' = SubSeq(c, k + 1, Len(c)) /\ file' = Unloaded(out)
  BY DEF CacheCleanup
<1> HIDE DEF k
<1>3. out \subseteq Members(c)
  BY <1>1 DEF Members
<1>4. Unloaded(out) = file
  <2>1. \A n \in out : dlis[uuid[n]] # {}
    BY <1>3 DEF Cachable
  <2> HIDE DEF out
  <2>2. \A u \in Uuids : ~ \E n \in out : uuid[n] = u /\ disk[n] /\ dlis[u] = {}
    BY <2>1
  <2>3. Unloaded(out) = [u \in Uuids |-> file[u]]
    BY <2>2 DEF Unloaded
  <2> QED BY <2>3
<1>5. /\ cache' \in Seq(Nodes)
      /\ NoRepetition(cache')
      /\ Members(cache') = Members(c) \ out
  <2> HIDE DEF out
  <2>2. /\ SubSeq(c, k + 1, Len(c)) \in Seq(Nodes) /\ NoRepetition(SubSeq(c, k + 1, Len(c)))
        /\ Members(SubSeq(c, k + 1, Len(c))) = Members(c) \ {c[i] : i \in 1..k}
    <3>1. c \in Seq(Nodes) /\ NoRepetition(c)
      OBVIOUS
    <3>2. \A j \in 0..Len(c) :
             LET d == SubSeq(c, j + 1, Len(c)) IN
             /\ d \in Seq(Nodes)
             /\ NoRepetition(d)
             /\ Members(d) = Members(c) \ {c[i] : i \in 1..j}
      BY <3>1, DropHeads
    <3> QED BY <1>1, <3>2, Zenon
  <2> QED BY <1>2, <2>2, Zenon DEF out
<1> HIDE DEF out
<1>6. out \in SUBSET Members(c) /\ tree' = t \ out /\ file' = file
  BY <1>2, <1>3, <1>4, Zenon
<1> QED BY <1>5, <1>6, Zenon

\* The holders of a node are finitely many, and none exactly when they count 0.
LEMMA HoldersCount ==
    ASSUME NEW n
    PROVE  /\ IsFiniteSet(Holders(n))
           /\ Cardinality(Holders(n)) \in Nat
           /\ Cardinality(Holders(n)) = 0 <=> Holders(n) = {}
<1>1. Holders(n) \in SUBSET Threads
  BY DEF Holders
<1>2. IsFiniteSet(Holders(n))
  BY <1>1, ThreadsFinite, FS_Subset
<1> QED BY <1>2, FS_CardinalityType, FS_EmptySet

\* A holder keeps the count of its node above 0; if the count is 1 it is alone.
LEMMA HolderCounts ==
    ASSUME RefExact, NoUseAfterFree,
           NEW t \in Threads, pc[t] \in HasRef
    PROVE  /\ loc[t] \in tree
           /\ ref[loc[t]] \in Nat /\ ref[loc[t]] >= 1
           /\ ref[loc[t]] = 1 => Holders(loc[t]) = {t}
<1>1. loc[t] \in tree /\ t \in Holders(loc[t])
  BY DEF NoUseAfterFree, Holders
<1>2. ref[loc[t]] = Cardinality(Holders(loc[t]))
  BY <1>1 DEF RefExact
<1>3. Cardinality(Holders(loc[t])) # 0
  BY <1>1, HoldersCount
<1>4. ASSUME Cardinality(Holders(loc[t])) = 1  PROVE Holders(loc[t]) = {t}
  <2>1. \E x : Holders(loc[t]) = {x}
    BY <1>4, HoldersCount, FS_Singleton
  <2> QED BY <2>1, <1>1
<1> QED BY <1>1, <1>2, <1>3, <1>4, HoldersCount

-----------------------------------------------------------------------------
(* Every action keeps the inductive invariant.                              *)

\* arb_uuid_mgr_init establishes it: no node, no reference, no mutex held.
LEMMA InitIInv == Init => IInv
<1> SUFFICES ASSUME Init PROVE IInv
  OBVIOUS
<1>1. TypeOK
  <2>1. \A u \in Uuids : [n \in Nodes |-> u] \in [Nodes -> Uuids]
    OBVIOUS
  <2>2. uuid \in [Nodes -> Uuids]
    BY <2>1 DEF Init
  <2>3. cache \in Seq(Nodes)
    BY DEF Init
  <2>4. /\ up \in BOOLEAN /\ pc \in [Threads -> Locations]
        /\ arg \in [Threads -> Calls \cup {NoCall}]
        /\ loc \in [Threads -> Nodes \cup {NoNode}]
        /\ mgrMtx \in Threads \cup {NoThread} /\ tree \subseteq Nodes
    BY DEF Init, Locations
  <2>5. /\ ref \in [Nodes -> Nat] /\ cached \in [Nodes -> BOOLEAN]
        /\ disk \in [Nodes -> BOOLEAN]
        /\ owner \in [Nodes -> Threads \cup {NoThread}]
    BY DEF Init
  <2>6. /\ file \in [Uuids -> {"none", "bad", "good"}]
        /\ dlis \in [Uuids -> SUBSET Pairs]
    BY DEF Init
  <2> QED BY <2>2, <2>3, <2>4, <2>5, <2>6 DEF TypeOK
<1>2. RefExact /\ CacheExact
  BY DEF Init, RefExact, CacheExact, NoRepetition, Members
<1>3. MgrHeld /\ NodeHeld /\ ArgKnown /\ FindRight /\ WorkMapped
  BY NoneDistinct DEF Init, MgrHeld, NodeHeld, ArgKnown, FindRight, WorkMapped,
                      InMgr, InNode
<1>4. OnlyGoodFilesHold /\ UniqueUuid /\ NoUseAfterFree /\ MappedFileKept
  BY DEF Init, OnlyGoodFilesHold, UniqueUuid, NoUseAfterFree, MappedFileKept, HasRef
<1> QED BY <1>1, <1>2, <1>3, <1>4 DEF IInv

\* A step of a thread outside the places that hold references, or between two
\* of them, that leaves nodes, tree, cache and files alone.
LEMMA SameNodes ==
    ASSUME RefExact, CacheExact, UniqueUuid, MappedFileKept, OnlyGoodFilesHold,
           \A n \in tree : Holders(n)' = Holders(n),
           UNCHANGED <<tree, cache, uuid, ref, cached, disk, fileVars>>
    PROVE  /\ RefExact' /\ CacheExact' /\ UniqueUuid'
           /\ MappedFileKept' /\ OnlyGoodFilesHold'
<1>1. RefExact'
  BY DEF RefExact
<1>2. CacheExact'
  BY DEF CacheExact, NoRepetition, Members, fileVars
<1>3. UniqueUuid' /\ MappedFileKept' /\ OnlyGoodFilesHold'
  BY DEF UniqueUuid, MappedFileKept, OnlyGoodFilesHold, fileVars
<1> QED BY <1>1, <1>2, <1>3

\* A call that starts holds nothing yet.
LEMMA CallIInv ==
    ASSUME IInv, NEW t \in Threads, NEW c \in Calls, Call(t, c)
    PROVE  IInv'
<1> USE DEF IInv, Call, GoTo, mgrVars, nodeVars, TypeOK
<1>1. TypeOK'
  BY DEF Locations, fileVars
<1>2. \A n \in tree : Holders(n)' = Holders(n)
  BY DEF Holders, HasRef
<1>3. RefExact' /\ CacheExact' /\ UniqueUuid' /\ MappedFileKept' /\ OnlyGoodFilesHold'
  BY <1>2, SameNodes
<1>4. MgrHeld' /\ NodeHeld' /\ ArgKnown' /\ FindRight' /\ WorkMapped' /\ NoUseAfterFree'
  BY DEF MgrHeld, NodeHeld, ArgKnown, FindRight, WorkMapped, NoUseAfterFree,
         InMgr, InNode, HasRef
<1> QED BY <1>1, <1>3, <1>4

\* Taking the manager mutex keeps it, for a lookup and for a release.
LEMMA LockMgrIInv ==
    ASSUME IInv, NEW t \in Threads, LockMgr(t)
    PROVE  IInv'
<1> USE DEF IInv, LockMgr, GoTo, nodeVars, TypeOK
<1>1. TypeOK'
  BY DEF Locations, fileVars
<1>2. \A n \in tree : Holders(n)' = Holders(n)
  BY DEF Holders, HasRef
<1>3. RefExact' /\ CacheExact' /\ UniqueUuid' /\ MappedFileKept' /\ OnlyGoodFilesHold'
  BY <1>2, SameNodes
<1>4. MgrHeld' /\ NodeHeld' /\ ArgKnown' /\ FindRight' /\ WorkMapped' /\ NoUseAfterFree'
  BY NoneDistinct DEF MgrHeld, NodeHeld, ArgKnown, FindRight, WorkMapped,
         NoUseAfterFree, InMgr, InNode, HasRef
<1> QED BY <1>1, <1>3, <1>4

\* The lookup keeps it, and what it returns stays right under the mutex.
LEMMA FindIInv ==
    ASSUME IInv, NEW t \in Threads, Find(t)
    PROVE  IInv'
<1> USE DEF IInv, Find, GoTo, mgrVars, nodeVars, TypeOK
<1>1. TypeOK'
  BY DEF Locations, fileVars
<1>2. \A n \in tree : Holders(n)' = Holders(n)
  BY DEF Holders, HasRef
<1>3. RefExact' /\ CacheExact' /\ UniqueUuid' /\ MappedFileKept' /\ OnlyGoodFilesHold'
  BY <1>2, SameNodes
<1>4. MgrHeld' /\ NodeHeld' /\ ArgKnown' /\ WorkMapped' /\ NoUseAfterFree'
  BY DEF MgrHeld, NodeHeld, ArgKnown, WorkMapped, NoUseAfterFree,
         InMgr, InNode, HasRef
<1>5. FindRight'
  BY DEF FindRight
<1> QED BY <1>1, <1>3, <1>4, <1>5

\* Taking the mutex of a node keeps it: its holder keeps the node allocated.
LEMMA LockNodeIInv ==
    ASSUME IInv, NEW t \in Threads, LockNode(t)
    PROVE  IInv'
<1> USE DEF IInv, LockNode, GoTo, mgrVars, TypeOK
<1>1. TypeOK'
  BY DEF Locations, fileVars
<1>2. \A n \in tree : Holders(n)' = Holders(n)
  BY DEF Holders, HasRef
<1>3. RefExact' /\ CacheExact' /\ UniqueUuid' /\ MappedFileKept' /\ OnlyGoodFilesHold'
  BY <1>2, SameNodes
<1>4. MgrHeld' /\ ArgKnown' /\ FindRight' /\ WorkMapped' /\ NoUseAfterFree'
  BY DEF MgrHeld, ArgKnown, FindRight, WorkMapped, NoUseAfterFree, InMgr, HasRef
<1>5. NodeHeld'
  <2>1. loc[t] \in Nodes
    BY DEF NoUseAfterFree, HasRef
  <2> QED BY <2>1, NoneDistinct DEF NodeHeld, InNode
<1> QED BY <1>1, <1>3, <1>4, <1>5

\* A call that finds the disk mapped keeps it.
LEMMA AlreadyLoadedIInv ==
    ASSUME IInv, NEW t \in Threads, AlreadyLoaded(t)
    PROVE  IInv'
<1> USE DEF IInv, AlreadyLoaded, GoTo, mgrVars, nodeVars, TypeOK
<1>1. TypeOK'
  BY DEF Locations, fileVars
<1>2. \A n \in tree : Holders(n)' = Holders(n)
  BY DEF Holders, HasRef
<1>3. RefExact' /\ CacheExact' /\ UniqueUuid' /\ MappedFileKept' /\ OnlyGoodFilesHold'
  BY <1>2, SameNodes
<1>4. /\ MgrHeld' /\ NodeHeld' /\ ArgKnown' /\ FindRight' /\ WorkMapped'
      /\ NoUseAfterFree'
  BY DEF MgrHeld, NodeHeld, ArgKnown, FindRight, WorkMapped, NoUseAfterFree,
         InMgr, InNode, HasRef
<1> QED BY <1>1, <1>3, <1>4

\* Giving up the node mutex keeps it: the reference stays.
LEMMA UnlockNodeIInv ==
    ASSUME IInv, NEW t \in Threads, UnlockNode(t)
    PROVE  IInv'
<1> USE DEF IInv, UnlockNode, GoTo, mgrVars, TypeOK
<1>1. TypeOK'
  BY DEF Locations, fileVars
<1>2. \A n \in tree : Holders(n)' = Holders(n)
  BY DEF Holders, HasRef
<1>3. RefExact' /\ CacheExact' /\ UniqueUuid' /\ MappedFileKept' /\ OnlyGoodFilesHold'
  BY <1>2, SameNodes
<1>4. MgrHeld' /\ ArgKnown' /\ FindRight' /\ WorkMapped' /\ NoUseAfterFree'
  BY DEF MgrHeld, ArgKnown, FindRight, WorkMapped, NoUseAfterFree, InMgr, HasRef
<1>5. NodeHeld'
  <2>1. loc[t] \in Nodes /\ owner[loc[t]] = t
    BY DEF NoUseAfterFree, HasRef, NodeHeld, InNode
  <2> QED BY <2>1 DEF NodeHeld, InNode
<1> QED BY <1>1, <1>3, <1>4, <1>5

\* A thread inside arb_disk_open is the only one there on its node, so what it
\* does to the file concerns a node that is not parked and no other node.
LEMMA InsideNode ==
    ASSUME IInv, NEW t \in Threads, pc[t] \in InNode
    PROVE  /\ loc[t] \in tree
           /\ uuid[loc[t]] = arg[t].uuid
           /\ ~cached[loc[t]]
           /\ \A n \in tree : uuid[n] = arg[t].uuid => n = loc[t]
           /\ \A s \in Threads : pc[s] \in InNode /\ loc[s] = loc[t] => s = t
<1>1. pc[t] \in HasRef
  BY DEF InNode, HasRef
<1>2. loc[t] \in tree /\ uuid[loc[t]] = arg[t].uuid
  BY <1>1 DEF IInv, NoUseAfterFree
<1>3. ~cached[loc[t]]
  BY <1>1, <1>2, HolderCounts DEF IInv, CacheExact
<1>4. \A n \in tree : uuid[n] = arg[t].uuid => n = loc[t]
  BY <1>2 DEF IInv, UniqueUuid
<1>5. \A s \in Threads : pc[s] \in InNode /\ loc[s] = loc[t] => s = t
  BY DEF IInv, NodeHeld
<1> QED BY <1>2, <1>3, <1>4, <1>5

\* Mapping, making or reformatting the file keeps it: no other node maps it.
LEMMA LoadIInv ==
    ASSUME IInv, NEW t \in Threads, Load(t)
    PROVE  IInv'
<1> USE DEF Load, GoTo, mgrVars
<1>0. pc[t] \in InNode /\ arg[t] \in Calls
  BY DEF InNode, IInv, ArgKnown
<1>1. TypeOK'
  <2>1. arg[t].uuid \in Uuids
    BY <1>0 DEF Calls
  <2> QED BY <2>1, <1>0 DEF IInv, TypeOK, Locations, fileVars
<1>2. \A n \in tree : Holders(n)' = Holders(n)
  BY DEF Holders, HasRef, IInv, TypeOK
<1>3. RefExact' /\ UniqueUuid'
  BY <1>2 DEF RefExact, UniqueUuid, IInv
<1>4. OnlyGoodFilesHold'
  BY DEF OnlyGoodFilesHold, IInv, TypeOK, fileVars
<1>5. MappedFileKept'
  BY <1>0, InsideNode DEF MappedFileKept, IInv, TypeOK, fileVars, Calls
<1>6. CacheExact'
  <2>1. \A n \in tree : cached[n] => n # loc[t] /\ uuid[n] # arg[t].uuid
    BY <1>0, InsideNode
  <2>2. \A n \in tree : cached[n] => disk'[n] /\ dlis'[uuid[n]] # {}
    BY <2>1 DEF CacheExact, IInv, TypeOK, fileVars
  <2> QED BY <2>2 DEF CacheExact, IInv, NoRepetition, Members
<1>7. /\ MgrHeld' /\ NodeHeld' /\ ArgKnown' /\ FindRight' /\ WorkMapped'
      /\ NoUseAfterFree'
  <2>1. loc[t] \in Nodes
    BY <1>0, InsideNode DEF IInv, TypeOK
  <2> QED BY <2>1 DEF IInv, TypeOK, MgrHeld, NodeHeld, ArgKnown, FindRight, WorkMapped,
                      NoUseAfterFree, InMgr, InNode, HasRef
<1> QED BY <1>1, <1>3, <1>4, <1>5, <1>6, <1>7 DEF IInv

\* The early return without a disk keeps it: a file without pairs goes.
LEMMA LoadFailsIInv ==
    ASSUME IInv, NEW t \in Threads, LoadFails(t)
    PROVE  IInv'
<1> USE DEF LoadFails, GoTo, mgrVars, nodeVars
<1>0. pc[t] \in InNode /\ arg[t] \in Calls
  BY DEF InNode, IInv, ArgKnown
<1>1. TypeOK'
  BY DEF IInv, TypeOK, Locations
<1>2. \A n \in tree : Holders(n)' = Holders(n)
  BY DEF Holders, HasRef, IInv, TypeOK
<1>3. RefExact' /\ UniqueUuid' /\ CacheExact'
  BY <1>2 DEF RefExact, UniqueUuid, CacheExact, IInv, NoRepetition, Members
<1>4. OnlyGoodFilesHold'
  BY DEF OnlyGoodFilesHold, IInv, TypeOK
<1>5. MappedFileKept'
  BY <1>0, InsideNode DEF MappedFileKept, IInv, TypeOK
<1>6. /\ MgrHeld' /\ NodeHeld' /\ ArgKnown' /\ FindRight' /\ WorkMapped'
      /\ NoUseAfterFree'
  BY DEF IInv, TypeOK, MgrHeld, NodeHeld, ArgKnown, FindRight, WorkMapped,
         NoUseAfterFree, InMgr, InNode, HasRef
<1> QED BY <1>1, <1>3, <1>4, <1>5, <1>6 DEF IInv

\* Entering or removing a pair keeps it: the node worked on is not parked.
LEMMA WorkIInv ==
    ASSUME IInv, NEW t \in Threads, Work(t)
    PROVE  IInv'
<1> USE DEF Work, GoTo, mgrVars, nodeVars
<1>0. pc[t] \in InNode /\ arg[t] \in Calls
  BY DEF InNode, IInv, ArgKnown
<1>1. TypeOK'
  BY <1>0 DEF IInv, TypeOK, Locations, Calls
<1>2. \A n \in tree : Holders(n)' = Holders(n)
  BY DEF Holders, HasRef, IInv, TypeOK
<1>3. RefExact' /\ UniqueUuid' /\ MappedFileKept'
  BY <1>2 DEF RefExact, UniqueUuid, MappedFileKept, IInv
<1>4. OnlyGoodFilesHold'
  <2>1. file[arg[t].uuid] = "good"
    BY <1>0, InsideNode DEF IInv, WorkMapped, MappedFileKept
  <2> QED BY <2>1 DEF OnlyGoodFilesHold, IInv, TypeOK
<1>5. CacheExact'
  <2>1. \A n \in tree : cached[n] => uuid[n] # arg[t].uuid
    BY <1>0, InsideNode
  <2>2. \A n \in tree : cached[n] => dlis'[uuid[n]] # {}
    BY <2>1 DEF CacheExact, IInv, TypeOK
  <2> QED BY <2>2 DEF CacheExact, IInv, NoRepetition, Members
<1>6. /\ MgrHeld' /\ NodeHeld' /\ ArgKnown' /\ FindRight' /\ WorkMapped'
      /\ NoUseAfterFree'
  BY DEF IInv, TypeOK, MgrHeld, NodeHeld, ArgKnown, FindRight, WorkMapped,
         NoUseAfterFree, InMgr, InNode, HasRef
<1> QED BY <1>1, <1>3, <1>4, <1>5, <1>6 DEF IInv

\* The nodes of the cache are evictable: they are in the tree, nobody holds
\* them, and unloading their disks deletes nothing.
LEMMA CacheEvictable ==
    ASSUME IInv
    PROVE  /\ \A n \in Members(cache) : Cachable(n) /\ n \in tree /\ ref[n] = 0
           /\ \A n \in Members(cache) : Holders(n) = {}
           /\ \A t \in Threads : pc[t] \in HasRef => loc[t] \notin Members(cache)
<1>1. \A n \in Members(cache) : Cachable(n) /\ n \in tree /\ ref[n] = 0
  BY DEF IInv, CacheExact, Cachable
<1>2. \A n \in Members(cache) : Holders(n) = {}
  BY <1>1, HoldersCount DEF IInv, RefExact
<1>3. \A t \in Threads : pc[t] \in HasRef => loc[t] \notin Members(cache)
  BY <1>2 DEF Holders
<1> QED BY <1>1, <1>2, <1>3

\* A fresh node, and the eviction that makes room for it, keep it.
LEMMA TakeNewIInv ==
    ASSUME IInv, NEW t \in Threads, TakeNew(t)
    PROVE  IInv'
<1>0. pc[t] = "take" /\ loc[t] = NoNode /\ arg[t] \in Calls /\ mgrMtx = t
  BY DEF TakeNew, GoTo, IInv, ArgKnown, MgrHeld, InMgr
<1>1. PICK n \in Nodes \ tree :
         /\ loc' = [loc EXCEPT ![t] = n]
         /\ uuid' = [uuid EXCEPT ![n] = arg[t].uuid]
         /\ owner' = [owner EXCEPT ![n] = NoThread]
         /\ disk' = [disk EXCEPT ![n] = FALSE]
         /\ cached' = [cached EXCEPT ![n] = FALSE]
         /\ CacheCleanup(tree \cup {n}, cache, ARB_MAX_UUID_NUM)
         /\ ref' = [ref EXCEPT ![n] = 1]
  BY DEF TakeNew
<1>2. /\ pc' = [pc EXCEPT ![t] = "lock_node"] /\ mgrMtx' = NoThread
      /\ UNCHANGED <<up, arg, dlis>>
  BY DEF TakeNew, GoTo
<1>3. PICK out \in SUBSET Members(cache) :
         /\ tree' = (tree \cup {n}) \ out
         /\ cache' \in Seq(Nodes)
         /\ NoRepetition(cache')
         /\ Members(cache') = Members(cache) \ out
         /\ file' = file
  BY <1>1, CacheEvictable, CleanupFacts, MaxAssumption DEF IInv, TypeOK, CacheExact
<1>4. n \notin out /\ out \subseteq tree
  BY <1>1, CacheEvictable
<1>5. TypeOK'
  BY <1>0, <1>1, <1>2, <1>3 DEF IInv, TypeOK, Locations, Calls
<1>6. \A m \in tree : uuid[m] # arg[t].uuid
  BY <1>0, NoneDistinct DEF IInv, FindRight, TypeOK
<1>7. UniqueUuid' /\ OnlyGoodFilesHold' /\ MappedFileKept'
  BY <1>1, <1>2, <1>3, <1>4, <1>6
     DEF IInv, TypeOK, UniqueUuid, OnlyGoodFilesHold, MappedFileKept
<1>8. NoUseAfterFree'
  <2>1. \A s \in Threads \ {t} : pc[s] \in HasRef => loc[s] \in tree /\ loc[s] \notin out
    BY <1>3, CacheEvictable DEF IInv, NoUseAfterFree
  <2> QED BY <1>1, <1>2, <1>3, <1>4, <2>1 DEF IInv, TypeOK, NoUseAfterFree
<1>9. RefExact'
  <2>1. \A m \in tree : Holders(m)' = Holders(m)
    BY <1>0, <1>1, <1>2 DEF IInv, TypeOK, Holders, HasRef
  <2>2. Holders(n)' = {t}
    BY <1>0, <1>1, <1>2 DEF IInv, TypeOK, Holders, HasRef, NoUseAfterFree
  <2>3. Cardinality({t}) = 1
    BY FS_Singleton
  <2> QED BY <1>1, <1>3, <2>1, <2>2, <2>3 DEF IInv, TypeOK, RefExact
<1>10. CacheExact'
  <2>1. Members(cache') = {m \in tree' : cached'[m]}
    BY <1>1, <1>3, <1>4 DEF IInv, TypeOK, CacheExact
  <2>2. \A m \in tree' : /\ cached'[m] <=> ref'[m] = 0
                         /\ cached'[m] => disk'[m] /\ dlis'[uuid'[m]] # {}
    BY <1>1, <1>2, <1>3, <1>4 DEF IInv, TypeOK, CacheExact
  <2> QED BY <1>3, <2>1, <2>2 DEF CacheExact, Members
<1>11. MgrHeld' /\ ArgKnown' /\ FindRight'
  BY <1>0, <1>2, NoneDistinct DEF IInv, TypeOK, MgrHeld, ArgKnown, FindRight, InMgr
<1>12. NodeHeld' /\ WorkMapped'
  <2>1. \A s \in Threads : pc[s] \in InNode => loc[s] # n
    BY <1>1 DEF IInv, NoUseAfterFree, InNode, HasRef
  <2> QED BY <1>1, <1>2, <2>1 DEF IInv, TypeOK, NodeHeld, WorkMapped, InNode
<1> QED BY <1>5, <1>7, <1>8, <1>9, <1>10, <1>11, <1>12 DEF IInv

\* One more reference on a node, parked or not, keeps it.
LEMMA TakeFoundIInv ==
    ASSUME IInv, NEW t \in Threads, TakeFound(t)
    PROVE  IInv'
<1>n. PICK n : n = loc[t]
  OBVIOUS
<1>0. /\ pc[t] = "take" /\ n \in tree /\ uuid[n] = arg[t].uuid
      /\ arg[t] \in Calls /\ mgrMtx = t
  BY <1>n DEF TakeFound, GoTo, IInv, ArgKnown, FindRight, MgrHeld, InMgr
<1>1. /\ pc' = [pc EXCEPT ![t] = "lock_node"]
      /\ cached' = [cached EXCEPT ![n] = FALSE]
      /\ ref' = [ref EXCEPT ![n] = @ + 1]
      /\ mgrMtx' = NoThread
      /\ UNCHANGED <<up, arg, loc, tree, uuid, disk, owner, file, dlis>>
  BY <1>n DEF TakeFound, GoTo, nodeVars, fileVars
<1>2. /\ cache' \in Seq(Nodes)
      /\ NoRepetition(cache')
      /\ Members(cache') = Members(cache) \ {n}
  <2>1. CASE cached[n]
    <3>1. n \in Members(cache)
      BY <1>0, <2>1 DEF IInv, CacheExact
    <3>2. cache' = ListRemove(cache, n)
      BY <2>1, <1>n DEF TakeFound
    <3> QED BY <3>1, <3>2, ListRemoveFacts DEF IInv, TypeOK, CacheExact
  <2>2. CASE ~cached[n]
    BY <2>2, <1>0, <1>n DEF IInv, TypeOK, CacheExact, TakeFound
  <2> QED BY <2>1, <2>2
<1>3. TypeOK'
  BY <1>0, <1>1, <1>2 DEF IInv, TypeOK, Locations
<1>4. UniqueUuid' /\ OnlyGoodFilesHold' /\ MappedFileKept'
  BY <1>1 DEF IInv, UniqueUuid, OnlyGoodFilesHold, MappedFileKept
<1>5. NoUseAfterFree'
  BY <1>n, <1>0, <1>1 DEF IInv, TypeOK, NoUseAfterFree
<1>6. RefExact'
  <2>1. \A m \in tree : m # n => Holders(m)' = Holders(m)
    BY <1>n, <1>0, <1>1 DEF IInv, TypeOK, Holders, HasRef
  <2>2. Holders(n)' = Holders(n) \cup {t} /\ t \notin Holders(n)
    BY <1>n, <1>0, <1>1 DEF IInv, TypeOK, Holders, HasRef
  <2>3. Cardinality(Holders(n)') = Cardinality(Holders(n)) + 1
    BY <2>2, HoldersCount, FS_AddElement
  <2>4. ref'[n] = ref[n] + 1 /\ \A m \in tree : m # n => ref'[m] = ref[m]
    BY <1>0, <1>1 DEF IInv, TypeOK
  <2>5. ref'[n] = Cardinality(Holders(n)')
    BY <1>0, <2>3, <2>4 DEF IInv, RefExact
  <2>6. \A m \in tree : m # n => ref'[m] = Cardinality(Holders(m)')
    BY <2>1, <2>4 DEF IInv, RefExact
  <2> QED BY <1>1, <2>5, <2>6 DEF RefExact
<1>7. CacheExact'
  <2>1. Members(cache') = {m \in tree' : cached'[m]}
    BY <1>0, <1>1, <1>2 DEF IInv, TypeOK, CacheExact
  <2>2. ref[n] \in Nat
    BY <1>0, HoldersCount DEF IInv, RefExact
  <2>3. \A m \in tree' : /\ cached'[m] <=> ref'[m] = 0
                         /\ cached'[m] => disk'[m] /\ dlis'[uuid'[m]] # {}
    BY <1>0, <1>1, <2>2 DEF IInv, TypeOK, CacheExact
  <2> QED BY <1>2, <2>1, <2>3 DEF CacheExact, Members
<1>8. MgrHeld' /\ ArgKnown' /\ FindRight' /\ NodeHeld' /\ WorkMapped'
  BY <1>0, <1>1, NoneDistinct DEF IInv, TypeOK, MgrHeld, ArgKnown, FindRight, InMgr,
                                  NodeHeld, WorkMapped, InNode
<1> QED BY <1>3, <1>4, <1>5, <1>6, <1>7, <1>8 DEF IInv

\* What every way out of arb_uuid_unlock does to the thread and to the count:
\* the reference of the thread goes, and with it the mutex.
LEMMA ReturnFacts ==
    ASSUME IInv, NEW t \in Threads, Return(t)
    PROVE  /\ pc[t] = "drop" /\ loc[t] \in tree /\ ~cached[loc[t]]
           /\ pc' \in [Threads -> Locations] /\ arg' \in [Threads -> Calls \cup {NoCall}]
           /\ loc' \in [Threads -> Nodes \cup {NoNode}]
           /\ ref' \in [Nodes -> Nat]
           /\ ref'[loc[t]] = ref[loc[t]] - 1
           /\ \A m \in tree : m # loc[t] => ref'[m] = ref[m]
           /\ \A m \in tree : ref'[m] = Cardinality(Holders(m)')
           /\ \A s \in Threads : pc'[s] \in HasRef =>
                  s # t /\ pc[s] = pc'[s] /\ loc'[s] = loc[s] /\ arg'[s] = arg[s]
           /\ MgrHeld' /\ ArgKnown' /\ NodeHeld' /\ WorkMapped'
           /\ \A s \in Threads : pc'[s] # "take"
<1>n. PICK n : n = loc[t]
  OBVIOUS
<1>1. /\ pc[t] = "drop" /\ pc' = [pc EXCEPT ![t] = "idle"]
      /\ ref' = [ref EXCEPT ![n] = @ - 1]
      /\ mgrMtx' = NoThread /\ mgrMtx = t
      /\ arg' = [arg EXCEPT ![t] = NoCall]
      /\ loc' = [loc EXCEPT ![t] = NoNode]
      /\ UNCHANGED <<up, uuid, disk, owner, dlis>>
  BY <1>n DEF Return, GoTo, nodeVars, IInv, MgrHeld, InMgr
<1>2. n \in tree /\ ~cached[n] /\ ref[n] \in Nat \ {0}
  BY <1>n, <1>1, HolderCounts DEF IInv, TypeOK, CacheExact, HasRef
<1>3. /\ ref' \in [Nodes -> Nat]
      /\ ref'[n] = ref[n] - 1
      /\ \A m \in tree : m # n => ref'[m] = ref[m]
  BY <1>1, <1>2 DEF IInv, TypeOK
<1>4. \A m \in tree : ref'[m] = Cardinality(Holders(m)')
  <2>1. \A m \in tree : m # n => Holders(m)' = Holders(m)
    BY <1>n, <1>1 DEF IInv, TypeOK, Holders, HasRef
  <2>2. Holders(n)' = Holders(n) \ {t} /\ t \in Holders(n)
    BY <1>n, <1>1 DEF IInv, TypeOK, Holders, HasRef
  <2>3. Cardinality(Holders(n)') = Cardinality(Holders(n)) - 1
    BY <2>2, HoldersCount, FS_RemoveElement
  <2>4. \A m \in tree : ref[m] = Cardinality(Holders(m))
    BY DEF IInv, RefExact
  <2>5. ref'[n] = Cardinality(Holders(n)')
    BY <1>2, <1>3, <2>3, <2>4
  <2>6. \A m \in tree : m # n => ref'[m] = Cardinality(Holders(m)')
    BY <1>3, <2>1, <2>4
  <2> QED BY <2>5, <2>6
<1>5. \A s \in Threads : pc'[s] \in HasRef =>
         s # t /\ pc[s] = pc'[s] /\ loc'[s] = loc[s] /\ arg'[s] = arg[s]
  BY <1>1 DEF IInv, TypeOK, HasRef
<1>6. MgrHeld' /\ ArgKnown' /\ NodeHeld' /\ WorkMapped'
  BY <1>1, NoneDistinct DEF IInv, TypeOK, MgrHeld, ArgKnown, NodeHeld, WorkMapped,
                            InMgr, InNode
<1>7. \A s \in Threads : pc'[s] # "take"
  BY <1>1 DEF IInv, TypeOK, MgrHeld, InMgr
<1>8. /\ pc' \in [Threads -> Locations] /\ arg' \in [Threads -> Calls \cup {NoCall}]
      /\ loc' \in [Threads -> Nodes \cup {NoNode}]
  BY <1>1 DEF IInv, TypeOK, Locations
<1> QED BY <1>1, <1>2, <1>3, <1>4, <1>5, <1>6, <1>7, <1>8, <1>n

\* A release that leaves other holders keeps it.
LEMMA DropSharedIInv ==
    ASSUME IInv, NEW t \in Threads, DropShared(t)
    PROVE  IInv'
<1>1. /\ Return(t) /\ ref[loc[t]] # 1 /\ mgrMtx' = NoThread
      /\ UNCHANGED <<up, uuid, disk, owner, dlis, tree, cache, cached, file>>
  BY DEF DropShared, Return, nodeVars
<1>2. TypeOK'
  BY <1>1, ReturnFacts DEF IInv, TypeOK
<1>3. UniqueUuid' /\ OnlyGoodFilesHold' /\ MappedFileKept' /\ FindRight'
  BY <1>1, ReturnFacts DEF IInv, UniqueUuid, OnlyGoodFilesHold, MappedFileKept, FindRight
<1>4. RefExact' /\ NoUseAfterFree'
  BY <1>1, ReturnFacts DEF IInv, RefExact, NoUseAfterFree
<1>5. CacheExact'
  <2>1. \A m \in tree : cached[m] <=> ref'[m] = 0
    <3>1. ref[loc[t]] \in Nat
      BY <1>1, ReturnFacts DEF IInv, TypeOK
    <3> QED BY <1>1, <3>1, ReturnFacts DEF IInv, CacheExact
  <2> QED BY <1>1, <2>1 DEF IInv, CacheExact, NoRepetition, Members
<1> QED BY <1>1, <1>2, <1>3, <1>4, <1>5, ReturnFacts DEF IInv

\* Parking a node, and the eviction that follows, keep it.
LEMMA DropToCacheIInv ==
    ASSUME IInv, NEW t \in Threads, DropToCache(t)
    PROVE  IInv'
<1> DEFINE n == loc[t]
           c == Append(cache, n)
<1>1. /\ Return(t) /\ ref[n] = 1 /\ Cachable(n) /\ mgrMtx' = NoThread
      /\ cached' = [cached EXCEPT ![n] = TRUE]
      /\ CacheCleanup(tree, c, ARB_MAX_UUID_NUM)
      /\ UNCHANGED <<up, uuid, disk, owner, dlis>>
  BY DEF DropToCache, Return, nodeVars
<1>2. n \in tree /\ n \in Nodes /\ ~cached[n]
  BY <1>1, ReturnFacts DEF IInv, TypeOK
<1>3. n \notin Members(cache)
  BY <1>2 DEF IInv, CacheExact
<1>4. c \in Seq(Nodes) /\ NoRepetition(c) /\ Members(c) = Members(cache) \cup {n}
  BY <1>2, <1>3, AppendFacts DEF IInv, TypeOK, CacheExact
<1> HIDE DEF n, c
<1>5. PICK out \in SUBSET Members(c) :
         /\ tree' = tree \ out
         /\ cache' \in Seq(Nodes)
         /\ NoRepetition(cache')
         /\ Members(cache') = Members(c) \ out
         /\ file' = file
  <2>1. \A m \in Members(c) : Cachable(m)
    BY <1>1, <1>4, CacheEvictable
  <2> QED BY <1>1, <1>4, <2>1, CleanupFacts, MaxAssumption DEF IInv, TypeOK
<1>6. TypeOK'
  BY <1>1, <1>2, <1>5, ReturnFacts DEF IInv, TypeOK
<1>7. UniqueUuid' /\ OnlyGoodFilesHold' /\ MappedFileKept' /\ FindRight'
  BY <1>1, <1>5, ReturnFacts DEF IInv, UniqueUuid, OnlyGoodFilesHold, MappedFileKept,
                                 FindRight
<1>8. NoUseAfterFree'
  <2>1. \A s \in Threads : pc'[s] \in HasRef => loc'[s] \notin out
    <3> SUFFICES ASSUME NEW s \in Threads, pc'[s] \in HasRef
                 PROVE  loc'[s] \notin out
      OBVIOUS
    <3>1. s # t /\ pc[s] \in HasRef /\ loc'[s] = loc[s]
      BY <1>1, ReturnFacts
    <3>2. loc[s] \notin Members(cache)
      BY <3>1, CacheEvictable
    <3>3. loc[s] # n
      <4>1. Holders(n) = {t}
        BY <1>1, ReturnFacts, HolderCounts DEF IInv, HasRef, n
      <4> QED BY <4>1, <3>1 DEF Holders
    <3> QED BY <3>1, <3>2, <3>3, <1>4
  <2> QED BY <1>1, <1>5, <2>1, ReturnFacts DEF IInv, NoUseAfterFree
<1>9. RefExact'
  BY <1>1, <1>5, ReturnFacts DEF RefExact
<1>10. CacheExact'
  <2>1. Members(cache') = {m \in tree' : cached'[m]}
    BY <1>1, <1>2, <1>4, <1>5 DEF IInv, TypeOK, CacheExact
  <2>2. \A m \in tree : cached'[m] <=> ref'[m] = 0
    BY <1>1, <1>2, ReturnFacts DEF IInv, TypeOK, CacheExact, n
  <2>3. \A m \in tree : cached'[m] => disk'[m] /\ dlis'[uuid'[m]] # {}
    BY <1>1, <1>2 DEF IInv, TypeOK, CacheExact, Cachable
  <2> QED BY <1>5, <2>1, <2>2, <2>3 DEF CacheExact, Members
<1> QED BY <1>1, <1>6, <1>7, <1>8, <1>9, <1>10, ReturnFacts DEF IInv

\* Freeing a node without pairs keeps it: nobody else has it.
LEMMA DropAndFreeIInv ==
    ASSUME IInv, NEW t \in Threads, DropAndFree(t)
    PROVE  IInv'
<1>n. PICK n : n = loc[t]
  OBVIOUS
<1>1. /\ Return(t) /\ ref[n] = 1 /\ ~Cachable(n) /\ mgrMtx' = NoThread
      /\ tree' = tree \ {n}
      /\ file' = Unloaded({n})
      /\ UNCHANGED <<up, uuid, disk, owner, dlis, cache, cached>>
  BY <1>n DEF DropAndFree, Return, nodeVars
<1>2. n \in tree /\ n \in Nodes /\ ~cached[n]
  BY <1>n, <1>1, ReturnFacts DEF IInv, TypeOK
<1>3. Holders(n) = {t}
  BY <1>n, <1>1, ReturnFacts, HolderCounts DEF IInv, HasRef
<1>4. /\ file' \in [Uuids -> {"none", "bad", "good"}]
      /\ \A u \in Uuids : u # uuid[n] => file'[u] = file[u]
      /\ \A u \in Uuids : file'[u] # file[u] => dlis[u] = {}
  BY <1>1 DEF IInv, TypeOK, Unloaded
<1>5. TypeOK'
  BY <1>1, <1>4, ReturnFacts DEF IInv, TypeOK
<1>6. \A m \in tree' : m # n /\ uuid[m] # uuid[n] /\ uuid[m] \in Uuids
  BY <1>1, <1>2 DEF IInv, TypeOK, UniqueUuid
<1>7. UniqueUuid' /\ MappedFileKept' /\ FindRight'
  <2>1. UniqueUuid'
    BY <1>1 DEF IInv, UniqueUuid
  <2>2. MappedFileKept'
    BY <1>1, <1>4, <1>6 DEF IInv, MappedFileKept
  <2>3. FindRight'
    BY <1>1, ReturnFacts DEF FindRight
  <2> QED BY <2>1, <2>2, <2>3
<1>8. OnlyGoodFilesHold'
  BY <1>1, <1>4 DEF IInv, OnlyGoodFilesHold
<1>9. NoUseAfterFree'
  <2>1. \A s \in Threads : pc'[s] \in HasRef => loc[s] # n
    <3> SUFFICES ASSUME NEW s \in Threads, pc'[s] \in HasRef
                 PROVE  loc[s] # n
      OBVIOUS
    <3>1. s # t /\ pc[s] \in HasRef
      BY <1>1, ReturnFacts
    <3> QED BY <3>1, <1>3 DEF Holders
  <2> QED BY <1>1, <2>1, ReturnFacts DEF IInv, NoUseAfterFree
<1>10. RefExact'
  BY <1>1, ReturnFacts DEF RefExact
<1>11. CacheExact'
  <2>1. \A m \in tree' : cached[m] <=> ref'[m] = 0
    BY <1>n, <1>1, <1>6, ReturnFacts DEF IInv, CacheExact
  <2>2. Members(cache') = {m \in tree' : cached'[m]}
    BY <1>1, <1>2 DEF IInv, CacheExact, Members
  <2>3. \A m \in tree' : cached'[m] => disk'[m] /\ dlis'[uuid'[m]] # {}
    BY <1>1 DEF IInv, CacheExact
  <2> QED BY <1>1, <2>1, <2>2, <2>3 DEF IInv, CacheExact, NoRepetition
<1> QED BY <1>1, <1>5, <1>7, <1>8, <1>9, <1>10, <1>11, ReturnFacts DEF IInv

\* Starting the arbiter keeps it.
LEMMA StartIInv ==
    ASSUME IInv, Start
    PROVE  IInv'
<1> USE DEF IInv, Start, mgrVars, nodeVars, TypeOK
<1>1. TypeOK'
  BY DEF fileVars
<1>2. \A n \in tree : Holders(n)' = Holders(n)
  BY DEF Holders
<1>3. RefExact' /\ CacheExact' /\ UniqueUuid' /\ MappedFileKept' /\ OnlyGoodFilesHold'
  BY <1>2, SameNodes
<1>4. /\ MgrHeld' /\ NodeHeld' /\ ArgKnown' /\ FindRight' /\ WorkMapped'
      /\ NoUseAfterFree'
  BY DEF MgrHeld, NodeHeld, ArgKnown, FindRight, WorkMapped, NoUseAfterFree
<1> QED BY <1>1, <1>3, <1>4

\* Stopping it keeps it: only parked nodes are freed.
LEMMA FiniIInv ==
    ASSUME IInv, Fini
    PROVE  IInv'
<1>1. /\ \A t \in Threads : pc[t] = "idle"
      /\ CacheCleanup(tree, cache, 0)
      /\ up' = FALSE
      /\ UNCHANGED <<pc, arg, loc, mgrMtx, uuid, ref, cached, disk, owner, dlis>>
  BY DEF Fini, nodeVars
<1>2. PICK out \in SUBSET Members(cache) :
         /\ tree' = tree \ out
         /\ cache' \in Seq(Nodes)
         /\ NoRepetition(cache')
         /\ Members(cache') = Members(cache) \ out
         /\ file' = file
  BY <1>1, CacheEvictable, CleanupFacts DEF IInv, TypeOK, CacheExact
<1>3. TypeOK'
  BY <1>1, <1>2 DEF IInv, TypeOK
<1>4. UniqueUuid' /\ OnlyGoodFilesHold' /\ MappedFileKept' /\ NoUseAfterFree'
  BY <1>1, <1>2 DEF IInv, UniqueUuid, OnlyGoodFilesHold, MappedFileKept,
                    NoUseAfterFree, HasRef
<1>5. RefExact'
  BY <1>1, <1>2 DEF IInv, RefExact, Holders
<1>6. CacheExact'
  <2>1. Members(cache') = {m \in tree' : cached'[m]}
    BY <1>1, <1>2 DEF IInv, CacheExact
  <2> QED BY <1>1, <1>2, <2>1 DEF IInv, CacheExact, Members
<1>7. MgrHeld' /\ ArgKnown' /\ FindRight' /\ NodeHeld' /\ WorkMapped'
  BY <1>1 DEF IInv, MgrHeld, ArgKnown, FindRight, NodeHeld, WorkMapped, InMgr, InNode
<1> QED BY <1>3, <1>4, <1>5, <1>6, <1>7 DEF IInv

\* Every step keeps the invariant.
LEMMA NextIInv == IInv /\ [Next]_vars => IInv'
<1> SUFFICES ASSUME IInv, [Next]_vars PROVE IInv'
  OBVIOUS
<1>1. ASSUME NEW t \in Threads, Step(t) PROVE IInv'
  BY <1>1, LockMgrIInv, FindIInv, TakeNewIInv, TakeFoundIInv, LockNodeIInv,
     AlreadyLoadedIInv, LoadIInv, LoadFailsIInv, WorkIInv, UnlockNodeIInv,
     DropSharedIInv, DropToCacheIInv, DropAndFreeIInv DEF Step
<1>2. ASSUME NEW t \in Threads, NEW c \in Calls, Call(t, c) PROVE IInv'
  BY <1>2, CallIInv
<1>3. CASE UNCHANGED vars
  <2> USE <1>3 DEF IInv, vars, mgrVars, nodeVars, fileVars
  <2>1. TypeOK' /\ MgrHeld' /\ NodeHeld' /\ ArgKnown' /\ FindRight' /\ WorkMapped'
    BY DEF TypeOK, MgrHeld, NodeHeld, ArgKnown, FindRight, WorkMapped
  <2>2. /\ OnlyGoodFilesHold' /\ UniqueUuid' /\ NoUseAfterFree'
        /\ RefExact' /\ CacheExact' /\ MappedFileKept'
    BY DEF OnlyGoodFilesHold, UniqueUuid, NoUseAfterFree, RefExact, Holders,
           CacheExact, Members, NoRepetition, MappedFileKept
  <2> QED BY <2>1, <2>2
<1> QED BY <1>1, <1>2, <1>3, StartIInv, FiniIInv DEF Next

-----------------------------------------------------------------------------
(* The theorems.                                                            *)

\* The inductive invariant holds in every reachable state: the mutexes, the
\* reference counts, the tree, the cache and the files agree.
THEOREM Invariance == Spec => []IInv
<1> QED BY InitIInv, NextIInv, PTL DEF Spec

\* Every variable keeps its type.
THEOREM TypeCorrect == Spec => []TypeOK
<1>1. IInv => TypeOK
  BY DEF IInv
<1> QED BY <1>1, Invariance, PTL

\* The node a call uses or waits for is never freed under it, one uuid has one
\* node, and the reference counts are exact.
THEOREM NodesSafe == Spec => [](NoUseAfterFree /\ UniqueUuid /\ RefExact)
<1>1. IInv => NoUseAfterFree /\ UniqueUuid /\ RefExact
  BY DEF IInv
<1> QED BY <1>1, Invariance, PTL

\* lock->ref_cnt is the number of calls that hold or wait for the node.
THEOREM CountsExact == Spec => []RefExact
<1>1. IInv => RefExact
  BY DEF IInv
<1> QED BY <1>1, Invariance, PTL

\* The file of a disk that is mapped, in use or in the cache, is not deleted.
THEOREM FilesKept == Spec => []MappedFileKept
<1>1. IInv => MappedFileKept
  BY DEF IInv
<1> QED BY <1>1, Invariance, PTL

\* No two calls are ever inside arb_disk_open ... arb_disk_close of one uuid.
THEOREM DiskExclusive == Spec => []DiskExclusion
<1>1. IInv => DiskExclusion
  <2> SUFFICES ASSUME IInv, NEW s \in Threads, NEW t \in Threads,
                      pc[s] \in InNode, pc[t] \in InNode, arg[s].uuid = arg[t].uuid
               PROVE  s = t
    BY DEF DiskExclusion
  <2>1. loc[s] = loc[t]
    BY InsideNode
  <2> QED BY <2>1, InsideNode
<1> QED BY <1>1, Invariance, PTL

\* The cache holds exactly the nodes nobody uses, each once, all with pairs, and
\* a mapped disk never loses its file.
THEOREM CacheCorrect == Spec => [](CacheExact /\ MappedFileKept)
<1>1. IInv => CacheExact /\ MappedFileKept
  BY DEF IInv
<1> QED BY <1>1, Invariance, PTL

\* When no call is in progress, every node is parked, so that arb_uuid_mgr_fini
\* empties the tree.
THEOREM FiniCannotAbort == Spec => []IdleMeansCached
<1>1. IInv => IdleMeansCached
  <2> SUFFICES ASSUME IInv, \A t \in Threads : pc[t] = "idle", NEW n \in tree
               PROVE  cached[n]
    BY DEF IdleMeansCached
  <2>1. Holders(n) = {}
    BY DEF Holders, HasRef
  <2>2. ref[n] = 0
    BY <2>1, HoldersCount DEF IInv, RefExact
  <2> QED BY <2>2 DEF IInv, CacheExact
<1> QED BY <1>1, Invariance, PTL

\* A step that keeps dlis, and changes only files that record nothing, takes no
\* pair.
LEMMA NoPairTaken ==
    ASSUME IInv, dlis' = dlis,
           \A u \in Uuids : file'[u] # file[u] => dlis[u] = {}
    PROVE  OnlyRemoveTakesPairs
<1>1. \A u \in Uuids : dlis[u] # {} => file[u] = "good"
  BY DEF IInv, OnlyGoodFilesHold
<1> QED BY <1>1 DEF OnlyRemoveTakesPairs

\* Unmapping disks deletes only files that record nothing.
LEMMA UnloadedTakesNoPair ==
    ASSUME IInv, NEW S, dlis' = dlis, file' = Unloaded(S)
    PROVE  OnlyRemoveTakesPairs
<1>1. \A u \in Uuids : file'[u] # file[u] => dlis[u] = {}
  BY DEF Unloaded
<1> QED BY <1>1, NoPairTaken

\* Nor does trimming the cache.
LEMMA CleanupTakesNoPair ==
    ASSUME IInv, NEW t, NEW c, NEW limit, dlis' = dlis, CacheCleanup(t, c, limit)
    PROVE  OnlyRemoveTakesPairs
<1>1. PICK out : file' = Unloaded(out)
  BY DEF CacheCleanup
<1> QED BY <1>1, UnloadedTakesNoPair

\* Every step but the removal of a pair leaves it in its file.
LEMMA NextTakesNoPair == IInv /\ [Next]_vars => OnlyRemoveTakesPairs
<1> SUFFICES ASSUME IInv, [Next]_vars PROVE OnlyRemoveTakesPairs
  OBVIOUS
<1>1. ASSUME UNCHANGED fileVars PROVE OnlyRemoveTakesPairs
  BY <1>1, NoPairTaken DEF fileVars
<1>2. CASE Start \/ UNCHANGED vars
  BY <1>1, <1>2 DEF Start, vars
<1>3. CASE Fini
  BY <1>3, CleanupTakesNoPair DEF Fini
<1>4. ASSUME NEW t \in Threads, NEW c \in Calls, Call(t, c)
      PROVE  OnlyRemoveTakesPairs
  BY <1>1, <1>4 DEF Call
<1>5. ASSUME NEW t \in Threads, Step(t) PROVE OnlyRemoveTakesPairs
  <2>1. CASE \/ LockMgr(t) \/ Find(t) \/ TakeFound(t) \/ LockNode(t)
             \/ AlreadyLoaded(t) \/ UnlockNode(t)
    BY <2>1, <1>1 DEF LockMgr, Find, TakeFound, LockNode, AlreadyLoaded, UnlockNode
  <2>2. CASE TakeNew(t) \/ DropToCache(t)
    BY <2>2, CleanupTakesNoPair DEF TakeNew, DropToCache, Return
  <2>3. CASE DropAndFree(t)
    BY <2>3, UnloadedTakesNoPair DEF DropAndFree, Return
  <2>4. CASE DropShared(t)
    BY <2>4, NoPairTaken DEF DropShared, Return
  <2>5. CASE LoadFails(t)
    BY <2>5, NoPairTaken DEF LoadFails, IInv, TypeOK, OnlyGoodFilesHold
  <2>6. CASE Load(t)
    <3>1. CASE UNCHANGED fileVars
      BY <3>1, <1>1
    <3>2. CASE /\ file[arg[t].uuid] # "good"
               /\ file' = [file EXCEPT ![arg[t].uuid] = "good"]
               /\ dlis' = [dlis EXCEPT ![arg[t].uuid] = {}]
      <4>1. \A u \in Uuids : dlis'[u] = dlis[u] /\ dlis[u] # {} => file'[u] = "good"
        BY <3>2 DEF IInv, TypeOK, OnlyGoodFilesHold
      <4>2. \A u \in Uuids : dlis'[u] = dlis[u]
        BY <3>2 DEF IInv, TypeOK, OnlyGoodFilesHold
      <4> QED BY <4>1, <4>2 DEF OnlyRemoveTakesPairs
    <3> QED BY <2>6, <3>1, <3>2 DEF Load
  <2>7. CASE Work(t)
    <3>1. pc[t] = "work" /\ arg[t] \in Calls /\ file' = file
      BY <2>7 DEF Work, GoTo, IInv, ArgKnown
    <3>2. SUFFICES ASSUME NEW u \in Uuids, NEW p \in dlis[u], p \notin dlis'[u]
                   PROVE  arg[t] = [op |-> "remove", uuid |-> u, pair |-> p]
      BY <3>1 DEF OnlyRemoveTakesPairs, IInv, OnlyGoodFilesHold
    <3>3. arg[t].op # "use" /\ arg[t].uuid = u /\ arg[t].pair = p
      BY <2>7, <3>2 DEF Work, IInv, TypeOK
    <3> QED BY <3>1, <3>3 DEF Calls
  <2> QED BY <1>5, <2>1, <2>2, <2>3, <2>4, <2>5, <2>6, <2>7 DEF Step
<1> QED BY <1>2, <1>3, <1>4, <1>5 DEF Next

\* No step other than the removal of a pair takes it out of its file.
THEOREM PairsKept == Spec => PairsOnlyRemovedByRemove
<1> QED BY Invariance, NextTakesNoPair, PTL DEF Spec, PairsOnlyRemovedByRemove

-----------------------------------------------------------------------------
(* The bound on the tree.                                                   *)

\* cache_cleanup stops above its limit only when the cache is empty.
LEMMA CleanupBounds ==
    ASSUME NEW t \in SUBSET Nodes, NEW c \in Seq(Nodes), NEW limit \in Nat,
           NoRepetition(c), Members(c) \subseteq t, CacheCleanup(t, c, limit)
    PROVE  Cardinality(tree') > limit => cache' = <<>>
<1> DEFINE size == Cardinality(t)
           k    == Surplus(c, size, limit)
           out  == {c[i] : i \in 1..k}
<1>1. size \in Nat /\ Len(c) \in Nat /\ IsFiniteSet(t)
  BY NodesFinite, FS_Subset, FS_CardinalityType
<1>2. tree' = t \ out /\ cache' = SubSeq(c, k + 1, Len(c))
  BY DEF CacheCleanup
<1>3. CASE size <= limit
  <2>1. k = 0
    BY <1>3 DEF Surplus
  <2>2. tree' = t
    BY <1>2, <2>1
  <2> QED BY <1>1, <1>3, <2>2
<1>4. CASE size > limit /\ size - limit <= Len(c)
  <2>1. k = size - limit /\ k \in 1..Len(c)
    BY <1>1, <1>4 DEF Surplus
  <2> HIDE DEF k
  <2>2. out \subseteq t
    BY <2>1 DEF Members
  <2>3. Cardinality(out) = k
    <3> DEFINE f == [i \in 1..k |-> c[i]]
    <3>1. f \in Bijection(1..k, out)
      <4>1. f \in [1..k -> out]
        OBVIOUS
      <4>2. \A i, j \in 1..k : f[i] = f[j] => i = j
        BY <1>1, <2>1 DEF NoRepetition
      <4>3. \A x \in out : \E i \in 1..k : f[i] = x
        OBVIOUS
      <4> QED BY <4>1, <4>2, <4>3 DEF Bijection, Injection, Surjection, IsInjective
    <3>2. IsFiniteSet(1..k) /\ Cardinality(1..k) = k
      BY <1>1, <2>1, FS_Interval
    <3> QED BY <3>1, <3>2, FS_Bijection DEF ExistsBijection
  <2>4. /\ IsFiniteSet(out) /\ IsFiniteSet(t \ out)
        /\ Cardinality(t \ out) \in Nat
    BY <1>1, <2>2, FS_Subset, FS_CardinalityType
  <2> HIDE DEF out
  <2>5. (t \ out) \cup out = t /\ (t \ out) \cap out = {}
    BY <2>2
  <2>6. size = Cardinality(t \ out) + k
    <3>1. Cardinality(t) = Cardinality(t \ out) + Cardinality(out) - Cardinality({})
      BY <2>4, <2>5, FS_Union
    <3>2. PICK a \in Nat : a = Cardinality(t \ out)
      BY <2>4
    <3>3. size = a + k - 0
      BY <3>1, <3>2, <2>3, FS_EmptySet, Zenon
    <3>4. size = a + k
      BY <3>2, <3>3, <2>1
    <3> QED BY <3>2, <3>4, Zenon
  <2>7. \A a, m, l \in Nat : m = a + (m - l) => a = l
    OBVIOUS
  <2>8. Cardinality(tree') = limit
    BY <1>1, <1>2, <2>1, <2>4, <2>6, <2>7, Zenon
  <2> QED BY <2>8
<1>5. CASE size > limit /\ size - limit > Len(c)
  <2>1. k = Len(c)
    BY <1>1, <1>5 DEF Surplus
  <2> QED BY <1>1, <1>2, <2>1
<1> QED BY <1>1, <1>3, <1>4, <1>5

\* Every step keeps the bound of the tree, by the trimming of both insertions.
LEMMA NextCacheBound == IInv /\ CacheBound /\ [Next]_vars => CacheBound'
<1> SUFFICES ASSUME IInv, CacheBound, [Next]_vars PROVE CacheBound'
  OBVIOUS
<1>0. /\ tree \in SUBSET Nodes /\ cache \in Seq(Nodes) /\ NoRepetition(cache)
      /\ Members(cache) \subseteq tree
  BY DEF IInv, TypeOK, CacheExact
<1>1. ASSUME tree' = tree, cache' = cache PROVE CacheBound'
  BY <1>1 DEF CacheBound
<1>2. CASE Start \/ UNCHANGED vars
  BY <1>1, <1>2 DEF Start, vars, mgrVars
<1>3. CASE Fini
  <2>1. Cardinality(tree') > 0 => cache' = <<>>
    BY <1>0, <1>3, CleanupBounds DEF Fini
  <2>2. tree' \subseteq Nodes
    BY <1>0, <1>3 DEF Fini, CacheCleanup
  <2>3. Cardinality(tree') \in Nat
    BY <2>2, NodesFinite, FS_Subset, FS_CardinalityType
  <2> QED BY <2>1, <2>3, MaxAssumption DEF CacheBound
<1>4. ASSUME NEW t \in Threads, NEW c \in Calls, Call(t, c) PROVE CacheBound'
  BY <1>1, <1>4 DEF Call, mgrVars
<1>5. ASSUME NEW t \in Threads, Step(t) PROVE CacheBound'
  <2>1. CASE \/ LockMgr(t) \/ Find(t) \/ LockNode(t) \/ AlreadyLoaded(t)
             \/ Load(t) \/ LoadFails(t) \/ Work(t) \/ UnlockNode(t) \/ DropShared(t)
    BY <2>1, <1>1 DEF LockMgr, Find, LockNode, AlreadyLoaded, Load, LoadFails, Work,
                      UnlockNode, DropShared, mgrVars
  <2>2. CASE TakeNew(t)
    <3>1. PICK n \in Nodes \ tree :
             CacheCleanup(tree \cup {n}, cache, ARB_MAX_UUID_NUM)
      BY <2>2 DEF TakeNew
    <3>2. tree \cup {n} \in SUBSET Nodes /\ Members(cache) \subseteq tree \cup {n}
      BY <1>0, <3>1
    <3> QED BY <1>0, <3>1, <3>2, CleanupBounds, MaxAssumption DEF CacheBound
  <2>3. CASE TakeFound(t)
    <3>1. tree' = tree /\ cache' = IF cached[loc[t]] THEN ListRemove(cache, loc[t])
                                                    ELSE cache
      BY <2>3 DEF TakeFound
    <3>2. loc[t] \in tree
      BY <2>3 DEF TakeFound, GoTo, IInv, FindRight
    <3>3. cached[loc[t]] => cache # <<>>
      BY <3>2 DEF IInv, CacheExact, Members
    <3> QED BY <3>1, <3>3 DEF CacheBound
  <2>4. CASE DropToCache(t)
    <3>1. loc[t] \in tree /\ ~cached[loc[t]]
      BY <2>4, ReturnFacts DEF DropToCache
    <3>2. loc[t] \notin Members(cache) /\ loc[t] \in Nodes
      BY <3>1, <1>0 DEF IInv, CacheExact
    <3>3. /\ Append(cache, loc[t]) \in Seq(Nodes)
          /\ NoRepetition(Append(cache, loc[t]))
          /\ Members(Append(cache, loc[t])) \subseteq tree
      BY <1>0, <3>1, <3>2, AppendFacts
    <3>4. CacheCleanup(tree, Append(cache, loc[t]), ARB_MAX_UUID_NUM)
      BY <2>4 DEF DropToCache
    <3> QED BY <1>0, <3>3, <3>4, CleanupBounds, MaxAssumption DEF CacheBound
  <2>5. CASE DropAndFree(t)
    <3>1. tree' \subseteq tree /\ cache' = cache
      BY <2>5 DEF DropAndFree
    <3>2. /\ Cardinality(tree') <= Cardinality(tree)
          /\ Cardinality(tree') \in Nat /\ Cardinality(tree) \in Nat
      BY <1>0, <3>1, NodesFinite, FS_Subset, FS_CardinalityType
    <3> QED BY <3>1, <3>2, MaxAssumption DEF CacheBound
  <2> QED BY <1>5, <2>1, <2>2, <2>3, <2>4, <2>5 DEF Step
<1> QED BY <1>2, <1>3, <1>4, <1>5 DEF Next

\* The tree grows beyond ARB_MAX_UUID_NUM only by nodes that calls use.
THEOREM CacheBounded == Spec => []CacheBound
<1>1. Init => CacheBound
  BY DEF Init, CacheBound
<1> QED BY <1>1, Invariance, NextCacheBound, PTL DEF Spec
=============================================================================
