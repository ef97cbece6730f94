# A model of duallive

duallive arbitrates between the two hosts of a *duallive pair*: two hosts that
keep mirrored datasets and, when the link between them fails, ask a third
machine, the arbiter, which of them goes on as master. For each *version* of a
pair the arbiter decides once, keeps the decision in a memory mapped file, and
tells both hosts the same.

This directory is a TLA+ model of the code in `src/`, with TLC runs and TLAPS
proofs. All line numbers are those of the sources beside it.

## The system

| part | source | state | operations |
|---|---|---|---|
| uuid lock manager | `duallive/arbitrary_disk.c` 231-367, 405-466, 510-557 | an AVL tree of nodes, one per uuid in use; a list of parked nodes; a mutex for both, one in each node; a reference count and a mapped disk per node | `arb_select_master_slave`, `arb_query_master_slave`, `arb_remove_duallive`, `arb_disk_init`, `arb_disk_fini` |
| version arbitration | same, 468-508 | six version slots per pair, in the map and on the disk | `arb_disk_sel_ms`, `arb_disk_query_ms` |
| pair table of a disk | same, 12-213 | head, array of pairs, string area, all in the map | `arb_disk_insert_dli`, `arb_disk_remove_dli`, and the growth of array and strings |
| disk file | `xutils/file_map.c`, `arbitrary_disk.c` 94-108, 369-414 | the file, its size, its map | open, extend, resize, map, sync, format, unload, delete |
| arbiter lifecycle | `arbitrary_disk.c` 215-280, 512-525 | a lock file, the one manager, shells that delete files | start, stop, death |
| arbitration messages | `duallive/arbitrary_msg.c` | encoder, message, decoder | init, add, output, check, get |
| growing vectors | `xutils/cvector.c` | buffer, its size, what is used of it | add of elements and strings |
| message sockets | `xutils/simple_sock.c` | connections and their threads, the stream | accept loop, `sock_send`, `sock_recv` |
| AVL tree | `libspl/avl.c` | root, count, and per node two children, parent, which child it is, balance | find, nearest, walk, insert, remove, update, destroy |
| linked list | `libspl/list.c` | a ring of `next` and `prev` through the list head | insert, remove, move, replace, walk |
| kernel shims | `libspl/kernel.c` | two counters of allocations, mutexes | alloc, free, enter, exit |
| shell | `xutils/shell.c` | a child process | `mkdir`, `rm` |
| demo, tools | `duallive/demo.c`, `tools/` | none | a demonstration; the other tools are empty |

How they interact. A host encodes its pairs and versions in a message and sends
it through a socket; the arbiter decodes it and calls `arb_select_master_slave`
for each pair (this glue does not exist yet: only `demo.c` calls the parts, one
after the other). A call locks the node of its uuid, maps the file of that uuid
unless an earlier call left it mapped, finds or enters the pair in the table of
the file, and reads or writes the pair's version slots. Then it unlocks: the
last one out parks the node with its map in the cache, or deletes the file if
no pair is left in it. The map is shared with the file, so what a call has
stored survives the process at once and a power loss only after `fsync`. Files
are deleted by a shell, which inherits the lock that keeps a second arbiter out.

What makes it hard, and what makes it correct:

* *Threads.* Lookup, waiting for a node, releasing it, parking, eviction and
  deletion interleave. One uuid must have one node, a node in use must not be
  freed, a mapped file must not be deleted, counts and cache must be exact.
* *Eviction of versions.* The slots are few, versions come late and out of
  order; decisions hosts were told must not be contradicted.
* *Crashes.* The process may die between any two stores, the machine between a
  store and its `fsync`.
* *Layout.* Offsets into a file that grows, strings shared with the last one
  written, and arrays closed by moving elements must stay consistent with what
  each pair means.
* *Partial I/O.* Full disks, failed writes, streams that split or break.
* *Pointers.* Each operation on a tree or a list rewires several pointers through
  each other; a removal may rotate at every level.

## The modules

`UuidMgr` is the lock manager at the grain of its mutexes. Each thread has a
`pc` and the local variable `lock` (`loc`) of the code. Every unlocked step and
every critical section is an action, named for its place: `LockMgr`, `Find`,
`TakeNew` or `TakeFound` (`arb_uuid_lock`, with the `cache_cleanup` inside it),
`LockNode`, `AlreadyLoaded`, `Load` or `LoadFails` (`arb_disk_open_impl`),
`Work`, `UnlockNode`, and `DropShared`, `DropToCache` or `DropAndFree`
(`arb_uuid_unlock`, again with the cleanup). The lookup and the insertion are
two actions, so that the critical section which joins them is the model's
`mgrMtx` and not its atomicity. A disk file is the set of pairs it records.

`Arbitrate` is one pair's slots: `slots` in the map, `durable` on the disk.
`Decide` stores, `SyncOk` or `SyncFails` ends the call; `Writeback`,
`ProcessCrash` and `PowerLoss` are the machine's. `MasterChoice` is the
abstract promise: for each version, the first side told is the only one ever
told, until the promise is excused once and for all. `Arbitrate` implements it,
with `named` the sides in `told`, and `bound` true as long as the behaviour is
timely (see below).

`DliTable` is the image in one file: head, array and strings, store by store,
so that the process can die between any two (`Kill`, and the actions named
`...Cut` inside `arb_disk_add_str` and the copy of the strings). An insertion finds the
pair or not, claims an element, stores each host, and per dataset a string and its
offset (`SetHost`, `SetDataset`). The growth of the array is `GrowFile`, the copy of
the strings (`MoveStrings`; `MoveStringsCut` dies in it with any part of them
copied) and `Double`: between the last two the strings have moved and the head
does not say so. One store each are the cells of a new string, which count when
`str_pos` is past them, the port and uuid of the head, and the copy of one element
in a removal. Sizes are cells of a small scale; a string is a run of cells, which
is what `memcmp` and the offsets see.

`DiskFile` is the life of one file, system call by system call: creation,
extension, map, format, resize, use, deletion, eviction, with deaths and writes
that fail for want of space, noticed (`fwrite`) and unnoticed (`fclose`). It
also has the processes that use the file one after the other: `Start`
(`get_flock`), `Stop` (`put_flock`), `Kill`, and the child that deletes the file
(`rm`), which a process waits for and which may outlive it. `Start` waits for
such an orphan, because `open` without `O_CLOEXEC` passes the locked descriptor on.

`ArbMsg` is the encoder with its vectors, the message, and the decoder.
A message is its fields, not bytes.

`SimpleSock` is the accept loop with its threads, and `sock_send` and
`sock_recv` over a stream of words that reads and writes take in any portions.
`MCMessages` runs `ArbMsg` and `SimpleSock`, which share nothing, in one run: a
behaviour uses one of them.

`AvlTree` is `avl.c` pointer by pointer. An operation is one action up to its
loop, and each turn of the loop that restores the balance is another. Only the
order of keys matters, so a node is named by the rank of its key and an
insertion or a removal renames the nodes behind it: the tree alone is the state,
and every shape the code can build is reached with few states. `LinkedList` is
`list.c`, store by store within an operation; it implements the sequences of
`ObjectLists`. These two are why `UuidMgr` may have a set of nodes with distinct
keys and a sequence in place of tree and cache. `MCLibspl` runs both.

`UuidMgr` composes the others by its theorem `DiskExclusive`: calls of one uuid
exclude each other, which is why `DliTable`, `DiskFile` and `Arbitrate` have one
call at a time. `DliTable` leaves version eviction to `Arbitrate` (fewer
versions than slots), `Arbitrate` leaves the place of the slots to `DliTable`.

Operators named `...Bug` are variants of the definition that follows them with
a mistake a programmer could make. No specification uses them; each property
was checked to fail when the definition is replaced by the variant.

## The runs

| run | what it asks | bounds, and why they are enough |
|---|---|---|
| `lock_manager` | do all interleavings keep nodes, counts, cache, files and pairs right | 3 threads, 2 uuids, 1 pair each, 2 nodes, a tree limit of 1: a holder, a waiter and an evictor on one node, both uuids competing for the cache, reuse of a freed node's memory; unlimited calls |
| `lock_manager_live` | does every call return, does an emptied file go | 3 threads on 1 uuid, one call each |
| `arbitrate` | what hosts are told, after evictions, failed syncs, deaths, power losses; is it `MasterChoice` | 2 slots, versions 0..3: more versions than slots, so that late requests displace newer ones |
| `pair_table` | are members found, with their decisions, between and after changes and deaths | 3 pairs over 2 strings of different lengths, an array of 2 elements that is doubled once, 1 version, a string area of 10 cells, in which a third pair, a doubling and a pair entered again have room; one kind of mishap per behaviour |
| `disk_file` | what a call finds after deaths, failed writes, and shells that outlive their process | a page of 4, a minimum of 2, 2 pairs: all orders of sizes that the code compares; any number of processes |
| `messages` | does what was added come back; do messages arrive whole, once, in order, on the right thread | `ArbMsg`: 5 additions with a count modulo 4, 3 pairs whose strings are equal, shared, different or empty, 2 versions, all 4 types; `SimpleSock`: 2 clients, one with two messages of 0 or 2 bytes, a stream that holds 3 words |
| `libspl` | do tree and lists stay what they stand for, in the loops too | 12 nodes: the smallest tree in which one removal rotates twice; 2 lists, 4 objects: every move, and an object with a neighbour on each side beside a free one |
| `growth_loses_pairs`, `torn_growth`, `element_reuse`, `common_info`, `empty_file` | claims that the code does not keep, see Findings | those of `pair_table` and `disk_file` |

Deadlock is checked except in `pair_table` and the runs on the same module,
where the bound on the string area stops all insertions in the end, and in
`messages`, where clients finish.

The exceptions in the properties are part of what was found. `Agreement` holds,
and `MasterChoice` is bound, for *timely* behaviours: no request came `NumSlots` or more versions behind the
newest (find_ver_in_dli evicts the lowest version, so such a request displaces
a newer decision), and no power loss undid a write that its call had left
unsynced, because `fsync` failed or the process died before it (the next process
finds the decision in the map and answers it without a sync). `RecentDurable` says
nothing while such a write is outstanding.
`MembersFound` and `DecisionsKept` exclude what loses pairs: a removal cut short by
a death, a doubled array (finding 1), and a growth cut short once the strings have
begun to move (finding 2). `OpenedComplete` excludes the window after the magic
number, `PairsKept` a file to which a write failed, `SentArrives` a connection that
was not accepted when the accept loop ended, `NoneLost` a count that wrapped around.
`AbortsOnlyAfterDamage` names the two windows in which a death damages a file,
`born` and `torn`. `MadeIsAccepted` excludes an empty arbiter address, whose
offset 0 the decoder refuses. A hazard in an exempted case is listed in
`PROJECT.json` without a property, with a note: the properties bound such a case,
they do not exclude it.

### Fairness

`lock_manager_live`: weak fairness of each thread's own steps. A pthread mutex
gives no order to its waiters, so with unlimited calls a thread may starve;
the run therefore gives each thread a finite number of calls, which is the most
the code justifies. `messages`: weak fairness of accepting a connection that waits, of
making a thread for it (or failing to), and of each client's `sock_send` and each
handler; none for a failing `accept`, new calls, the network, or clients that close. All other runs are
safety only.

## What is proved

`UuidMgrProofs`, for every finite set of threads and of nodes, every set of
uuids and pairs and every tree limit: `IInv` is inductive (`Invariance`), and
with it `TypeCorrect`, `NodesSafe` (one node per uuid, no use after free, exact
counts), `DiskExclusive`, `CacheCorrect`, `FiniCannotAbort`, `CacheBounded` and
the action property `PairsKept`. Assumed: the constants marked as absent are
not members of the sets they mark. `IInv` adds to the safety properties who may
be where: the manager mutex is held exactly in its critical sections, the node
mutex between its lock and unlock, what `Find` returned is still true while the
mutex is held, a thread at work has a mapped disk, and a file that is not
formatted records nothing. The safety properties need each other: a node in use
is not freed because its count is exact, which is so because parked nodes are
those that nobody holds. The counting rests on lemmas about the holders of a
node (`HolderCounts`), the lists on lemmas about `list_remove`, taking heads off
and appending.

`ArbitrateProofs`, for any number of slots and versions: `Invariance`,
`TypeCorrect`, `HostsAgree`, `RecentDecisionsKept`, `ZeroNeverDecided`, the
action property `OldestDisplaced`, and `Refinement` (`Spec` implements
`MasterChoice` without restriction, every step being an answer, an excuse or a
stutter). The core is `EvictsOld`: a
timely request displaces an unset slot or a version `NumSlots` or more below
the newest, since otherwise all slots hold different versions of a range that
has one fewer (a pigeonhole argument). `IInv` says that no version is stored
twice, and for timely behaviours that slots agree with what was told, keep the
recent part of it, and that the disk does so too unless a call left its write
unsynced.

`DiskFileProofs`, for any page size, minimal size, number of elements a format
makes room for, and bounds: `OpensComplete`, `MapsInside`, `AbortsExplained` and
the action property `NoPairLost`. The invariant ties each place of a call to the
head it has built so far (`Headed`), to the sizes of file and map (`Sized`) and
to what may have gone wrong on the way (`Damaged`); `Locked` ties an orphaned
`rm` to the lock, and `Kept` to a file without pairs, which is why it may run on.

`SimpleSockProofs`, for any connections, message lengths and bounds:
`TypeCorrect`, `HandlersApart`, `DeliveredInOrder`. A function `off`, which no
variable holds, gives each message its place in the stream of its connection;
what is being read, what is on the way and what is still to be written are then
consecutive segments of it, with no gap as long as the connection lasts. A
handler can only be at a header when its place is that of a message, so the
magic number it reads is one.

`ArbMsgProofs`, for any strings, vector sizes and width of the count:
`ComesBack`, `Accepted`, `NothingLost`, `BuffersSuffice`. The invariant counts the
additions until the count wraps around, gives each element the places of its
strings, and says of a message that it is what the encoder then holds. That
doubling ends with room for what is added is a fact about the set of doubles of
a size (`DoublesOf`, `ExpandedHolds`): powers of two are beyond the provers.

`DliTableProofs`, for any pairs, strings and sizes: `StoresAreInside`,
`MembersAreFound`, `DecisionsAreKept`, `MembersAreExact`. A string once entered
stays, since later ones are written behind it (`AddStrEnters`, `StringStays`), so
an element keeps its pair while it is not stored into (`SameElement`). `Whole`
are the elements that count: not the one being filled, nor the gap that a
removal closes. Every member has a first element among these, with what its
hosts were told (`Found1`), and closing the gap moves elements without changing
their order (`ShiftKeeps`). Both are claimed while the strings are where
`dl_num_max` says (`Laid`): no growth has moved them, is about to double, or was
cut short after it began to. `Counted`, for behaviours without mishap, adds that
there are no others. What "first" means rests on the least-number principle of
`WellFoundedInduction`. Nothing is claimed of strings once the array was doubled
(finding 1) or they were moved for it (finding 2), but that stores stay inside, the
copy of the strings included, is proved then too. Assumed of the
constants: strings have positive lengths, the empty one length 1, and one is the
longest; the pairs are finitely many and use these strings; sizes are natural
numbers and an array is not longer than `MaxDli`. TLC evaluates these in
`pair_table`.

`LinkedListProofs`, for any lists and objects: `RingsClosed`. `next` and `prev`
are inverse on every ring (`TwoWay`), and the nodes can be divided among the
lists so that no link leaves its part (`Owned`). For finitely many objects also
`ReadsBothWays` and `Implements`. Inductive is that there are sequences which the
pointers hold, one per list that exists, without an object twice (`Holds`): each
lemma about a cut, a link or a move of a tail names the sequences that are held
next. What the recursive reading of `Along` gives is then the sequence held
(`AlongHolds`), by the least place at which the two would differ. Assumed: list
heads, objects and `NULL` are different, `NULL` is no sequence of objects, and the
objects are finitely many (`LinksAssumption`).

`AvlTreeProofs`, for trees of any size: `Orders`, `Balances`, `Searches` and
`DestroysOnce` of every behaviour of `AvlTree`. `Ordered`, `Balanced` and `Lookups` read the tree with
recursive functions, which say nothing local that an operation could be seen to
keep. The inductive invariant `AvlInv` (`Stands`) therefore has three functions
that no variable holds and that are known node by node:

* `e`, how far what is below a node reaches, and `b`, its neighbours in the order
  of the keys. `Shape` says that a child ends where its parent ends on its own
  side and next to the parent on the other, and that parents and children agree.
  This is all a search tree is, and each change of links moves a few ends.
* `h`, the heights. `Level` says that the sides of each node differ by its balance,
  but for what is `Owed`: in a loop one side of the node it has come to counts as
  it was before. `Uneven` is what a loop of an insertion has to know besides: what
  grew is higher on one side, or it would not be two too high for its parent.

A rotation is put together from `Lowered` (one link turned, with the node below it
left hanging) and `Hang`, a removal from exchanging two names (`Renamed` with a
swap gives what `Exchanged` computes, the case of a child included) and cutting a
node with one child; a new node gets its place from `Find`, whose way down keeps the
key inside the span of the node it has come to. What the recursive functions give
is then what `e` and `h` are: two functions that agree at a node when they agree at
its children agree everywhere, since of the nodes at which they do not one would
be the lowest (`Lowest`; the ends make a child's span a part of its parent's), and
likewise upwards for the walks (`Highest`).

`AvlInv` says nothing of a tree that is being destroyed: it no longer is a search
tree, and the link to the node freed last is still in it. `DestroyInv` does, and
with `AvlInv` it is inductive (`Destroys`). There is a set of nodes not yet freed,
one fewer than `numnodes`, and with the link at the cookie cut they are a search
tree again (`Rest`): so no other link leads to a freed node. Where the way from the
root to the cookie goes right, what was on the left is gone, and the nodes of that
way are as unbalanced as this makes them (`OnWay`); all others are as they were in
the tree that stood, their sides differing in height by at most one (`Flat`). The
code relies on this at `check_right_side`: of a first node it hands out the right
child without looking below it, and nothing is lost, because that node has nothing
on its left, so that this child is a leaf (`FirstHasLeaf`). What is left is then
below the root and behind the cookie, which is what `DestroyOnce` reads off the
pointers (`LeftIs`); counting uses `FiniteSetTheorems`. `NodesAssumption` is all that
is assumed of the trees.

Left to TLC: liveness and everything under fairness (`CallReturns`,
`EmptiedFileGoes`, `SentArrives`), which is beyond the prover, as is ENABLED. Every
other property that a passing run checks is proved.

## Findings

1. `arb_disk_strbuf_shift` (line 65) computes the bytes to move from a length
   that is relative to the strings minus one that is relative to the file. When
   the array is doubled, strings of earlier pairs stay behind and these pairs
   are not found again; with few strings the difference wraps around and the
   process dies (`MoveWraps`). Run `growth_loses_pairs`.
2. The same copy (line 70) goes over live strings of the old layout, and only then
   is `dl_num_max` doubled (line 127). When the process dies in the copy or
   between the two, the next one reads, where the elements say, strings that others
   were copied over: pairs are not found although the array is what it was, and are
   entered again in other elements, without their decisions. Run `torn_growth`.
3. `arb_disk_insert_dli` (line 189) does not clear the versions of the element
   it takes, so a pair inherits decisions of another or an earlier pair. Run
   `element_reuse`.
4. `desc_standard` leaves the address, port and uuid of its copy
   uninitialised when the bigger host id asks first; line 145 reads them. Run
   `common_info`.
5. A death between the creation of a file and its first extension leaves an
   empty file that every later `arb_disk_open` aborts on. Run `empty_file`.

Seen on the way: `expand` ignores the result of `fclose`; one failing `accept`
ends the server while its port stays open; `get_flock` opens its file without
`O_CREAT` (these three are in the hazards of `PROJECT.json`); `sock_recv` leaves
`*size` unset and, when the body cannot be read, its buffer with the caller.

## Not modelled

Block devices, the read-only and private modes of `file_map.c` and its reopen:
no code uses them. A failing `open` or `mmap`. `ALIGN_TO_PAGE` needs no
rounding in the model, because as written it evaluates to its argument.
`avl_swap`, which nothing calls, and equal keys in a tree, which its callers
exclude. A list moved to itself, which would lose it: nothing does that. The
allocation counters of `kernel.c`, which restate what `IdleMeansCached` says of
nodes and disks. Who creates the lock file: no code does, so the models take it
to exist. A power loss of the pair table beyond one page: writeback may then
leave pages of different times, about which the code says nothing; of one page
it leaves an earlier image of the same file, which is a death at that earlier
store. In particular a removal, which is never synced, may be undone. Printing,
`demo.c` and the empty tools.

An abstract disk, a map from pairs to decisions, is not stated: findings 1, 2 and 3
break every natural form of it, and the exceptions would be the model again.

## Plan

Done: `UuidMgr`, `MasterChoice`, `Arbitrate`, `DliTable`, `DiskFile` with its
processes, `ArbMsg`, `SimpleSock`, `AvlTree`, `LinkedList` with `ObjectLists`, and
the proofs about all of them. What could be added: what of `MembersFound` remains
in its exceptions: of a removal cut short every pair but one, of a growth cut
short the pairs whose strings lie before the place they are copied to.
