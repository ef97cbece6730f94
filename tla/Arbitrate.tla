------------------------------ MODULE Arbitrate ------------------------------
(****************************************************************************)
(* The version slots of one duallive pair: find_ver_in_dli, arb_disk_sel_ms *)
(* and arb_disk_query_ms, over a memory map that reaches the disk by fsync, *)
(* by the kernel's own writeback, or not at all.                            *)
(*                                                                          *)
(* The calls of one pair exclude each other (DiskExclusion of UuidMgr), so  *)
(* one call at a time is between the write of a slot and its fsync.  Any    *)
(* version may be asked for in any order; the history variables late and    *)
(* undone tell the behaviours for which the arbiter can promise nothing.    *)
(****************************************************************************)
EXTENDS Integers, FiniteSets

CONSTANTS
    NumSlots,    \* ARRAY_SIZE(dli->version)
    MaxVer,      \* bound: the highest version asked for
    NoCall

ASSUME SlotsAssumption  == NumSlots \in Nat \ {0}
ASSUME MaxVerAssumption == MaxVer \in Nat

Versions == 0..MaxVer
Sides    == {"little", "big"}      \* DL_STATE_MS_LITTLE, DL_STATE_MS_BIG
Words    == [version : Versions, state : Sides \cup {"normal"}]
Index    == 1..NumSlots
Unset    == [version |-> 0, state |-> "normal"]

ASSUME NoCallAssumption == NoCall \notin Words

VARIABLES
    slots,      \* dli->version in the memory map
    durable,    \* the same on the disk
    pending,    \* the word a call has stored and not yet synced, or NoCall
    told,       \* history: the decisions hosts were told
    maxVer,     \* history: the highest version a slot was written for
    late,       \* history: a slot was written for a version NumSlots or more
                \* below maxVer
    exposed,    \* a call ended without a successful fsync after its write: the
                \* fsync failed, or the process died before it
    undone      \* history: a power loss undid such a write

vars == <<slots, durable, pending, told, maxVer, late, exposed, undone>>

Init ==
    /\ slots = [i \in Index |-> Unset]
    /\ durable = slots
    /\ pending = NoCall
    /\ told = {}
    /\ maxVer = 0
    /\ late = FALSE
    /\ exposed = FALSE
    /\ undone = FALSE

-----------------------------------------------------------------------------
\* Each operator named ...Bug is the definition below it with a plausible
\* mistake.  No specification uses it: it shows that a property can fail.

StoredBug(v) == \E i \in Index : slots[i].version = v /\ slots[i] # Unset

OldestBug == CHOOSE i \in Index : \A j \in Index : slots[i].version >= slots[j].version

\* find_ver_in_dli: the slot of version v when there is one, otherwise the
\* first of the slots with the lowest version, which is the one to overwrite.
Stored(v)  == \E i \in Index : slots[i].version = v
SlotOf(v)  == CHOOSE i \in Index : /\ slots[i].version = v
                                   /\ \A j \in Index : slots[j].version = v => i <= j
Oldest     == CHOOSE i \in Index :
                 \A j \in Index : /\ slots[i].version <= slots[j].version
                                  /\ slots[i].version = slots[j].version => i <= j

Decided(W) == {w \in W : w.state \in Sides}

\* arb_disk_sel_ms and arb_disk_query_ms, the version being in a slot.  (A
\* query of a version in no slot answers the zero word and changes nothing.)
AnswerStored(v) ==
    /\ pending = NoCall
    /\ Stored(v)
    /\ told' = told \cup Decided({slots[SlotOf(v)]})
    /\ UNCHANGED <<slots, durable, pending, maxVer, late, exposed, undone>>

\* A version that is stored already is decided again.
DecideAgainBug(v, s) ==
    LET sel == [version |-> v, state |-> s] IN
    /\ pending = NoCall
    /\ v > 0
    /\ slots' = [slots EXCEPT ![Oldest] = sel]
    /\ pending' = sel
    /\ maxVer' = IF v > maxVer THEN v ELSE maxVer
    /\ late' = (late \/ v + NumSlots <= maxVer)
    /\ UNCHANGED <<durable, told, exposed, undone>>

\* arb_disk_sel_ms decides for the host that asks, which is side s of the pair.
Decide(v, s) ==
    LET sel == [version |-> v, state |-> s] IN
    /\ pending = NoCall
    /\ ~Stored(v)
    /\ slots' = [slots EXCEPT ![Oldest] = sel]
    /\ pending' = sel
    /\ maxVer' = IF v > maxVer THEN v ELSE maxVer
    /\ late' = (late \/ v + NumSlots <= maxVer)
    /\ UNCHANGED <<durable, told, exposed, undone>>

\* The decision is told without a sync.
SyncOkBug ==
    /\ pending # NoCall
    /\ told' = told \cup {pending}
    /\ pending' = NoCall
    /\ UNCHANGED <<slots, durable, maxVer, late, exposed, undone>>

\* file_map_sync succeeds, and the decision is told.
SyncOk ==
    /\ pending # NoCall
    /\ durable' = slots
    /\ told' = told \cup {pending}
    /\ pending' = NoCall
    /\ exposed' = FALSE
    /\ UNCHANGED <<slots, maxVer, late, undone>>

\* It fails: the host gets its own request back, the slot stays written.
SyncFails ==
    /\ pending # NoCall
    /\ pending' = NoCall
    /\ exposed' = TRUE
    /\ UNCHANGED <<slots, durable, told, maxVer, late, undone>>

-----------------------------------------------------------------------------
(* The machine.                                                             *)

\* The kernel writes the dirty page back when it likes.
Writeback ==
    /\ durable # slots
    /\ durable' = slots
    /\ exposed' = FALSE
    /\ UNCHANGED <<slots, pending, told, maxVer, late, undone>>

\* The process dies in the middle of a call; the page cache survives it.
ProcessCrash ==
    /\ pending # NoCall
    /\ pending' = NoCall
    /\ exposed' = TRUE
    /\ UNCHANGED <<slots, durable, told, maxVer, late, undone>>

PowerLoss ==
    /\ slots' = durable
    /\ pending' = NoCall
    /\ exposed' = FALSE
    /\ undone' = (undone \/ (exposed /\ durable # slots))
    /\ UNCHANGED <<durable, told, maxVer, late>>

Next ==
    \/ \E v \in Versions : AnswerStored(v)
    \/ \E v \in Versions, s \in Sides : Decide(v, s)
    \/ SyncOk \/ SyncFails
    \/ Writeback \/ ProcessCrash \/ PowerLoss

Spec == Init /\ [][Next]_vars

\* Requests lag less than NumSlots versions, and no power loss has undone a write
\* whose sync had failed or, as the process died, never came.  (The call after
\* it answers such a write without a sync of its own.)
Timely == ~late /\ ~undone

-----------------------------------------------------------------------------
(* Properties.                                                              *)

\* Every variable has its type; only words with a side are told or pending.
TypeOK ==
    /\ slots \in [Index -> Words]
    /\ durable \in [Index -> Words]
    /\ pending \in Decided(Words) \cup {NoCall}
    /\ told \in SUBSET Decided(Words)
    /\ maxVer \in Versions
    /\ late \in BOOLEAN /\ exposed \in BOOLEAN /\ undone \in BOOLEAN

\* The decisions among the last NumSlots versions.
Recent == {a \in told : a.version + NumSlots > maxVer}

\* Both hosts of a pair, however often they ask, are told the same side for a
\* version: across evictions of older versions, failed syncs, process crashes
\* and power losses, except when a request came late enough to displace newer
\* ones, or a power loss undid a write that its call had left unsynced, because
\* fsync failed or the process died before it.
Agreement ==
    Timely => \A a, b \in told : a.version = b.version => a.state = b.state

\* A decision that was told among the last NumSlots versions is in the slots:
\* the eviction of find_ver_in_dli only reaches older ones.
RecentKept == Timely => \A a \in Recent : \E i \in Index : slots[i] = a

\* And it is on the disk, unless a call ended with its sync failed or missing and
\* nothing has reached the disk since: a power loss now would not undo what hosts
\* know.
RecentDurable ==
    Timely /\ ~exposed => \A a \in Recent : \E i \in Index : durable[i] = a

\* Version 0 marks an unset slot; no host is told a decision for it.
ZeroUndecided == Timely => \A a \in told : a.version > 0

\* Whatever is asked, a call displaces a decision only when every other slot
\* holds, and keeps, a newer one.
NewerKept ==
    \A i \in Index :
        slots[i].state \in Sides /\ slots'[i] # slots[i] =>
            \A j \in Index \ {i} : /\ slots[j].version > slots[i].version
                                   /\ slots'[j] = slots[j]

CallStores == pending = NoCall /\ pending' # NoCall

DisplacesOldest == [][CallStores => NewerKept]_vars

\* The slots implement the write-once choice of MasterChoice, whose steps are
\* the answers that hosts get; a late request and an undone write excuse it.
toldSides == [v \in Versions |-> {a.state : a \in {b \in told : b.version = v}}]
Choice == INSTANCE MasterChoice WITH named <- toldSides, bound <- Timely
ImplementsChoice == Choice!Spec

\* The inductive invariant: what a memory image s of the slots must satisfy,
\* in the map and, while no write was left unsynced, on the disk.
Distinct(s) ==
    \A i, j \in Index : s[i].version = s[j].version /\ i # j =>
                          s[i].state \notin Sides /\ s[j].state \notin Sides

WellFormed(s) ==
    \A i \in Index : /\ s[i].version <= maxVer
                     /\ s[i].state \in Sides <=> s[i].version > 0

Matches(s) == \A i \in Index, a \in told : s[i].version = a.version => s[i].state = a.state
Keeps(s)   == \A a \in Recent : \E i \in Index : s[i] = a

TimelyInv ==
    /\ \A a \in told : a.version > 0 /\ a.version <= maxVer
    /\ \A a, b \in told : a.version = b.version => a.state = b.state
    /\ WellFormed(slots) /\ WellFormed(durable)
    /\ Matches(slots) /\ Keeps(slots)
    /\ ~exposed => Matches(durable) /\ Keeps(durable)
    /\ ~exposed /\ pending = NoCall => durable = slots
    /\ pending # NoCall => \E i \in Index : slots[i] = pending

\* The image in the map and the one on the disk never hold a version twice.
IInv == TypeOK /\ Distinct(slots) /\ Distinct(durable) /\ (Timely => TimelyInv)
=============================================================================
