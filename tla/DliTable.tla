------------------------------ MODULE DliTable ------------------------------
(****************************************************************************)
(* The image of one disk file: the head, the array of pairs (arb_disk_dli_t)*)
(* and the string area behind it, and what opening a disk for a pair,       *)
(* selecting, and removing a pair do to it, store by store.                 *)
(*                                                                          *)
(* Calls of one disk exclude each other (DiskExclusion of UuidMgr).  The    *)
(* image is a shared map, so it survives the death of the process, which    *)
(* Kill and the actions named ...Cut place between any two stores and into  *)
(* the copy of the strings.  Taken as one store each: the cells of a new    *)
(* string, which count when str_pos is past them; port and uuid of the head *)
(* (comm); the copy of one element in Shift.  Of a file of one page a power *)
(* loss leaves the image as it was at some store before, which is what a    *)
(* death at that store leaves.  What the hosts know by then is the subject  *)
(* of Arbitrate.                                                            *)
(*                                                                          *)
(* Sizes and offsets are in cells: the head, an array element and a string  *)
(* take a number of cells each, and a cell of the string area is a position *)
(* in a string.  (ALIGN_TO_PAGE evaluates to its argument, so a file grows  *)
(* by exactly what is asked.)                                               *)
(****************************************************************************)
EXTENDS Integers, FiniteSets

CONSTANTS
    Pairs,             \* [host : <<id, id>>, ds : <<name, name>>], in standard order
    Names, NameLen,    \* the strings and their lengths, terminator included
    Ip,                \* desc->arbitrary_ip, one of Names
    HeadSize, DliSize, \* sizeof(arb_disk_head_t), sizeof(arb_disk_dli_t)
    ARB_DFL_DLI_NUM,   \* the length of the array in a new file
    MinStr,            \* the string area of a new file
    MaxVer,            \* bound: versions are 1..MaxVer, fewer than the slots
    MaxStr,            \* bound: no call or growth starts that might pass MaxStr cells
    MaxDli,            \* bound: length of the array after the last doubling
    MaxHarm            \* bound: how many kinds of mishap meet in a behaviour

ASSUME NamesAssumption == NameLen \in [Names -> Nat \ {0}] /\ Ip \in Names
ASSUME EmptyAssumption == "" \in Names => NameLen[""] = 1
ASSUME LongestAssumption == \E m \in Names : \A n \in Names : NameLen[n] <= NameLen[m]
ASSUME PairsAssumption == IsFiniteSet(Pairs) /\ Pairs \subseteq [host : Nat \X Nat, ds : Names \X Names]
ASSUME SizesAssumption ==
    /\ {HeadSize, DliSize, MaxVer} \subseteq Nat /\ {MinStr, MaxStr} \subseteq Nat \ {0}
    /\ {ARB_DFL_DLI_NUM, MaxDli} \subseteq Nat \ {0} /\ ARB_DFL_DLI_NUM <= MaxDli

Sides   == {"little", "big"}
Offsets == 0..MaxStr
Slots   == 0..(MaxDli - 1)
MaxLen  == CHOOSE m \in {NameLen[n] : n \in Names} : \A n \in Names : NameLen[n] <= m
Nul     == <<"", 0>>                       \* a zero cell: the empty string
Cells   == {Nul} \cup UNION {{<<n, k>> : k \in 0..(NameLen[n] - 1)} : n \in Names}
Words   == [version : 1..MaxVer, state : Sides]
Junk    == [version |-> 0, state |-> "junk"]   \* bytes of strings read as a word
Fresh   == [host |-> <<0, 0>>, ds |-> <<0, 0>>, words |-> {}]    \* zeroed element

VARIABLES
    dl_num, dl_num_max,          \* in the head
    dli,                         \* the array, elements past dl_num included
    str, str_pos, last_str_pos,  \* the string area; the two are in the head
    arb_ip, comm,                \* comm: where arb_port and uuid came from
    size,                        \* of the file
    call,                        \* the call in progress, or NoCall
    members, told,               \* history: the pairs entered and not removed,
                                 \* and what hosts were told about each since
    harm                         \* history: what went wrong so far

head == <<dl_num, dl_num_max, arb_ip, comm>>
strs == <<str, str_pos, last_str_pos>>
hist == <<members, told>>

\* "killed": the process died while it filled an element or the head.
\* "cut": it died in a removal.  "torn": it died in the growth of the array when
\* strings had been moved and dl_num_max was not doubled.  "grown": the array
\* was doubled.
Harms == {"killed", "cut", "torn", "grown"}
Harmed(h) == harm' = harm \cup h /\ Cardinality(harm') <= MaxHarm
vars == <<head, strs, dli, size, call, hist, harm>>

NoCall == [op |-> "none", pair |-> 0, side |-> "none", step |-> "idle", i |-> 0]
At(s)  == call.step = s
Go(s)  == call' = [call EXCEPT !.step = s]

\* arb_disk_format: everything is zero but the length of the array, and the
\* first string is the null string.
BlankArray   == [i \in Slots |-> Fresh]
BlankStrings == [o \in Offsets |-> Nul]
MinSize      == HeadSize + DliSize * ARB_DFL_DLI_NUM + MinStr

Init ==
    /\ dl_num = 0 /\ dl_num_max = ARB_DFL_DLI_NUM /\ arb_ip = 0 /\ comm = "unset"
    /\ dli = BlankArray
    /\ str = BlankStrings /\ str_pos = 1 /\ last_str_pos = 0
    /\ size = MinSize
    /\ call = NoCall
    /\ members = {}
    /\ told = [p \in Pairs |-> {}]
    /\ harm = {}

-----------------------------------------------------------------------------
(* Space.                                                                   *)

stroff == HeadSize + DliSize * dl_num_max     \* arb_disk_stroff
used   == stroff + str_pos                    \* arb_disk_used_space

\* Each operator named ...Bug is the definition below it with a plausible
\* mistake.  No specification uses it: it shows that a property can fail.

StrAt(o, n) == \A k \in 0..(NameLen[n] - 1) : o + k \in Offsets /\ str[o + k] = <<n, k>>

\* The file is not made longer for the terminator.
AddStrBug(n) ==
    LET len == NameLen[n] IN
    /\ size' = IF used + len - 1 > size THEN size + len ELSE size
    /\ IF str_pos - last_str_pos = len /\ StrAt(last_str_pos, n)
       THEN UNCHANGED strs
       ELSE /\ str' = [o \in Offsets |-> IF o \in str_pos..(str_pos + len - 1)
                                         THEN <<n, o - str_pos>> ELSE str[o]]
            /\ last_str_pos' = str_pos
            /\ str_pos' = str_pos + len

\* arb_disk_add_str(n): a string equal to the last one is shared, another one is
\* appended, and the file grows first when the string might not fit.  The
\* offset of the string is last_str_pos afterwards.
RoomFor(n)  == size' = IF used + NameLen[n] > size THEN size + NameLen[n] ELSE size
Shared(n)   == str_pos - last_str_pos = NameLen[n] /\ StrAt(last_str_pos, n)
Appended(n) == [o \in Offsets |-> IF o \in str_pos..(str_pos + NameLen[n] - 1)
                                  THEN <<n, o - str_pos>> ELSE str[o]]

AddStr(n) ==
    /\ RoomFor(n)
    /\ IF Shared(n)
       THEN UNCHANGED strs
       ELSE /\ str' = Appended(n)
            /\ last_str_pos' = str_pos
            /\ str_pos' = str_pos + NameLen[n]

\* The same by a process that dies in it or right after it: when the file has
\* grown (or the map could not follow, which is an assertion), the string was
\* copied, last_str_pos was set, or str_pos was too.
AddStrCut(n) ==
    /\ RoomFor(n)
    /\ \/ UNCHANGED strs
       \/ /\ ~Shared(n)
          /\ str' = Appended(n)
          /\ \/ UNCHANGED <<str_pos, last_str_pos>>
             \/ last_str_pos' = str_pos /\ str_pos' \in {str_pos, str_pos + NameLen[n]}

\* A pair is known by its datasets alone.
EquDescBug(e, p) == \A j \in {1, 2} : StrAt(e.ds[j], p.ds[j])

\* dli_equ_desc, and arb_disk_find_dli: the index of the first equal element.
EquDesc(e, p) == e.host = p.host /\ \A j \in {1, 2} : StrAt(e.ds[j], p.ds[j])
Live     == 0..(dl_num - 1)
Found(p) == {i \in Live : EquDesc(dli[i], p)}
First(S) == CHOOSE i \in S : \A j \in S : i <= j

-----------------------------------------------------------------------------
(* Opening the disk for a pair: arb_disk_insert_dli.                        *)

Open(p, s) ==
    /\ call = NoCall
    /\ str_pos + NameLen[p.ds[1]] + NameLen[p.ds[2]] + MaxLen <= MaxStr
    /\ call' = [op |-> "insert", pair |-> p, side |-> s, step |-> "find", i |-> 0]
    /\ UNCHANGED <<head, strs, dli, size, hist, harm>>

FindPresent ==
    /\ At("find") /\ call.op = "insert"
    /\ Found(call.pair) # {}
    /\ call' = [call EXCEPT !.step = "ready", !.i = First(Found(call.pair))]
    /\ members' = members \cup {call.pair}
    /\ UNCHANGED <<head, strs, dli, size, told, harm>>

FindAbsent ==
    /\ At("find") /\ call.op = "insert"
    /\ Found(call.pair) = {}
    /\ Go(IF dl_num = dl_num_max THEN "grow" ELSE "claim")
    /\ UNCHANGED <<head, strs, dli, size, hist, harm>>

\* arb_disk_expand_dli_space: room for as many elements again, the strings moved
\* behind them, and dl_num_max doubled.
More  == DliSize * dl_num_max
Moved == str_pos - stroff

GrowFile ==
    /\ At("grow")
    /\ size' = IF size - used < More THEN size + More ELSE size
    /\ Go("move")
    /\ UNCHANGED <<head, strs, dli, hist, harm>>

\* arb_disk_strbuf_shift takes the number of bytes to move from str_pos, which
\* counts from the start of the strings, minus the offset of that start in the
\* file: Moved.  As long as dl_num_max is what it was, the copy lies over the
\* strings from offset More on.
InBounds     == 2 * dl_num_max <= MaxDli /\ Moved + More <= MaxStr + 1
Copied(done) == [o \in Offsets |-> IF o - More \in done THEN str[o - More] ELSE str[o]]

MoveStrings ==
    /\ At("move")
    /\ Moved > 0 /\ InBounds
    /\ str' = Copied(0..(Moved - 1))
    /\ Go("double")
    /\ UNCHANGED <<head, str_pos, last_str_pos, dli, size, hist, harm>>

\* The process dies in the copy.  memcpy promises no order.
MoveStringsCut ==
    /\ At("move")
    /\ Moved > 0 /\ InBounds
    /\ \E done \in SUBSET (0..(Moved - 1)) \ {{}} : str' = Copied(done)
    /\ call' = NoCall
    /\ Harmed({"torn"})
    /\ UNCHANGED <<head, str_pos, last_str_pos, dli, size, hist>>

\* When the subtraction wraps around, reading nearly 2^32 bytes runs out of the map
\* and the process dies before it stores any.  A difference of 0 ends in the
\* assertion of kmem_free on the size.
MoveWraps ==
    /\ At("move")
    /\ Moved <= 0
    /\ call' = NoCall
    /\ UNCHANGED <<head, strs, dli, size, hist, harm>>

\* Strings now begin More cells further on: what was not copied is left behind.
\* The new elements are not cleared: they show the strings that were there.
Double ==
    LET overlaid(i) == i \in dl_num_max..(2 * dl_num_max - 1) /\ DliSize * (i - dl_num_max) < str_pos
    IN  /\ At("double")
        /\ dl_num_max' = 2 * dl_num_max
        /\ str' = [o \in Offsets |-> IF o + More \in Offsets THEN str[o + More] ELSE Nul]
        /\ dli' = [i \in Slots |-> IF overlaid(i) THEN [Fresh EXCEPT !.words = {Junk}] ELSE dli[i]]
        /\ Harmed({"grown"})
        /\ Go("claim")
        /\ UNCHANGED <<dl_num, arb_ip, comm, str_pos, last_str_pos, size, hist>>

Claim ==
    /\ At("claim")
    /\ dl_num' = dl_num + 1
    /\ call' = [call EXCEPT !.step = "host1", !.i = dl_num]
    /\ UNCHANGED <<dl_num_max, arb_ip, comm, strs, dli, size, hist, harm>>

SetHost(j, this, next) ==
    /\ At(this)
    /\ dli' = [dli EXCEPT ![call.i].host[j] = call.pair.host[j]]
    /\ Go(next)
    /\ UNCHANGED <<head, strs, size, hist, harm>>

\* The datasets: a string, and the store of its offset in the element.
SetDataset(j, this, next) ==
    LET n == call.pair.ds[j] IN
    /\ At(this)
    /\ AddStr(n)
    /\ dli' = [dli EXCEPT ![call.i].ds[j] = last_str_pos']
    /\ Go(next)
    /\ members' = IF j = 2 THEN members \cup {call.pair} ELSE members
    /\ UNCHANGED <<head, told, harm>>

\* The process dies before the store.  It always does when the map has moved with
\* the file, since the store goes through dli, which points into the old map.
SetDatasetCut(j, this) ==
    /\ At(this)
    /\ AddStrCut(call.pair.ds[j])
    /\ call' = NoCall
    /\ Harmed({"killed"})
    /\ UNCHANGED <<head, dli, hist>>

\* arb_disk_set_comm_info, for the first pair.  desc_standard of a descriptor
\* whose local host is the bigger one leaves arbitrary_ip, arbitrary_port and
\* uuid of its copy unset: add_str reads whatever string is there, or dies.
SkipComm ==
    /\ At("comm")
    /\ dl_num # 1
    /\ Go("ready")
    /\ UNCHANGED <<head, strs, dli, size, hist, harm>>

Addresses == IF call.side = "little" THEN {Ip} ELSE Names

SetComm ==
    /\ At("comm")
    /\ dl_num = 1
    /\ \E n \in Addresses : AddStr(n)
    /\ arb_ip' = last_str_pos'
    /\ comm' = IF call.side = "little" THEN "desc" ELSE "garbage"
    /\ Go("ready")
    /\ UNCHANGED <<dl_num, dl_num_max, dli, hist, harm>>

\* The process dies on the unset pointer or the map that moved, or between the
\* stores; at the last of them, arb_ip is set.
SetCommCut ==
    /\ At("comm")
    /\ dl_num = 1
    /\ \E n \in Addresses : \/ AddStrCut(n) /\ UNCHANGED arb_ip
                            \/ AddStr(n) /\ arb_ip' = last_str_pos'
    /\ call' = NoCall
    /\ Harmed({"killed"})
    /\ UNCHANGED <<dl_num, dl_num_max, comm, dli, hist>>

\* arb_disk_sel_ms (versions do not outnumber the slots here) or a query that
\* finds its version: the host is told the word in the element.  (Arbitrate has
\* what may happen between the two.)
Select(v) ==
    LET e    == dli[call.i]
        old  == {w \in e.words : w.version = v}
        word == IF old # {} THEN CHOOSE w \in old : TRUE
                            ELSE [version |-> v, state |-> call.side]
    IN  /\ At("ready")
        /\ dli' = [dli EXCEPT ![call.i].words = @ \cup {word}]
        /\ told' = [told EXCEPT ![call.pair] = @ \cup {word}]
        /\ call' = NoCall
        /\ UNCHANGED <<head, strs, size, members, harm>>

\* arb_disk_query_ms of a version that is in no slot.
QueryUnknown ==
    /\ At("ready")
    /\ call' = NoCall
    /\ UNCHANGED <<head, strs, dli, size, hist, harm>>

-----------------------------------------------------------------------------
(* arb_disk_remove_dli.                                                     *)

Remove(p) ==
    /\ call = NoCall
    /\ Found(p) # {}
    /\ call' = [op |-> "remove", pair |-> p, side |-> "none", step |-> "shift",
                i |-> First(Found(p))]
    /\ dl_num' = dl_num - 1
    /\ members' = members \ {p}
    /\ told' = [told EXCEPT ![p] = {}]
    /\ UNCHANGED <<dl_num_max, arb_ip, comm, strs, dli, size, harm>>

\* The loop stops one element short.
ShiftBug ==
    /\ At("shift")
    /\ IF call.i + 1 < dl_num
       THEN /\ dli' = [dli EXCEPT ![call.i] = dli[call.i + 1]]
            /\ call' = [call EXCEPT !.i = @ + 1]
       ELSE UNCHANGED dli /\ call' = NoCall
    /\ UNCHANGED <<head, strs, size, hist, harm>>

\* The identity of the pair is moved, its versions are not.
ShiftIdsBug ==
    /\ At("shift")
    /\ IF call.i < dl_num
       THEN /\ dli' = [dli EXCEPT ![call.i] = [dli[call.i + 1] EXCEPT !.words = dli[call.i].words]]
            /\ call' = [call EXCEPT !.i = @ + 1]
       ELSE UNCHANGED dli /\ call' = NoCall
    /\ UNCHANGED <<head, strs, size, hist, harm>>

\* One turn of the loop that closes the gap.
Shift ==
    /\ At("shift")
    /\ IF call.i < dl_num
       THEN /\ dli' = [dli EXCEPT ![call.i] = dli[call.i + 1]]
            /\ call' = [call EXCEPT !.i = @ + 1]
       ELSE UNCHANGED dli /\ call' = NoCall
    /\ UNCHANGED <<head, strs, size, hist, harm>>

-----------------------------------------------------------------------------
\* The process is killed in a call; the map stays in the file.
Kill ==
    /\ call # NoCall
    /\ call' = NoCall
    /\ Harmed(IF call.op = "remove" THEN {"cut"}
              ELSE IF At("double") THEN {"torn"}
              ELSE IF call.step \in {"host1", "host2", "ds1", "ds2", "comm"} THEN {"killed"} ELSE {})
    /\ UNCHANGED <<head, strs, dli, size, hist>>

\* The last holder of a disk without pairs deletes the file, and the next one
\* formats a new one.  (As long as other calls hold the disk, the image stays.)
Recreate ==
    /\ call = NoCall
    /\ dl_num = 0
    /\ dl_num' = 0 /\ dl_num_max' = ARB_DFL_DLI_NUM /\ arb_ip' = 0 /\ comm' = "unset"
    /\ dli' = BlankArray
    /\ str' = BlankStrings /\ str_pos' = 1 /\ last_str_pos' = 0
    /\ size' = MinSize
    /\ UNCHANGED <<call, hist, harm>>

Next ==
    \/ \E p \in Pairs, s \in Sides : Open(p, s)
    \/ \E p \in Pairs : Remove(p)
    \/ FindPresent \/ FindAbsent
    \/ GrowFile \/ MoveStrings \/ MoveStringsCut \/ MoveWraps \/ Double
    \/ Claim \/ SetHost(1, "host1", "host2") \/ SetHost(2, "host2", "ds1")
    \/ SetDataset(1, "ds1", "ds2") \/ SetDatasetCut(1, "ds1")
    \/ SetDataset(2, "ds2", "comm") \/ SetDatasetCut(2, "ds2")
    \/ SkipComm \/ SetComm \/ SetCommCut
    \/ \E v \in 1..MaxVer : Select(v)
    \/ QueryUnknown
    \/ Shift
    \/ Kill
    \/ Recreate

Spec == Init /\ [][Next]_vars

-----------------------------------------------------------------------------
(* Properties.                                                              *)

TypeOK ==
    /\ dl_num \in 0..MaxDli /\ dl_num_max \in 1..MaxDli
    /\ dli \in [Slots -> [host : Nat \X Nat, ds : Offsets \X Offsets, words : SUBSET (Words \cup {Junk})]]
    /\ str \in [Offsets -> Cells] /\ str_pos \in Offsets /\ last_str_pos \in Offsets
    /\ arb_ip \in Offsets /\ comm \in {"unset", "desc", "garbage"} /\ size \in Nat
    /\ call = NoCall \/ call.pair \in Pairs
    /\ members \subseteq Pairs
    /\ told \in [Pairs -> SUBSET (Words \cup {Junk})]
    /\ harm \subseteq Harms

\* No call is between two stores that belong together.
Settled == call.op # "remove" /\ ~At("double")

\* What may lose pairs: a removal cut short, an array that grew, and a growth cut
\* short after the strings began to move.
Losses == {"cut", "torn", "grown"}

\* A pair that was entered and not removed is found again, whatever other pairs
\* come and go, strings are shared, and insertions are killed half way, unless
\* one of the three losses happened.
MembersFound ==
    Settled /\ harm \cap Losses = {} => \A p \in members : Found(p) # {}

\* The element that is found for it still holds every decision its hosts were
\* told: closing a gap moves a pair together with its versions.  (With the same
\* exceptions.)
DecisionsKept ==
    Settled /\ harm \cap Losses = {} =>
        \A p \in members : Found(p) # {} => told[p] \subseteq dli[First(Found(p))].words

\* Between calls the array has exactly the members, each once, as long as no
\* call died half way: the dl_num = 0 that deletes a file means no pair is left.
MembersExact ==
    call = NoCall /\ harm = {} => dl_num = Cardinality(members)

\* Stores stay inside: every variable keeps its type, the strings end inside the
\* file after any growth of strings and array, so does the copy of them that a
\* growth makes, and the element claimed is one of the array (the ASSERT of
\* arb_disk_insert_dli).
StoresInside ==
    /\ TypeOK
    /\ used <= size
    /\ At("move") => used + More <= size
    /\ At("claim") => dl_num < dl_num_max

\* Claims of the source that its code does not keep, each checked by a run of
\* its own.

\* The format puts the strings behind an array of dl_num_max elements: a pair
\* is found as before when the array has grown.
GrowthKeepsMembers ==
    Settled /\ harm \subseteq {"grown"} => \A p \in members : Found(p) # {}

\* The array has dl_num_max elements and the strings are behind it: a growth that
\* has not doubled dl_num_max leaves the strings of the pairs what they were,
\* also when the process dies in it.
TornGrowthKeepsMembers ==
    Settled /\ harm \subseteq {"torn"} => \A p \in members : Found(p) # {}

\* Removing a pair removes its information: what an element says of a pair was
\* decided for that pair since it was entered.
OwnDecisions ==
    call = NoCall /\ harm = {} =>
        \A p \in members : dli[First(Found(p))].words \subseteq told[p]

\* The head of a disk with pairs has the arbiter's address from a descriptor.
CommSet == call = NoCall /\ harm = {} /\ members # {} => comm = "desc"
=============================================================================
