------------------------------ MODULE DiskFile ------------------------------
(****************************************************************************)
(* The life of one disk file: file_map.c (create, extend, map, resize,      *)
(* unmap) as arb_disk_load, arb_disk_format and arb_disk_unload use it, one *)
(* action per system call or store that a death of the process can follow,  *)
(* and of the processes that use it one after the other: each holds the     *)
(* lock file, and with it the children that delete files for it.            *)
(*                                                                          *)
(* The calls of one uuid exclude each other (DiskExclusion of UuidMgr), so  *)
(* one call at a time is in progress.  The map is shared: stores survive    *)
(* the process.  Of the image only the head matters here; the rest is the   *)
(* subject of DliTable.                                                     *)
(****************************************************************************)
EXTENDS Integers

CONSTANTS
    PAGE_SIZE,   \* what file_map_open_ puts in a new file
    MIN_SIZE,    \* ALIGN_TO_PAGE(ARB_DISK_MIN_SIZE): the size of a formatted one
    DFL_NUM,     \* ARB_DFL_DLI_NUM
    MaxSize,     \* bound: a file that long does not grow further
    MaxPairs     \* bound: pairs in the file, at most DFL_NUM

ASSUME SizesAssumption ==
    /\ {MIN_SIZE, PAGE_SIZE, MaxSize} \subseteq Nat
    /\ 0 < MIN_SIZE /\ MIN_SIZE < PAGE_SIZE /\ PAGE_SIZE <= MaxSize
ASSUME PairsAssumption ==
    /\ {DFL_NUM, MaxPairs} \subseteq Nat
    /\ 0 < MaxPairs /\ MaxPairs <= DFL_NUM

VARIABLES
    size,       \* of the file, or NoFile
    head,       \* magic, dl_num_max, str_pos and dl_num in the file
    mapped,     \* fm.size of the map of the file, 0 when there is none
    op,         \* "open" is a call with create = 1, "remove" one with create = 0
    pc,         \* where it is
    up,         \* a process runs, and has the lock
    rm,         \* the child that deletes the file: "none", "child" while the
                \* process waits for it, "orphan" when the process has died
    aborted,    \* the last call ended in a failed VERIFY or ASSERT
    faulted,    \* history of the present file: a write to extend it has failed,
    born,       \* the process died between its creation and its first extension,
    torn        \* or between the stores of the magic number and of str_pos

vars == <<size, head, mapped, op, pc, up, rm, aborted, faulted, born, torn>>

NoFile == -1
Zeroed == [magic |-> FALSE, dl_num_max |-> 0, str_pos |-> 0, dl_num |-> 0]
Locations == {"idle", "access", "extend", "map", "check", "resize", "remap", "clear",
              "magic", "num_max", "str_pos", "ready", "unload", "rm", "failed"}

Init ==
    /\ size = NoFile /\ head = Zeroed /\ mapped = 0
    /\ op = "open" /\ pc = "idle" /\ up = FALSE /\ rm = "none" /\ aborted = FALSE
    /\ faulted = FALSE /\ born = FALSE /\ torn = FALSE

Goto(from, to) == pc = from /\ pc' = to
Still    == UNCHANGED <<up, rm>>
Harmless == Still /\ UNCHANGED <<faulted, born, torn>>

-----------------------------------------------------------------------------
(* arb_disk_load and file_map_open_.                                        *)

\* A disk mapped by an earlier call is used as it is.
Call(o) ==
    /\ up
    /\ Goto("idle", IF mapped > 0 THEN "ready" ELSE "access")
    /\ op' = o
    /\ aborted' = FALSE
    /\ UNCHANGED <<size, head, mapped>> /\ Harmless

AccessFound ==
    /\ size # NoFile
    /\ Goto("access", "map")
    /\ UNCHANGED <<size, head, mapped, op, aborted>> /\ Harmless

AccessMissing ==
    /\ size = NoFile /\ op = "remove"
    /\ Goto("access", "idle")
    /\ UNCHANGED <<size, head, mapped, op, aborted>> /\ Harmless

\* fopen in expand makes the file.
Create ==
    /\ size = NoFile /\ op = "open"
    /\ Goto("access", "extend")
    /\ size' = 0
    /\ UNCHANGED <<head, mapped, op, aborted>> /\ Harmless

Extend ==
    /\ Goto("extend", "map")
    /\ size' = size + PAGE_SIZE
    /\ UNCHANGED <<head, mapped, op, aborted>> /\ Harmless

\* The disk is full: part of the page is written, file_map_open_ gives up.
ExtendFails ==
    /\ Goto("extend", "failed")
    /\ size' \in size..(size + PAGE_SIZE - 1)
    /\ faulted' = TRUE
    /\ UNCHANGED <<head, mapped, op, aborted, born, torn>> /\ Still

\* do_map: an empty file cannot be mapped.
Map ==
    /\ size > 0
    /\ Goto("map", "check")
    /\ mapped' = size
    /\ UNCHANGED <<size, head, op, aborted>> /\ Harmless

MapFails ==
    /\ size = 0
    /\ Goto("map", "failed")
    /\ UNCHANGED <<size, head, mapped, op, aborted>> /\ Harmless

\* Each operator named ...Bug is the definition below it with a plausible
\* mistake.  No specification uses it: it shows that a property can fail.

FormattedBug == mapped >= MIN_SIZE

Formatted == head.magic /\ mapped >= MIN_SIZE

CheckGood ==
    /\ Formatted
    /\ Goto("check", "ready")
    /\ UNCHANGED <<size, head, mapped, op, aborted>> /\ Harmless

CheckBad ==
    /\ ~Formatted /\ op = "open"
    /\ Goto("check", "resize")
    /\ UNCHANGED <<size, head, mapped, op, aborted>> /\ Harmless

\* A call that does not create has the file deleted.
Discard ==
    /\ ~Formatted /\ op = "remove"
    /\ Goto("check", "rm")
    /\ mapped' = 0 /\ rm' = "child"
    /\ UNCHANGED <<size, head, op, up, aborted, faulted, born, torn>>

\* VERIFY(disk) in arb_disk_open; arb_disk_remove just returns.
LoadFailed ==
    /\ Goto("failed", "idle")
    /\ aborted' = (op = "open") /\ up' = (op = "remove")
    /\ UNCHANGED <<size, head, mapped, op, rm, faulted, born, torn>>

-----------------------------------------------------------------------------
(* arb_disk_format.                                                         *)

\* The file is truncated under the map.
ResizeBug ==
    /\ Goto("resize", "clear")
    /\ size' = MIN_SIZE
    /\ UNCHANGED <<head, mapped, op, aborted>> /\ Harmless

\* set_size truncates or extends; file_map_set_size maps the file anew when
\* its size has changed.
Resize ==
    /\ Goto("resize", IF size = MIN_SIZE THEN "clear" ELSE "remap")
    /\ size' = MIN_SIZE
    /\ UNCHANGED <<head, mapped, op, aborted>> /\ Harmless

\* The disk is full.  What is missing is less than a buffer of stdio, so the
\* write fails in fclose, and expand reports success.
ResizeFails ==
    /\ size < MIN_SIZE
    /\ Goto("resize", "remap")
    /\ size' \in size..(MIN_SIZE - 1)
    /\ faulted' = TRUE
    /\ UNCHANGED <<head, mapped, op, aborted, born, torn>> /\ Still

Remap ==
    /\ Goto("remap", "clear")
    /\ mapped' = size
    /\ UNCHANGED <<size, head, op, aborted>> /\ Harmless

Clear ==
    /\ Goto("clear", "magic")
    /\ head' = Zeroed
    /\ UNCHANGED <<size, mapped, op, aborted>> /\ Harmless

SetMagic ==
    /\ Goto("magic", "num_max")
    /\ head' = [head EXCEPT !.magic = TRUE]
    /\ UNCHANGED <<size, mapped, op, aborted>> /\ Harmless

SetNumMaxBug ==
    /\ Goto("num_max", "str_pos")
    /\ UNCHANGED <<size, head, mapped, op, aborted>> /\ Harmless

SetNumMax ==
    /\ Goto("num_max", "str_pos")
    /\ head' = [head EXCEPT !.dl_num_max = DFL_NUM]
    /\ UNCHANGED <<size, mapped, op, aborted>> /\ Harmless

SetStrPos ==
    /\ Goto("str_pos", "ready")
    /\ head' = [head EXCEPT !.str_pos = 1]
    /\ UNCHANGED <<size, mapped, op, aborted>> /\ Harmless

-----------------------------------------------------------------------------
(* The work on the image, as far as the head and the size of the file go.   *)

FindPair ==
    /\ \/ op = "open" /\ head.dl_num > 0
       \/ op = "remove"
    /\ Goto("ready", "unload")
    /\ UNCHANGED <<size, head, mapped, op, aborted>> /\ Harmless

\* arb_disk_insert_dli, the strings perhaps making the file longer.
InsertPair ==
    /\ op = "open" /\ head.dl_num < head.dl_num_max /\ head.dl_num < MaxPairs
    /\ Goto("ready", "unload")
    /\ size' \in {size, IF size < MaxSize THEN size + 1 ELSE size}
    /\ mapped' = IF size' # size THEN size' ELSE mapped
    /\ head' = [head EXCEPT !.dl_num = @ + 1]
    /\ UNCHANGED <<op, aborted>> /\ Harmless

\* The death of the process unmaps the file and gives up the lock; but a child
\* has inherited the descriptor of the lock file, and with it the lock.
Dies ==
    /\ pc' = "idle" /\ mapped' = 0 /\ up' = FALSE
    /\ rm' = IF rm = "child" THEN "orphan" ELSE rm

\* The file was to be longer and is not, the write having failed in fclose: the
\* strings are stored behind its end, in the last page.
InsertUnnoticed ==
    /\ op = "open" /\ head.dl_num < head.dl_num_max /\ head.dl_num < MaxPairs
    /\ Goto("ready", "unload")
    /\ head' = [head EXCEPT !.dl_num = @ + 1]
    /\ faulted' = TRUE
    /\ UNCHANGED <<size, mapped, op, aborted, born, torn>> /\ Still

\* A longer write fails in fwrite already: VERIFY in arb_disk_expand.
InsertFails ==
    /\ op = "open" /\ head.dl_num < head.dl_num_max
    /\ pc = "ready"
    /\ Dies
    /\ aborted' = TRUE /\ faulted' = TRUE
    /\ UNCHANGED <<size, head, op, born, torn>>

\* An array of no elements is full, and doubling it leaves it so: the ASSERT of
\* arb_disk_insert_dli, or the move of the strings before it, ends the process.
InsertAborts ==
    /\ op = "open" /\ head.dl_num_max = 0
    /\ pc = "ready"
    /\ Dies
    /\ aborted' = TRUE
    /\ UNCHANGED <<size, head, op, faulted, born, torn>>

RemovePair ==
    /\ op = "remove" /\ head.dl_num > 0
    /\ Goto("ready", "unload")
    /\ head' = [head EXCEPT !.dl_num = @ - 1]
    /\ UNCHANGED <<size, mapped, op, aborted>> /\ Harmless

\* The end of the call: a disk with pairs stays mapped, in the cache, or the
\* next call already waits for it; without pairs arb_disk_unload has the file
\* deleted, unless somebody waits.
KeepMapped ==
    /\ Goto("unload", "idle")
    /\ UNCHANGED <<size, head, mapped, op, aborted>> /\ Harmless

UnloadEmpty ==
    /\ head.dl_num = 0
    /\ Goto("unload", "rm")
    /\ rm' = "child"
    /\ UNCHANGED <<size, head, mapped, op, up, aborted, faulted, born, torn>>

\* The cache gives the disk up.
Evict ==
    /\ pc = "idle" /\ mapped > 0 /\ head.dl_num > 0
    /\ mapped' = 0
    /\ UNCHANGED <<size, head, op, pc, aborted>> /\ Harmless

-----------------------------------------------------------------------------
(* Processes: the arbiter and the shell it deletes files with.              *)

\* An orphan does not keep the next process out, as when the descriptor of the
\* lock file were closed in children.
StartBug ==
    /\ ~up
    /\ up' = TRUE
    /\ UNCHANGED <<size, head, mapped, op, pc, rm, aborted, faulted, born, torn>>

\* arb_disk_init.  get_flock fails while another process, or what is left of
\* one, has the lock.
Start ==
    /\ ~up /\ rm = "none"
    /\ up' = TRUE
    /\ UNCHANGED <<size, head, mapped, op, pc, rm, aborted, faulted, born, torn>>

\* arb_disk_fini between calls: what is parked is unmapped, then put_flock.
Stop ==
    /\ up /\ pc = "idle"
    /\ mapped > 0 => head.dl_num > 0
    /\ mapped' = 0 /\ up' = FALSE
    /\ UNCHANGED <<size, head, op, pc, rm, aborted, faulted, born, torn>>

Kill ==
    /\ up
    /\ Dies
    /\ born' = (born \/ pc = "extend")
    /\ torn' = (torn \/ pc \in {"num_max", "str_pos"})
    /\ UNCHANGED <<size, head, op, aborted, faulted>>

\* The call that waits for the child goes on, to unmap the file if it still has to.
RmEnds ==
    /\ rm # "none"
    /\ rm' = "none"
    /\ IF rm = "child" THEN pc' = "idle" /\ mapped' = 0 ELSE UNCHANGED <<pc, mapped>>
    /\ UNCHANGED <<op, up, aborted>>

RmDeletes ==
    /\ RmEnds
    /\ size' = NoFile /\ head' = Zeroed
    /\ faulted' = FALSE /\ born' = FALSE /\ torn' = FALSE

\* No process for the shell, or the child is killed: nobody looks at the result.
RmFails == RmEnds /\ UNCHANGED <<size, head, faulted, born, torn>>

Step ==
    \/ AccessFound \/ AccessMissing \/ Create \/ Extend \/ ExtendFails
    \/ Map \/ MapFails \/ CheckGood \/ CheckBad \/ Discard \/ LoadFailed
    \/ Resize \/ ResizeFails \/ Remap \/ Clear \/ SetMagic \/ SetNumMax \/ SetStrPos
    \/ FindPair \/ InsertPair \/ InsertUnnoticed \/ InsertFails \/ InsertAborts \/ RemovePair
    \/ KeepMapped \/ UnloadEmpty

Next ==
    \/ Step
    \/ \E o \in {"open", "remove"} : Call(o)
    \/ Evict
    \/ Start \/ Stop \/ Kill \/ RmDeletes \/ RmFails

Spec == Init /\ [][Next]_vars

-----------------------------------------------------------------------------
(* Properties.                                                              *)

TypeOK ==
    /\ size \in {NoFile} \cup 0..MaxSize
    /\ head \in [magic : BOOLEAN, dl_num_max : {0, DFL_NUM}, str_pos : {0, 1}, dl_num : 0..MaxPairs]
    /\ mapped \in 0..MaxSize
    /\ op \in {"open", "remove"} /\ pc \in Locations
    /\ up \in BOOLEAN /\ rm \in {"none", "child", "orphan"} /\ aborted \in BOOLEAN
    /\ faulted \in BOOLEAN /\ born \in BOOLEAN /\ torn \in BOOLEAN

\* A call works on an image whose head is complete, whatever deaths and failed
\* writes there were before, except deaths between the magic number and the
\* stores that follow it: the magic number is all that the next call looks at.
OpenedComplete ==
    pc = "ready" /\ ~torn => head.dl_num_max = DFL_NUM /\ head.str_pos = 1

\* The file is never shorter than its map, but for the moment in which it is
\* truncated: no load or store of what is mapped is behind its end (SIGBUS).
\* Only a process that has the lock maps it or is in the middle of a call.
MapInFile ==
    /\ TypeOK
    /\ pc # "remap" => mapped <= size \/ mapped = 0
    /\ ~up => mapped = 0 /\ pc = "idle"

\* A call ends in a failed VERIFY or ASSERT only after a failed write, or when
\* the process had died in one of the two windows.
AbortsOnlyAfterDamage == aborted => faulted \/ born \/ torn

\* A file that records pairs loses none by being opened, formatted, evicted,
\* deleted or left behind by a death, unless a write has failed: a file that
\* could not be extended is formatted, used, and formatted again.  In
\* particular a child that is to delete an empty file, and outlives its process,
\* never deletes what the next process has entered: get_flock keeps that out.
OnlyRemoveTakes ==
    head.dl_num > 0 /\ ~faulted /\ ~RemovePair =>
        size' >= size /\ head'.dl_num >= head.dl_num /\ head'.magic

PairsKept == [][OnlyRemoveTakes]_vars

\* What the VERIFY(disk) of arb_disk_open says: a disk can always be opened,
\* when writing to it has never failed.
OpenSucceeds == aborted /\ ~faulted => torn
=============================================================================
