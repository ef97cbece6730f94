--------------------------- MODULE DiskFileProofs ---------------------------
(****************************************************************************)
(* Proofs about DiskFile, for every page size, minimum size and number of   *)
(* pairs: what a call works on is complete, no map is longer than its file, *)
(* a call aborts only after damage, and no pair is lost by anything but its *)
(* removal.                                                                 *)
(****************************************************************************)
EXTENDS DiskFile, TLAPS

-----------------------------------------------------------------------------
(* The inductive invariant.                                                 *)

\* TypeOK in two parts.
Shape ==
    /\ size \in {NoFile} \cup 0..MaxSize
    /\ head \in [magic : BOOLEAN, dl_num_max : {0, DFL_NUM}, str_pos : {0, 1}, dl_num : 0..MaxPairs]
    /\ mapped \in 0..MaxSize
    /\ op \in {"open", "remove"} /\ pc \in Locations
    /\ rm \in {"none", "child", "orphan"}

Flags == {up, aborted, faulted, born, torn} \subseteq BOOLEAN

Complete == head.dl_num_max = DFL_NUM /\ head.str_pos = 1

\* Only the process that has the lock is in a call or has the file mapped, and
\* a child that is to delete the file is waited for, or keeps the lock.
Locked ==
    /\ ~up => mapped = 0 /\ pc = "idle"
    /\ rm = "child" <=> pc = "rm"
    /\ rm = "orphan" => ~up
    /\ pc # "idle" \/ rm # "none" => ~aborted

\* What the head is worth at each place: it is complete once it has the magic
\* number, but for the format in progress and what a death in one has left.
Headed ==
    /\ head.magic /\ ~torn /\ pc \notin {"num_max", "str_pos"} => Complete
    /\ pc \in {"num_max", "str_pos", "ready", "unload"} => head.magic
    /\ mapped > 0 /\ pc = "idle" => head.magic
    /\ pc = "str_pos" => head.dl_num_max = DFL_NUM
    /\ head.dl_num > 0 => head.magic

\* The file, its map, and what of it is known to be there.
Sized ==
    /\ pc # "remap" => mapped <= size \/ mapped = 0
    /\ pc = "extend" => size = 0
    /\ pc \in {"map", "check", "resize", "remap", "clear"} => size # NoFile
    /\ pc \in {"access", "extend", "map", "failed"} => mapped = 0
    /\ pc \in {"check", "resize"} => mapped = size /\ size > 0
    /\ pc = "remap" => size > 0
    /\ pc \in {"clear", "magic", "num_max", "str_pos", "ready", "unload"} => mapped > 0
    /\ size = NoFile => head = Zeroed

\* Only a file on which a write has failed has pairs and is too short, so what
\* is formatted or deleted has none.
Kept ==
    ~faulted =>
        /\ head.dl_num > 0 => size >= MIN_SIZE
        /\ pc \in {"remap", "clear", "magic", "num_max", "str_pos", "ready", "unload"} => size >= MIN_SIZE
        /\ pc = "idle" /\ mapped > 0 => size >= MIN_SIZE
        /\ pc \in {"resize", "remap", "clear", "magic", "num_max", "str_pos"} => head.dl_num = 0
        /\ rm # "none" => head.dl_num = 0

\* An empty file, and a call that has failed, come from one of the accidents.
Damaged ==
    /\ aborted => faulted \/ born \/ torn
    /\ size = 0 /\ pc # "extend" => faulted \/ born
    /\ pc = "failed" => faulted \/ born

IInv == Shape /\ Flags /\ Locked /\ Headed /\ Sized /\ Kept /\ Damaged

-----------------------------------------------------------------------------
(* The invariant holds.                                                     *)

\* Init: there is no file, and no process.
LEMMA InitInv == Init => IInv
<1> SUFFICES ASSUME Init PROVE IInv
  OBVIOUS
<1> USE SizesAssumption, PairsAssumption DEF Init, NoFile, Zeroed
<1>1. Shape
  BY DEF Shape, Locations
<1>2. Flags
  BY DEF Flags
<1>3. Locked
  BY DEF Locked
<1>4. Headed
  BY DEF Headed
<1>5. Sized
  BY DEF Sized
<1>6. Kept
  BY DEF Kept
<1>7. Damaged
  BY DEF Damaged
<1> QED BY <1>1, <1>2, <1>3, <1>4, <1>5, <1>6, <1>7 DEF IInv

\* The steps of a call keep the invariant.
LEMMA StepInv ==
    ASSUME IInv, Step
    PROVE  IInv'
<1> USE SizesAssumption, PairsAssumption
    DEF IInv, Shape, Flags, Locked, Headed, Complete, Sized, Kept, Damaged, Zeroed, NoFile,
        Locations, Goto, Still, Harmless, Dies
<1>1. CASE AccessFound
  BY <1>1 DEF AccessFound
<1>2. CASE AccessMissing
  BY <1>2 DEF AccessMissing
<1>3. CASE Create
  BY <1>3 DEF Create
<1>4. CASE Extend
  BY <1>4 DEF Extend
<1>5. CASE ExtendFails
  BY <1>5 DEF ExtendFails
<1>6. CASE Map
  BY <1>6 DEF Map
<1>7. CASE MapFails
  BY <1>7 DEF MapFails
<1>8. CASE CheckGood
  BY <1>8 DEF CheckGood, Formatted
<1>9. CASE CheckBad
  BY <1>9 DEF CheckBad, Formatted
<1>10. CASE Discard
  <2>1. Shape'
    BY <1>10 DEF Discard, Formatted
  <2>2. Flags'
    BY <1>10 DEF Discard, Formatted
  <2>3. Locked'
    BY <1>10 DEF Discard, Formatted
  <2>4. Headed'
    BY <1>10 DEF Discard, Formatted
  <2>5. Sized'
    BY <1>10 DEF Discard, Formatted
  <2>6. Kept'
    BY <1>10 DEF Discard, Formatted
  <2>7. Damaged'
    BY <1>10 DEF Discard, Formatted
  <2> QED BY <2>1, <2>2, <2>3, <2>4, <2>5, <2>6, <2>7
<1>11. CASE LoadFailed
  BY <1>11 DEF LoadFailed
<1>12. CASE Resize
  BY <1>12 DEF Resize
<1>13. CASE ResizeFails
  BY <1>13 DEF ResizeFails
<1>14. CASE Remap
  BY <1>14 DEF Remap
<1>15. CASE Clear
  BY <1>15 DEF Clear
<1>16. CASE SetMagic
  <2>1. Shape'
    BY <1>16 DEF SetMagic
  <2>2. Flags'
    BY <1>16 DEF SetMagic
  <2>3. Locked'
    BY <1>16 DEF SetMagic
  <2>4. Headed'
    BY <1>16 DEF SetMagic
  <2>5. Sized'
    BY <1>16 DEF SetMagic
  <2>6. Kept'
    BY <1>16 DEF SetMagic
  <2>7. Damaged'
    BY <1>16 DEF SetMagic
  <2> QED BY <2>1, <2>2, <2>3, <2>4, <2>5, <2>6, <2>7
<1>17. CASE SetNumMax
  BY <1>17 DEF SetNumMax
<1>18. CASE SetStrPos
  BY <1>18 DEF SetStrPos
<1>19. CASE FindPair
  BY <1>19 DEF FindPair
<1>20. CASE InsertPair
  BY <1>20 DEF InsertPair
<1>21. CASE InsertUnnoticed
  BY <1>21 DEF InsertUnnoticed
<1>22. CASE InsertFails
  <2>1. Shape'
    BY <1>22 DEF InsertFails
  <2>2. Flags'
    BY <1>22 DEF InsertFails
  <2>3. Locked'
    BY <1>22 DEF InsertFails
  <2>4. Headed'
    BY <1>22 DEF InsertFails
  <2>5. Sized'
    BY <1>22 DEF InsertFails
  <2>6. Kept'
    BY <1>22 DEF InsertFails
  <2>7. Damaged'
    BY <1>22 DEF InsertFails
  <2> QED BY <2>1, <2>2, <2>3, <2>4, <2>5, <2>6, <2>7
<1>23. CASE InsertAborts
  <2>1. Shape'
    BY <1>23 DEF InsertAborts
  <2>2. Flags'
    BY <1>23 DEF InsertAborts
  <2>3. Locked'
    BY <1>23 DEF InsertAborts
  <2>4. Headed'
    BY <1>23 DEF InsertAborts
  <2>5. Sized'
    BY <1>23 DEF InsertAborts
  <2>6. Kept'
    BY <1>23 DEF InsertAborts
  <2>7. Damaged'
    BY <1>23 DEF InsertAborts
  <2> QED BY <2>1, <2>2, <2>3, <2>4, <2>5, <2>6, <2>7
<1>24. CASE RemovePair
  BY <1>24 DEF RemovePair
<1>25. CASE KeepMapped
  BY <1>25 DEF KeepMapped
<1>26. CASE UnloadEmpty
  <2>1. Shape'
    BY <1>26 DEF UnloadEmpty
  <2>2. Flags'
    BY <1>26 DEF UnloadEmpty
  <2>3. Locked'
    BY <1>26 DEF UnloadEmpty
  <2>4. Headed'
    BY <1>26 DEF UnloadEmpty
  <2>5. Sized'
    BY <1>26 DEF UnloadEmpty
  <2>6. Kept'
    BY <1>26 DEF UnloadEmpty
  <2>7. Damaged'
    BY <1>26 DEF UnloadEmpty
  <2> QED BY <2>1, <2>2, <2>3, <2>4, <2>5, <2>6, <2>7
<1> QED BY <1>1, <1>2, <1>3, <1>4, <1>5, <1>6, <1>7, <1>8, <1>9, <1>10, <1>11, <1>12, <1>13, <1>14, <1>15, <1>16, <1>17, <1>18, <1>19, <1>20, <1>21, <1>22, <1>23, <1>24, <1>25, <1>26 DEF Step

\* So do the calls, the cache, and what starts and ends a process or its child.
LEMMA NextInv ==
    ASSUME IInv, Next \/ UNCHANGED vars
    PROVE  IInv'
<1> USE SizesAssumption, PairsAssumption
    DEF IInv, Shape, Flags, Locked, Headed, Complete, Sized, Kept, Damaged, Zeroed, NoFile,
        Locations, Goto, Still, Harmless, Dies
<1>1. ASSUME NEW o \in {"open", "remove"}, Call(o) PROVE IInv'
  <2>1. Shape'
    BY <1>1 DEF Call
  <2>2. Flags'
    BY <1>1 DEF Call
  <2>3. Locked'
    BY <1>1 DEF Call
  <2>4. Headed'
    BY <1>1 DEF Call
  <2>5. Sized'
    BY <1>1 DEF Call
  <2>6. Kept'
    BY <1>1 DEF Call
  <2>7. Damaged'
    BY <1>1 DEF Call
  <2> QED BY <2>1, <2>2, <2>3, <2>4, <2>5, <2>6, <2>7
<1>2. CASE Evict
  BY <1>2 DEF Evict
<1>3. CASE Start
  BY <1>3 DEF Start
<1>4. CASE Stop
  <2>1. Shape'
    BY <1>4 DEF Stop
  <2>2. Flags'
    BY <1>4 DEF Stop
  <2>3. Locked'
    BY <1>4 DEF Stop
  <2>4. Headed'
    BY <1>4 DEF Stop
  <2>5. Sized'
    BY <1>4 DEF Stop
  <2>6. Kept'
    BY <1>4 DEF Stop
  <2>7. Damaged'
    BY <1>4 DEF Stop
  <2> QED BY <2>1, <2>2, <2>3, <2>4, <2>5, <2>6, <2>7
<1>5. CASE Kill
  <2>1. Shape'
    BY <1>5 DEF Kill
  <2>2. Flags'
    BY <1>5 DEF Kill
  <2>3. Locked'
    BY <1>5 DEF Kill
  <2>4. Headed'
    BY <1>5 DEF Kill
  <2>5. Sized'
    BY <1>5 DEF Kill
  <2>6. Kept'
    BY <1>5 DEF Kill
  <2>7. Damaged'
    BY <1>5 DEF Kill
  <2> QED BY <2>1, <2>2, <2>3, <2>4, <2>5, <2>6, <2>7
<1>6. CASE RmDeletes
  <2>1. Shape'
    BY <1>6 DEF RmDeletes, RmEnds
  <2>2. Flags'
    BY <1>6 DEF RmDeletes, RmEnds
  <2>3. Locked'
    BY <1>6 DEF RmDeletes, RmEnds
  <2>4. Headed'
    BY <1>6 DEF RmDeletes, RmEnds
  <2>5. Sized'
    BY <1>6 DEF RmDeletes, RmEnds
  <2>6. Kept'
    BY <1>6 DEF RmDeletes, RmEnds
  <2>7. Damaged'
    BY <1>6 DEF RmDeletes, RmEnds
  <2> QED BY <2>1, <2>2, <2>3, <2>4, <2>5, <2>6, <2>7
<1>7. CASE RmFails
  BY <1>7 DEF RmFails, RmEnds
<1>8. CASE UNCHANGED vars
  BY <1>8 DEF vars
<1>9. CASE Step
  BY <1>9, StepInv
<1> QED BY <1>1, <1>2, <1>3, <1>4, <1>5, <1>6, <1>7, <1>8, <1>9 DEF Next

\* The invariant of the whole: places, head, sizes and damage fit each other in
\* every state of every run.
THEOREM Invariance == Spec => []IInv
<1>1. IInv /\ [Next]_vars => IInv'
  BY NextInv
<1> QED BY InitInv, <1>1, PTL DEF Spec

-----------------------------------------------------------------------------
(* What follows from it.                                                    *)

\* A call works on an image whose head is complete, unless a death came between
\* the store of the magic number and the next two (arb_disk_format).
THEOREM OpensComplete == Spec => []OpenedComplete
<1>1. IInv => OpenedComplete
  BY DEF IInv, Headed, Complete, OpenedComplete
<1> QED BY Invariance, <1>1, PTL

\* No map is longer than its file, except between the two calls of
\* file_map_set_size, and nothing is mapped without the lock.
THEOREM MapsInside == Spec => []MapInFile
<1>1. IInv => TypeOK
  BY DEF IInv, Shape, Flags, TypeOK
<1>2. IInv => MapInFile
  BY <1>1 DEF IInv, Locked, Sized, MapInFile
<1> QED BY Invariance, <1>2, PTL

\* The VERIFY of arb_disk_open and the ASSERT of arb_disk_insert_dli fail only
\* after a failed write or a death in one of the two windows.
THEOREM AbortsExplained == Spec => []AbortsOnlyAfterDamage
<1>1. IInv => AbortsOnlyAfterDamage
  BY DEF IInv, Damaged, AbortsOnlyAfterDamage
<1> QED BY Invariance, <1>1, PTL

\* No step but the removal of a pair makes a file that records pairs shorter or
\* poorer, while no write to it has failed.
LEMMA OnlyRemove ==
    ASSUME IInv, Next \/ UNCHANGED vars
    PROVE  OnlyRemoveTakes
<1> SUFFICES ASSUME head.dl_num > 0, ~faulted, ~RemovePair
             PROVE  size' >= size /\ head'.dl_num >= head.dl_num /\ head'.magic
  BY DEF OnlyRemoveTakes
<1>1. /\ head.magic /\ size \in 0..MaxSize /\ size >= MIN_SIZE
      /\ rm = "none"
      /\ pc \notin {"resize", "remap", "clear", "magic", "num_max", "str_pos"}
      /\ head.dl_num \in Nat
      /\ pc # "extend"
  BY SizesAssumption, PairsAssumption
     DEF IInv, Shape, Headed, Sized, Kept, NoFile, Zeroed
<1>2. CASE UNCHANGED <<size, head>>
  BY <1>1, <1>2
<1>3. CASE InsertPair
  BY <1>1, <1>3 DEF InsertPair, IInv, Shape
<1>4. CASE InsertUnnoticed
  BY <1>1, <1>4 DEF InsertUnnoticed, IInv, Shape
<1>5. ~ (Create \/ Extend \/ ExtendFails)
  BY <1>1 DEF Create, Extend, ExtendFails, Goto, NoFile
<1>6. ~ (Resize \/ ResizeFails \/ Clear \/ SetMagic \/ SetNumMax \/ SetStrPos)
  BY <1>1 DEF Resize, ResizeFails, Clear, SetMagic, SetNumMax, SetStrPos, Goto
<1>7. ~ (RmDeletes \/ RmFails)
  BY <1>1 DEF RmDeletes, RmFails, RmEnds
<1>8. CASE AccessFound \/ AccessMissing \/ Map \/ MapFails \/ CheckGood \/ CheckBad
           \/ Discard \/ LoadFailed \/ Remap
  BY <1>2, <1>8 DEF AccessFound, AccessMissing, Map, MapFails, CheckGood, CheckBad,
     Discard, LoadFailed, Remap
<1>9. CASE FindPair \/ InsertFails \/ InsertAborts \/ KeepMapped \/ UnloadEmpty
  BY <1>2, <1>9 DEF FindPair, InsertFails, InsertAborts, KeepMapped, UnloadEmpty
<1>10. CASE Evict \/ Start \/ Stop \/ Kill \/ \E o \in {"open", "remove"} : Call(o)
  BY <1>2, <1>10 DEF Evict, Start, Stop, Kill, Call
<1>11. CASE UNCHANGED vars
  BY <1>2, <1>11 DEF vars
<1> QED
  BY <1>3, <1>4, <1>5, <1>6, <1>7, <1>8, <1>9, <1>10, <1>11 DEF Next, Step

\* A file that records pairs loses none but by arb_disk_remove_dli, whatever
\* deaths, evictions and left-over children there are, as long as no write to
\* it has failed.
THEOREM NoPairLost == Spec => PairsKept
<1>1. IInv /\ [Next]_vars => [OnlyRemoveTakes]_vars
  BY OnlyRemove
<1> QED BY Invariance, <1>1, PTL DEF Spec, PairsKept
=============================================================================
