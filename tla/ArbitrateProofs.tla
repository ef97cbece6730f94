-------------------------- MODULE ArbitrateProofs --------------------------
(****************************************************************************)
(* Proofs about Arbitrate, for every number of slots and every bound on the *)
(* versions: the decisions among the last NumSlots versions are never       *)
(* displaced, so both hosts of a pair are always told the same side.        *)
(****************************************************************************)
EXTENDS Arbitrate, FiniteSetTheorems, NaturalsInduction, WellFoundedInduction, TLAPS

-----------------------------------------------------------------------------
(* The slot that find_ver_in_dli picks.                                     *)

\* A set of naturals that is not empty has a least element.
LEMMA LeastNat ==
    ASSUME NEW T \in SUBSET Nat, T # {}
    PROVE  \E x \in T : \A y \in T : x <= y
<1>1. PICK R : R = OpToRel(<, Nat)
  BY Zenon
<1>2. \E x \in T : \A y \in T : <<y, x>> \notin R
  BY <1>1, NatLessThanWellFounded, WFMin, Zenon
<1>3. \A x, y \in Nat : y < x => <<y, x>> \in R
  <2> SUFFICES ASSUME NEW x \in Nat, NEW y \in Nat, y < x
               PROVE  <<y, x>> \in OpToRel(<, Nat)
    BY <1>1, Zenon
  <2> QED BY Zenon DEF OpToRel
<1>4. PICK x \in T : \A y \in T : <<y, x>> \notin R
  BY <1>2
<1>5. \A y \in T : ~(y < x)
  BY <1>3, <1>4
<1>6. \A y \in T : x <= y
  BY <1>5
<1> QED BY <1>6

\* The slot to overwrite exists, and no slot has a lower version.
LEMMA OldestFacts ==
    ASSUME TypeOK
    PROVE  Oldest \in Index /\ \A j \in Index : slots[Oldest].version <= slots[j].version
<1> DEFINE T == {slots[i].version : i \in Index}
           L(i) == \A j \in Index : /\ slots[i].version <= slots[j].version
                                    /\ slots[i].version = slots[j].version => i <= j
<1>1. \A i \in Index : slots[i].version \in Nat
  BY MaxVerAssumption DEF TypeOK, Words, Versions
<1>2. PICK m \in T : \A y \in T : m <= y
  <2>1. T \in SUBSET Nat /\ T # {}
    BY <1>1, SlotsAssumption DEF Index
  <2> HIDE DEF T
  <2> QED BY <2>1, LeastNat
<1> DEFINE I == {i \in Index : slots[i].version = m}
<1>3. PICK i \in I : \A j \in I : i <= j
  <2>1. I \in SUBSET Nat /\ I # {}
    BY DEF Index
  <2> HIDE DEF I
  <2> QED BY <2>1, LeastNat
<1>4. i \in Index /\ L(i)
  BY <1>2, <1>3
<1> HIDE DEF L
<1>5. Oldest \in Index /\ L(Oldest)
  <2>1. Oldest = CHOOSE k \in Index : L(k)
    BY DEF Oldest, L
  <2> QED BY <1>4, <2>1
<1> QED BY <1>5 DEF L

\* No map from the slots into fewer than NumSlots versions is one to one.
LEMMA SlotsPigeonHole ==
    ASSUME NEW T, IsFiniteSet(T), Cardinality(T) < NumSlots,
           NEW f \in [Index -> T]
    PROVE  \E i, j \in Index : i # j /\ f[i] = f[j]
<1>1. IsFiniteSet(Index) /\ Cardinality(Index) = NumSlots
  BY SlotsAssumption, FS_Interval DEF Index
<1> QED BY <1>1, FS_PigeonHole

\* The versions from lo to hi, one or more, are as many as one would count.
LEMMA IntervalSize ==
    ASSUME NEW lo \in Int, NEW hi \in Int, lo <= hi + 1
    PROVE  IsFiniteSet(lo..hi) /\ Cardinality(lo..hi) = hi - lo + 1
<1>1. IsFiniteSet(lo..hi) /\ Cardinality(lo..hi) = IF lo > hi THEN 0 ELSE hi - lo + 1
  BY FS_Interval, Zenon
<1> QED BY <1>1

\* A timely request displaces an unset slot or a version that is NumSlots or
\* more below the highest one; and it is not a request for version 0.
LEMMA EvictsOld ==
    ASSUME TypeOK, Distinct(slots), WellFormed(slots), NEW v \in Versions,
           ~Stored(v), v + NumSlots > maxVer,
           NEW m \in Nat, m = IF v > maxVer THEN v ELSE maxVer
    PROVE  /\ v > 0
           /\ \/ slots[Oldest].version = 0
              \/ slots[Oldest].version + NumSlots <= m
<1> DEFINE f == [i \in Index |-> slots[i].version]
           e == slots[Oldest].version
<1>0. /\ NumSlots \in Nat /\ NumSlots >= 1 /\ maxVer \in Nat /\ v \in Nat
      /\ \A i \in Index : slots[i].version \in Nat
  BY SlotsAssumption, MaxVerAssumption DEF TypeOK, Words, Versions
<1>1. \A i \in Index : slots[i].version <= maxVer /\ slots[i].version # v
  BY DEF WellFormed, Stored
<1>2. \A i, j \in Index : i # j /\ f[i] = f[j] => f[i] = 0
  BY <1>0 DEF Distinct, WellFormed
<1>3. Oldest \in Index /\ e \in Nat /\ \A j \in Index : e <= slots[j].version
  BY <1>0, OldestFacts
<1> HIDE DEF e
<1>4. v > 0
  <2> SUFFICES ASSUME v = 0 PROVE FALSE
    BY <1>0
  <2>1. IsFiniteSet(1..maxVer) /\ Cardinality(1..maxVer) < NumSlots
    <3>1. maxVer < NumSlots
      BY <1>0
    <3>2. 1 \in Int /\ maxVer \in Int /\ 1 <= maxVer + 1
      BY <1>0
    <3>3. IsFiniteSet(1..maxVer) /\ Cardinality(1..maxVer) = maxVer - 1 + 1
      BY ONLY <3>2, IntervalSize, Zenon
    <3> QED BY <1>0, <3>1, <3>3
  <2>2. f \in [Index -> 1..maxVer]
    BY <1>0, <1>1
  <2>3. \A i \in Index : f[i] # 0
    BY <1>1
  <2> HIDE DEF f
  <2> QED BY <1>2, <2>1, <2>2, <2>3, SlotsPigeonHole
<1>5. ASSUME e # 0, e + NumSlots > m PROVE FALSE
  <2> DEFINE W == (m - NumSlots + 1)..m
  <2>1. IsFiniteSet(W) /\ Cardinality(W) = NumSlots
    <3>1. m - NumSlots + 1 \in Int /\ m \in Int /\ m - NumSlots + 1 <= m + 1
      BY <1>0
    <3>2. IsFiniteSet(W) /\ Cardinality(W) = m - (m - NumSlots + 1) + 1
      BY ONLY <3>1, IntervalSize, Zenon DEF W
    <3> QED BY <1>0, <3>2
  <2>2. v \in W
    BY <1>0
  <2>3. \A i \in Index : slots[i].version \in W
    BY <1>0, <1>1, <1>3, <1>5
  <2> HIDE DEF W
  <2>4. IsFiniteSet(W \ {v}) /\ Cardinality(W \ {v}) < NumSlots
    <3>1. IsFiniteSet(W \ {v}) /\ Cardinality(W \ {v}) = Cardinality(W) - 1
      BY <2>1, <2>2, FS_RemoveElement
    <3> QED BY <3>1, <2>1, <1>0
  <2>5. f \in [Index -> W \ {v}]
    BY <2>3, <1>1
  <2>6. \A i \in Index : f[i] # 0
    BY <1>0, <1>3, <1>5
  <2> HIDE DEF f
  <2> QED BY <1>2, <2>4, <2>5, <2>6, SlotsPigeonHole
<1> QED BY <1>0, <1>3, <1>4, <1>5 DEF e

-----------------------------------------------------------------------------
(* The inductive invariant.                                                 *)

\* A formatted element satisfies it.
LEMMA InitIInv == Init => IInv
<1> SUFFICES ASSUME Init PROVE IInv
  OBVIOUS
<1>1. Unset \in Words /\ Unset.state \notin Sides /\ Unset.version = 0
  BY MaxVerAssumption DEF Unset, Words, Versions, Sides
<1>2. TypeOK
  <2>1. slots \in [Index -> Words] /\ durable \in [Index -> Words]
    BY <1>1 DEF Init
  <2>2. maxVer \in Versions
    BY MaxVerAssumption DEF Init, Versions
  <2> QED BY <2>1, <2>2 DEF Init, TypeOK
<1>3. Distinct(slots) /\ Distinct(durable)
  BY <1>1 DEF Init, Distinct
<1>4. TimelyInv
  BY <1>1 DEF Init, TimelyInv, WellFormed, Matches, Keeps, Recent
<1> QED BY <1>2, <1>3, <1>4 DEF IInv

\* The slot of a stored version.
LEMMA SlotFacts ==
    ASSUME TypeOK, NEW v \in Versions, Stored(v)
    PROVE  SlotOf(v) \in Index /\ slots[SlotOf(v)].version = v
<1> DEFINE I == {i \in Index : slots[i].version = v}
           L(i) == slots[i].version = v /\ \A j \in Index : slots[j].version = v => i <= j
<1>1. PICK i \in I : \A j \in I : i <= j
  <2>1. I \in SUBSET Nat /\ I # {}
    BY DEF Index, Stored
  <2> HIDE DEF I
  <2> QED BY <2>1, LeastNat
<1>2. i \in Index /\ L(i)
  BY <1>1
<1> HIDE DEF L
<1>3. SlotOf(v) = CHOOSE k \in Index : L(k)
  BY DEF SlotOf, L
<1>4. SlotOf(v) \in Index /\ L(SlotOf(v))
  BY <1>2, <1>3
<1> QED BY <1>4 DEF L

\* Telling what a slot holds keeps it: the slot matches what was told before.
LEMMA AnswerStoredIInv ==
    ASSUME IInv, NEW v \in Versions, AnswerStored(v)
    PROVE  IInv'
<1>1. PICK i \in Index : i = SlotOf(v) /\ slots[i].version = v
  BY SlotFacts DEF IInv, AnswerStored
<1>2. /\ pending = NoCall /\ told' = told \cup Decided({slots[i]})
      /\ UNCHANGED <<slots, durable, pending, maxVer, late, exposed, undone>>
  BY <1>1 DEF AnswerStored
<1>3. slots[i] \in Words
  BY DEF IInv, TypeOK
<1>4. TypeOK'
  BY <1>2, <1>3 DEF IInv, TypeOK, Decided
<1>5. Distinct(slots)' /\ Distinct(durable)'
  BY <1>2 DEF IInv, Distinct
<1>6. ASSUME Timely PROVE TimelyInv'
  <2>1. TimelyInv
    BY <1>6 DEF IInv
  <2>2. \A a \in told' : a \in told \/ (a = slots[i] /\ slots[i].state \in Sides)
    BY <1>2 DEF Decided
  <2>3. \A a \in told' : a.version > 0 /\ a.version <= maxVer
    BY <2>1, <2>2 DEF TimelyInv, WellFormed
  <2>4. \A a, b \in told' : a.version = b.version => a.state = b.state
    BY <2>1, <2>2 DEF TimelyInv, Matches
  <2>5. Matches(slots)'
    <3> SUFFICES ASSUME NEW j \in Index, NEW a \in told',
                        slots[j].version = a.version
                 PROVE  slots[j].state = a.state
      BY <1>2 DEF Matches
    <3>1. CASE a \in told
      BY <3>1, <2>1 DEF TimelyInv, Matches
    <3>2. CASE a = slots[i] /\ slots[i].state \in Sides
      BY <3>2 DEF IInv, Distinct
    <3> QED BY <2>2, <3>1, <3>2
  <2>6. Keeps(slots)'
    BY <2>1, <2>2, <1>2 DEF TimelyInv, Keeps, Recent
  <2>7. ~exposed => durable = slots
    BY <1>2, <2>1 DEF TimelyInv
  <2>8. (~exposed => Matches(durable) /\ Keeps(durable))'
    BY <1>2, <2>5, <2>6, <2>7 DEF Matches, Keeps
  <2>9. WellFormed(slots)' /\ WellFormed(durable)'
    BY <1>2, <2>1 DEF TimelyInv, WellFormed
  <2> QED BY <1>2, <2>1, <2>3, <2>4, <2>5, <2>6, <2>7, <2>8, <2>9 DEF TimelyInv
<1> QED BY <1>2, <1>4, <1>5, <1>6 DEF IInv, Timely

\* A decision keeps it: what it displaces is unset or no longer recent.
LEMMA DecideIInv ==
    ASSUME IInv, NEW v \in Versions, NEW s \in Sides, Decide(v, s)
    PROVE  IInv'
<1>1. PICK sel, i : sel = [version |-> v, state |-> s] /\ i = Oldest
  OBVIOUS
<1>2. /\ pending = NoCall /\ ~Stored(v)
      /\ slots' = [slots EXCEPT ![i] = sel]
      /\ pending' = sel
      /\ maxVer' = IF v > maxVer THEN v ELSE maxVer
      /\ late' = (late \/ v + NumSlots <= maxVer)
      /\ UNCHANGED <<durable, told, exposed, undone>>
  BY <1>1 DEF Decide
<1>3. i \in Index /\ sel \in Words /\ sel.version = v /\ sel.state = s
  BY <1>1, OldestFacts DEF IInv, Words
<1>4. /\ NumSlots \in Nat /\ maxVer \in Nat /\ v \in Nat /\ maxVer' \in Nat
      /\ maxVer' >= maxVer /\ v <= maxVer'
      /\ \A j \in Index : slots[j].version \in Nat
  BY <1>2, SlotsAssumption, MaxVerAssumption DEF IInv, TypeOK, Words, Versions
<1>5. TypeOK'
  BY <1>2, <1>3 DEF IInv, TypeOK, Decided
<1>6. Distinct(slots)' /\ Distinct(durable)'
  BY <1>2, <1>3 DEF IInv, TypeOK, Distinct, Stored
<1>7. ASSUME Timely' PROVE TimelyInv'
  <2>1. TimelyInv /\ v + NumSlots > maxVer
    <3>1. ~late' /\ ~undone'
      BY <1>7 DEF Timely
    <3>2. ~late /\ ~(v + NumSlots <= maxVer) /\ ~undone
      BY <3>1, <1>2
    <3> QED BY <3>2, <1>4 DEF IInv, Timely
  <2>2. /\ v > 0
        /\ slots[i].version = 0 \/ slots[i].version + NumSlots <= maxVer'
    BY <1>1, <1>2, <1>4, <2>1, EvictsOld DEF IInv, TimelyInv
  <2>3. \A a \in told : a.version # v
    <3> SUFFICES ASSUME NEW a \in told, a.version = v PROVE FALSE
      OBVIOUS
    <3>1. a \in Recent
      BY <2>1 DEF Recent
    <3> QED BY <3>1, <2>1, <1>2 DEF TimelyInv, Keeps, Stored
  <2>4. Recent' \subseteq Recent
    <3>1. \A a \in told : a.version \in Nat
      BY <1>4, <2>1 DEF IInv, TypeOK, Decided, Words, Versions
    <3> QED BY <1>2, <1>4, <3>1 DEF Recent
  <2>5. \A j \in Index : slots'[j] = IF j = i THEN sel ELSE slots[j]
    BY <1>2, <1>3 DEF IInv, TypeOK
  <2>6. WellFormed(slots)' /\ WellFormed(durable)'
    <3>1. \A j \in Index : durable[j].version \in Nat
      BY DEF IInv, TypeOK, Words, Versions
    <3> QED BY <1>2, <1>3, <1>4, <2>1, <2>2, <2>5, <3>1 DEF TimelyInv, WellFormed
  <2>7. Matches(slots)'
    BY <1>2, <1>3, <2>1, <2>3, <2>5 DEF TimelyInv, Matches
  <2>8. Keeps(slots)'
    <3> SUFFICES ASSUME NEW a \in Recent' PROVE \E j \in Index : slots'[j] = a
      BY DEF Keeps
    <3>1. a \in told /\ a.version > 0 /\ a.version + NumSlots > maxVer' /\ a \in Recent
      BY <1>2, <2>1, <2>4 DEF Recent, TimelyInv
    <3>2. PICK j \in Index : slots[j] = a
      BY <2>1, <3>1 DEF TimelyInv, Keeps
    <3>3. j # i
      BY <1>4, <2>2, <3>1, <3>2
    <3> QED BY <2>5, <3>2, <3>3
  <2>9. (~exposed => Matches(durable) /\ Keeps(durable))'
    BY <1>2, <2>1, <2>4 DEF TimelyInv, Matches, Keeps
  <2>10. \A a \in told : a.version > 0 /\ a.version <= maxVer'
    <3>1. \A a \in told : a.version \in Nat /\ a.version > 0 /\ a.version <= maxVer
      BY <2>1 DEF TimelyInv, IInv, TypeOK, Decided, Words, Versions
    <3> QED BY <1>4, <3>1
  <2>11. pending' # NoCall /\ slots'[i] = pending'
    BY <1>2, <1>3, <2>5, NoCallAssumption
  <2>12. \A a, b \in told' : a.version = b.version => a.state = b.state
    BY <1>2, <2>1 DEF TimelyInv
  <2> QED BY <1>2, <1>3, <2>6, <2>7, <2>8, <2>9, <2>10, <2>11, <2>12 DEF TimelyInv
<1> QED BY <1>5, <1>6, <1>7 DEF IInv

\* A successful sync keeps it: the disk is as the slots, then it is told.
LEMMA SyncOkIInv ==
    ASSUME IInv, SyncOk
    PROVE  IInv'
<1>1. /\ pending # NoCall /\ pending \in Decided(Words) /\ durable' = slots
      /\ told' = told \cup {pending} /\ pending' = NoCall /\ exposed' = FALSE
      /\ UNCHANGED <<slots, maxVer, late, undone>>
  BY DEF SyncOk, IInv, TypeOK
<1>2. ASSUME Timely PROVE TimelyInv'
  <2>1. TimelyInv
    BY <1>2 DEF IInv
  <2>2. PICK i \in Index : slots[i] = pending /\ pending.state \in Sides
    BY <1>1, <2>1 DEF TimelyInv, Decided
  <2>3. \A a \in told' : a \in told \/ a = slots[i]
    BY <1>1, <2>2
  <2>4. \A a \in told' : a.version > 0 /\ a.version <= maxVer
    BY <2>1, <2>2, <2>3 DEF TimelyInv, WellFormed
  <2>5. \A a, b \in told' : a.version = b.version => a.state = b.state
    BY <2>1, <2>3 DEF TimelyInv, Matches
  <2>6. Matches(slots)'
    <3> SUFFICES ASSUME NEW j \in Index, NEW a \in told',
                        slots[j].version = a.version
                 PROVE  slots[j].state = a.state
      BY <1>1 DEF Matches
    <3>1. CASE a \in told
      BY <3>1, <2>1 DEF TimelyInv, Matches
    <3>2. CASE a = slots[i]
      BY <3>2, <2>2 DEF IInv, Distinct
    <3> QED BY <2>3, <3>1, <3>2
  <2>7. Keeps(slots)'
    BY <1>1, <2>1, <2>3 DEF TimelyInv, Keeps, Recent
  <2>8. Matches(durable)' /\ Keeps(durable)'
    BY <1>1, <2>6, <2>7 DEF Matches, Keeps
  <2>9. WellFormed(slots)' /\ WellFormed(durable)'
    BY <1>1, <2>1 DEF TimelyInv, WellFormed
  <2> QED BY <1>1, <2>4, <2>5, <2>6, <2>7, <2>8, <2>9 DEF TimelyInv
<1>3. TypeOK'
  <2>1. told' \in SUBSET Decided(Words)
    BY <1>1 DEF IInv, TypeOK
  <2> QED BY <1>1, <2>1 DEF IInv, TypeOK
<1>4. Distinct(slots)' /\ Distinct(durable)'
  BY <1>1 DEF IInv, Distinct
<1> QED BY <1>1, <1>2, <1>3, <1>4 DEF IInv, Timely

\* A failed sync, or a death, keeps it: nothing is told.
LEMMA SyncFailsIInv ==
    ASSUME IInv, SyncFails \/ ProcessCrash
    PROVE  IInv'
<1>1. /\ pending' = NoCall /\ exposed' = TRUE
      /\ UNCHANGED <<slots, durable, told, maxVer, late, undone>>
  BY DEF SyncFails, ProcessCrash
<1>2. TypeOK' /\ Distinct(slots)' /\ Distinct(durable)'
  BY <1>1 DEF IInv, TypeOK, Distinct
<1>3. ASSUME Timely PROVE TimelyInv'
  BY <1>1, <1>3 DEF IInv, TimelyInv, WellFormed, Matches, Keeps, Recent
<1> QED BY <1>1, <1>2, <1>3 DEF IInv, Timely

\* Writeback keeps it: the disk becomes as the slots.
LEMMA WritebackIInv ==
    ASSUME IInv, Writeback
    PROVE  IInv'
<1>1. /\ durable' = slots /\ exposed' = FALSE
      /\ UNCHANGED <<slots, pending, told, maxVer, late, undone>>
  BY DEF Writeback
<1>2. TypeOK' /\ Distinct(slots)' /\ Distinct(durable)'
  BY <1>1 DEF IInv, TypeOK, Distinct
<1>3. ASSUME Timely PROVE TimelyInv'
  BY <1>1, <1>3 DEF IInv, TimelyInv, WellFormed, Matches, Keeps, Recent
<1> QED BY <1>1, <1>2, <1>3 DEF IInv, Timely

\* A power loss keeps it: it undoes only what nobody was told, or ends Timely.
LEMMA PowerLossIInv ==
    ASSUME IInv, PowerLoss
    PROVE  IInv'
<1>1. /\ slots' = durable /\ pending' = NoCall /\ exposed' = FALSE
      /\ undone' = (undone \/ (exposed /\ durable # slots))
      /\ UNCHANGED <<durable, told, maxVer, late>>
  BY DEF PowerLoss
<1>2. TypeOK'
  BY <1>1 DEF IInv, TypeOK
<1>3. Distinct(slots)' /\ Distinct(durable)'
  BY <1>1 DEF IInv, Distinct
<1>4. ASSUME Timely' PROVE TimelyInv'
  <2>1. ~late' /\ ~undone'
    BY <1>4 DEF Timely
  <2>2. ~late /\ ~undone /\ ~(exposed /\ durable # slots)
    BY <1>1, <2>1
  <2>3. TimelyInv
    BY <2>2 DEF IInv, Timely
  <2>4. Matches(durable) /\ Keeps(durable)
    <3>1. CASE exposed
      <4>1. durable = slots
        BY <2>2, <3>1
      <4> QED BY <4>1, <2>3 DEF TimelyInv
    <3>2. CASE ~exposed
      BY <2>3, <3>2 DEF TimelyInv
    <3> QED BY <3>1, <3>2
  <2>5. /\ WellFormed(slots)' /\ WellFormed(durable)' /\ Matches(slots)'
        /\ Keeps(slots)' /\ Matches(durable)' /\ Keeps(durable)'
    BY <1>1, <2>3, <2>4 DEF TimelyInv, WellFormed, Matches, Keeps, Recent
  <2> QED BY <1>1, <2>3, <2>5 DEF TimelyInv
<1> QED BY <1>2, <1>3, <1>4 DEF IInv

\* Every step keeps the invariant.
LEMMA NextIInv == IInv /\ [Next]_vars => IInv'
<1> SUFFICES ASSUME IInv, [Next]_vars PROVE IInv'
  OBVIOUS
<1>1. CASE UNCHANGED vars
  BY <1>1 DEF vars, IInv, TypeOK, Distinct, Timely, TimelyInv, WellFormed, Matches,
              Keeps, Recent
<1>2. ASSUME NEW v \in Versions, AnswerStored(v) PROVE IInv'
  BY <1>2, AnswerStoredIInv
<1>3. ASSUME NEW v \in Versions, NEW s \in Sides, Decide(v, s) PROVE IInv'
  BY <1>3, DecideIInv
<1> QED BY <1>1, <1>2, <1>3, SyncOkIInv, SyncFailsIInv, WritebackIInv, PowerLossIInv
        DEF Next

-----------------------------------------------------------------------------
(* The theorems.                                                            *)

\* The inductive invariant holds in every reachable state: the slots, their image
\* on the disk and what hosts were told agree.
THEOREM Invariance == Spec => []IInv
<1> QED BY InitIInv, NextIInv, PTL DEF Spec

\* Every variable keeps its type.
THEOREM TypeCorrect == Spec => []TypeOK
<1>1. IInv => TypeOK
  BY DEF IInv
<1> QED BY <1>1, Invariance, PTL

\* Both hosts of a pair are told the same side for a version, in every timely
\* behaviour: across eviction, failed syncs, crashes and power losses.
THEOREM HostsAgree == Spec => []Agreement
<1>1. IInv => Agreement
  BY DEF IInv, TimelyInv, Agreement
<1> QED BY <1>1, Invariance, PTL

\* What hosts were told about the last NumSlots versions is in the slots, and on
\* the disk unless a call left its write unsynced.
THEOREM RecentDecisionsKept == Spec => [](RecentKept /\ RecentDurable)
<1>1. IInv => RecentKept /\ RecentDurable
  BY DEF IInv, TimelyInv, RecentKept, RecentDurable, Keeps
<1> QED BY <1>1, Invariance, PTL

\* What hosts were told about the last NumSlots versions survives a power loss,
\* unless a call ended without the sync of its write.
THEOREM RecentReachesDisk == Spec => []RecentDurable
<1>1. IInv => RecentDurable
  BY DEF IInv, TimelyInv, RecentDurable, Keeps
<1> QED BY <1>1, Invariance, PTL

\* No host is told a decision for version 0, the mark of an unset slot.
THEOREM ZeroNeverDecided == Spec => []ZeroUndecided
<1>1. IInv => ZeroUndecided
  BY DEF IInv, TimelyInv, ZeroUndecided
<1> QED BY <1>1, Invariance, PTL

\* A write displaces a decision only when all others are newer, whatever the
\* order in which versions are asked for.
THEOREM OldestDisplaced == Spec => DisplacesOldest
<1>1. IInv /\ [Next]_vars => (CallStores => NewerKept)
  <2> SUFFICES ASSUME IInv, [Next]_vars, CallStores PROVE NewerKept
    OBVIOUS
  <2>1. PICK v \in Versions, s \in Sides : Decide(v, s)
    BY DEF CallStores, Next, vars, AnswerStored, SyncOk, SyncFails, Writeback,
           ProcessCrash, PowerLoss
  <2>2. /\ Oldest \in Index
        /\ \A j \in Index : slots[Oldest].version <= slots[j].version
    BY OldestFacts DEF IInv
  <2>3. \A j \in Index \ {Oldest} : slots'[j] = slots[j]
    BY <2>1 DEF Decide, IInv, TypeOK
  <2>4. \A j \in Index : slots[j].version \in Nat
    BY DEF IInv, TypeOK, Words, Versions
  <2>5. ASSUME slots[Oldest].state \in Sides, NEW j \in Index \ {Oldest}
        PROVE  slots[j].version > slots[Oldest].version
    BY <2>2, <2>4, <2>5 DEF IInv, Distinct
  <2> QED BY <2>2, <2>3, <2>5 DEF NewerKept
<1> QED BY <1>1, Invariance, PTL DEF Spec, DisplacesOldest

\* The arbiter implements the write-once choice, which a late request and an
\* undone write excuse.
THEOREM Refinement == Spec => ImplementsChoice
<1>1. Init => Choice!Init
  BY DEF Init, Choice!Init, toldSides, Timely
<1>2. IInv /\ IInv' /\ [Next]_vars => [Choice!Next]_<<toldSides, Timely>>
  <2> SUFFICES ASSUME IInv, IInv', [Next]_vars
               PROVE  Choice!Next \/ UNCHANGED <<toldSides, Timely>>
    OBVIOUS
  <2>1. CASE ~Timely'
    <3>1. \A v \in Versions : {a.state : a \in {b \in told' : b.version = v}} \subseteq Sides
      BY DEF IInv, TypeOK, Decided
    <3>2. toldSides' \in [Versions -> SUBSET Sides]
      BY <3>1 DEF toldSides
    <3> QED BY <2>1, <3>2 DEF Choice!Next, Choice!Excused
  <2>2. Timely' => Timely
    BY DEF Timely, Next, vars, AnswerStored, Decide, SyncOk, SyncFails, Writeback,
           ProcessCrash, PowerLoss, IInv, TypeOK
  <2>3. CASE Timely' /\ told' = told
    BY <2>2, <2>3 DEF toldSides, Timely
  <2>4. ASSUME Timely', NEW w \in Words, w.state \in Sides, told' = told \cup {w}
        PROVE  Choice!Tell(w.version, w.state)
    <3>1. w.version \in Versions /\ w \in told'
      BY <2>4 DEF Words
    <3>2. \A a \in told' : a.version = w.version => a.state = w.state
      BY <2>4, <3>1 DEF IInv, TimelyInv
    <3>3. toldSides[w.version] \subseteq {w.state}
      BY <2>4, <3>1, <3>2 DEF toldSides
    <3>4. toldSides' = [toldSides EXCEPT ![w.version] = {w.state}]
      <4>1. \A v \in Versions \ {w.version} :
               {b \in told' : b.version = v} = {b \in told : b.version = v}
        BY <2>4
      <4>2. {a.state : a \in {b \in told' : b.version = w.version}} = {w.state}
        BY <3>1, <3>2
      <4> QED BY <3>1, <4>1, <4>2 DEF toldSides
    <3>5. Timely /\ Timely' = Timely
      BY <2>2, <2>4 DEF Timely
    <3> QED BY <3>3, <3>4, <3>5 DEF Choice!Tell
  <2>5. ASSUME Timely', NEW v \in Versions, AnswerStored(v)
        PROVE  Choice!Next \/ UNCHANGED <<toldSides, Timely>>
    <3>1. PICK w \in Words : told' = told \cup Decided({w})
      <4>1. slots[SlotOf(v)] \in Words
        BY <2>5, SlotFacts DEF AnswerStored, IInv, TypeOK
      <4> QED BY <2>5, <4>1 DEF AnswerStored
    <3>2. CASE w.state \in Sides
      BY <2>4, <2>5, <3>1, <3>2 DEF Choice!Next, Decided, Words
    <3>3. CASE w.state \notin Sides
      BY <2>3, <2>5, <3>1, <3>3 DEF Decided
    <3> QED BY <3>2, <3>3
  <2>6. ASSUME Timely', SyncOk PROVE Choice!Next
    BY <2>4, <2>6 DEF SyncOk, Choice!Next, IInv, TypeOK, Decided, Words
  <2> QED BY <2>1, <2>3, <2>5, <2>6 DEF Next, vars, Decide, SyncFails, Writeback,
                                        ProcessCrash, PowerLoss
<1> QED BY <1>1, <1>2, Invariance, PTL DEF Spec, ImplementsChoice, Choice!Spec
=============================================================================
