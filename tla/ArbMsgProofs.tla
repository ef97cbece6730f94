---------------------------- MODULE ArbMsgProofs ----------------------------
(****************************************************************************)
(* Proofs about ArbMsg, for any strings, sizes and descriptions and any     *)
(* width of the count: what was added comes back from the message, what is  *)
(* made is accepted, and a message is refused only when the count wrapped.  *)
(****************************************************************************)
EXTENDS ArbMsg, SequenceTheorems, WellFoundedInduction, TLAPS

-----------------------------------------------------------------------------
(* The inductive invariant.                                                 *)

Cell == Names \X Nat
Elements == [id : {d.id : d \in Descs}, ip : Nat, lds : Nat, rds : Nat]
Things == [desc : Descs, ver : Vers] \cup [desc : Descs] \cup [ver : Vers] \cup [removed : Nat]

\* A vector of strings begins with the null string, and its last string is in it.
Begun(v) ==
    /\ v.cells \in Seq(Cell)
    /\ v.last \in Nat /\ v.last < Len(v.cells)
    /\ v.cells[1] = <<Empty, 1>>

\* The count is that of all additions until it wraps, and additions are pairs
\* and versions as the type says.
Counted ==
    /\ type \in Types \cup {"none"}
    /\ dl_num \in Nat /\ dl_num < NumMod
    /\ total \in Nat /\ dl_num <= total
    /\ total < NumMod => dl_num = total
    /\ added \in Seq(Things)
    /\ type # "rsp_rm" => total = Len(added)
    /\ v_dli.items \in Seq(Elements) /\ v_ver.items \in Seq(Vers)
    /\ Len(v_dli.items) = IF type \in HasDli THEN Len(added) ELSE 0
    /\ Len(v_ver.items) = IF type \in HasVer THEN Len(added) ELSE 0
    /\ type \in HasDli => \A i \in 1..Len(added) : added[i].desc \in Descs
    /\ type = "none" => added = <<>> /\ dl_num = 0 /\ v_str = NewStrvec /\ arb_ip = 0

\* An offset that a string n was given, in a vector whose first addition had the
\* address ip: only the null string is at offset 0, and only while no other was
\* entered.
Placed(o, n, cells, ip) == o \in Nat /\ StrAt(cells, o, n) /\ (ip # Empty => o > 0)

\* The address of an element, after n additions: that of the first addition, until
\* the count wraps.
Addressed(o, cells, ip, n) ==
    /\ o \in Nat /\ o < Len(cells)
    /\ ip # Empty => o > 0
    /\ n < NumMod => StrAt(cells, o, ip)

\* The strings of every pair are where its element says.
Strings ==
    /\ Begun(v_str)
    /\ type \in HasDli /\ Len(added) > 0 =>
        /\ added[1].desc.ip # Empty => v_str.last > 0
        /\ dl_num > 0 => Addressed(arb_ip, v_str.cells, added[1].desc.ip, total)
        /\ \A i \in 1..Len(added) :
            /\ v_dli.items[i].id = added[i].desc.id
            /\ Addressed(v_dli.items[i].ip, v_str.cells, added[1].desc.ip, total)
            /\ Placed(v_dli.items[i].lds, added[i].desc.lds, v_str.cells, added[1].desc.ip)
            /\ Placed(v_dli.items[i].rds, added[i].desc.rds, v_str.cells, added[1].desc.ip)

\* The version of every addition is in its place.
Versions == type \in HasVer => \A i \in 1..Len(added) : v_ver.items[i] = added[i].ver

\* The message that the encoder would make now.
Cells == IF type \in HasDli THEN v_str.cells ELSE <<>>
Made ==
    [type |-> type, num |-> dl_num, str |-> Cells,
     len |-> HeadSize + ArrayBytes(type, dl_num) + Len(Cells),
     dli |-> v_dli.items, ver |-> v_ver.items]

\* What the last output did still holds of the encoder.
Results ==
    /\ out \in {"none", "null", "msg", "aborted"}
    /\ out = "msg" => msg = Made /\ Full /\ dl_num # 0 /\ type # "none"
    /\ out # "msg" => msg = NoMsg
    /\ dec \in {NoMsg, msg}
    /\ out = "null" => dl_num = 0
    /\ out = "aborted" => ~Full

IInv == Counted /\ Strings /\ Versions /\ Results

-----------------------------------------------------------------------------
(* The strings.                                                             *)

\* A string is at an offset if its cells are there.
LEMMA StrAtCells ==
    ASSUME NEW cells \in Seq(Cell), NEW o \in Nat, NEW n \in Names
    PROVE  StrAt(cells, o, n) <=>
               /\ o + NameLen[n] <= Len(cells)
               /\ \A k \in 1..NameLen[n] : cells[o + k] = <<n, k>>
<1> DEFINE sub == SubSeq(cells, o + 1, o + NameLen[n])
<1>1. NameLen[n] \in Nat /\ NameLen[n] > 0
  BY NamesAssumption
<1>2. CASE ~(o + NameLen[n] <= Len(cells))
  BY <1>2 DEF StrAt
<1>3. CASE o + NameLen[n] <= Len(cells)
  <2>1. Len(cells) \in Nat /\ \A k \in 1..Len(cells) : cells[k] \in Cell
    BY ElementOfSeq
  <2>2. \A k \in (o + 1)..(o + NameLen[n]) : cells[k] \in Cell
    BY <1>1, <1>3, <2>1
  <2>3. o + 1 \in Int /\ o + NameLen[n] \in Int /\ o + 1 <= o + NameLen[n]
    BY <1>1
  <2>4. /\ sub \in Seq(Cell)
        /\ Len(sub) = (o + NameLen[n]) - (o + 1) + 1
        /\ \A k \in 1..((o + NameLen[n]) - (o + 1) + 1) : sub[k] = cells[(o + 1) + k - 1]
    BY <2>2, <2>3, SubSeqProperties
  <2>5. Len(sub) = NameLen[n] /\ \A k \in 1..NameLen[n] : sub[k] = cells[o + k]
    BY <1>1, <2>4
  <2>6. sub = [k \in 1..NameLen[n] |-> sub[k]]
    BY <2>4, <2>5, LenProperties
  <2> HIDE DEF sub
  <2>7. sub = CellsOf(n) <=> \A k \in 1..NameLen[n] : sub[k] = <<n, k>>
    BY <2>6 DEF CellsOf
  <2>8. StrAt(cells, o, n) <=> sub = CellsOf(n)
    BY <1>3 DEF StrAt, sub
  <2> QED BY <1>3, <2>5, <2>7, <2>8
<1> QED BY <1>2, <1>3

\* The cells of a string are a sequence of cells.
LEMMA CellsOfType ==
    ASSUME NEW n \in Names
    PROVE  /\ CellsOf(n) \in Seq(Cell) /\ Len(CellsOf(n)) = NameLen[n]
           /\ \A k \in 1..NameLen[n] : CellsOf(n)[k] = <<n, k>>
BY NamesAssumption DEF CellsOf, Cell

\* A new vector of strings begins with the null string.
LEMMA NewStrvecBegun == Begun(NewStrvec)
BY CellsOfType, NamesAssumption DEF NewStrvec, Begun

\* What strvec_add does: the string is where the offset says, strings that were
\* there stay where they were, and offset 0 is given for the null string only.
LEMMA StrvecAdds ==
    ASSUME NEW v, Begun(v), NEW n \in Names
    PROVE  /\ Begun(StrvecAdd(v, n))
           /\ StrAt(StrvecAdd(v, n).cells, StrvecAdd(v, n).last, n)
           /\ \A m \in Names, o \in Nat : StrAt(v.cells, o, m) => StrAt(StrvecAdd(v, n).cells, o, m)
           /\ v.last > 0 \/ n # Empty => StrvecAdd(v, n).last > 0
           /\ Len(v.cells) <= Len(StrvecAdd(v, n).cells)
<1> DEFINE w == StrvecAdd(v, n)
           shared == v.last + NameLen[n] = Len(v.cells) /\ StrAt(v.cells, v.last, n)
<1>1. NameLen[n] \in Nat /\ NameLen[n] > 0
  BY NamesAssumption
<1>2. CASE shared
  <2>1. w = v
    BY <1>2 DEF StrvecAdd
  <2>2. v.last > 0 \/ n # Empty => v.last > 0
    <3> SUFFICES ASSUME n # Empty, v.last = 0 PROVE FALSE
      BY DEF Begun
    <3>1. \A k \in 1..NameLen[n] : v.cells[0 + k] = <<n, k>>
      BY <1>2, StrAtCells DEF Begun
    <3>2. v.cells[1] = <<n, 1>>
      BY <1>1, <3>1
    <3> QED BY <3>2 DEF Begun
  <2> QED BY <1>2, <2>1, <2>2 DEF Begun
<1>3. CASE ~shared
  <2> DEFINE c == v.cells \o CellsOf(n)
  <2>1. w.cells = c /\ w.last = Len(v.cells)
    BY <1>3 DEF StrvecAdd
  <2>2. v.cells \in Seq(Cell) /\ Len(v.cells) \in Nat /\ Len(v.cells) > 0
    BY DEF Begun
  <2>3. c \in Seq(Cell) /\ Len(c) = Len(v.cells) + NameLen[n]
    BY <2>2, CellsOfType, ConcatProperties
  <2>4. \A k \in 1..Len(v.cells) : c[k] = v.cells[k]
    BY <1>1, <2>2, CellsOfType, ConcatProperties
  <2>5. \A k \in 1..NameLen[n] : c[Len(v.cells) + k] = <<n, k>>
    <3> SUFFICES ASSUME NEW k \in 1..NameLen[n] PROVE c[Len(v.cells) + k] = <<n, k>>
      OBVIOUS
    <3>1. Len(v.cells) + k \in 1..(Len(v.cells) + Len(CellsOf(n))) /\ ~(Len(v.cells) + k <= Len(v.cells))
          /\ Len(v.cells) + k - Len(v.cells) = k
      BY <1>1, <2>2, CellsOfType
    <3> HIDE DEF c
    <3>2. c[Len(v.cells) + k] = CellsOf(n)[k]
      BY <2>2, <3>1, CellsOfType, ConcatProperties DEF c
    <3> QED BY <3>2, CellsOfType
  <2> HIDE DEF c
  <2>6. StrAt(c, Len(v.cells), n)
    <3>1. Len(v.cells) + NameLen[n] <= Len(c)
      BY <1>1, <2>2, <2>3
    <3> QED BY <2>2, <2>3, <2>5, <3>1, StrAtCells, Zenon
  <2>7. ASSUME NEW m \in Names, NEW o \in Nat, StrAt(v.cells, o, m)
        PROVE  StrAt(c, o, m)
    <3>1. NameLen[m] \in Nat
      BY NamesAssumption
    <3>2. o + NameLen[m] <= Len(v.cells) /\ \A k \in 1..NameLen[m] : v.cells[o + k] = <<m, k>>
      BY <2>2, <2>7, StrAtCells
    <3>3. \A k \in 1..NameLen[m] : c[o + k] = <<m, k>>
      <4> SUFFICES ASSUME NEW k \in 1..NameLen[m] PROVE c[o + k] = <<m, k>>
        OBVIOUS
      <4>1. o + k \in 1..Len(v.cells)
        BY <2>2, <3>1, <3>2
      <4>2. c[o + k] = v.cells[o + k]
        BY <2>4, <4>1, Zenon
      <4> QED BY <3>2, <4>2, Zenon
    <3>4. o + NameLen[m] <= Len(c)
      BY <1>1, <2>2, <2>3, <3>1, <3>2
    <3> QED BY <2>3, <3>3, <3>4, StrAtCells, Zenon
  <2>8. Begun(w)
    BY <1>1, <2>1, <2>2, <2>3, <2>4 DEF Begun
  <2> QED BY <1>1, <2>1, <2>2, <2>3, <2>6, <2>7, <2>8
<1> QED BY <1>2, <1>3

-----------------------------------------------------------------------------
(* Additions.                                                               *)

\* A sequence with one element more.
LEMMA Appended ==
    ASSUME NEW S, NEW s \in Seq(S), NEW x \in S
    PROVE  /\ Append(s, x) \in Seq(S) /\ Len(s) \in Nat /\ Len(Append(s, x)) = Len(s) + 1
           /\ Append(s, x)[Len(s) + 1] = x
           /\ \A i \in 1..Len(s) : Append(s, x)[i] = s[i]
OBVIOUS

\* The count after an addition of n.
LEMMA CountAdds ==
    ASSUME Counted, NEW n \in Nat, NEW what, Count(n, what)
    PROVE  /\ dl_num' \in Nat /\ dl_num' < NumMod /\ total' \in Nat /\ dl_num' <= total'
           /\ total' < NumMod => dl_num' = total'
           /\ total' = total + n /\ added' = Append(added, what) /\ type' = type
           /\ total' < NumMod => total < NumMod
           /\ out' = "none" /\ msg' = NoMsg /\ dec' = NoMsg
<1> DEFINE m == dl_num + n
<1>1. NumMod \in Nat \ {0} /\ m \in Nat /\ m <= total + n
  BY SizesAssumption DEF Counted
<1>2. dl_num' = m % NumMod
  BY DEF Count, Plus
<1>3. total + n < NumMod => m = total + n /\ m < NumMod
  <2>1. NumMod \in Nat /\ total \in Nat /\ (total < NumMod => dl_num = total)
    BY SizesAssumption DEF Counted
  <2> QED BY <2>1
<1> HIDE DEF m
<1>4. m % NumMod \in 0..(NumMod - 1) /\ m % NumMod <= m
  BY <1>1
<1>5. m < NumMod => m % NumMod = m
  BY <1>1
<1>6. total' = total + n /\ total \in Nat /\ total + n \in Nat
  BY DEF Count, Counted
<1> QED BY <1>1, <1>2, <1>3, <1>4, <1>5, <1>6 DEF Count

\* What encode_dl_info enters: the strings of the pair, and of the first pair
\* its address, in an area where all earlier strings stay where they are.
LEMMA Encodes ==
    ASSUME Counted, Begun(v_str), NEW d \in Descs, EncodeDlInfo(d),
           dl_num > 0 => arb_ip \in Nat /\ arb_ip < Len(v_str.cells)
    PROVE  /\ Begun(v_str')
           /\ \A m \in Names, o \in Nat : StrAt(v_str.cells, o, m) => StrAt(v_str'.cells, o, m)
           /\ Len(v_str.cells) <= Len(v_str'.cells)
           /\ arb_ip' \in Nat /\ arb_ip' < Len(v_str'.cells)
           /\ dl_num > 0 => arb_ip' = arb_ip
           /\ dl_num = 0 => StrAt(v_str'.cells, arb_ip', d.ip)
           /\ dl_num = 0 /\ (v_str.last > 0 \/ d.ip # Empty) => arb_ip' > 0
           /\ v_str.last > 0 \/ (dl_num = 0 /\ d.ip # Empty) => v_str'.last > 0
           /\ \E e \in Elements :
                /\ v_dli'.items = Append(v_dli.items, e)
                /\ e.id = d.id /\ e.ip = arb_ip'
                /\ StrAt(v_str'.cells, e.lds, d.lds) /\ StrAt(v_str'.cells, e.rds, d.rds)
                /\ v_str.last > 0 \/ (dl_num = 0 /\ d.ip # Empty) => e.lds > 0 /\ e.rds > 0
<1> DEFINE s0 == IF dl_num > 0 THEN v_str ELSE StrvecAdd(v_str, d.ip)
           ip == IF dl_num > 0 THEN arb_ip ELSE s0.last
           s1 == StrvecAdd(s0, d.lds)
           s2 == StrvecAdd(s1, d.rds)
           e  == [id |-> d.id, ip |-> ip, lds |-> s1.last, rds |-> s2.last]
<1>1. d.ip \in Names /\ d.lds \in Names /\ d.rds \in Names
  BY DescsAssumption
<1>2. arb_ip' = ip /\ v_str' = s2 /\ v_dli'.items = Append(v_dli.items, e)
  BY DEF EncodeDlInfo, VecAdd
<1>3. /\ Begun(s0)
      /\ \A m \in Names, o \in Nat : StrAt(v_str.cells, o, m) => StrAt(s0.cells, o, m)
      /\ Len(v_str.cells) <= Len(s0.cells)
      /\ dl_num = 0 => StrAt(s0.cells, s0.last, d.ip)
      /\ v_str.last > 0 \/ (dl_num = 0 /\ d.ip # Empty) => s0.last > 0
  <2>0. dl_num \in Nat /\ Len(v_str.cells) \in Nat
    BY DEF Counted, Begun
  <2>1. CASE dl_num > 0
    <3>1. s0 = v_str /\ dl_num # 0
      BY <2>0, <2>1
    <3> QED BY <2>0, <3>1
  <2>2. CASE ~(dl_num > 0)
    <3>1. s0 = StrvecAdd(v_str, d.ip) /\ dl_num = 0
      BY <2>0, <2>2
    <3> HIDE DEF s0
    <3> QED BY <1>1, <3>1, StrvecAdds, Zenon
  <2> QED BY <2>1, <2>2
<1>4. ip \in Nat /\ ip < Len(s0.cells) /\ (dl_num = 0 => ip = s0.last) /\ (dl_num > 0 => ip = arb_ip)
  <2>1. dl_num \in Nat /\ Len(v_str.cells) \in Nat /\ Len(s0.cells) \in Nat /\ s0.last \in Nat /\ s0.last < Len(s0.cells)
    BY <1>3 DEF Counted, Begun
  <2> HIDE DEF s0
  <2> QED BY <1>3, <2>1
<1> HIDE DEF s0
<1>5. /\ Begun(s1) /\ StrAt(s1.cells, s1.last, d.lds)
      /\ \A m \in Names, o \in Nat : StrAt(s0.cells, o, m) => StrAt(s1.cells, o, m)
      /\ s0.last > 0 => s1.last > 0
      /\ Len(s0.cells) <= Len(s1.cells)
  BY <1>1, <1>3, StrvecAdds, Zenon
<1> HIDE DEF s1
<1>6. /\ Begun(s2) /\ StrAt(s2.cells, s2.last, d.rds)
      /\ \A m \in Names, o \in Nat : StrAt(s1.cells, o, m) => StrAt(s2.cells, o, m)
      /\ s1.last > 0 => s2.last > 0
      /\ Len(s1.cells) <= Len(s2.cells)
  BY <1>1, <1>5, StrvecAdds, Zenon
<1> HIDE DEF s2
<1> HIDE DEF ip
<1>7. /\ s0.last \in Nat /\ s1.last \in Nat /\ s2.last \in Nat
      /\ Len(v_str.cells) \in Nat /\ Len(s0.cells) \in Nat /\ Len(s1.cells) \in Nat /\ Len(s2.cells) \in Nat
  BY <1>3, <1>5, <1>6 DEF Begun
<1>8. StrAt(s2.cells, s1.last, d.lds)
  BY <1>1, <1>5, <1>6, <1>7
<1>9. \A m \in Names, o \in Nat : StrAt(v_str.cells, o, m) => StrAt(s2.cells, o, m)
  BY <1>3, <1>5, <1>6, Zenon
<1>10. Len(v_str.cells) <= Len(s2.cells) /\ ip < Len(s2.cells)
  BY <1>3, <1>4, <1>5, <1>6, <1>7
<1>11. dl_num = 0 => StrAt(s2.cells, ip, d.ip)
  BY <1>1, <1>3, <1>4, <1>5, <1>6, <1>7, Zenon
<1>12. e \in Elements /\ e.id = d.id /\ e.ip = ip /\ e.lds = s1.last /\ e.rds = s2.last
  BY <1>4, <1>7 DEF Elements
<1> HIDE DEF e
<1>13. v_str.last > 0 \/ (dl_num = 0 /\ d.ip # Empty) => s0.last > 0 /\ s1.last > 0 /\ s2.last > 0
  BY <1>3, <1>5, <1>6, Zenon
<1>14. v_str'.last = s2.last /\ v_str'.cells = s2.cells
  BY <1>2
<1>15. \E x \in Elements :
         /\ v_dli'.items = Append(v_dli.items, x)
         /\ x.id = d.id /\ x.ip = arb_ip'
         /\ StrAt(v_str'.cells, x.lds, d.lds) /\ StrAt(v_str'.cells, x.rds, d.rds)
         /\ v_str.last > 0 \/ (dl_num = 0 /\ d.ip # Empty) => x.lds > 0 /\ x.rds > 0
  BY <1>2, <1>6, <1>8, <1>12, <1>13, <1>14, Zenon
<1>16. dl_num = 0 /\ (v_str.last > 0 \/ d.ip # Empty) => ip > 0
  BY <1>4, <1>13, Zenon
<1> QED BY <1>2, <1>4, <1>6, <1>9, <1>10, <1>11, <1>13, <1>14, <1>15, <1>16, Zenon

\* The strings after a pair was entered.
LEMMA PairStrings ==
    ASSUME Counted, Strings, type \in HasDli, NEW d \in Descs, NEW what \in Things,
           what.desc = d, EncodeDlInfo(d), Count(1, what)
    PROVE  /\ Strings'
           /\ v_dli'.items \in Seq(Elements) /\ Len(v_dli'.items) = Len(v_dli.items) + 1
<1> DEFINE L == Len(added)
           first == added'[1].desc.ip
<1>1. /\ added \in Seq(Things) /\ added' = Append(added, what) /\ type' = type
      /\ L \in Nat /\ Len(added') = L + 1 /\ added'[L + 1] = what
      /\ \A i \in 1..L : added'[i] = added[i]
  <2>1. added \in Seq(Things)
    BY DEF Counted
  <2> QED BY <2>1, Appended DEF Count
<1>2. /\ dl_num \in Nat /\ total \in Nat /\ NumMod \in Nat /\ total = L /\ dl_num <= total
      /\ total < NumMod => dl_num = total
  BY SizesAssumption DEF Counted, HasDli
<1>3. total' = total + 1 /\ dl_num' \in Nat /\ (total' < NumMod => total < NumMod)
  BY CountAdds
<1>4. v_dli.items \in Seq(Elements) /\ Len(v_dli.items) = L
  BY DEF Counted
<1>5. L > 0 =>
        /\ first = added[1].desc.ip /\ first \in Names
        /\ first # Empty => v_str.last > 0
        /\ dl_num > 0 => Addressed(arb_ip, v_str.cells, first, total)
        /\ \A i \in 1..L :
            /\ v_dli.items[i].id = added[i].desc.id
            /\ Addressed(v_dli.items[i].ip, v_str.cells, first, total)
            /\ Placed(v_dli.items[i].lds, added[i].desc.lds, v_str.cells, first)
            /\ Placed(v_dli.items[i].rds, added[i].desc.rds, v_str.cells, first)
  <2> SUFFICES ASSUME L > 0
               PROVE  first = added[1].desc.ip /\ first \in Names
    BY DEF Strings
  <2>1. 1 \in 1..L
    BY <1>1
  <2>2. added'[1] = added[1] /\ added[1].desc \in Descs
    BY <1>1, <2>1 DEF Counted
  <2> QED BY <2>2, DescsAssumption
<1>6. L = 0 => first = d.ip
  BY <1>1
<1> HIDE DEF first, L
<1>7. dl_num > 0 => L > 0
  BY <1>1, <1>2
<1>8. dl_num > 0 => arb_ip \in Nat /\ arb_ip < Len(v_str.cells)
  BY <1>5, <1>7 DEF Addressed
<1>9. Begun(v_str)
  BY DEF Strings
<1>10. /\ Begun(v_str')
       /\ \A m \in Names, o \in Nat : StrAt(v_str.cells, o, m) => StrAt(v_str'.cells, o, m)
       /\ Len(v_str.cells) <= Len(v_str'.cells)
       /\ arb_ip' \in Nat /\ arb_ip' < Len(v_str'.cells)
       /\ dl_num > 0 => arb_ip' = arb_ip
       /\ dl_num = 0 => StrAt(v_str'.cells, arb_ip', d.ip)
       /\ dl_num = 0 /\ (v_str.last > 0 \/ d.ip # Empty) => arb_ip' > 0
       /\ v_str.last > 0 \/ (dl_num = 0 /\ d.ip # Empty) => v_str'.last > 0
  BY <1>8, <1>9, Encodes
<1>11. PICK e \in Elements :
         /\ v_dli'.items = Append(v_dli.items, e)
         /\ e.id = d.id /\ e.ip = arb_ip'
         /\ StrAt(v_str'.cells, e.lds, d.lds) /\ StrAt(v_str'.cells, e.rds, d.rds)
         /\ v_str.last > 0 \/ (dl_num = 0 /\ d.ip # Empty) => e.lds > 0 /\ e.rds > 0
  BY <1>8, <1>9, Encodes
<1>12. /\ v_dli'.items \in Seq(Elements) /\ Len(v_dli'.items) = L + 1
       /\ v_dli'.items[L + 1] = e
       /\ \A i \in 1..L : v_dli'.items[i] = v_dli.items[i]
  BY <1>4, <1>11, Appended
<1>13. first # Empty => v_str.last > 0 \/ (dl_num = 0 /\ d.ip # Empty)
  <2>1. L = 0 => dl_num = 0
    BY <1>1, <1>2
  <2> QED BY <1>1, <1>5, <1>6, <2>1
<1>14. first # Empty => v_str'.last > 0 /\ e.lds > 0 /\ e.rds > 0
  BY <1>10, <1>11, <1>13
<1>15. Addressed(arb_ip', v_str'.cells, first, total')
  <2>1. CASE dl_num > 0
    <3>1. L > 0 /\ first \in Names /\ Addressed(arb_ip, v_str.cells, first, total)
      BY <1>5, <1>7, <2>1
    <3> QED BY <1>3, <1>10, <2>1, <3>1 DEF Addressed
  <2>2. CASE dl_num = 0
    <3>1. first # Empty => arb_ip' > 0
      BY <1>10, <1>13, <2>2
    <3>2. total' < NumMod => first = d.ip
      BY <1>2, <1>3, <1>6, <2>2
    <3> QED BY <1>10, <2>2, <3>1, <3>2 DEF Addressed
  <2> QED BY <1>2, <2>1, <2>2
<1>16. ASSUME NEW i \in 1..(L + 1)
       PROVE  /\ v_dli'.items[i].id = added'[i].desc.id
              /\ Addressed(v_dli'.items[i].ip, v_str'.cells, first, total')
              /\ Placed(v_dli'.items[i].lds, added'[i].desc.lds, v_str'.cells, first)
              /\ Placed(v_dli'.items[i].rds, added'[i].desc.rds, v_str'.cells, first)
  <2>1. CASE i = L + 1
    <3>1. v_dli'.items[i] = e /\ added'[i].desc = d
      BY <1>1, <1>12, <2>1
    <3>2. e.lds \in Nat /\ e.rds \in Nat
      BY DEF Elements
    <3> QED BY <1>11, <1>14, <1>15, <3>1, <3>2 DEF Placed
  <2>2. CASE i # L + 1
    <3>1. i \in 1..L /\ L > 0
      BY <1>1, <2>2
    <3>2. v_dli'.items[i] = v_dli.items[i] /\ added'[i] = added[i]
      BY <1>1, <1>12, <3>1
    <3>3. added[i].desc.lds \in Names /\ added[i].desc.rds \in Names /\ first \in Names
      BY <1>5, <3>1, DescsAssumption DEF Counted, L
    <3>4. Addressed(v_dli.items[i].ip, v_str'.cells, first, total')
      <4>1. Addressed(v_dli.items[i].ip, v_str.cells, first, total)
        BY <1>5, <3>1
      <4>2. Len(v_str.cells) \in Nat /\ Len(v_str'.cells) \in Nat
        BY <1>9, <1>10 DEF Begun
      <4> QED BY <1>3, <1>10, <3>3, <4>1, <4>2 DEF Addressed
    <3>5. /\ Placed(v_dli.items[i].lds, added[i].desc.lds, v_str'.cells, first)
          /\ Placed(v_dli.items[i].rds, added[i].desc.rds, v_str'.cells, first)
      BY <1>5, <1>10, <3>1, <3>3 DEF Placed
    <3> QED BY <1>5, <3>1, <3>2, <3>4, <3>5
  <2> QED BY <2>1, <2>2
<1> QED BY <1>1, <1>4, <1>10, <1>12, <1>14, <1>15, <1>16 DEF Strings, first

\* A version is entered in its place.
LEMMA VersionAdds ==
    ASSUME Counted, Versions, type \in HasVer, NEW v \in Vers, NEW what \in Things, what.ver = v,
           v_ver'.items = Append(v_ver.items, v), added' = Append(added, what), type' = type
    PROVE  /\ Versions'
           /\ v_ver'.items \in Seq(Vers) /\ Len(v_ver'.items) = Len(v_ver.items) + 1
<1> DEFINE L == Len(added)
<1>1. added \in Seq(Things) /\ v_ver.items \in Seq(Vers) /\ Len(v_ver.items) = L
  BY DEF Counted
<1>2. /\ L \in Nat /\ Len(added') = L + 1 /\ added'[L + 1] = what
      /\ \A i \in 1..L : added'[i] = added[i]
  BY <1>1, Appended
<1>3. /\ v_ver'.items \in Seq(Vers) /\ Len(v_ver'.items) = L + 1 /\ v_ver'.items[L + 1] = v
      /\ \A i \in 1..L : v_ver'.items[i] = v_ver.items[i]
  BY <1>1, Appended
<1>4. \A i \in 1..L : v_ver.items[i] = added[i].ver
  BY DEF Versions
<1> HIDE DEF L
<1>5. ASSUME NEW i \in 1..(L + 1)
      PROVE  v_ver'.items[i] = added'[i].ver
  <2>1. CASE i = L + 1
    BY <1>2, <1>3, <2>1
  <2>2. CASE i # L + 1
    <3>1. i \in 1..L
      BY <1>2, <2>2
    <3> QED BY <1>2, <1>3, <1>4, <3>1
  <2> QED BY <2>1, <2>2
<1> QED BY <1>1, <1>2, <1>3, <1>5 DEF Versions

\* The additions after one more of them.
LEMMA AddedGrows ==
    ASSUME Counted, NEW what \in Things, added' = Append(added, what),
           type \in HasDli => what.desc \in Descs
    PROVE  /\ added' \in Seq(Things) /\ Len(added) \in Nat /\ Len(added') = Len(added) + 1
           /\ type \in HasDli => \A i \in 1..Len(added') : added'[i].desc \in Descs
<1> DEFINE L == Len(added)
<1>1. added \in Seq(Things)
  BY DEF Counted
<1>2. /\ added' \in Seq(Things) /\ L \in Nat /\ Len(added') = L + 1 /\ added'[L + 1] = what
      /\ \A i \in 1..L : added'[i] = added[i]
  BY <1>1, Appended
<1>3. ASSUME type \in HasDli, NEW i \in 1..(L + 1)
      PROVE  added'[i].desc \in Descs
  <2>1. CASE i = L + 1
    BY <1>2, <1>3, <2>1
  <2>2. CASE i # L + 1
    <3>1. i \in 1..L
      BY <1>2, <2>2
    <3> QED BY <1>2, <1>3, <3>1 DEF Counted
  <2> QED BY <2>1, <2>2
<1> QED BY <1>2, <1>3

-----------------------------------------------------------------------------
(* The invariant holds.                                                     *)

\* No encoder is in use, and its vectors are as their init leaves them.
LEMMA InitInv == MsgInit => IInv
<1> SUFFICES ASSUME MsgInit PROVE IInv
  OBVIOUS
<1>1. Counted
  BY SizesAssumption DEF MsgInit, Counted, NewVec, HasDli, HasVer
<1>2. Strings
  BY NewStrvecBegun DEF MsgInit, Strings, HasDli
<1>3. Versions
  BY DEF MsgInit, Versions, HasVer
<1>4. Results
  BY DEF MsgInit, Results
<1> QED BY <1>1, <1>2, <1>3, <1>4 DEF IInv

\* An encoder of a type is made, or ends.
LEMMA BeginEndKeeps ==
    ASSUME IInv, EncoderFini \/ \E t \in Types : EncoderInit(t)
    PROVE  IInv'
<1>1. CASE EncoderFini
  <2>1. Counted'
    BY <1>1, SizesAssumption DEF EncoderFini, Counted, NewVec, HasDli, HasVer
  <2>2. Strings'
    BY <1>1, NewStrvecBegun DEF EncoderFini, Strings, HasDli
  <2>3. Versions'
    BY <1>1 DEF EncoderFini, Versions, HasVer
  <2>4. Results'
    BY <1>1 DEF EncoderFini, Results
  <2> QED BY <2>1, <2>2, <2>3, <2>4 DEF IInv
<1>2. ASSUME NEW t \in Types, EncoderInit(t)
      PROVE  IInv'
  <2> USE <1>2 DEF EncoderInit
  <2>1. type = "none" /\ added = <<>> /\ dl_num = 0 /\ Len(added) = 0
    BY DEF IInv, Counted
  <2>2. /\ type' \in Types /\ type' # "none" /\ added' = added /\ dl_num' = dl_num /\ total' = total
        /\ v_dli' = v_dli /\ v_ver' = v_ver /\ v_str' = v_str
        /\ total = 0 /\ Len(v_dli.items) = 0 /\ Len(v_ver.items) = 0
    BY <2>1 DEF IInv, Counted, Types, HasDli, HasVer
  <2>3. Counted'
    BY <2>1, <2>2 DEF IInv, Counted
  <2>4. Strings'
    BY <2>1, <2>2 DEF IInv, Strings
  <2>5. Versions'
    BY <2>1, <2>2 DEF Versions
  <2>6. Results'
    BY <2>1, <2>2 DEF IInv, Results, Full, Made, Cells
  <2> QED BY <2>3, <2>4, <2>5, <2>6 DEF IInv
<1> QED BY <1>1, <1>2

\* A request: a pair and a version.
LEMMA RequestKeeps ==
    ASSUME IInv, NEW d \in Descs, NEW v \in Vers, AddRequest(d, v)
    PROVE  IInv'
<1> DEFINE what == [desc |-> d, ver |-> v]
<1>1. type = "req_sel" /\ EncodeDlInfo(d) /\ Count(1, what) /\ v_ver'.items = Append(v_ver.items, v)
  BY DEF AddRequest, VecAdd
<1>2. what \in Things /\ what.desc = d /\ what.ver = v
  BY DEF Things
<1> HIDE DEF what
<1>3. type \in HasDli /\ type \in HasVer /\ type \in Types /\ type # "rsp_rm" /\ type # "none"
  BY <1>1 DEF HasDli, HasVer, Types
<1>4. /\ dl_num' \in Nat /\ dl_num' < NumMod /\ total' \in Nat /\ dl_num' <= total'
      /\ total' < NumMod => dl_num' = total'
      /\ total' = total + 1 /\ added' = Append(added, what) /\ type' = type
      /\ out' = "none" /\ msg' = NoMsg /\ dec' = NoMsg
  BY <1>1, CountAdds DEF IInv
<1>5. Strings' /\ v_dli'.items \in Seq(Elements) /\ Len(v_dli'.items) = Len(v_dli.items) + 1
  BY <1>1, <1>2, <1>3, PairStrings DEF IInv
<1>6. Versions' /\ v_ver'.items \in Seq(Vers) /\ Len(v_ver'.items) = Len(v_ver.items) + 1
  BY <1>1, <1>2, <1>3, <1>4, VersionAdds DEF IInv
<1>7. /\ added' \in Seq(Things) /\ Len(added) \in Nat /\ Len(added') = Len(added) + 1
      /\ type \in HasDli => \A i \in 1..Len(added') : added'[i].desc \in Descs
  BY <1>2, <1>4, AddedGrows DEF IInv
<1>8. Counted'
  BY <1>3, <1>4, <1>5, <1>6, <1>7 DEF IInv, Counted
<1>9. Results'
  BY <1>4 DEF Results
<1> QED BY <1>5, <1>6, <1>8, <1>9 DEF IInv

\* An answer: a version.
LEMMA AnswerKeeps ==
    ASSUME IInv, NEW v \in Vers, AddAnswer(v)
    PROVE  IInv'
<1> DEFINE what == [ver |-> v]
<1>1. /\ type = "rsp_sel" /\ Count(1, what) /\ v_ver'.items = Append(v_ver.items, v)
      /\ v_dli' = v_dli /\ v_str' = v_str
  BY DEF AddAnswer, VecAdd
<1>2. what \in Things /\ what.ver = v
  BY DEF Things
<1> HIDE DEF what
<1>3. type \notin HasDli /\ type \in HasVer /\ type \in Types /\ type # "rsp_rm" /\ type # "none"
  BY <1>1 DEF HasDli, HasVer, Types
<1>4. /\ dl_num' \in Nat /\ dl_num' < NumMod /\ total' \in Nat /\ dl_num' <= total'
      /\ total' < NumMod => dl_num' = total'
      /\ total' = total + 1 /\ added' = Append(added, what) /\ type' = type
      /\ out' = "none" /\ msg' = NoMsg /\ dec' = NoMsg
  BY <1>1, CountAdds DEF IInv
<1>5. Strings'
  BY <1>1, <1>3, <1>4 DEF IInv, Strings
<1>6. Versions' /\ v_ver'.items \in Seq(Vers) /\ Len(v_ver'.items) = Len(v_ver.items) + 1
  BY <1>1, <1>2, <1>3, <1>4, VersionAdds DEF IInv
<1>7. added' \in Seq(Things) /\ Len(added) \in Nat /\ Len(added') = Len(added) + 1
  BY <1>2, <1>3, <1>4, AddedGrows DEF IInv
<1>8. Counted'
  BY <1>1, <1>3, <1>4, <1>6, <1>7 DEF IInv, Counted
<1>9. Results'
  BY <1>4 DEF Results
<1> QED BY <1>5, <1>6, <1>8, <1>9 DEF IInv

\* A removal: a pair.
LEMMA RemovalKeeps ==
    ASSUME IInv, NEW d \in Descs, AddRemoval(d)
    PROVE  IInv'
<1> DEFINE what == [desc |-> d]
<1>1. type = "req_rm" /\ EncodeDlInfo(d) /\ Count(1, what) /\ v_ver' = v_ver
  BY DEF AddRemoval
<1>2. what \in Things /\ what.desc = d
  BY DEF Things
<1> HIDE DEF what
<1>3. type \in HasDli /\ type \notin HasVer /\ type \in Types /\ type # "rsp_rm" /\ type # "none"
  BY <1>1 DEF HasDli, HasVer, Types
<1>4. /\ dl_num' \in Nat /\ dl_num' < NumMod /\ total' \in Nat /\ dl_num' <= total'
      /\ total' < NumMod => dl_num' = total'
      /\ total' = total + 1 /\ added' = Append(added, what) /\ type' = type
      /\ out' = "none" /\ msg' = NoMsg /\ dec' = NoMsg
  BY <1>1, CountAdds DEF IInv
<1>5. Strings' /\ v_dli'.items \in Seq(Elements) /\ Len(v_dli'.items) = Len(v_dli.items) + 1
  BY <1>1, <1>2, <1>3, PairStrings DEF IInv
<1>6. Versions'
  BY <1>3, <1>4 DEF Versions
<1>7. /\ added' \in Seq(Things) /\ Len(added) \in Nat /\ Len(added') = Len(added) + 1
      /\ type \in HasDli => \A i \in 1..Len(added') : added'[i].desc \in Descs
  BY <1>2, <1>4, AddedGrows DEF IInv
<1>8. Counted'
  BY <1>1, <1>3, <1>4, <1>5, <1>7 DEF IInv, Counted
<1>9. Results'
  BY <1>4 DEF Results
<1> QED BY <1>5, <1>6, <1>8, <1>9 DEF IInv

\* The answer to removals: a number.
LEMMA RemovedKeeps ==
    ASSUME IInv, NEW n \in Nat, AddRemoved(n)
    PROVE  IInv'
<1> DEFINE what == [removed |-> n]
<1>1. type = "rsp_rm" /\ Count(n, what) /\ v_dli' = v_dli /\ v_ver' = v_ver /\ v_str' = v_str
  BY DEF AddRemoved
<1>2. what \in Things
  BY DEF Things
<1> HIDE DEF what
<1>3. type \notin HasDli /\ type \notin HasVer /\ type \in Types /\ type # "none"
  BY <1>1 DEF HasDli, HasVer, Types
<1>4. /\ dl_num' \in Nat /\ dl_num' < NumMod /\ total' \in Nat /\ dl_num' <= total'
      /\ total' < NumMod => dl_num' = total'
      /\ total' = total + n /\ added' = Append(added, what) /\ type' = type
      /\ out' = "none" /\ msg' = NoMsg /\ dec' = NoMsg
  BY <1>1, CountAdds DEF IInv
<1>5. Strings'
  BY <1>1, <1>3, <1>4 DEF IInv, Strings
<1>6. Versions'
  BY <1>3, <1>4 DEF Versions
<1>7. added' \in Seq(Things) /\ Len(added) \in Nat /\ Len(added') = Len(added) + 1
  BY <1>2, <1>3, <1>4, AddedGrows DEF IInv
<1>8. Counted'
  BY <1>1, <1>3, <1>4, <1>7 DEF IInv, Counted
<1>9. Results'
  BY <1>4 DEF Results
<1> QED BY <1>5, <1>6, <1>8, <1>9 DEF IInv

\* Output and decoding leave the encoder alone.
LEMMA OutputKeeps ==
    ASSUME IInv, \/ OutputNull \/ OutputAborts \/ Output
                 \/ \E size : DecoderInit(size)
                 \/ UNCHANGED msgVars
    PROVE  IInv'
<1>1. UNCHANGED encVars
  BY DEF OutputNull, OutputAborts, Output, DecoderInit, msgVars
<1>2. Counted' /\ Strings' /\ Versions' /\ Made' = Made /\ Full' = Full
  BY <1>1 DEF encVars, IInv, Counted, Strings, Addressed, Versions, Made, Cells, Full
<1>3. Results'
  <2>1. CASE OutputNull
    BY <1>1, <1>2, <2>1 DEF OutputNull, encVars, IInv, Results
  <2>2. CASE OutputAborts
    BY <1>1, <1>2, <2>2 DEF OutputAborts, encVars, IInv, Results
  <2>3. CASE Output
    <3>1. msg' = Made
      BY <2>3 DEF Output, Made, Cells
    <3> QED BY <1>1, <1>2, <2>3, <3>1 DEF Output, encVars, IInv, Results
  <2>4. CASE \E size : DecoderInit(size)
    BY <1>1, <1>2, <2>4 DEF DecoderInit, encVars, IInv, Results
  <2>5. CASE UNCHANGED msgVars
    BY <1>1, <1>2, <2>5 DEF msgVars, encVars, IInv, Results
  <2> QED BY <2>1, <2>2, <2>3, <2>4, <2>5
<1> QED BY <1>2, <1>3 DEF IInv

\* Every step keeps the invariant.
LEMMA NextInv == IInv /\ [MsgNext]_msgVars => IInv'
<1> SUFFICES ASSUME IInv, [MsgNext]_msgVars PROVE IInv'
  OBVIOUS
<1>1. \A n \in 0..2 : n \in Nat
  OBVIOUS
<1>2. CASE EncoderFini \/ \E t \in Types : EncoderInit(t)
  BY <1>2, BeginEndKeeps
<1>3. CASE \E d \in Descs, v \in Vers : AddRequest(d, v)
  BY <1>3, RequestKeeps
<1>4. CASE \E v \in Vers : AddAnswer(v)
  BY <1>4, AnswerKeeps
<1>5. CASE \E d \in Descs : AddRemoval(d)
  BY <1>5, RemovalKeeps
<1>6. CASE \E n \in 0..2 : AddRemoved(n)
  BY <1>1, <1>6, RemovedKeeps
<1>7. CASE \/ OutputNull \/ OutputAborts \/ Output
           \/ \E size : DecoderInit(size)
           \/ UNCHANGED msgVars
  BY <1>7, OutputKeeps
<1> QED BY <1>2, <1>3, <1>4, <1>5, <1>6, <1>7 DEF MsgNext

-----------------------------------------------------------------------------
(* The buffers.                                                             *)

\* A set of natural numbers has a least one.
LEMMA Least ==
    ASSUME NEW S \in SUBSET Nat, S # {}
    PROVE  \E m \in S : \A k \in S : m <= k
<1>1. PICK m \in S : \A k \in S : ~(<<k, m>> \in OpToRel(<, Nat))
  BY WFMin, NatLessThanWellFounded
<1>2. \A k \in S : ~(k < m)
  BY <1>1 DEF OpToRel
<1> QED BY <1>2

\* What is reached from s by doubling: it is in every set that has s and the
\* double of each of its members.
Doubles(s) == {x \in Nat : \A T \in SUBSET Nat : s \in T /\ (\A y \in T : 2 * y \in T) => x \in T}

\* Doubling s reaches s and whatever doubling 2s reaches, and nothing else.
LEMMA DoublesOf ==
    ASSUME NEW s \in Nat
    PROVE  /\ Doubles(s) = {s} \cup Doubles(2 * s)
           /\ \A x \in Doubles(s) : s <= x /\ 2 * x \in Doubles(s)
<1>1. s \in Doubles(s)
  BY DEF Doubles
<1>2. ASSUME NEW r \in Nat, NEW x \in Doubles(r)
      PROVE  2 * x \in Doubles(r)
  BY <1>2 DEF Doubles
<1>3. ASSUME NEW x \in Doubles(2 * s)
      PROVE  x \in Doubles(s)
  BY <1>3 DEF Doubles
<1>4. ASSUME NEW x \in Doubles(s)
      PROVE  x \in {s} \cup Doubles(2 * s)
  <2> DEFINE T == {s} \cup Doubles(2 * s)
  <2>1. 2 * s \in Nat /\ 2 * s \in Doubles(2 * s)
    BY DEF Doubles
  <2>2. T \in SUBSET Nat
    BY DEF Doubles
  <2>3. \A y \in T : 2 * y \in T
    BY <1>2, <2>1
  <2> QED BY <2>2, <2>3 DEF Doubles
<1>5. ASSUME NEW x \in Doubles(s)
      PROVE  s <= x
  <2> DEFINE T == {y \in Nat : s <= y}
  <2>1. T \in SUBSET Nat /\ s \in T /\ \A y \in T : 2 * y \in T
    OBVIOUS
  <2> HIDE DEF T
  <2>2. x \in T
    BY <2>1 DEF Doubles
  <2> QED BY <2>2 DEF T
<1> QED BY <1>1, <1>2, <1>3, <1>4, <1>5

\* A buffer that expand returns is large enough, whatever its size was.
LEMMA ExpandedHolds ==
    ASSUME NEW size \in Nat \ {0}, NEW used \in Nat, NEW need \in Nat
    PROVE  Expanded(size, used, need) \in Nat \ {0} /\ used + need <= Expanded(size, used, need)
<1> DEFINE Sizes == Nat \ {0}
           Turn(f) == [s \in Sizes |-> IF used + need <= s THEN s ELSE f[2 * s]]
           Enough(s) == {x \in Doubles(s) : used + need <= x}
           found(s) == CHOOSE m \in Enough(s) : \A k \in Enough(s) : m <= k
           Found == [s \in Sizes |-> found(s)]
           doubled == CHOOSE f : f = Turn(f)
<1>1. Found = Turn(Found)
  <2>1. ASSUME NEW s \in Sizes
        PROVE  found(s) = IF used + need <= s THEN s ELSE found(2 * s)
    <3>1. CASE used + need <= s
      <4>1. s \in Enough(s) /\ \A k \in Enough(s) : s <= k
        BY <3>1, DoublesOf
      <4>2. \A m \in Enough(s) : (\A k \in Enough(s) : m <= k) => m = s
        BY <4>1 DEF Doubles
      <4> HIDE DEF Enough
      <4>3. found(s) = s
        BY <4>1, <4>2
      <4> QED BY <4>3, <3>1
    <3>2. CASE ~(used + need <= s)
      <4>1. Enough(s) = Enough(2 * s)
        BY <3>2, DoublesOf
      <4> HIDE DEF Enough
      <4> QED BY <3>2, <4>1
    <3> QED BY <3>1, <3>2
  <2> HIDE DEF found
  <2>2. \A s \in Sizes : 2 * s \in Sizes
    OBVIOUS
  <2> QED BY <2>1, <2>2
<1>2. doubled = Turn(doubled)
  <2> HIDE DEF Turn, Found
  <2> QED BY <1>1, Zenon
<1> DEFINE Holds(s) == doubled[s] \in Sizes /\ used + need <= doubled[s]
<1>3. \A s \in Sizes : Holds(s) \/ (~(used + need <= s) /\ ~Holds(2 * s))
  <2> HIDE DEF doubled
  <2>1. \A s \in Sizes : doubled[s] = IF used + need <= s THEN s ELSE doubled[2 * s]
    BY <1>2
  <2> QED BY <2>1
<1> HIDE DEF doubled, Holds
<1>4. Holds(size)
  <2> SUFFICES ASSUME ~Holds(size) PROVE FALSE
    OBVIOUS
  <2> DEFINE Left == {n \in Nat : \E s \in Sizes : ~Holds(s) /\ s <= used + need /\ n = used + need - s}
  <2>1. Left # {}
    <3>1. ~(used + need <= size)
      BY <1>3
    <3>2. used + need - size \in Left
      BY <3>1
    <3> QED BY <3>2
  <2>2. PICK n \in Left : \A k \in Left : n <= k
    BY <2>1, Least
  <2>3. PICK s \in Sizes : ~Holds(s) /\ n = used + need - s
    OBVIOUS
  <2>4. 2 * s \in Sizes /\ ~(used + need <= s) /\ ~Holds(2 * s) /\ ~(used + need <= 2 * s)
    BY <1>3, <2>3
  <2>5. used + need - 2 * s \in Left
    BY <2>4
  <2> QED BY <2>2, <2>3, <2>5
<1> QED BY <1>4 DEF Holds, doubled, Expanded

\* What a vector holds is not more than its buffer can.
Room(v, elem_size) == v.size \in Nat \ {0} /\ elem_size * Len(v.items) <= v.size
StrRoom(v) == v.size \in Nat \ {0} /\ Len(v.cells) <= v.size
Sized == Room(v_dli, DliSize) /\ Room(v_ver, VerSize) /\ StrRoom(v_str)

\* Empty vectors have room.
LEMMA NewHaveRoom == Room(NewVec, DliSize) /\ Room(NewVec, VerSize) /\ StrRoom(NewStrvec)
<1>1. PAGE_SIZE \in Nat \ {0} /\ DliSize * 0 = 0 /\ VerSize * 0 = 0
  BY SizesAssumption
<1>2. Len(NewStrvec.cells) = 1 /\ NewStrvec.size = PAGE_SIZE
  BY CellsOfType, NamesAssumption DEF NewStrvec
<1> QED BY <1>1, <1>2 DEF NewVec, Room, StrRoom

\* A vector that an element is added to has room for it.
LEMMA VecAddRoom ==
    ASSUME NEW S, NEW v, v.items \in Seq(S), NEW x \in S, NEW e \in Nat, Room(v, e)
    PROVE  Room(VecAdd(v, e, x), e)
<1> DEFINE n == Len(v.items)
           w == VecAdd(v, e, x)
<1>1. n \in Nat /\ e * n \in Nat /\ e * (n + 1) = e * n + e
  OBVIOUS
<1>2. Len(w.items) = n + 1 /\ w.size = Expanded(v.size, e * n, e)
  BY DEF VecAdd
<1> HIDE DEF n
<1>3. w.size \in Nat \ {0} /\ e * n + e <= w.size
  BY <1>1, <1>2, ExpandedHolds DEF Room
<1> QED BY <1>1, <1>2, <1>3 DEF Room

\* So has an area of strings that a string is added to.
LEMMA StrvecAddRoom ==
    ASSUME NEW v, Begun(v), NEW n \in Names, StrRoom(v)
    PROVE  StrRoom(StrvecAdd(v, n))
<1> DEFINE shared == v.last + NameLen[n] = Len(v.cells) /\ StrAt(v.cells, v.last, n)
           w == StrvecAdd(v, n)
<1>1. Len(v.cells) \in Nat /\ NameLen[n] \in Nat /\ CellsOf(n) \in Seq(Cell) /\ Len(CellsOf(n)) = NameLen[n]
  BY NamesAssumption, CellsOfType DEF Begun
<1>2. CASE shared
  BY <1>2 DEF StrvecAdd
<1>3. CASE ~shared
  <2>1. w.cells = v.cells \o CellsOf(n) /\ w.size = Expanded(v.size, Len(v.cells), NameLen[n])
    BY <1>3 DEF StrvecAdd
  <2>2. Len(w.cells) = Len(v.cells) + NameLen[n]
    BY <1>1, <2>1 DEF Begun
  <2>3. w.size \in Nat \ {0} /\ Len(v.cells) + NameLen[n] <= w.size
    BY <1>1, <2>1, ExpandedHolds DEF StrRoom
  <2> QED BY <2>2, <2>3 DEF StrRoom
<1> QED BY <1>2, <1>3

\* Entering a pair leaves room everywhere.
LEMMA EncodesRoom ==
    ASSUME IInv, Sized, NEW d \in Descs, EncodeDlInfo(d)
    PROVE  Room(v_dli, DliSize)' /\ StrRoom(v_str)'
<1> DEFINE s0 == IF dl_num > 0 THEN v_str ELSE StrvecAdd(v_str, d.ip)
           ip == IF dl_num > 0 THEN arb_ip ELSE s0.last
           s1 == StrvecAdd(s0, d.lds)
           s2 == StrvecAdd(s1, d.rds)
           e  == [id |-> d.id, ip |-> ip, lds |-> s1.last, rds |-> s2.last]
<1>1. d.ip \in Names /\ d.lds \in Names /\ d.rds \in Names
  BY DescsAssumption
<1>2. v_str' = s2 /\ v_dli' = VecAdd(v_dli, DliSize, e)
  BY DEF EncodeDlInfo
<1>3. Begun(v_str) /\ StrRoom(v_str)
  BY DEF IInv, Strings, Sized
<1>4. Begun(s0) /\ StrRoom(s0)
  BY <1>1, <1>3, StrvecAdds, StrvecAddRoom
<1> HIDE DEF s0
<1>5. Begun(s1) /\ StrRoom(s1)
  BY <1>1, <1>4, StrvecAdds, StrvecAddRoom
<1> HIDE DEF s1
<1>6. StrRoom(s2)
  BY <1>1, <1>5, StrvecAddRoom
<1> HIDE DEF s2, e
<1>7. Room(VecAdd(v_dli, DliSize, e), DliSize)
  <2> DEFINE S == Elements \cup {e}
  <2>1. v_dli.items \in Seq(S)
    BY DEF IInv, Counted
  <2> HIDE DEF S
  <2>2. e \in S
    BY DEF S
  <2> QED BY <2>1, <2>2, SizesAssumption, VecAddRoom DEF Sized
<1> QED BY <1>2, <1>6, <1>7

\* Every step leaves room.
LEMMA SizedKept == IInv /\ Sized /\ [MsgNext]_msgVars => Sized'
<1> SUFFICES ASSUME IInv, Sized, [MsgNext]_msgVars PROVE Sized'
  OBVIOUS
<1>1. ASSUME NEW v \in Vers, v_ver' = VecAdd(v_ver, VerSize, v)
      PROVE  Room(v_ver, VerSize)'
  <2>1. v_ver.items \in Seq(Vers)
    BY DEF IInv, Counted
  <2> QED BY <1>1, <2>1, SizesAssumption, VecAddRoom DEF Sized
<1>2. CASE EncoderFini
  BY <1>2, NewHaveRoom DEF EncoderFini, Sized
<1>3. CASE UNCHANGED <<v_dli, v_ver, v_str>>
  BY <1>3 DEF Sized, Room, StrRoom
<1>4. ASSUME NEW d \in Descs, NEW v \in Vers, AddRequest(d, v)
      PROVE  Sized'
  BY <1>1, <1>4, EncodesRoom DEF AddRequest, Sized
<1>5. ASSUME NEW v \in Vers, AddAnswer(v)
      PROVE  Sized'
  BY <1>1, <1>5 DEF AddAnswer, Sized, Room, StrRoom
<1>6. ASSUME NEW d \in Descs, AddRemoval(d)
      PROVE  Sized'
  BY <1>6, EncodesRoom DEF AddRemoval, Sized, Room
<1>7. CASE \/ \E t \in Types : EncoderInit(t)
           \/ \E n \in 0..2 : AddRemoved(n)
           \/ OutputNull \/ OutputAborts \/ Output
           \/ \E size : DecoderInit(size)
           \/ UNCHANGED msgVars
  <2>1. UNCHANGED <<v_dli, v_ver, v_str>>
    BY <1>7 DEF EncoderInit, AddRemoved, OutputNull, OutputAborts, Output, DecoderInit, msgVars, encVars
  <2> QED BY <1>3, <2>1
<1> QED BY <1>2, <1>4, <1>5, <1>6, <1>7 DEF MsgNext

-----------------------------------------------------------------------------
(* What follows from it.                                                    *)

\* A message is made only before the count wraps, of everything that was added.
LEMMA MadeOfAll ==
    ASSUME IInv, out = "msg"
    PROVE  /\ msg = Made /\ type \in Types
           /\ type # "rsp_rm" => total < NumMod /\ dl_num = total /\ Len(added) = dl_num
           /\ total < NumMod => dl_num = total
           /\ dl_num \in Nat /\ dl_num > 0
<1>1. /\ msg = Made /\ Full /\ dl_num # 0 /\ type # "none"
      /\ type \in Types \cup {"none"} /\ dl_num \in Nat /\ dl_num < NumMod
      /\ type # "rsp_rm" => total = Len(added)
      /\ Len(v_dli.items) = IF type \in HasDli THEN Len(added) ELSE 0
      /\ Len(v_ver.items) = IF type \in HasVer THEN Len(added) ELSE 0
      /\ total < NumMod => dl_num = total
  BY DEF IInv, Results, Counted
<1>2. type # "rsp_rm" => type \in HasDli \/ type \in HasVer
  BY <1>1 DEF Types, HasDli, HasVer
<1>3. type # "rsp_rm" => Len(added) = dl_num
  BY <1>1, <1>2 DEF Full
<1> QED BY <1>1, <1>3

\* Offsets are inside, for an element's strings are where it says.
LEMMA TypeFollows == IInv => MsgTypeOK
<1> SUFFICES ASSUME IInv PROVE MsgTypeOK
  OBVIOUS
<1>1. type \in Types \cup {"none"} /\ v_ver.items \in Seq(Vers) /\ out \in {"none", "null", "msg", "aborted"}
  BY DEF IInv, Counted, Results
<1>2. dl_num \in 0..(NumMod - 1)
  BY SizesAssumption DEF IInv, Counted
<1>3. ASSUME NEW i \in 1..Len(v_dli.items)
      PROVE  {v_dli.items[i].ip, v_dli.items[i].lds, v_dli.items[i].rds} \subseteq 0..(Len(v_str.cells) - 1)
  <2>1. v_dli.items \in Seq(Elements) /\ Len(v_dli.items) \in Nat
    BY DEF IInv, Counted
  <2>2. type \in HasDli /\ i \in 1..Len(added) /\ Len(added) > 0
    BY <2>1 DEF IInv, Counted
  <2>3. /\ v_str.cells \in Seq(Cell) /\ Len(v_str.cells) \in Nat
        /\ v_dli.items[i].ip \in Nat /\ v_dli.items[i].ip < Len(v_str.cells)
        /\ v_dli.items[i].lds \in Nat /\ StrAt(v_str.cells, v_dli.items[i].lds, added[i].desc.lds)
        /\ v_dli.items[i].rds \in Nat /\ StrAt(v_str.cells, v_dli.items[i].rds, added[i].desc.rds)
        /\ added[i].desc.lds \in Names /\ added[i].desc.rds \in Names
    <3>1. added[i].desc \in Descs
      BY <2>2 DEF IInv, Counted
    <3>2. added[i].desc.lds \in Names /\ added[i].desc.rds \in Names
      BY <3>1, DescsAssumption
    <3>3. Begun(v_str)
      BY DEF IInv, Strings
    <3>4. v_str.cells \in Seq(Cell) /\ Len(v_str.cells) \in Nat
      BY <3>3 DEF Begun
    <3>5. v_dli.items[i].ip \in Nat /\ v_dli.items[i].ip < Len(v_str.cells)
      BY <2>1, <2>2 DEF IInv, Strings, Begun, Addressed, Placed, Counted
    <3>6. /\ v_dli.items[i].lds \in Nat /\ StrAt(v_str.cells, v_dli.items[i].lds, added[i].desc.lds)
          /\ v_dli.items[i].rds \in Nat /\ StrAt(v_str.cells, v_dli.items[i].rds, added[i].desc.rds)
      BY <2>1, <2>2 DEF IInv, Strings, Placed, Counted
    <3> QED BY <3>2, <3>4, <3>5, <3>6
  <2>4. /\ v_dli.items[i].lds + NameLen[added[i].desc.lds] <= Len(v_str.cells)
        /\ v_dli.items[i].rds + NameLen[added[i].desc.rds] <= Len(v_str.cells)
    BY <2>3 DEF StrAt
  <2>5. NameLen[added[i].desc.lds] \in Nat \ {0} /\ NameLen[added[i].desc.rds] \in Nat \ {0}
    BY <2>3, NamesAssumption
  <2>6. v_dli.items[i].lds < Len(v_str.cells) /\ v_dli.items[i].rds < Len(v_str.cells)
    <3>1. \A o, l, n \in Nat : n # 0 /\ o + n <= l => o < l
      OBVIOUS
    <3>2. v_dli.items[i].lds \in Nat /\ v_dli.items[i].rds \in Nat /\ Len(v_str.cells) \in Nat
      BY <2>3
    <3> QED BY <2>4, <2>5, <3>1, <3>2
  <2>7. \A o \in Nat : o < Len(v_str.cells) => o \in 0..(Len(v_str.cells) - 1)
    BY <2>3
  <2> QED BY <2>3, <2>6, <2>7
<1> QED BY <1>1, <1>2, <1>3 DEF MsgTypeOK

\* What was decoded is the message of all that was added.
LEMMA RoundTripFollows == IInv => RoundTrip
<1> SUFFICES ASSUME IInv, dec # NoMsg
             PROVE  /\ total < NumMod \/ type # "rsp_rm" => dec.num = total
                    /\ type \in HasVer => \A i \in 1..dec.num : dec.ver[i] = added[i].ver
                    /\ type \in HasDli => \A i \in 1..dec.num :
                         GetsDesc(dec, i, [added[i].desc EXCEPT !.ip = added[1].desc.ip])
  BY DEF RoundTrip
<1>1. dec = msg /\ out = "msg"
  BY DEF IInv, Results
<1>2. /\ msg = Made /\ type \in Types
      /\ type # "rsp_rm" => total < NumMod /\ dl_num = total /\ Len(added) = dl_num
      /\ total < NumMod => dl_num = total
      /\ dl_num \in Nat /\ dl_num > 0
  BY <1>1, MadeOfAll
<1>3. dec.num = dl_num /\ dec.ver = v_ver.items /\ dec.dli = v_dli.items /\ dec.str = Cells
  BY <1>1, <1>2 DEF Made
<1>4. type \in HasVer \/ type \in HasDli => type # "rsp_rm"
  BY DEF HasVer, HasDli
<1>5. ASSUME type \in HasDli, NEW i \in 1..dl_num
      PROVE  GetsDesc(dec, i, [added[i].desc EXCEPT !.ip = added[1].desc.ip])
  <2> DEFINE d == [added[i].desc EXCEPT !.ip = added[1].desc.ip]
  <2>1. /\ i \in 1..Len(added) /\ Len(added) > 0 /\ total < NumMod
        /\ Cells = v_str.cells
    BY <1>2, <1>4, <1>5 DEF Cells
  <2>2. /\ v_dli.items[i].id = added[i].desc.id
        /\ StrAt(v_str.cells, v_dli.items[i].ip, added[1].desc.ip)
        /\ StrAt(v_str.cells, v_dli.items[i].lds, added[i].desc.lds)
        /\ StrAt(v_str.cells, v_dli.items[i].rds, added[i].desc.rds)
    BY <1>5, <2>1 DEF IInv, Strings, Addressed, Placed
  <2>3. d.id = added[i].desc.id /\ d.lds = added[i].desc.lds /\ d.rds = added[i].desc.rds
        /\ d.ip = added[1].desc.ip
    OBVIOUS
  <2> HIDE DEF d
  <2>4. GetsDesc(dec, i, d)
    BY <1>3, <2>1, <2>2, <2>3 DEF GetsDesc
  <2> QED BY <2>4 DEF d
<1>6. type \in HasVer => \A i \in 1..dl_num : v_ver.items[i] = added[i].ver
  BY <1>2, <1>4 DEF IInv, Versions
<1> QED BY <1>2, <1>3, <1>5, <1>6

\* No offset is 0 unless the first address is empty.
LEMMA AcceptedFollows == IInv => MadeIsAccepted
<1> SUFFICES ASSUME IInv, out = "msg", ~(type \in HasDli /\ added[1].desc.ip = Empty)
             PROVE  CheckMsg(msg, msg.len)
  BY DEF MadeIsAccepted
<1> DEFINE arrays == ArrayBytes(type, dl_num)
           fixed  == HeadSize + arrays
<1>1. /\ msg = Made /\ type \in Types
      /\ type # "rsp_rm" => total < NumMod /\ dl_num = total /\ Len(added) = dl_num
      /\ dl_num \in Nat /\ dl_num > 0
  BY MadeOfAll
<1>2. HeadSize \in Nat
  BY SizesAssumption
<1>3. arrays \in Nat
  <2>1. DliSize * dl_num \in Nat /\ VerSize * dl_num \in Nat
    BY <1>1, SizesAssumption
  <2> QED BY <2>1 DEF ArrayBytes
<1>4. /\ msg.type = type /\ msg.num = dl_num /\ msg.dli = v_dli.items
      /\ msg.len = fixed + Len(Cells)
  BY <1>1 DEF Made
<1> HIDE DEF arrays
<1>5. CASE type \in HasDli
  <2>1. Cells = v_str.cells /\ Len(v_str.cells) \in Nat /\ Len(v_str.cells) > 0
    BY <1>5 DEF Cells, IInv, Strings, Begun
  <2>2. msg.len >= HeadSize /\ msg.len > fixed /\ msg.len - fixed = Len(v_str.cells)
    <3>1. msg.len = (HeadSize + arrays) + Len(v_str.cells)
      BY <1>4, <2>1
    <3>2. \A h, a, l, m \in Nat : l > 0 /\ m = (h + a) + l => m >= h /\ m > h + a /\ m - (h + a) = l
      OBVIOUS
    <3>3. msg.len \in Nat
      <4>1. \A h, a, l \in Nat : (h + a) + l \in Nat
        OBVIOUS
      <4> QED BY <1>2, <1>3, <2>1, <3>1, <4>1, Zenon
    <3> QED BY <1>2, <1>3, <2>1, <3>1, <3>2, <3>3
  <2>3. ASSUME NEW i \in 1..dl_num,
               NEW o \in {v_dli.items[i].ip, v_dli.items[i].lds, v_dli.items[i].rds}
        PROVE  StrValid(o, Len(v_str.cells))
    <3>1. i \in 1..Len(added) /\ Len(added) > 0 /\ i \in 1..Len(v_dli.items)
      BY <1>1, <1>5 DEF HasDli, IInv, Counted
    <3>2. o > 0
      BY <1>5, <3>1 DEF IInv, Strings, Addressed, Placed
    <3>3. o \in 0..(Len(v_str.cells) - 1)
      BY <3>1, TypeFollows DEF MsgTypeOK
    <3> QED BY <2>1, <3>2, <3>3 DEF StrValid
  <2> HIDE DEF fixed
  <2>4. fixed = HeadSize + ArrayBytes(msg.type, msg.num)
    BY <1>4 DEF fixed, arrays
  <2> QED BY <1>4, <1>5, <2>2, <2>3, <2>4 DEF CheckMsg
<1>6. CASE type \notin HasDli
  <2>1. Cells = <<>> /\ Len(Cells) = 0
    BY <1>6 DEF Cells
  <2>2. msg.len >= HeadSize /\ msg.len = fixed
    BY <1>2, <1>3, <1>4, <2>1
  <2> HIDE DEF fixed
  <2>3. fixed = HeadSize + ArrayBytes(msg.type, msg.num)
    BY <1>4 DEF fixed, arrays
  <2> QED BY <1>4, <1>6, <2>2, <2>3 DEF CheckMsg
<1> QED BY <1>5, <1>6

\* Before the wrap, the vectors have dl_num elements.
LEMMA NoneLostFollows == IInv => NoneLost
<1> SUFFICES ASSUME IInv, out \in {"null", "aborted"}, total < NumMod
             PROVE  total = 0
  BY SizesAssumption DEF NoneLost, IInv, Counted
<1>1. dl_num = total
  BY DEF IInv, Counted
<1>2. CASE out = "null"
  BY <1>1, <1>2 DEF IInv, Results
<1>3. CASE out = "aborted"
  <2>1. ~Full
    BY <1>3 DEF IInv, Results
  <2>2. Full
    BY <1>1 DEF Full, IInv, Counted, HasDli, HasVer
  <2> QED BY <2>1, <2>2
<1> QED BY <1>2, <1>3

\* In every reachable state the count, the vectors, the message and the history
\* of what was added agree, for any strings, sizes and width of the count.
THEOREM Invariance == MsgSpec => []IInv
<1>1. MsgInit => IInv
  BY InitInv
<1>2. IInv /\ [MsgNext]_msgVars => IInv'
  BY NextInv
<1> QED BY <1>1, <1>2, PTL DEF MsgSpec

\* The count stays in its width and every offset is inside the string area.
THEOREM TypeCorrect == MsgSpec => []MsgTypeOK
BY Invariance, TypeFollows, PTL

\* What a decoder accepts gives back every pair and version that was added, in
\* order and with its strings, however strings are shared and however the
\* vectors grow (arb_msg_encoder_add, _output, arb_msg_decoder_get).
THEOREM ComesBack == MsgSpec => []RoundTrip
BY Invariance, RoundTripFollows, PTL

\* check_msg accepts what the encoder makes, but for an empty arbiter address,
\* which shares the null string at offset 0.
THEOREM Accepted == MsgSpec => []MadeIsAccepted
BY Invariance, AcceptedFollows, PTL

\* arb_msg_encoder_output refuses, or aborts on its VERIFYs, only if nothing was
\* added or dl_num wrapped around.
THEOREM NothingLost == MsgSpec => []NoneLost
BY Invariance, NoneLostFollows, PTL

\* No memcpy of vec_add or strvec_add runs over the end of its buffer: whatever
\* is added, expand has made the buffer large enough before it is written.
THEOREM BuffersSuffice == MsgSpec => []BuffersHold
<1>1. MsgInit => Sized
  BY NewHaveRoom DEF MsgInit, Sized
<1>2. IInv /\ MsgTypeOK /\ Sized => BuffersHold
  BY DEF Sized, Room, StrRoom, BuffersHold
<1> QED BY <1>1, <1>2, Invariance, TypeCorrect, SizedKept, PTL DEF MsgSpec
=============================================================================
