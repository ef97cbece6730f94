--------------------------- MODULE DliTableProofs ---------------------------
(****************************************************************************)
(* Proofs about DliTable, for any pairs, strings and sizes: the stores stay *)
(* inside, and as long as no strings move for a longer array and no removal *)
(* is cut short, every pair is found, with what its hosts were told.        *)
(****************************************************************************)
EXTENDS DliTable, FiniteSetTheorems, WellFoundedInduction, TLAPS

-----------------------------------------------------------------------------
(* The inductive invariant.                                                 *)

Before  == {"find", "grow", "move", "double", "claim"}
Filling == {"host1", "host2", "ds1", "ds2"}
Inserts == Before \cup Filling \cup {"comm", "ready"}

\* The call: what it is for, and where it can be.
Called ==
    /\ call \in [op : {"none", "insert", "remove"}, pair : Pairs \cup {0},
                 side : Sides \cup {"none"}, step : Inserts \cup {"idle", "shift"}, i : Nat]
    /\ call.op = "none" => call = NoCall
    /\ call.op = "insert" => call.step \in Inserts /\ call.pair \in Pairs /\ call.side \in Sides
    /\ call.op = "remove" => call.step = "shift" /\ call.pair \in Pairs

Typed ==
    /\ dl_num \in Nat /\ dl_num_max \in 1..MaxDli /\ dl_num <= dl_num_max
    /\ dli \in [Slots -> [host : Nat \X Nat, ds : Offsets \X Offsets, words : SUBSET (Words \cup {Junk})]]
    /\ str \in [Offsets -> Cells]
    /\ str_pos \in 1..MaxStr /\ last_str_pos \in Nat /\ last_str_pos <= str_pos
    /\ arb_ip \in Offsets /\ comm \in {"unset", "desc", "garbage"}
    /\ size \in Nat /\ used <= size
    /\ members \subseteq Pairs
    /\ told \in [Pairs -> SUBSET (Words \cup {Junk})]
    /\ harm \subseteq Harms

\* The element of a call, and room for the strings that it will still enter.
Placed ==
    /\ call.step \in Filling => dl_num > 0 /\ call.i = dl_num - 1
    /\ call.step \in {"comm", "ready"} => call.i < dl_num
    /\ call.op = "remove" => call.i <= dl_num /\ dl_num < dl_num_max
    /\ call.step = "claim" => dl_num < dl_num_max
    /\ call.step \in {"move", "double"} => used + More <= size
    /\ call.step = "double" => 2 * dl_num_max <= MaxDli
    /\ call.step \in Before \cup {"host1", "host2", "ds1"} =>
         str_pos + NameLen[call.pair.ds[1]] + NameLen[call.pair.ds[2]] + MaxLen <= MaxStr
    /\ call.step = "ds2" => str_pos + NameLen[call.pair.ds[2]] + MaxLen <= MaxStr
    /\ call.step = "comm" => str_pos + MaxLen <= MaxStr

\* The strings are where dl_num_max says: the array has not grown, and no growth
\* has moved them.
Laid  == harm \cap {"torn", "grown"} = {} /\ call.step # "double"
Sound == "cut" \notin harm /\ Laid
Clean == harm = {} /\ Laid

\* At an offset begins a whole string: the null string, or one that was entered.
Begins(o) == o = 0 \/ \E n \in Names : o + NameLen[n] <= str_pos /\ StrAt(o, n)

Strings ==
    Laid =>
        /\ str[0] = Nul
        /\ \A i \in Slots : Begins(dli[i].ds[1]) /\ Begins(dli[i].ds[2])

\* The elements that count: not the one that is being filled, nor the gap that a
\* removal closes.
Whole ==
    IF call.op = "remove" THEN (0..dl_num) \ {call.i}
    ELSE IF call.step \in Filling THEN Live \ {call.i}
    ELSE Live

\* Element i is the first for p.
FirstFor(i, p) ==
    /\ i \in Whole /\ EquDesc(dli[i], p)
    /\ \A k \in Whole : k < i => ~EquDesc(dli[k], p)

\* Every member has an element with what was told of it, the pair that is being
\* entered has none until it is filled, and nothing was told of the others.
Found1 ==
    Sound =>
        /\ \A p \in members : \E i \in Whole : FirstFor(i, p) /\ told[p] \subseteq dli[i].words
        /\ \A p \in Pairs \ members : told[p] = {}
        /\ call.step \in (Before \ {"find"}) \cup Filling => \A k \in Whole : ~EquDesc(dli[k], call.pair)
        /\ call.step = "host2" => dli[call.i].host[1] = call.pair.host[1]
        /\ call.step \in {"ds1", "ds2"} => dli[call.i].host = call.pair.host
        /\ call.step = "ds2" => StrAt(dli[call.i].ds[1], call.pair.ds[1])
        /\ call.step \in {"comm", "ready"} => call.pair \in members /\ FirstFor(call.i, call.pair)

\* As long as nothing went wrong, the elements are those of the members, once each.
Counted ==
    Clean =>
        /\ \A k \in Whole, p \in Pairs : EquDesc(dli[k], p) => p \in members
        /\ \A k, l \in Whole, p \in Pairs : EquDesc(dli[k], p) /\ EquDesc(dli[l], p) => k = l
        /\ dl_num = Cardinality(members) + (IF call.step \in Filling THEN 1 ELSE 0)

IInv == Called /\ Typed /\ Placed /\ Strings /\ Found1 /\ Counted

-----------------------------------------------------------------------------
(* Numbers and strings.                                                     *)

\* A set of numbers has a least one.
LEMMA Least ==
    ASSUME NEW T, T \subseteq Nat, T # {}
    PROVE  \E x \in T : \A y \in T : x <= y
<1>1. PICK x \in T : \A y \in T : ~(<<y, x>> \in OpToRel(<, Nat))
  BY WFMin, NatLessThanWellFounded
<1>2. \A y \in T : ~(y < x)
  BY <1>1 DEF OpToRel
<1> QED BY <1>2

\* First is the least.
LEMMA FirstIsLeast ==
    ASSUME NEW T, T \subseteq Nat, T # {}
    PROVE  First(T) \in T /\ \A k \in T : First(T) <= k
BY Least DEF First

\* No string is longer than MaxLen.
LEMMA MaxLenIsMax == MaxLen \in Nat /\ \A n \in Names : NameLen[n] \in Nat /\ NameLen[n] > 0 /\ NameLen[n] <= MaxLen
<1> DEFINE lens == {NameLen[n] : n \in Names}
<1>1. \E m \in lens : \A n \in Names : NameLen[n] <= m
  BY LongestAssumption
<1>2. MaxLen \in lens /\ \A n \in Names : NameLen[n] <= MaxLen
  BY <1>1 DEF MaxLen
<1>3. \A n \in Names : NameLen[n] \in Nat /\ NameLen[n] > 0
  BY NamesAssumption
<1>4. MaxLen \in Nat
  BY <1>2, <1>3
<1> QED BY <1>2, <1>3, <1>4

\* The array and the strings have room for their numbers.
LEMMA SpaceTypes ==
    ASSUME Typed
    PROVE  /\ stroff \in Nat /\ used \in Nat /\ used = stroff + str_pos /\ More \in Nat
           /\ str_pos \in Nat /\ str_pos > 0 /\ str_pos <= MaxStr /\ MaxStr \in Nat
<1>1. dl_num_max \in Nat /\ str_pos \in Nat /\ DliSize \in Nat /\ HeadSize \in Nat
  BY SizesAssumption DEF Typed
<1>2. DliSize * dl_num_max \in Nat
  BY <1>1
<1>3. str_pos > 0 /\ str_pos <= MaxStr /\ MaxStr \in Nat
  BY SizesAssumption DEF Typed
<1> QED BY <1>1, <1>2, <1>3 DEF stroff, used, More

\* Only one string is at an offset.
LEMMA OneString ==
    ASSUME NEW o \in Offsets, NEW m \in Names, NEW n \in Names, StrAt(o, m), StrAt(o, n)
    PROVE  m = n
<1>1. 0 \in 0..(NameLen[m] - 1) /\ 0 \in 0..(NameLen[n] - 1)
  BY MaxLenIsMax
<1>2. str[o + 0] = <<m, 0>> /\ str[o + 0] = <<n, 0>>
  BY <1>1 DEF StrAt
<1> QED BY <1>2

\* A string appended lies behind the others, which stay where they were.
LEMMA AppendedIs ==
    ASSUME Typed, NEW n \in Names, str_pos + NameLen[n] <= MaxStr
    PROVE  /\ Appended(n) \in [Offsets -> Cells]
           /\ \A o \in Offsets : o < str_pos => Appended(n)[o] = str[o]
           /\ \A k \in 0..(NameLen[n] - 1) : str_pos + k \in Offsets /\ Appended(n)[str_pos + k] = <<n, k>>
<1> DEFINE len == NameLen[n]
<1>1. /\ len \in Nat /\ len > 0 /\ str_pos \in Nat /\ str_pos > 0 /\ MaxStr \in Nat
      /\ str \in [Offsets -> Cells]
  BY MaxLenIsMax, SpaceTypes DEF Typed
<1>2. Appended(n) = [o \in Offsets |-> IF o \in str_pos..(str_pos + len - 1) THEN <<n, o - str_pos>> ELSE str[o]]
  BY DEF Appended
<1>3. \A o \in str_pos..(str_pos + len - 1) : o \in Offsets /\ o - str_pos \in 0..(len - 1)
  BY <1>1 DEF Offsets
<1>4. \A k \in 0..(len - 1) : <<n, k>> \in Cells
  BY DEF Cells
<1>5. Appended(n) \in [Offsets -> Cells]
  BY <1>1, <1>2, <1>3, <1>4
<1>6. ASSUME NEW k \in 0..(len - 1)
      PROVE  str_pos + k \in Offsets /\ Appended(n)[str_pos + k] = <<n, k>>
  <2>1. str_pos + k \in str_pos..(str_pos + len - 1) /\ (str_pos + k) - str_pos = k
    BY <1>1
  <2> QED BY <1>2, <1>3, <2>1
<1>7. \A o \in Offsets : o < str_pos => Appended(n)[o] = str[o]
  BY <1>1, <1>2 DEF Offsets
<1> QED BY <1>5, <1>6, <1>7

\* The file has room for the string.
LEMMA RoomIs ==
    ASSUME Typed, NEW n \in Names, RoomFor(n), dl_num_max' = dl_num_max,
           str_pos' \in Nat, str_pos' <= str_pos + NameLen[n]
    PROVE  size' \in Nat /\ used' <= size'
<1> DEFINE len == NameLen[n]
<1>1. /\ len \in Nat /\ str_pos \in Nat /\ size \in Nat /\ used \in Nat
      /\ stroff \in Nat /\ used = stroff + str_pos
  BY MaxLenIsMax, SpaceTypes DEF Typed
<1>2. size' = (IF used + len > size THEN size + len ELSE size) /\ used' = stroff + str_pos'
  BY DEF RoomFor, used, stroff
<1>3. used <= size
  BY DEF Typed
<1> QED BY <1>1, <1>2, <1>3

\* What add_str does: the string is at its offset, and what was entered before is
\* where it was.
LEMMA AddStrEnters ==
    ASSUME Typed, NEW n \in Names, str_pos + NameLen[n] <= MaxStr, AddStr(n),
           dl_num_max' = dl_num_max
    PROVE  /\ str' \in [Offsets -> Cells]
           /\ str_pos' \in 1..MaxStr /\ str_pos <= str_pos' /\ str_pos' <= str_pos + NameLen[n]
           /\ last_str_pos' \in Offsets /\ last_str_pos' + NameLen[n] = str_pos'
           /\ size' \in Nat /\ used' <= size'
           /\ \A o \in Offsets : o < str_pos => str'[o] = str[o]
           /\ StrAt(last_str_pos, n)'
<1> DEFINE len == NameLen[n]
<1>1. /\ len \in Nat /\ len > 0 /\ str_pos \in Nat /\ str_pos > 0 /\ last_str_pos \in Nat
      /\ last_str_pos <= str_pos /\ MaxStr \in Nat /\ str \in [Offsets -> Cells]
  BY MaxLenIsMax, SpaceTypes DEF Typed
<1>2. CASE Shared(n)
  <2>1. str' = str /\ str_pos' = str_pos /\ last_str_pos' = last_str_pos
    BY <1>2 DEF AddStr, strs
  <2>2. StrAt(last_str_pos, n)'
    BY <1>2, <2>1 DEF Shared, StrAt
  <2>3. last_str_pos' + len = str_pos' /\ last_str_pos' \in 0..MaxStr /\ str_pos' \in 1..MaxStr
    BY <1>1, <1>2, <2>1 DEF Shared
  <2>4. size' \in Nat /\ used' <= size'
    BY <1>1, <2>1, RoomIs DEF AddStr
  <2> QED BY <1>1, <2>1, <2>2, <2>3, <2>4 DEF Offsets
<1>3. CASE ~Shared(n)
  <2>1. str' = Appended(n) /\ last_str_pos' = str_pos /\ str_pos' = str_pos + len
    BY <1>3 DEF AddStr
  <2>2. str_pos \in Offsets /\ str_pos' \in 1..MaxStr /\ str_pos <= str_pos' /\ str_pos' \in Nat
    BY <1>1, <2>1 DEF Offsets
  <2>3. \A k \in 0..(len - 1) : str_pos + k \in Offsets /\ str'[str_pos + k] = <<n, k>>
    BY <2>1, AppendedIs
  <2>4. StrAt(last_str_pos, n)'
    BY <2>1, <2>3 DEF StrAt
  <2>5. size' \in Nat /\ used' <= size'
    BY <1>1, <2>1, <2>2, RoomIs DEF AddStr
  <2>6. str' \in [Offsets -> Cells] /\ \A o \in Offsets : o < str_pos => str'[o] = str[o]
    BY <2>1, AppendedIs
  <2> QED BY <1>1, <2>1, <2>2, <2>4, <2>5, <2>6
<1> QED BY <1>2, <1>3

\* What it has done at any store, should the process die there.
LEMMA AddStrGrows ==
    ASSUME Typed, NEW n \in Names, str_pos + NameLen[n] <= MaxStr, AddStr(n) \/ AddStrCut(n),
           dl_num_max' = dl_num_max
    PROVE  /\ str' \in [Offsets -> Cells]
           /\ str_pos' \in 1..MaxStr /\ str_pos <= str_pos' /\ str_pos' \in Nat
           /\ last_str_pos' \in Nat /\ last_str_pos' <= str_pos'
           /\ size' \in Nat /\ used' <= size'
           /\ \A o \in Offsets : o < str_pos => str'[o] = str[o]
<1>1. /\ NameLen[n] \in Nat /\ NameLen[n] > 0 /\ str_pos \in Nat /\ str_pos > 0 /\ last_str_pos \in Nat
      /\ last_str_pos <= str_pos /\ MaxStr \in Nat /\ str \in [Offsets -> Cells]
  BY MaxLenIsMax, SpaceTypes DEF Typed
<1>2. CASE AddStr(n)
  <2>1. last_str_pos' \in Nat /\ last_str_pos' <= str_pos' /\ str_pos' \in Nat
    BY <1>1, <1>2, AddStrEnters DEF Offsets
  <2> QED BY <1>2, <2>1, AddStrEnters
<1>3. CASE AddStrCut(n)
  <2>1. str' = str \/ str' = Appended(n)
    BY <1>3 DEF AddStrCut, strs
  <2>2. str_pos' \in {str_pos, str_pos + NameLen[n]} /\ last_str_pos' \in {last_str_pos, str_pos}
    BY <1>3 DEF AddStrCut, strs
  <2>3. /\ str_pos' \in 1..MaxStr /\ str_pos <= str_pos' /\ str_pos' \in Nat /\ str_pos' <= str_pos + NameLen[n]
        /\ last_str_pos' \in Nat /\ last_str_pos' <= str_pos'
    BY <1>1, <2>2
  <2>4. size' \in Nat /\ used' <= size'
    BY <1>3, <2>3, RoomIs DEF AddStrCut
  <2>5. str' \in [Offsets -> Cells] /\ \A o \in Offsets : o < str_pos => str'[o] = str[o]
    BY <1>1, <2>1, AppendedIs
  <2> QED BY <2>3, <2>4, <2>5
<1> QED BY <1>2, <1>3

\* A string that was entered stays the same string.
LEMMA StringStays ==
    ASSUME Typed, str[0] = Nul, str_pos <= str_pos', str_pos' \in Nat,
           \A o \in Offsets : o < str_pos => str'[o] = str[o],
           NEW o \in Offsets, Begins(o)
    PROVE  Begins(o)' /\ \A m \in Names : StrAt(o, m)' <=> StrAt(o, m)
<1>1. str_pos \in Nat /\ str_pos > 0 /\ MaxStr \in Nat /\ o \in Nat
  BY SpaceTypes DEF Offsets
<1>2. CASE o = 0
  <2>1. str'[0] = str[0]
    BY <1>1, <1>2
  <2>2. ASSUME NEW m \in Names
        PROVE  StrAt(o, m)' <=> StrAt(o, m)
    <3>1. CASE m = ""
      <4>1. NameLen[m] = 1
        BY <3>1, EmptyAssumption
      <4>2. \A k \in 0..(1 - 1) : k = 0 /\ 0 + k = 0
        OBVIOUS
      <4> QED BY <1>2, <2>1, <4>1, <4>2 DEF StrAt
    <3>2. CASE m # ""
      <4>1. 0 \in 0..(NameLen[m] - 1) /\ 0 + 0 = 0
        BY MaxLenIsMax
      <4>2. Nul # <<m, 0>>
        BY <3>2 DEF Nul
      <4>3. str[0 + 0] = Nul /\ str'[0 + 0] = Nul
        BY <2>1, <4>1
      <4> QED BY <1>2, <4>1, <4>2, <4>3 DEF StrAt
    <3> QED BY <3>1, <3>2
  <2> QED BY <1>2, <2>2 DEF Begins
<1>3. CASE o # 0
  <2>1. PICK n \in Names : o + NameLen[n] <= str_pos /\ StrAt(o, n)
    BY <1>3 DEF Begins
  <2>2. NameLen[n] \in Nat /\ NameLen[n] > 0
    BY MaxLenIsMax
  <2>3. \A k \in 0..(NameLen[n] - 1) : o + k \in Offsets /\ str'[o + k] = str[o + k] /\ str[o + k] = <<n, k>>
    <3> SUFFICES ASSUME NEW k \in 0..(NameLen[n] - 1)
                 PROVE  o + k \in Offsets /\ o + k < str_pos /\ str[o + k] = <<n, k>>
      OBVIOUS
    <3> QED BY <1>1, <2>1, <2>2 DEF StrAt
  <2>4. StrAt(o, n)' /\ o + NameLen[n] <= str_pos'
    BY <1>1, <2>1, <2>2, <2>3 DEF StrAt
  <2>5. ASSUME NEW m \in Names, m # n
        PROVE  ~StrAt(o, m) /\ ~StrAt(o, m)'
    <3>1. 0 \in 0..(NameLen[m] - 1) /\ 0 \in 0..(NameLen[n] - 1)
      BY MaxLenIsMax
    <3>2. str[o + 0] = <<n, 0>> /\ str'[o + 0] = <<n, 0>>
      BY <2>3, <3>1
    <3> QED BY <2>5, <3>1, <3>2 DEF StrAt
  <2> QED BY <2>1, <2>4, <2>5 DEF Begins
<1> QED BY <1>2, <1>3

-----------------------------------------------------------------------------
(* Calls and elements.                                                      *)

\* A call that is at one of the steps of an insertion is an insertion.
LEMMA Inserting ==
    ASSUME Called, call.step \in Inserts
    PROVE  call.op = "insert" /\ call.pair \in Pairs /\ call.side \in Sides /\ call # NoCall
BY DEF Called, Inserts, Before, Filling, NoCall

\* It goes on.
LEMMA GoesOn ==
    ASSUME Called, call.step \in Inserts, NEW s \in Inserts, NEW i \in Nat,
           call' = [call EXCEPT !.step = s, !.i = i]
    PROVE  /\ Called'
           /\ call'.op = "insert" /\ call'.pair = call.pair /\ call'.side = call.side
           /\ call'.step = s /\ call'.i = i
<1>1. call.op = "insert" /\ call.pair \in Pairs /\ call.side \in Sides
  BY Inserting
<1>2. call' \in [op : {"none", "insert", "remove"}, pair : Pairs \cup {0},
                 side : Sides \cup {"none"}, step : Inserts \cup {"idle", "shift"}, i : Nat]
  BY DEF Called
<1>3. call'.op = "insert" /\ call'.pair = call.pair /\ call'.side = call.side /\ call'.step = s /\ call'.i = i
  BY <1>1 DEF Called
<1> QED BY <1>1, <1>2, <1>3 DEF Called

\* The same without a change of its element.
LEMMA Goes ==
    ASSUME Called, call.step \in Inserts, NEW s \in Inserts, Go(s)
    PROVE  /\ Called'
           /\ call'.op = "insert" /\ call'.pair = call.pair /\ call'.side = call.side
           /\ call'.step = s /\ call'.i = call.i
<1>1. call.i \in Nat /\ call' = [call EXCEPT !.step = s, !.i = call.i]
  BY DEF Called, Go
<1> QED BY <1>1, GoesOn

\* What goes wrong stays so: what is laid out, sound or clean after a step that
\* does not double the array was so before.
LEMMA LaidBefore ==
    ASSUME call.step # "double", harm \subseteq harm'
    PROVE  (Laid' => Laid) /\ (Sound' => Sound) /\ (Clean' => Clean)
BY DEF Laid, Sound, Clean

\* What is copied of strings is strings.
LEMMA CopiedIs ==
    ASSUME Typed, NEW done, done \subseteq 0..(Moved - 1)
    PROVE  Copied(done) \in [Offsets -> Cells]
<1>1. str \in [Offsets -> Cells]
  BY DEF Typed
<1>2. 0..(Moved - 1) \subseteq Offsets
  BY SpaceTypes DEF Moved, Offsets
<1> QED BY <1>1, <1>2 DEF Copied

\* No call is in progress.
LEMMA NoCallIs ==
    /\ NoCall.op = "none" /\ NoCall.step = "idle"
    /\ NoCall.step \notin Inserts /\ NoCall.step \notin Filling /\ NoCall.step \notin Before
    /\ NoCall \in [op : {"none", "insert", "remove"}, pair : Pairs \cup {0},
                   side : Sides \cup {"none"}, step : Inserts \cup {"idle", "shift"}, i : Nat]
BY DEF NoCall, Inserts, Filling, Before

\* A call ends.
LEMMA Ends ==
    ASSUME call' = NoCall
    PROVE  Called' /\ Placed'
BY NoCallIs DEF Called, Placed, Inserts

\* The elements are in the array.
LEMMA WholeInside ==
    ASSUME Called, Typed, Placed
    PROVE  /\ Whole \subseteq Slots /\ Live \subseteq Slots /\ Slots \subseteq Nat
           /\ call.step \in Filling \cup {"comm", "ready"} => call.i \in Slots /\ call.i \in Live
           /\ call.op = "remove" => call.i \in Slots
<1>1. dl_num \in Nat /\ dl_num_max \in Nat /\ dl_num <= dl_num_max /\ dl_num_max <= MaxDli /\ MaxDli \in Nat
  BY SizesAssumption DEF Typed
<1>2. Live \subseteq Slots /\ Slots \subseteq Nat
  BY <1>1 DEF Live, Slots
<1>3. call.i \in Nat
  BY DEF Called
<1>4. call.op = "remove" => call.i \in Slots /\ 0..dl_num \subseteq Slots
  BY <1>1, <1>3 DEF Placed, Slots
<1>5. call.step \in Filling \cup {"comm", "ready"} => call.i \in Slots /\ call.i \in Live
  BY <1>1, <1>3 DEF Placed, Slots, Live
<1> QED BY <1>2, <1>4, <1>5 DEF Whole

\* An element whose hosts and strings are as before is of the same pair.
LEMMA SameElement ==
    ASSUME Strings, Laid, NEW k \in Slots,
           dli'[k].host = dli[k].host, dli'[k].ds = dli[k].ds,
           \A o \in Offsets : Begins(o) => \A m \in Names : StrAt(o, m)' <=> StrAt(o, m),
           Typed
    PROVE  \A p \in Pairs : EquDesc(dli[k], p)' <=> EquDesc(dli[k], p)
<1>1. dli[k].ds[1] \in Offsets /\ dli[k].ds[2] \in Offsets
  BY DEF Typed
<1>2. Begins(dli[k].ds[1]) /\ Begins(dli[k].ds[2])
  BY DEF Strings
<1> SUFFICES ASSUME NEW p \in Pairs
             PROVE  EquDesc(dli[k], p)' <=> EquDesc(dli[k], p)
  OBVIOUS
<1>3. p.ds[1] \in Names /\ p.ds[2] \in Names
  BY PairsAssumption
<1>4. \A j \in {1, 2} : StrAt(dli[k].ds[j], p.ds[j])' <=> StrAt(dli[k].ds[j], p.ds[j])
  <2>1. StrAt(dli[k].ds[1], p.ds[1])' <=> StrAt(dli[k].ds[1], p.ds[1])
    <3>1. PICK o \in Offsets : o = dli[k].ds[1]
      BY <1>1
    <3>2. dli'[k].ds[1] = o
      BY <3>1
    <3>3. StrAt(o, p.ds[1])' <=> StrAt(o, p.ds[1])
      BY <1>2, <1>3, <3>1
    <3>4. StrAt(dli[k].ds[1], p.ds[1])' <=> StrAt(o, p.ds[1])'
      BY <3>2, Zenon
    <3> QED BY <3>1, <3>3, <3>4
  <2>2. StrAt(dli[k].ds[2], p.ds[2])' <=> StrAt(dli[k].ds[2], p.ds[2])
    <3>1. PICK o \in Offsets : o = dli[k].ds[2]
      BY <1>1
    <3>2. dli'[k].ds[2] = o
      BY <3>1
    <3>3. StrAt(o, p.ds[2])' <=> StrAt(o, p.ds[2])
      BY <1>2, <1>3, <3>1
    <3>4. StrAt(dli[k].ds[2], p.ds[2])' <=> StrAt(o, p.ds[2])'
      BY <3>2, Zenon
    <3> QED BY <3>1, <3>3, <3>4
  <2> QED BY <2>1, <2>2
<1> QED BY <1>4 DEF EquDesc

\* What is said of all elements stays true while they and the members do.
SameElements ==
    \A k \in Whole : /\ dli'[k].words = dli[k].words
                     /\ \A p \in Pairs : EquDesc(dli[k], p)' <=> EquDesc(dli[k], p)

\* Then every member is found as before.
LEMMA SameWhole ==
    ASSUME Typed, Found1, Counted, Whole' = Whole, members' = members, told' = told, harm \subseteq harm',
           call.step # "double", Laid' => SameElements
    PROVE  /\ Sound' =>
                /\ Sound
                /\ \A p \in members' : \E i \in Whole' : FirstFor(i, p)' /\ told'[p] \subseteq dli'[i].words
                /\ \A p \in Pairs \ members' : told'[p] = {}
                /\ \A p \in Pairs : \A i : FirstFor(i, p) => FirstFor(i, p)'
           /\ Clean' =>
                /\ Clean
                /\ \A k \in Whole', p \in Pairs : EquDesc(dli[k], p)' => p \in members'
                /\ \A k, l \in Whole', p \in Pairs : EquDesc(dli[k], p)' /\ EquDesc(dli[l], p)' => k = l
<1>1. members \subseteq Pairs
  BY DEF Typed
<1>2. ASSUME Sound'
      PROVE  /\ Sound
             /\ \A p \in members' : \E i \in Whole' : FirstFor(i, p)' /\ told'[p] \subseteq dli'[i].words
             /\ \A p \in Pairs \ members' : told'[p] = {}
             /\ \A p \in Pairs : \A i : FirstFor(i, p) => FirstFor(i, p)'
  <2>1. Sound /\ SameElements
    BY <1>2, LaidBefore DEF Sound
  <2>2. \A p \in Pairs : \A i : FirstFor(i, p) => FirstFor(i, p)'
    BY <2>1 DEF SameElements, FirstFor
  <2>3. \A p \in members : \E i \in Whole : FirstFor(i, p) /\ told[p] \subseteq dli[i].words
    BY <2>1 DEF Found1
  <2>4. ASSUME NEW p \in members
        PROVE  \E i \in Whole' : FirstFor(i, p)' /\ told'[p] \subseteq dli'[i].words
    <3>1. PICK i \in Whole : FirstFor(i, p) /\ told[p] \subseteq dli[i].words
      BY <2>3
    <3>2. FirstFor(i, p)' /\ dli'[i].words = dli[i].words
      BY <1>1, <2>1, <2>2, <3>1 DEF SameElements
    <3> QED BY <3>1, <3>2
  <2>5. \A p \in Pairs \ members' : told'[p] = {}
    BY <2>1 DEF Found1
  <2> QED BY <2>1, <2>2, <2>4, <2>5
<1>3. ASSUME Clean'
      PROVE  /\ Clean
             /\ \A k \in Whole', p \in Pairs : EquDesc(dli[k], p)' => p \in members'
             /\ \A k, l \in Whole', p \in Pairs : EquDesc(dli[k], p)' /\ EquDesc(dli[l], p)' => k = l
  <2>1. Clean /\ SameElements
    BY <1>3, LaidBefore DEF Clean
  <2> QED BY <2>1 DEF SameElements, Counted
<1> QED BY <1>2, <1>3

\* An insertion is given up, or ends: an element that was being filled counts
\* from now on, as one after all others.
LEMMA Abandons ==
    ASSUME Called, Typed, Placed, Found1, Counted, call.op # "remove", call' = NoCall,
           dl_num' = dl_num, members' = members, told' = told, harm \subseteq harm',
           call.step # "double", call.step \in Filling => harm' # {},
           Laid' => SameElements
    PROVE  Found1' /\ Counted'
<1>1. Live' = Live /\ Whole' = Live
  BY NoCallIs DEF Live, Whole
<1>2. CASE call.step \notin Filling
  <2>1. Whole = Live
    BY <1>2 DEF Whole
  <2> QED BY <1>1, <1>2, <2>1, SameWhole, NoCallIs, Zenon DEF Found1, Counted
<1>3. CASE call.step \in Filling
  <2>1. Whole = Live \ {call.i} /\ dl_num > 0 /\ call.i = dl_num - 1 /\ dl_num \in Nat
    BY <1>3 DEF Whole, Placed, Typed
  <2>2. Counted'
    BY <1>3 DEF Counted, Clean
  <2>3. ASSUME Sound'
        PROVE  /\ \A p \in members' : \E i \in Whole' : FirstFor(i, p)' /\ told'[p] \subseteq dli'[i].words
               /\ \A p \in Pairs \ members' : told'[p] = {}
    <3>1. Sound /\ SameElements
      BY <2>3, LaidBefore DEF Sound
    <3>2. ASSUME NEW p \in members
          PROVE  \E i \in Whole' : FirstFor(i, p)' /\ told'[p] \subseteq dli'[i].words
      <4>1. PICK i \in Whole : FirstFor(i, p) /\ told[p] \subseteq dli[i].words
        BY <3>1 DEF Found1
      <4>2. p \in Pairs /\ i \in Live /\ i < dl_num - 1 /\ i \in Nat
        BY <2>1 DEF Live, Typed
      <4>3. \A k \in Live : k < i => k \in Whole
        BY <2>1, <4>2 DEF Live
      <4>4. dli'[i].words = dli[i].words /\ EquDesc(dli[i], p)'
        BY <3>1, <4>1, <4>2 DEF SameElements, FirstFor
      <4>5. \A k \in Live : k < i => ~EquDesc(dli[k], p)'
        BY <3>1, <4>1, <4>2, <4>3 DEF SameElements, FirstFor
      <4>6. FirstFor(i, p)'
        BY <1>1, <4>2, <4>4, <4>5 DEF FirstFor
      <4> QED BY <1>1, <4>1, <4>2, <4>4, <4>6
    <3> QED BY <3>1, <3>2 DEF Found1
  <2> QED BY <2>2, <2>3, NoCallIs, Zenon DEF Found1
<1> QED BY <1>2, <1>3

\* Nothing is stored.
LEMMA NothingStored ==
    ASSUME dli' = dli, UNCHANGED strs
    PROVE  /\ SameElements
           /\ \A k : dli'[k] = dli[k]
           /\ \A k, p : EquDesc(dli[k], p)' <=> EquDesc(dli[k], p)
BY DEF SameElements, EquDesc, StrAt, strs

\* A string is entered, and nothing else.
LEMMA OnlyString ==
    ASSUME Called, Typed, Placed, Strings, str_pos' \in Nat, str_pos <= str_pos',
           \A o \in Offsets : o < str_pos => str'[o] = str[o],
           dli' = dli, Laid' => Laid
    PROVE  Strings' /\ (Laid' => SameElements)
<1> SUFFICES ASSUME Laid'
             PROVE  Strings' /\ SameElements
  BY DEF Strings
<1>2. Laid /\ str[0] = Nul
  BY DEF Strings
<1>3. \A o \in Offsets : Begins(o) => Begins(o)' /\ \A m \in Names : StrAt(o, m)' <=> StrAt(o, m)
  BY <1>2, StringStays
<1>4. str'[0] = Nul
  <2>1. 0 \in Offsets /\ 0 < str_pos
    BY SpaceTypes DEF Offsets
  <2> QED BY <1>2, <2>1
<1>5. Strings'
  <2> SUFFICES ASSUME NEW i \in Slots
               PROVE  Begins(dli[i].ds[1])' /\ Begins(dli[i].ds[2])'
    BY <1>4 DEF Strings
  <2>1. dli[i].ds[1] \in Offsets /\ dli[i].ds[2] \in Offsets
    BY DEF Typed
  <2>2. PICK o1 \in Offsets, o2 \in Offsets : o1 = dli[i].ds[1] /\ o2 = dli[i].ds[2]
    BY <2>1
  <2>3. Begins(o1)' /\ Begins(o2)'
    BY <1>2, <1>3, <2>2 DEF Strings
  <2>4. dli'[i].ds[1] = o1 /\ dli'[i].ds[2] = o2
    BY <2>2
  <2> QED BY <2>3, <2>4, Zenon
<1>6. SameElements
  <2> SUFFICES ASSUME NEW k \in Whole
               PROVE  \A p \in Pairs : EquDesc(dli[k], p)' <=> EquDesc(dli[k], p)
    BY DEF SameElements
  <2>1. k \in Slots
    BY WholeInside
  <2> QED BY <1>2, <1>3, <2>1, SameElement
<1> QED BY <1>5, <1>6

-----------------------------------------------------------------------------
(* Every step keeps the invariant: first the insertion.                     *)

\* Before anything is entered.
LEMMA InitInv == Init => IInv
<1> SUFFICES ASSUME Init PROVE IInv
  OBVIOUS
<1> USE DEF Init
<1>1. Called
  BY NoCallIs DEF Called
<1>2. Placed
  BY NoCallIs DEF Placed, Before, Filling
<1>3. Typed
  <2>1. BlankArray \in [Slots -> [host : Nat \X Nat, ds : Offsets \X Offsets, words : SUBSET (Words \cup {Junk})]]
    BY SizesAssumption DEF BlankArray, Fresh, Offsets
  <2>2. BlankStrings \in [Offsets -> Cells]
    BY DEF BlankStrings, Cells
  <2>3. DliSize * ARB_DFL_DLI_NUM \in Nat
    BY SizesAssumption
  <2>4. size \in Nat /\ used <= size
    BY <2>3, SizesAssumption DEF MinSize, used, stroff
  <2>5. told \in [Pairs -> SUBSET (Words \cup {Junk})]
    OBVIOUS
  <2>6. /\ dl_num \in Nat /\ dl_num_max \in 1..MaxDli /\ dl_num <= dl_num_max
        /\ str_pos \in 1..MaxStr /\ last_str_pos \in Nat /\ last_str_pos <= str_pos
        /\ arb_ip \in Offsets
    BY SizesAssumption DEF Offsets
  <2> QED BY <2>1, <2>2, <2>4, <2>5, <2>6 DEF Typed
<1>4. Strings
  <2>1. 0 \in Offsets
    BY SizesAssumption DEF Offsets
  <2> QED BY <2>1 DEF Strings, Begins, BlankArray, BlankStrings, Fresh
<1>5. Whole = {}
  BY NoCallIs DEF Whole, Live
<1>6. Found1
  BY <1>5, NoCallIs DEF Found1, Before, Filling
<1>7. Counted
  BY <1>5, NoCallIs, FS_EmptySet DEF Counted
<1> QED BY <1>1, <1>2, <1>3, <1>4, <1>6, <1>7 DEF IInv

\* Only the call changes, and perhaps the length of the file.
LEMMA OnlyCall ==
    ASSUME IInv, UNCHANGED <<head, strs, dli, hist, harm>>, size' \in Nat, size <= size', Laid' => Laid
    PROVE  Typed' /\ Strings' /\ SameElements /\ Live' = Live
<1>1. Typed'
  <2>1. used' = used /\ used \in Nat /\ size \in Nat /\ used <= size
    BY SpaceTypes DEF IInv, Typed, used, stroff, head, strs
  <2>2. used' <= size'
    BY <2>1
  <2> QED BY <2>2 DEF IInv, Typed, head, strs, hist
<1>2. Strings'
  BY DEF IInv, Strings, Begins, StrAt, strs
<1> QED BY <1>1, <1>2, NothingStored DEF Live, head

\* Nothing but the call changes.
LEMMA NothingElse ==
    ASSUME IInv, UNCHANGED <<head, strs, dli, size, hist, harm>>, call.step # "double"
    PROVE  /\ Typed' /\ Strings' /\ SameElements /\ Live' = Live
           /\ (Laid' => Laid) /\ (Sound' => Sound) /\ (Clean' => Clean)
<1>1. (Laid' => Laid) /\ (Sound' => Sound) /\ (Clean' => Clean)
  BY LaidBefore
<1>2. size' \in Nat /\ size <= size'
  BY DEF IInv, Typed
<1> QED BY <1>1, <1>2, OnlyCall

\* A call starts: nothing is stored, and there is room for its strings.
LEMMA OpenKeeps ==
    ASSUME IInv, NEW p \in Pairs, NEW s \in Sides, Open(p, s)
    PROVE  IInv'
<1>1. Typed' /\ Strings' /\ SameElements /\ Live' = Live
  <2>1. call.step # "double"
    BY NoCallIs DEF Open
  <2> QED BY <2>1, NothingElse DEF Open
<1>2. call'.op = "insert" /\ call'.pair = p /\ call'.step = "find"
  BY DEF Open
<1>3. Called'
  BY <1>2 DEF Open, Called, Inserts, Before
<1>4. Placed'
  BY <1>2 DEF Placed, Open, Before, Filling, strs
<1>5. Whole = Live /\ Whole' = Live /\ members' = members /\ told' = told /\ harm' = harm /\ dl_num' = dl_num
  BY <1>1, <1>2, NoCallIs DEF Open, Whole, Filling, hist, head
<1>6. Found1' /\ Counted'
  <2>1. call'.step \notin Filling /\ call.step \notin Filling /\ call'.step \notin (Before \ {"find"})
        /\ call'.step \notin {"host2", "ds1", "ds2", "comm", "ready"} /\ call.step # "double"
    BY <1>2, NoCallIs DEF Open, Filling, Before
  <2> QED BY <1>1, <1>5, <2>1, SameWhole DEF IInv, Found1, Counted
<1> QED BY <1>1, <1>3, <1>4, <1>6 DEF IInv

\* A pair that has an element already.
LEMMA FindPresentKeeps ==
    ASSUME IInv, FindPresent
    PROVE  IInv'
<1>0. PICK p, i : p = call.pair /\ i = First(Found(call.pair))
  OBVIOUS
<1>1. /\ call.step = "find" /\ call.op = "insert" /\ Found(p) # {}
      /\ call' = [call EXCEPT !.step = "ready", !.i = i]
      /\ members' = members \cup {p}
      /\ UNCHANGED <<head, strs, dli, size, told, harm>>
  BY <1>0 DEF FindPresent, At
<1>a. (Laid' => Laid) /\ (Sound' => Sound) /\ (Clean' => Clean)
  BY <1>1, LaidBefore
<1>2. p \in Pairs /\ call.step \in Inserts
  BY <1>0, <1>1 DEF IInv, Called, Inserts, Before
<1>3. Whole = Live /\ Live \subseteq Slots /\ Slots \subseteq Nat
  BY <1>1, WholeInside DEF IInv, Whole, Filling
<1>4. i \in Live /\ EquDesc(dli[i], p) /\ \A k \in Live : k < i => ~EquDesc(dli[k], p)
  <2>1. Found(p) \subseteq Nat
    BY <1>3 DEF Found
  <2>2. i \in Found(p) /\ \A k \in Found(p) : i <= k
    BY <1>0, <1>1, <2>1, FirstIsLeast
  <2>3. \A k \in Live : k \in Nat /\ i \in Nat
    BY <1>3, <2>1, <2>2
  <2> QED BY <2>2, <2>3 DEF Found
<1>5. /\ Called'
      /\ call'.op = "insert" /\ call'.pair = p /\ call'.step = "ready" /\ call'.i = i
  <2>1. i \in Nat /\ "ready" \in Inserts
    BY <1>3, <1>4 DEF Inserts
  <2> QED BY <1>0, <1>1, <1>2, <2>1, GoesOn DEF IInv
<1>6. Typed' /\ Strings' /\ SameElements /\ Live' = Live
  <2>1. Typed'
    BY <1>1, <1>2 DEF IInv, Typed, used, stroff, head, strs
  <2>2. Strings'
    BY <1>1, <1>a DEF IInv, Strings, Begins, StrAt, strs
  <2> QED BY <1>1, <2>1, <2>2, NothingStored DEF Live, head
<1>7. Placed'
  <2>1. i < dl_num
    BY <1>4 DEF Live, IInv, Typed
  <2> QED BY <1>1, <1>5, <2>1 DEF Placed, Before, Filling, head
<1>8. Whole' = Live
  BY <1>5, <1>6 DEF Whole, Filling
<1>9. \A k, q : EquDesc(dli[k], q)' <=> EquDesc(dli[k], q)
  BY <1>1, NothingStored
<1>10. FirstFor(i, p)' /\ FirstFor(i, p)
  BY <1>3, <1>4, <1>8, <1>9 DEF FirstFor
<1>11. Found1'
  <2> SUFFICES ASSUME Sound'
               PROVE  /\ \A q \in members' : \E j \in Whole' : FirstFor(j, q)' /\ told'[q] \subseteq dli'[j].words
                      /\ \A q \in Pairs \ members' : told'[q] = {}
                      /\ call'.pair \in members' /\ FirstFor(call.i, call.pair)'
    BY <1>5 DEF Found1, Before, Filling
  <2>1. Sound
    BY <1>a
  <2>2. ASSUME NEW q \in members'
        PROVE  \E j \in Whole' : FirstFor(j, q)' /\ told'[q] \subseteq dli'[j].words
    <3>1. CASE q \in members
      <4>1. PICK j \in Whole : FirstFor(j, q) /\ told[q] \subseteq dli[j].words
        BY <2>1, <3>1 DEF IInv, Found1
      <4>2. FirstFor(j, q)'
        BY <1>3, <1>8, <1>9, <4>1 DEF FirstFor
      <4> QED BY <1>1, <1>3, <1>8, <4>1, <4>2
    <3>2. CASE q \notin members
      <4>1. q = p /\ told[p] = {}
        BY <1>1, <1>2, <2>1, <3>2 DEF IInv, Found1
      <4> QED BY <1>1, <1>4, <1>8, <1>10, <4>1
    <3> QED BY <3>1, <3>2
  <2>3. \A q \in Pairs \ members' : told'[q] = {}
    BY <1>1, <2>1 DEF IInv, Found1
  <2>4. FirstFor(call.i, call.pair)'
    <3>1. FirstFor(i, p)' <=> FirstFor(call.i, call.pair)'
      BY <1>5, Zenon
    <3> QED BY <1>10, <3>1
  <2> QED BY <1>1, <1>5, <2>2, <2>3, <2>4
<1>12. Counted'
  <2> SUFFICES ASSUME Clean' PROVE Counted'
    BY DEF Counted
  <2>1. Clean /\ members' = members /\ dl_num' = dl_num
    BY <1>1, <1>a, <1>2, <1>3, <1>4 DEF IInv, Counted, head
  <2>2. call'.step \notin Filling /\ call.step \notin Filling
    BY <1>1, <1>5 DEF Filling
  <2> QED BY <1>3, <1>8, <1>9, <2>1, <2>2 DEF IInv, Counted
<1> QED BY <1>5, <1>6, <1>7, <1>11, <1>12 DEF IInv

\* No element is of the pair, so one will be claimed, after a doubling if the array
\* is full.
LEMMA FindAbsentKeeps ==
    ASSUME IInv, FindAbsent
    PROVE  IInv'
<1>1. call.step = "find" /\ call.op = "insert" /\ Found(call.pair) = {}
  BY DEF FindAbsent, At
<1>2. PICK s \in {"grow", "claim"} : Go(s) /\ (s = "claim" => dl_num # dl_num_max)
  BY DEF FindAbsent
<1>3. /\ Called'
      /\ call'.op = "insert" /\ call'.pair = call.pair /\ call'.step = s
  BY <1>1, <1>2, Goes DEF IInv, Inserts, Before
<1>4. Typed' /\ Strings' /\ SameElements /\ Live' = Live
  BY <1>1, NothingElse DEF FindAbsent
<1>5. UNCHANGED <<head, strs, dli, size, hist, harm>>
  BY DEF FindAbsent
<1>6. Placed'
  <2>1. s = "claim" => dl_num < dl_num_max
    BY <1>2, SizesAssumption DEF IInv, Typed
  <2> QED BY <1>1, <1>3, <1>5, <2>1 DEF IInv, Placed, Before, Filling, head, strs
<1>7. Whole = Live /\ Whole' = Live
  BY <1>1, <1>3, <1>4 DEF Whole, Filling
<1>8. \A k \in Whole' : ~EquDesc(dli[k], call.pair)'
  <2>1. PICK p : p = call.pair /\ p = call'.pair
    BY <1>3
  <2>2. \A k \in Whole' : ~EquDesc(dli[k], p)
    BY <1>1, <1>7, <2>1 DEF Found
  <2>3. \A k : EquDesc(dli[k], p)' <=> EquDesc(dli[k], p)
    BY <1>5, NothingStored
  <2>4. \A k : EquDesc(dli[k], call.pair)' <=> EquDesc(dli[k], p)'
    BY <2>1, Zenon
  <2> QED BY <2>2, <2>3, <2>4
<1>9. Found1' /\ Counted'
  <2>1. call'.step \notin Filling /\ call.step \notin Filling
        /\ call'.step \notin {"host2", "ds1", "ds2", "comm", "ready"} /\ call.step # "double"
    BY <1>1, <1>3 DEF Filling
  <2>2. members' = members /\ told' = told /\ harm' = harm /\ dl_num' = dl_num
    BY <1>5 DEF hist, head
  <2> QED BY <1>4, <1>7, <1>8, <2>1, <2>2, SameWhole DEF IInv, Found1, Counted
<1> QED BY <1>3, <1>4, <1>6, <1>9 DEF IInv

\* The pair that is being entered has no element yet, before and after a store.
LEMMA StillAbsent ==
    ASSUME Found1, Sound, SameElements, Whole' = Whole, NEW p \in Pairs, p = call.pair, p = call'.pair,
           call.step \in (Before \ {"find"}) \cup Filling
    PROVE  \A k \in Whole' : ~EquDesc(dli[k], call.pair)'
<1>1. \A k \in Whole : ~EquDesc(dli[k], p)
  BY DEF Found1
<1>2. \A k \in Whole : EquDesc(dli[k], p)' <=> EquDesc(dli[k], p)
  BY DEF SameElements
<1>3. \A k : EquDesc(dli[k], call.pair)' <=> EquDesc(dli[k], p)'
  BY Zenon
<1> QED BY <1>1, <1>2, <1>3

\* A step before anything is claimed.
LEMMA StillBefore ==
    ASSUME IInv, call.step \in Before \ {"find", "double"}, call'.step \in Before \ {"find"},
           call.op = "insert", call'.op = "insert", call'.pair = call.pair,
           SameElements, Live' = Live, dl_num' = dl_num, UNCHANGED <<hist, harm>>
    PROVE  Found1' /\ Counted'
<1>1. call.step \notin Filling /\ call'.step \notin Filling /\ call.step # "double"
      /\ call'.step \notin {"host2", "ds1", "ds2", "comm", "ready"}
  BY DEF Before, Filling
<1>2. Whole' = Whole /\ members' = members /\ told' = told /\ harm' = harm
  BY <1>1 DEF Whole, hist
<1>3. (Laid' => Laid) /\ (Sound' => Sound) /\ (Clean' => Clean)
  BY <1>1, <1>2, LaidBefore
<1>4. PICK p : p = call.pair /\ p = call'.pair
  OBVIOUS
<1>5. Sound' => \A k \in Whole' : ~EquDesc(dli[k], call.pair)'
  <2> SUFFICES ASSUME Sound' PROVE \A k \in Whole' : ~EquDesc(dli[k], call.pair)'
    OBVIOUS
  <2>1. call.pair \in Pairs /\ Sound
    BY <1>3 DEF IInv, Called
  <2> QED BY <1>2, <2>1, StillAbsent DEF IInv
<1>6. Found1'
  BY <1>1, <1>2, <1>5, SameWhole DEF IInv, Found1
<1>7. Counted'
  BY <1>1, <1>2, SameWhole DEF IInv, Counted
<1> QED BY <1>6, <1>7

\* The file is made long enough for the copy.
LEMMA GrowFileKeeps ==
    ASSUME IInv, GrowFile
    PROVE  IInv'
<1>1. /\ call.step = "grow" /\ Go("move") /\ UNCHANGED <<head, strs, dli, hist, harm>>
      /\ size' = IF size - used < More THEN size + More ELSE size
  BY DEF GrowFile, At
<1>2. /\ Called'
      /\ call'.op = "insert" /\ call'.pair = call.pair /\ call'.step = "move"
  BY <1>1, Goes DEF IInv, Inserts, Before
<1>3. size' \in Nat /\ size <= size' /\ used + More <= size'
  <2>1. used \in Nat /\ More \in Nat /\ size \in Nat /\ used <= size
    BY SpaceTypes DEF IInv, Typed
  <2> QED BY <1>1, <2>1
<1>4. Laid' => Laid
  BY <1>1, LaidBefore
<1>5. Typed' /\ Strings' /\ SameElements /\ Live' = Live
  BY <1>1, <1>3, <1>4, OnlyCall
<1>6. Placed'
  <2>1. used' = used /\ More' = More
    BY <1>1 DEF used, stroff, More, head, strs
  <2> QED BY <1>1, <1>2, <1>3, <2>1 DEF IInv, Placed, Before, Filling, head, strs
<1>7. Found1' /\ Counted'
  <2>1. call.op = "insert" /\ call.step \in Before \ {"find", "double"} /\ call'.step \in Before \ {"find"}
    BY <1>1, <1>2, Inserting DEF IInv, Inserts, Before
  <2>2. dl_num' = dl_num /\ UNCHANGED <<hist, harm>>
    BY <1>1 DEF head
  <2> QED BY <1>2, <1>5, <2>1, <2>2, StillBefore
<1> QED BY <1>2, <1>5, <1>6, <1>7 DEF IInv

\* The strings are moved, and nothing is claimed of them before dl_num_max is
\* doubled: all that is said of elements is said of strings that are laid out.
LEMMA MoveStringsKeeps ==
    ASSUME IInv, MoveStrings
    PROVE  IInv'
<1>1. /\ call.step = "move" /\ 2 * dl_num_max <= MaxDli /\ str' = Copied(0..(Moved - 1)) /\ Go("double")
      /\ UNCHANGED <<head, str_pos, last_str_pos, dli, size, hist, harm>>
  BY DEF MoveStrings, InBounds, At
<1>2. /\ Called'
      /\ call'.op = "insert" /\ call'.pair = call.pair /\ call'.step = "double"
  BY <1>1, Goes DEF IInv, Inserts, Before
<1>3. str' \in [Offsets -> Cells]
  BY <1>1, CopiedIs DEF IInv
<1>4. used' = used /\ More' = More
  BY <1>1 DEF used, stroff, More, head
<1>5. Typed'
  BY <1>1, <1>3, <1>4 DEF IInv, Typed, head, hist
<1>6. Placed'
  BY <1>1, <1>2, <1>4 DEF IInv, Placed, Before, Filling, head
<1>7. Strings' /\ Found1' /\ Counted'
  BY <1>2 DEF Strings, Found1, Sound, Counted, Clean, Laid
<1> QED BY <1>2, <1>5, <1>6, <1>7 DEF IInv

\* The process dies in the copy.
LEMMA MoveStringsCutKeeps ==
    ASSUME IInv, MoveStringsCut
    PROVE  IInv'
<1>1. /\ call' = NoCall /\ "torn" \in harm' /\ harm' \subseteq Harms
      /\ UNCHANGED <<head, str_pos, last_str_pos, dli, size, hist>>
  BY DEF MoveStringsCut, Harmed, Harms, IInv, Typed
<1>2. PICK done : done \subseteq 0..(Moved - 1) /\ str' = Copied(done)
  BY DEF MoveStringsCut
<1>3. str' \in [Offsets -> Cells]
  BY <1>2, CopiedIs DEF IInv
<1>4. used' = used
  BY <1>1 DEF used, stroff, head
<1>5. Typed'
  BY <1>1, <1>3, <1>4 DEF IInv, Typed, head, hist
<1>6. Strings' /\ Found1' /\ Counted'
  BY <1>1 DEF Strings, Found1, Sound, Counted, Clean, Laid
<1> QED BY <1>1, <1>5, <1>6, Ends DEF IInv

\* The array is doubled.  Elements move over the strings, of which nothing more
\* is claimed.
LEMMA DoubleKeeps ==
    ASSUME IInv, Double
    PROVE  IInv'
<1>1. /\ call.step = "double" /\ dl_num_max' = 2 * dl_num_max
      /\ "grown" \in harm' /\ harm' \subseteq Harms /\ Go("claim")
      /\ UNCHANGED <<dl_num, arb_ip, comm, str_pos, last_str_pos, size, hist>>
  BY DEF Double, At, Harmed, Harms, IInv, Typed
<1>2. /\ Called'
      /\ call'.op = "insert" /\ call'.pair = call.pair /\ call'.step = "claim"
  BY <1>1, Goes DEF IInv, Inserts, Before
<1>3. /\ dl_num \in Nat /\ dl_num_max \in Nat /\ dl_num_max > 0 /\ dl_num <= dl_num_max /\ MaxDli \in Nat
      /\ 2 * dl_num_max <= MaxDli
  BY <1>1, SizesAssumption DEF IInv, Typed, Placed
<1>4. str' \in [Offsets -> Cells]
  <2>1. str \in [Offsets -> Cells] /\ Nul \in Cells
    BY DEF IInv, Typed, Cells
  <2> QED BY <2>1 DEF Double
<1>5. dli' \in [Slots -> [host : Nat \X Nat, ds : Offsets \X Offsets, words : SUBSET (Words \cup {Junk})]]
  <2>1. [Fresh EXCEPT !.words = {Junk}] \in [host : Nat \X Nat, ds : Offsets \X Offsets, words : SUBSET (Words \cup {Junk})]
    BY SizesAssumption DEF Fresh, Offsets
  <2>2. dli \in [Slots -> [host : Nat \X Nat, ds : Offsets \X Offsets, words : SUBSET (Words \cup {Junk})]]
    BY DEF IInv, Typed
  <2> QED BY <2>1, <2>2 DEF Double
<1>6. size' \in Nat /\ used' <= size'
  <2>1. size' \in Nat /\ used + More <= size'
    BY <1>1 DEF IInv, Typed, Placed
  <2>2. used' = used + More
    <3>1. DliSize \in Nat /\ HeadSize \in Nat /\ str_pos \in Nat
      BY SizesAssumption, SpaceTypes DEF IInv
    <3>2. DliSize * (2 * dl_num_max) = DliSize * dl_num_max + DliSize * dl_num_max /\ DliSize * dl_num_max \in Nat
      BY <1>3, <3>1
    <3>3. used' = HeadSize + DliSize * (2 * dl_num_max) + str_pos
      BY <1>1 DEF used, stroff
    <3> QED BY <3>1, <3>2, <3>3 DEF used, stroff, More
  <2> QED BY <2>1, <2>2
<1>7. Typed'
  BY <1>1, <1>3, <1>4, <1>5, <1>6 DEF IInv, Typed, hist
<1>8. Placed'
  BY <1>1, <1>2, <1>3 DEF IInv, Placed, Before, Filling
<1>9. Strings' /\ Found1' /\ Counted'
  BY <1>1 DEF Strings, Found1, Sound, Counted, Clean, Laid
<1> QED BY <1>2, <1>7, <1>8, <1>9 DEF IInv

\* A call ends without a store, but perhaps of a longer file.
LEMMA EndKeeps ==
    ASSUME IInv, call # NoCall, call.op # "remove", call.step # "double", call' = NoCall,
           UNCHANGED <<head, strs, dli, hist>>, size' \in Nat, size <= size',
           harm \subseteq harm', harm' \subseteq Harms, call.step \in Filling => harm' # {}
    PROVE  IInv'
<1>1. Typed'
  <2>1. used' = used /\ used \in Nat /\ size \in Nat /\ used <= size
    BY SpaceTypes DEF IInv, Typed, used, stroff, head, strs
  <2>2. used' <= size'
    BY <2>1
  <2> QED BY <2>2 DEF IInv, Typed, head, strs, hist
<1>2. Strings'
  BY LaidBefore DEF IInv, Strings, Begins, StrAt, strs
<1>3. SameElements
  BY NothingStored
<1>4. Found1' /\ Counted'
  BY <1>3, Abandons DEF IInv, hist, head
<1> QED BY <1>1, <1>2, <1>4, Ends DEF IInv

\* The process dies before the copy, with a longer file and no store of its own.
LEMMA MoveWrapsKeeps ==
    ASSUME IInv, MoveWraps
    PROVE  IInv'
<1>1. call.step = "move" /\ call.op = "insert" /\ call # NoCall
  BY Inserting DEF MoveWraps, At, IInv, Inserts, Before
<1>2. size' \in Nat /\ size <= size'
  BY DEF MoveWraps, IInv, Typed
<1> QED BY <1>1, <1>2, EndKeeps DEF MoveWraps, IInv, Typed, Filling

\* The element is claimed.
LEMMA ClaimKeeps ==
    ASSUME IInv, Claim
    PROVE  IInv'
<1>1. /\ call.step = "claim" /\ dl_num' = dl_num + 1
      /\ call' = [call EXCEPT !.step = "host1", !.i = dl_num]
      /\ UNCHANGED <<dl_num_max, arb_ip, comm, strs, dli, size, hist, harm>>
  BY DEF Claim, At
<1>2. dl_num \in Nat /\ dl_num_max \in Nat /\ dl_num < dl_num_max /\ call.step \in Inserts
  BY <1>1, SizesAssumption DEF IInv, Typed, Placed, Inserts, Before
<1>3. /\ Called'
      /\ call'.op = "insert" /\ call'.pair = call.pair /\ call'.step = "host1" /\ call'.i = dl_num
  <2>1. "host1" \in Inserts
    BY DEF Inserts, Filling
  <2> QED BY <1>1, <1>2, <2>1, GoesOn DEF IInv
<1>a. call.step # "double" /\ (Laid' => Laid) /\ (Sound' => Sound) /\ (Clean' => Clean)
  BY <1>1, LaidBefore
<1>4. Typed'
  BY <1>1, <1>2 DEF IInv, Typed, used, stroff, strs, hist
<1>5. Placed'
  BY <1>1, <1>2, <1>3 DEF IInv, Placed, Before, Filling, strs
<1>6. Strings' /\ SameElements
  <2>1. Strings'
    BY <1>1, <1>a DEF IInv, Strings, Begins, StrAt, strs
  <2> QED BY <1>1, <2>1, NothingStored
<1>7. Whole = Live /\ Whole' = Live
  <2>1. call.op = "insert"
    BY <1>2, Inserting DEF IInv
  <2>2. Whole = Live /\ Whole' = (0..((dl_num + 1) - 1)) \ {dl_num}
    BY <1>1, <1>3, <2>1 DEF Whole, Live, Filling
  <2> QED BY <1>2, <2>2 DEF Live
<1>8. members' = members /\ told' = told /\ harm' = harm
  BY <1>1 DEF hist
<1>9. Sound => \A k \in Whole' : ~EquDesc(dli[k], call.pair)'
  <2>1. PICK p : p = call.pair /\ p = call'.pair
    BY <1>3
  <2>2. Sound => \A k \in Whole' : ~EquDesc(dli[k], p)
    BY <1>1, <1>7, <2>1 DEF IInv, Found1, Before, Filling
  <2>3. \A k : EquDesc(dli[k], p)' <=> EquDesc(dli[k], p)
    BY <1>1, NothingStored
  <2>4. \A k : EquDesc(dli[k], call.pair)' <=> EquDesc(dli[k], p)'
    BY <2>1, Zenon
  <2> QED BY <2>2, <2>3, <2>4
<1>10. Found1'
  BY <1>a, <1>3, <1>6, <1>7, <1>8, <1>9, SameWhole DEF IInv, Found1
<1>11. Counted'
  <2>1. "host1" \in Filling /\ call.step \notin Filling
    BY <1>1 DEF Filling
  <2>2. members \subseteq Pairs /\ IsFiniteSet(Pairs)
    BY PairsAssumption DEF IInv, Typed
  <2>3. Cardinality(members) \in Nat
    BY <2>2, FS_Subset, FS_CardinalityType
  <2>4. Clean' => dl_num' = Cardinality(members') + 1
    BY <1>1, <1>a, <1>8, <2>1, <2>3 DEF IInv, Counted
  <2> QED BY <1>a, <1>3, <1>6, <1>7, <1>8, <2>1, <2>4, SameWhole DEF IInv, Counted
<1> QED BY <1>3, <1>4, <1>5, <1>6, <1>10, <1>11 DEF IInv

\* A store into the element that is being filled.
LEMMA Fills ==
    ASSUME Called, Typed, Placed, Strings, call.step \in Filling, NEW i \in Slots, i = call.i,
           \A k \in Slots : k # i => dli'[k] = dli[k],
           str_pos' \in Nat, str_pos <= str_pos',
           \A o \in Offsets : o < str_pos => str'[o] = str[o],
           Laid => Begins(dli[i].ds[1])' /\ Begins(dli[i].ds[2])',
           Laid' => Laid
    PROVE  Strings' /\ (Laid' => SameElements)
<1> SUFFICES ASSUME Laid'
             PROVE  Strings' /\ SameElements
  BY DEF Strings
<1>1. Laid /\ str[0] = Nul
  BY DEF Strings
<1>2. \A o \in Offsets : Begins(o) => Begins(o)' /\ \A m \in Names : StrAt(o, m)' <=> StrAt(o, m)
  BY <1>1, StringStays
<1>3. str'[0] = Nul
  <2>1. 0 \in Offsets /\ 0 < str_pos
    BY SpaceTypes DEF Offsets
  <2> QED BY <1>1, <2>1
<1>4. Strings'
  <2> SUFFICES ASSUME NEW k \in Slots, k # i
               PROVE  Begins(dli[k].ds[1])' /\ Begins(dli[k].ds[2])'
    BY <1>1, <1>3 DEF Strings
  <2>1. dli[k].ds[1] \in Offsets /\ dli[k].ds[2] \in Offsets
    BY DEF Typed
  <2>2. PICK o1 \in Offsets, o2 \in Offsets : o1 = dli[k].ds[1] /\ o2 = dli[k].ds[2]
    BY <2>1
  <2>3. Begins(o1)' /\ Begins(o2)'
    BY <1>1, <1>2, <2>2 DEF Strings
  <2>4. dli'[k].ds[1] = o1 /\ dli'[k].ds[2] = o2
    BY <2>2
  <2> QED BY <2>3, <2>4, Zenon
<1>5. SameElements
  <2> SUFFICES ASSUME NEW k \in Whole
               PROVE  dli'[k] = dli[k] /\ \A p \in Pairs : EquDesc(dli[k], p)' <=> EquDesc(dli[k], p)
    BY DEF SameElements
  <2>1. k \in Slots
    BY WholeInside
  <2>2. call.op = "insert"
    BY Inserting DEF Inserts
  <2>3. k # i
    BY <2>2 DEF Whole
  <2>4. dli'[k] = dli[k]
    BY <2>1, <2>3
  <2> QED BY <1>1, <1>2, <2>1, <2>4, SameElement
<1> QED BY <1>4, <1>5

\* What the store of a host does to the element that is being filled.
LEMMA HostStored ==
    ASSUME IInv, NEW j \in {1, 2}, NEW this \in {"host1", "host2"}, NEW next \in Filling, SetHost(j, this, next),
           NEW p \in Pairs, p = call.pair, NEW i \in Slots, i = call.i
    PROVE  /\ Called' /\ Typed' /\ Strings' /\ (Laid => SameElements)
           /\ call.step = this /\ call.op = "insert"
           /\ call'.op = "insert" /\ call'.pair = p /\ call'.step = next /\ call'.i = i
           /\ Whole' = Whole /\ UNCHANGED <<head, strs, size, hist, harm>>
           /\ (Laid' => Laid) /\ (Sound' => Sound) /\ (Clean' => Clean)
           /\ dli'[i].host \in Nat \X Nat /\ dli'[i].host = [dli[i].host EXCEPT ![j] = p.host[j]]
<1>1. /\ call.step = this /\ Go(next) /\ dli' = [dli EXCEPT ![i].host[j] = p.host[j]]
      /\ UNCHANGED <<head, strs, size, hist, harm>>
  BY DEF SetHost, At
<1>2. call.step \in Filling /\ call.step \in Inserts /\ next \in Inserts /\ call.step # "double"
  BY <1>1 DEF Inserts, Filling
<1>3. call.op = "insert" /\ Called'
      /\ call'.op = "insert" /\ call'.pair = p /\ call'.step = next /\ call'.i = i
  BY <1>1, <1>2, Goes, Inserting DEF IInv
<1>4. p.host[j] \in Nat
  BY PairsAssumption
<1>5. dli \in [Slots -> [host : Nat \X Nat, ds : Offsets \X Offsets, words : SUBSET (Words \cup {Junk})]]
  BY DEF IInv, Typed
<1>6. [dli[i].host EXCEPT ![j] = p.host[j]] \in Nat \X Nat
  BY <1>4, <1>5
<1>7. /\ dli' \in [Slots -> [host : Nat \X Nat, ds : Offsets \X Offsets, words : SUBSET (Words \cup {Junk})]]
      /\ dli'[i].host = [dli[i].host EXCEPT ![j] = p.host[j]] /\ dli'[i].ds = dli[i].ds
      /\ \A k \in Slots : k # i => dli'[k] = dli[k]
  BY <1>1, <1>5, <1>6
<1>8. Typed'
  BY <1>1, <1>7 DEF IInv, Typed, used, stroff, head, strs, hist
<1>9. (Laid' => Laid) /\ (Sound' => Sound) /\ (Clean' => Clean) /\ (Laid => Laid')
  <2>1. next # "double"
    BY DEF Filling
  <2>2. harm' = harm /\ call.step # "double"
    BY <1>1, <1>2
  <2> QED BY <1>3, <2>1, <2>2, LaidBefore DEF Laid
<1>10. Strings' /\ (Laid => SameElements)
  <2> SUFFICES ASSUME Laid PROVE Strings' /\ SameElements
    BY <1>9 DEF Strings
  <2>1. str_pos' = str_pos /\ str' = str /\ str_pos \in Nat /\ harm' = harm
    BY <1>1, SpaceTypes DEF strs, IInv
  <2>2. Begins(dli[i].ds[1]) /\ Begins(dli[i].ds[2])
    BY DEF IInv, Strings
  <2>3. Begins(dli[i].ds[1])' /\ Begins(dli[i].ds[2])'
    <3>1. PICK o1 \in Offsets, o2 \in Offsets : o1 = dli[i].ds[1] /\ o2 = dli[i].ds[2]
      BY <1>5
    <3>2. Begins(o1)' /\ Begins(o2)'
      BY <2>1, <2>2, <3>1 DEF Begins, StrAt
    <3>3. dli'[i].ds[1] = o1 /\ dli'[i].ds[2] = o2
      BY <1>7, <3>1
    <3> QED BY <3>2, <3>3, Zenon
  <2> QED BY <1>2, <1>7, <1>9, <2>1, <2>3, Fills DEF IInv
<1>11. Whole' = Whole
  BY <1>1, <1>2, <1>3 DEF Whole, Live, Filling, head
<1> QED BY <1>1, <1>3, <1>6, <1>7, <1>8, <1>9, <1>10, <1>11

\* The first host leaves the pair without an element.
LEMMA SetHost1Keeps ==
    ASSUME IInv, SetHost(1, "host1", "host2")
    PROVE  IInv'
<1>1. call.step = "host1" /\ call.step \in Filling /\ call.step \in Inserts /\ "host2" \in Filling
  BY DEF SetHost, At, Inserts, Filling
<1>2. PICK p \in Pairs, i \in Slots : p = call.pair /\ i = call.i
  BY <1>1, Inserting, WholeInside DEF IInv
<1>3. /\ Called' /\ Typed' /\ Strings' /\ (Laid => SameElements)
      /\ call.op = "insert"
      /\ call'.op = "insert" /\ call'.pair = p /\ call'.step = "host2" /\ call'.i = i
      /\ Whole' = Whole /\ UNCHANGED <<head, strs, size, hist, harm>>
      /\ (Laid' => Laid) /\ (Sound' => Sound) /\ (Clean' => Clean)
      /\ dli'[i].host \in Nat \X Nat /\ dli'[i].host = [dli[i].host EXCEPT ![1] = p.host[1]]
  BY <1>1, <1>2, HostStored
<1>4. Placed'
  BY <1>1, <1>2, <1>3 DEF IInv, Placed, Before, Filling, head, strs
<1>5. members' = members /\ told' = told /\ harm' = harm /\ dl_num' = dl_num
  BY <1>3 DEF hist, head
<1>6. Found1'
  <2> SUFFICES ASSUME Sound' PROVE Found1'
    BY DEF Found1
  <2>1. Sound /\ SameElements
    BY <1>3 DEF Sound
  <2>2. \A k \in Whole' : ~EquDesc(dli[k], call.pair)'
    BY <1>1, <1>2, <1>3, <2>1, StillAbsent DEF IInv
  <2>3. dli'[call'.i].host[1] = call'.pair.host[1]
    <3>1. dli[i].host \in Nat \X Nat
      BY DEF IInv, Typed
    <3> QED BY <1>3, <3>1
  <2> QED BY <1>1, <1>3, <1>5, <2>1, <2>2, <2>3, SameWhole DEF IInv, Found1
<1>7. Counted'
  <2>1. call'.step \in Filling
    BY <1>3 DEF Filling
  <2> QED BY <1>1, <1>3, <1>5, <2>1, SameWhole DEF IInv, Counted
<1> QED BY <1>3, <1>4, <1>6, <1>7 DEF IInv

\* With the second, the element has the pair's hosts.
LEMMA SetHost2Keeps ==
    ASSUME IInv, SetHost(2, "host2", "ds1")
    PROVE  IInv'
<1>1. call.step = "host2" /\ call.step \in Filling /\ call.step \in Inserts /\ "ds1" \in Filling
  BY DEF SetHost, At, Inserts, Filling
<1>2. PICK p \in Pairs, i \in Slots : p = call.pair /\ i = call.i
  BY <1>1, Inserting, WholeInside DEF IInv
<1>3. /\ Called' /\ Typed' /\ Strings' /\ (Laid => SameElements)
      /\ call.op = "insert"
      /\ call'.op = "insert" /\ call'.pair = p /\ call'.step = "ds1" /\ call'.i = i
      /\ Whole' = Whole /\ UNCHANGED <<head, strs, size, hist, harm>>
      /\ (Laid' => Laid) /\ (Sound' => Sound) /\ (Clean' => Clean)
      /\ dli'[i].host \in Nat \X Nat /\ dli'[i].host = [dli[i].host EXCEPT ![2] = p.host[2]]
  BY <1>1, <1>2, HostStored
<1>4. Placed'
  BY <1>1, <1>2, <1>3 DEF IInv, Placed, Before, Filling, head, strs
<1>5. members' = members /\ told' = told /\ harm' = harm /\ dl_num' = dl_num
  BY <1>3 DEF hist, head
<1>6. Found1'
  <2> SUFFICES ASSUME Sound' PROVE Found1'
    BY DEF Found1
  <2>1. Sound /\ SameElements
    BY <1>3 DEF Sound
  <2>2. \A k \in Whole' : ~EquDesc(dli[k], call.pair)'
    BY <1>1, <1>2, <1>3, <2>1, StillAbsent DEF IInv
  <2>3. dli'[i].host = p.host
    <3>1. dli[i].host \in Nat \X Nat /\ p.host \in Nat \X Nat
      BY PairsAssumption DEF IInv, Typed
    <3>2. dli[i].host[1] = p.host[1]
      BY <1>1, <1>2, <2>1 DEF IInv, Found1
    <3> QED BY <1>3, <3>1, <3>2
  <2>4. dli'[call'.i].host = call'.pair.host
    BY <1>3, <2>3
  <2> QED BY <1>1, <1>3, <1>5, <2>1, <2>2, <2>4, SameWhole DEF IInv, Found1
<1>7. Counted'
  <2>1. call'.step \in Filling
    BY <1>3 DEF Filling
  <2> QED BY <1>1, <1>3, <1>5, <2>1, SameWhole DEF IInv, Counted
<1> QED BY <1>3, <1>4, <1>6, <1>7 DEF IInv

\* What a dataset's store does to the element.
LEMMA DatasetStored ==
    ASSUME IInv, NEW j \in {1, 2}, NEW this \in {"ds1", "ds2"}, NEW next \in {"ds2", "comm"}, SetDataset(j, this, next),
           this = IF j = 1 THEN "ds1" ELSE "ds2",
           NEW p \in Pairs, p = call.pair, NEW i \in Slots, i = call.i
    PROVE  /\ Called' /\ Typed' /\ Strings'
           /\ call.step = this /\ call.op = "insert"
           /\ call'.op = "insert" /\ call'.pair = p /\ call'.step = next /\ call'.i = i
           /\ str_pos' <= str_pos + NameLen[p.ds[j]] /\ str_pos' \in Nat
           /\ UNCHANGED <<head, told, harm>>
           /\ members' = IF j = 2 THEN members \cup {p} ELSE members
           /\ dli'[i].host = dli[i].host /\ dli'[i].words = dli[i].words
           /\ StrAt(dli[i].ds[j], p.ds[j])'
           /\ j = 2 => dli'[i].ds[1] = dli[i].ds[1]
           /\ Laid =>
                /\ SameElements
                /\ \A o \in Offsets : Begins(o) => \A m \in Names : StrAt(o, m)' <=> StrAt(o, m)
<1> DEFINE n == p.ds[j]
<1>1. /\ call.step = this /\ AddStr(n) /\ Go(next)
      /\ dli' = [dli EXCEPT ![i].ds[j] = last_str_pos']
      /\ members' = IF j = 2 THEN members \cup {p} ELSE members
      /\ UNCHANGED <<head, told, harm>>
  BY DEF SetDataset, At
<1>2. call.step \in Filling /\ call.step \in Inserts /\ next \in Inserts
  BY <1>1 DEF Inserts, Filling
<1>3. call.op = "insert" /\ n \in Names /\ p.ds[1] \in Names /\ p.ds[2] \in Names
  BY <1>2, Inserting, PairsAssumption DEF IInv
<1>4. Called' /\ call'.op = "insert" /\ call'.pair = p /\ call'.step = next /\ call'.i = i
  BY <1>1, <1>2, Goes DEF IInv
<1>5. NameLen[p.ds[1]] \in Nat /\ NameLen[p.ds[2]] \in Nat /\ MaxLen \in Nat /\ str_pos \in Nat /\ MaxStr \in Nat
  BY <1>3, MaxLenIsMax, SpaceTypes DEF IInv
<1>6. str_pos + NameLen[n] <= MaxStr
  <2>1. CASE j = 1
    <3>1. str_pos + NameLen[p.ds[1]] + NameLen[p.ds[2]] + MaxLen <= MaxStr
      BY <1>1, <2>1 DEF IInv, Placed, Before
    <3> QED BY <1>5, <2>1, <3>1
  <2>2. CASE j = 2
    <3>1. str_pos + NameLen[p.ds[2]] + MaxLen <= MaxStr
      BY <1>1, <2>2 DEF IInv, Placed
    <3> QED BY <1>5, <2>2, <3>1
  <2> QED BY <2>1, <2>2
<1> HIDE DEF n
<1>7. dl_num_max' = dl_num_max
  BY <1>1 DEF head
<1>8. /\ str' \in [Offsets -> Cells]
      /\ str_pos' \in 1..MaxStr /\ str_pos <= str_pos' /\ str_pos' <= str_pos + NameLen[n]
      /\ last_str_pos' \in Offsets /\ last_str_pos' + NameLen[n] = str_pos'
      /\ size' \in Nat /\ used' <= size'
      /\ \A o \in Offsets : o < str_pos => str'[o] = str[o]
      /\ StrAt(last_str_pos, n)'
  BY <1>1, <1>3, <1>6, <1>7, AddStrEnters DEF IInv
<1>9. PICK at \in Offsets : at = last_str_pos'
  BY <1>8
<1>10. dli \in [Slots -> [host : Nat \X Nat, ds : Offsets \X Offsets, words : SUBSET (Words \cup {Junk})]]
  BY DEF IInv, Typed
<1>11. /\ dli' \in [Slots -> [host : Nat \X Nat, ds : Offsets \X Offsets, words : SUBSET (Words \cup {Junk})]]
       /\ dli'[i].host = dli[i].host /\ dli'[i].words = dli[i].words
       /\ dli'[i].ds[j] = at /\ (j = 2 => dli'[i].ds[1] = dli[i].ds[1]) /\ (j = 1 => dli'[i].ds[2] = dli[i].ds[2])
       /\ \A k \in Slots : k # i => dli'[k] = dli[k]
  <2>4. [dli[i].ds EXCEPT ![j] = at] \in Offsets \X Offsets
    BY <1>10
  <2>1. PICK ds : ds = [dli[i].ds EXCEPT ![j] = at] /\ ds \in Offsets \X Offsets
    BY <2>4
  <2>2. ds[j] = at /\ (j = 2 => ds[1] = dli[i].ds[1]) /\ (j = 1 => ds[2] = dli[i].ds[2])
    BY <1>10, <2>1
  <2>3. dli' = [dli EXCEPT ![i].ds = ds]
    BY <1>1, <1>9, <2>1
  <2>5. dli' \in [Slots -> [host : Nat \X Nat, ds : Offsets \X Offsets, words : SUBSET (Words \cup {Junk})]]
    <3>1. [dli[i] EXCEPT !.ds = ds] \in [host : Nat \X Nat, ds : Offsets \X Offsets, words : SUBSET (Words \cup {Junk})]
      BY <1>10, <2>1
    <3>2. dli' = [dli EXCEPT ![i] = [dli[i] EXCEPT !.ds = ds]]
      BY <2>3
    <3> QED BY <1>10, <3>1, <3>2
  <2>6. dli'[i].host = dli[i].host /\ dli'[i].words = dli[i].words /\ dli'[i].ds = ds
    BY <1>10, <2>3
  <2>7. \A k \in Slots : k # i => dli'[k] = dli[k]
    BY <1>10, <2>3
  <2> QED BY <2>2, <2>5, <2>6, <2>7
<1>12. str_pos' \in Nat /\ last_str_pos' \in Nat /\ last_str_pos' <= str_pos' /\ NameLen[n] \in Nat /\ NameLen[n] > 0
  BY <1>3, <1>8, MaxLenIsMax DEF Offsets
<1>13. Typed'
  <2>1. members' \subseteq Pairs
    BY <1>1 DEF IInv, Typed
  <2> QED BY <1>1, <1>8, <1>11, <1>12, <2>1 DEF IInv, Typed, head
<1>14. StrAt(at, n)' /\ Begins(at)'
  <2>1. StrAt(at, n)'
    BY <1>8, <1>9, Zenon
  <2> QED BY <1>3, <1>8, <1>9, <2>1 DEF Begins
<1>15. StrAt(dli[i].ds[j], n)' /\ Begins(dli[i].ds[j])'
  BY <1>11, <1>14, Zenon
<1>16. Laid => \A o \in Offsets : Begins(o) => Begins(o)' /\ \A m \in Names : StrAt(o, m)' <=> StrAt(o, m)
  BY <1>8, <1>12, StringStays DEF IInv, Strings
<1>17. Laid => Begins(dli[i].ds[1])' /\ Begins(dli[i].ds[2])'
  <2> SUFFICES ASSUME Laid PROVE Begins(dli[i].ds[1])' /\ Begins(dli[i].ds[2])'
    OBVIOUS
  <2>1. dli[i].ds[1] \in Offsets /\ dli[i].ds[2] \in Offsets
    BY <1>10
  <2>2. PICK o1 \in Offsets, o2 \in Offsets : o1 = dli[i].ds[1] /\ o2 = dli[i].ds[2]
    BY <2>1
  <2>3. Begins(o1)' /\ Begins(o2)'
    BY <1>16, <2>2 DEF IInv, Strings
  <2>4. CASE j = 1
    <3>1. dli'[i].ds[2] = o2
      BY <1>11, <2>2, <2>4
    <3>2. Begins(dli[i].ds[2])'
      BY <2>3, <3>1, Zenon
    <3>3. Begins(dli[i].ds[1])'
      BY <1>15, <2>4
    <3> QED BY <3>2, <3>3
  <2>5. CASE j = 2
    <3>1. dli'[i].ds[1] = o1
      BY <1>11, <2>2, <2>5
    <3>2. Begins(dli[i].ds[1])'
      BY <2>3, <3>1, Zenon
    <3>3. Begins(dli[i].ds[2])'
      BY <1>15, <2>5
    <3> QED BY <3>2, <3>3
  <2> QED BY <2>4, <2>5
<1>18. Strings' /\ (Laid => SameElements)
  <2>1. Laid' <=> Laid
    BY <1>1, <1>4 DEF Laid
  <2>2. Strings' /\ (Laid' => SameElements)
    BY <1>2, <1>8, <1>11, <1>12, <1>17, <2>1, Fills DEF IInv
  <2> QED BY <2>1, <2>2
<1>19. StrAt(dli[i].ds[j], p.ds[j])'
  BY <1>15 DEF n
<1> QED BY <1>1, <1>3, <1>4, <1>8, <1>11, <1>12, <1>13, <1>16, <1>18, <1>19 DEF n

\* The first dataset.
LEMMA SetFirstKeeps ==
    ASSUME IInv, SetDataset(1, "ds1", "ds2")
    PROVE  IInv'
<1>1. call.step = "ds1" /\ call.step \in Filling /\ call.step \in Inserts /\ "ds2" \in Inserts
  BY DEF SetDataset, At, Inserts, Filling
<1>2. PICK p \in Pairs, i \in Slots : p = call.pair /\ i = call.i
  BY <1>1, Inserting, WholeInside DEF IInv
<1>3. /\ Called' /\ Typed' /\ Strings'
      /\ call.op = "insert"
      /\ call'.op = "insert" /\ call'.pair = p /\ call'.step = "ds2" /\ call'.i = i
      /\ str_pos' <= str_pos + NameLen[p.ds[1]] /\ str_pos' \in Nat
      /\ UNCHANGED <<head, told, harm>>
      /\ members' = members
      /\ dli'[i].host = dli[i].host
      /\ StrAt(dli[i].ds[1], p.ds[1])'
      /\ Laid => SameElements
  BY <1>1, <1>2, DatasetStored
<1>4. Placed'
  <2>1. p.ds[1] \in Names /\ p.ds[2] \in Names
    BY PairsAssumption
  <2>2. NameLen[p.ds[1]] \in Nat /\ NameLen[p.ds[2]] \in Nat /\ MaxLen \in Nat /\ str_pos \in Nat /\ MaxStr \in Nat
    BY <2>1, MaxLenIsMax, SpaceTypes DEF IInv
  <2>3. str_pos + NameLen[p.ds[1]] + NameLen[p.ds[2]] + MaxLen <= MaxStr
    BY <1>1, <1>2 DEF IInv, Placed, Before
  <2>4. str_pos' + NameLen[p.ds[2]] + MaxLen <= MaxStr
    BY <1>3, <2>2, <2>3
  <2>5. dl_num' > 0 /\ call'.i = dl_num' - 1
    BY <1>1, <1>2, <1>3 DEF IInv, Placed, head
  <2> QED BY <1>3, <2>4, <2>5 DEF Placed, Before, Filling
<1>5. Whole' = Whole /\ members' = members /\ told' = told /\ harm' = harm /\ dl_num' = dl_num
  BY <1>1, <1>2, <1>3 DEF Whole, Live, Filling, head
<1>8. call.step # "double" /\ (Laid' => Laid) /\ (Sound' => Sound) /\ (Clean' => Clean)
  BY <1>1, <1>5, LaidBefore
<1>6. Found1'
  <2> SUFFICES ASSUME Sound' PROVE Found1'
    BY DEF Found1
  <2>1. Sound /\ SameElements
    BY <1>3, <1>8 DEF Sound
  <2>2. \A k \in Whole' : ~EquDesc(dli[k], call.pair)'
    BY <1>1, <1>2, <1>3, <1>5, <2>1, StillAbsent DEF IInv
  <2>3. dli'[call'.i].host = call'.pair.host
    BY <1>1, <1>2, <1>3, <2>1 DEF IInv, Found1
  <2>4. StrAt(dli[call.i].ds[1], call.pair.ds[1])'
    BY <1>3, Zenon
  <2>5. call'.step # "host2" /\ call'.step \notin {"comm", "ready"}
    BY <1>3
  <2>6. /\ \A q \in members' : \E k \in Whole' : FirstFor(k, q)' /\ told'[q] \subseteq dli'[k].words
        /\ \A q \in Pairs \ members' : told'[q] = {}
    BY <1>3, <1>5, <1>8, SameWhole DEF IInv
  <2> QED BY <2>2, <2>3, <2>4, <2>5, <2>6, Zenon DEF Found1
<1>7. Counted'
  <2> SUFFICES ASSUME Clean' PROVE Counted'
    BY DEF Counted
  <2>1. call'.step \in Filling
    BY <1>3 DEF Filling
  <2>2. /\ Clean
        /\ \A k \in Whole', q \in Pairs : EquDesc(dli[k], q)' => q \in members'
        /\ \A k, l \in Whole', q \in Pairs : EquDesc(dli[k], q)' /\ EquDesc(dli[l], q)' => k = l
    BY <1>3, <1>5, <1>8, SameWhole DEF IInv
  <2>3. dl_num' = Cardinality(members') + (IF call'.step \in Filling THEN 1 ELSE 0)
    BY <1>1, <1>5, <2>1, <2>2 DEF IInv, Counted
  <2> QED BY <2>2, <2>3, Zenon DEF Counted
<1> QED BY <1>3, <1>4, <1>6, <1>7 DEF IInv

\* An element is of one pair only.
LEMMA OnePair ==
    ASSUME Typed', NEW k \in Slots, NEW p \in Pairs, NEW q \in Pairs, EquDesc(dli[k], p)', EquDesc(dli[k], q)'
    PROVE  p = q
<1>1. /\ p \in [host : Nat \X Nat, ds : Names \X Names] /\ q \in [host : Nat \X Nat, ds : Names \X Names]
      /\ p.ds[1] \in Names /\ p.ds[2] \in Names /\ q.ds[1] \in Names /\ q.ds[2] \in Names
  BY PairsAssumption
<1>2. PICK o1 \in Offsets, o2 \in Offsets : o1 = dli'[k].ds[1] /\ o2 = dli'[k].ds[2]
  BY DEF Typed
<1>3. /\ p.host = q.host
      /\ StrAt(o1, p.ds[1])' /\ StrAt(o1, q.ds[1])' /\ StrAt(o2, p.ds[2])' /\ StrAt(o2, q.ds[2])'
  <2>1. \A j \in {1, 2} : StrAt(dli[k].ds[j], p.ds[j])' /\ StrAt(dli[k].ds[j], q.ds[j])'
    BY DEF EquDesc
  <2>2. /\ StrAt(dli[k].ds[1], p.ds[1])' /\ StrAt(dli[k].ds[1], q.ds[1])'
        /\ StrAt(dli[k].ds[2], p.ds[2])' /\ StrAt(dli[k].ds[2], q.ds[2])'
    BY <2>1
  <2>3. /\ StrAt(o1, p.ds[1])' /\ StrAt(o1, q.ds[1])' /\ StrAt(o2, p.ds[2])' /\ StrAt(o2, q.ds[2])'
    BY <1>2, <2>2, Zenon
  <2>4. p.host = q.host
    BY DEF EquDesc
  <2> QED BY <2>3, <2>4
<1>4. ASSUME NEW o \in Offsets, NEW m \in Names, NEW n \in Names, StrAt(o, m)', StrAt(o, n)'
      PROVE  m = n
  <2>1. 0 \in 0..(NameLen[m] - 1) /\ 0 \in 0..(NameLen[n] - 1)
    BY MaxLenIsMax
  <2>2. str'[o + 0] = <<m, 0>> /\ str'[o + 0] = <<n, 0>>
    BY <1>4, <2>1 DEF StrAt
  <2> QED BY <2>2
<1>5. p.ds[1] = q.ds[1] /\ p.ds[2] = q.ds[2]
  BY <1>1, <1>3, <1>4
<1> QED BY <1>1, <1>3, <1>5

\* The second dataset makes the element one of the pair: the only one and, as the
\* others are not of that pair, the first.
LEMMA SetSecondKeeps ==
    ASSUME IInv, SetDataset(2, "ds2", "comm")
    PROVE  IInv'
<1>1. call.step = "ds2" /\ call.step \in Filling /\ call.step \in Inserts /\ "comm" \in Inserts
  BY DEF SetDataset, At, Inserts, Filling
<1>2. PICK p \in Pairs, i \in Slots : p = call.pair /\ i = call.i
  BY <1>1, Inserting, WholeInside DEF IInv
<1>3. /\ Called' /\ Typed' /\ Strings'
      /\ call.op = "insert"
      /\ call'.op = "insert" /\ call'.pair = p /\ call'.step = "comm" /\ call'.i = i
      /\ str_pos' <= str_pos + NameLen[p.ds[2]] /\ str_pos' \in Nat
      /\ UNCHANGED <<head, told, harm>>
      /\ members' = members \cup {p}
      /\ dli'[i].host = dli[i].host /\ dli'[i].words = dli[i].words
      /\ StrAt(dli[i].ds[2], p.ds[2])'
      /\ dli'[i].ds[1] = dli[i].ds[1]
      /\ Laid =>
           /\ SameElements
           /\ \A o \in Offsets : Begins(o) => \A m \in Names : StrAt(o, m)' <=> StrAt(o, m)
  BY <1>1, <1>2, DatasetStored
<1>4. p.ds[1] \in Names /\ p.ds[2] \in Names
  BY PairsAssumption
<1>5. dl_num \in Nat /\ dl_num > 0 /\ i = dl_num - 1 /\ dl_num' = dl_num
  BY <1>1, <1>2, <1>3 DEF IInv, Typed, Placed, head
<1>6. Placed'
  <2>1. NameLen[p.ds[2]] \in Nat /\ MaxLen \in Nat /\ str_pos \in Nat /\ MaxStr \in Nat
    BY <1>4, MaxLenIsMax, SpaceTypes DEF IInv
  <2>2. str_pos + NameLen[p.ds[2]] + MaxLen <= MaxStr
    BY <1>1, <1>2 DEF IInv, Placed
  <2>3. str_pos' + MaxLen <= MaxStr
    <3>1. str_pos' \in Nat /\ str_pos' <= str_pos + NameLen[p.ds[2]]
      BY <1>3
    <3>2. \A a, b, c, d, m \in Nat : a + c + d <= m /\ b <= a + c => b + d <= m
      OBVIOUS
    <3> QED BY <2>1, <2>2, <3>1, <3>2
  <2> QED BY <1>3, <1>5, <2>3 DEF Placed, Before, Filling
<1>7. Whole = Live \ {i} /\ Whole' = Live /\ i \in Live /\ Live \subseteq Nat /\ \A k \in Live : k # i => k < i
  <2>1. Whole = Live \ {i} /\ Whole' = Live
    BY <1>1, <1>2, <1>3, <1>5 DEF Whole, Live, Filling
  <2> QED BY <1>5, <2>1 DEF Live
<1>8. ASSUME Laid, dli[i].host = p.host, StrAt(dli[i].ds[1], p.ds[1])
      PROVE  EquDesc(dli[i], p)'
  <2>1. PICK o \in Offsets : o = dli[i].ds[1]
    BY DEF IInv, Typed
  <2>2. StrAt(o, p.ds[1])'
    <3>1. Begins(o) /\ StrAt(o, p.ds[1])
      BY <1>8, <2>1 DEF IInv, Strings
    <3> QED BY <1>3, <1>4, <1>8, <3>1
  <2>3. StrAt(dli[i].ds[1], p.ds[1])'
    <3>1. dli'[i].ds[1] = o
      BY <1>3, <2>1
    <3> QED BY <2>2, <3>1, Zenon
  <2>4. \A j \in {1, 2} : StrAt(dli[i].ds[j], p.ds[j])'
    BY <1>3, <2>3
  <2> QED BY <1>3, <1>8, <2>4 DEF EquDesc
<1>9. ASSUME Sound
      PROVE  /\ SameElements /\ p \notin members /\ told[p] = {} /\ EquDesc(dli[i], p)'
             /\ \A k \in Whole : ~EquDesc(dli[k], p)'
  <2>1. Laid /\ SameElements
    BY <1>3, <1>9 DEF Sound
  <2>2. \A k \in Whole : ~EquDesc(dli[k], p)
    BY <1>1, <1>2, <1>9 DEF IInv, Found1
  <2>3. p \notin members
    BY <1>9, <2>2 DEF IInv, Found1, FirstFor
  <2>4. told[p] = {}
    BY <1>9, <2>3 DEF IInv, Found1
  <2>5. dli[i].host = p.host /\ StrAt(dli[i].ds[1], p.ds[1])
    BY <1>1, <1>2, <1>9 DEF IInv, Found1
  <2>6. \A k \in Whole : ~EquDesc(dli[k], p)'
    BY <2>1, <2>2 DEF SameElements
  <2> QED BY <1>8, <2>1, <2>3, <2>4, <2>5, <2>6
<1>12. call.step # "double" /\ (Laid' => Laid) /\ (Sound' => Sound) /\ (Clean' => Clean)
  BY <1>1, <1>3, LaidBefore
<1>10. Found1'
  <2> SUFFICES ASSUME Sound'
               PROVE  /\ \A q \in members' : \E k \in Whole' : FirstFor(k, q)' /\ told'[q] \subseteq dli'[k].words
                      /\ \A q \in Pairs \ members' : told'[q] = {}
                      /\ call'.pair \in members' /\ FirstFor(call.i, call.pair)'
    BY <1>3 DEF Found1, Before, Filling
  <2>1. Sound
    BY <1>12
  <2>2. FirstFor(i, p)'
    <3>1. \A k \in Whole' : k < i => k \in Whole
      BY <1>5, <1>7
    <3>2. i \in Whole' /\ EquDesc(dli[i], p)' /\ \A k \in Whole' : k < i => ~EquDesc(dli[k], p)'
      BY <1>7, <1>9, <2>1, <3>1
    <3> QED BY <3>2, Zenon DEF FirstFor
  <2>3. FirstFor(call.i, call.pair)'
    BY <1>3, <2>2, Zenon
  <2>4. ASSUME NEW q \in members
        PROVE  \E k \in Whole' : FirstFor(k, q)' /\ told'[q] \subseteq dli'[k].words
    <3>1. PICK k \in Whole : FirstFor(k, q) /\ told[q] \subseteq dli[k].words
      BY <2>1 DEF IInv, Found1
    <3>2. q \in Pairs /\ k \in Live /\ k < i /\ k \in Nat /\ i \in Nat
      BY <1>5, <1>7 DEF IInv, Typed
    <3>3. \A l \in Live : l < k => l \in Whole
      BY <1>7, <3>2
    <3>4. FirstFor(k, q)' /\ dli'[k].words = dli[k].words
      BY <1>7, <1>9, <2>1, <3>1, <3>2, <3>3 DEF FirstFor, SameElements
    <3> QED BY <1>3, <1>7, <3>1, <3>2, <3>4
  <2>5. \E k \in Whole' : FirstFor(k, p)' /\ told'[p] \subseteq dli'[k].words
    BY <1>3, <1>7, <1>9, <2>1, <2>2
  <2>6. \A q \in Pairs \ members' : told'[q] = {}
    BY <1>3, <2>1 DEF IInv, Found1
  <2> QED BY <1>3, <2>3, <2>4, <2>5, <2>6
<1>11. Counted'
  <2> SUFFICES ASSUME Clean' PROVE Counted'
    BY DEF Counted
  <2>1. Clean /\ Sound
    BY <1>12 DEF Clean, Sound
  <2>2. \A k \in Whole' : k # i => k \in Whole
    BY <1>7
  <2>3. \A q \in Pairs : EquDesc(dli[i], q)' => q = p
    BY <1>3, <1>9, <2>1, OnePair
  <2>4. ASSUME NEW k \in Whole', NEW q \in Pairs, EquDesc(dli[k], q)'
        PROVE  /\ q \in members'
               /\ q = p => k = i
               /\ k # i => k \in Whole /\ EquDesc(dli[k], q)
    <3>1. CASE k = i
      <4>1. EquDesc(dli[i], q)'
        BY <2>4, <3>1, Zenon
      <4> QED BY <1>3, <2>3, <3>1, <4>1
    <3>2. CASE k # i
      <4>1. k \in Whole
        BY <2>2, <3>2
      <4>2. EquDesc(dli[k], q)
        BY <1>9, <2>1, <2>4, <4>1 DEF SameElements
      <4>3. q \in members /\ q # p
        BY <1>9, <2>1, <2>4, <4>1, <4>2 DEF IInv, Counted
      <4> QED BY <1>3, <4>1, <4>2, <4>3
    <3> QED BY <3>1, <3>2
  <2>5. ASSUME NEW k \in Whole', NEW l \in Whole', NEW q \in Pairs, EquDesc(dli[k], q)', EquDesc(dli[l], q)'
        PROVE  k = l
    <3>1. CASE q = p
      BY <2>4, <2>5, <3>1
    <3>2. CASE q # p
      <4>1. k # i /\ l # i
        <5>1. EquDesc(dli[i], q)' => q = p
          BY <2>3
        <5>2. k = i => (EquDesc(dli[k], q)' => EquDesc(dli[i], q)')
          BY Zenon
        <5>3. l = i => (EquDesc(dli[l], q)' => EquDesc(dli[i], q)')
          BY Zenon
        <5> QED BY <2>5, <3>2, <5>1, <5>2, <5>3
      <4>2. k \in Whole /\ EquDesc(dli[k], q) /\ l \in Whole /\ EquDesc(dli[l], q)
        BY <2>4, <2>5, <4>1
      <4> QED BY <2>1, <4>2 DEF IInv, Counted
    <3> QED BY <3>1, <3>2
  <2>6. dl_num' = Cardinality(members') + (IF call'.step \in Filling THEN 1 ELSE 0)
    <3>1. IsFiniteSet(members)
      BY PairsAssumption, FS_Subset DEF IInv, Typed
    <3>2. Cardinality(members) \in Nat /\ Cardinality(members \cup {p}) = Cardinality(members) + 1
      BY <1>9, <2>1, <3>1, FS_CardinalityType, FS_AddElement
    <3>3. dl_num = Cardinality(members) + 1
      BY <1>1, <2>1 DEF IInv, Counted
    <3>4. call'.step \notin Filling
      BY <1>3 DEF Filling
    <3> QED BY <1>3, <1>5, <3>2, <3>3, <3>4
  <2>7. \A k \in Whole', q \in Pairs : EquDesc(dli[k], q)' => q \in members'
    BY <2>4
  <2>8. \A k, l \in Whole', q \in Pairs : EquDesc(dli[k], q)' /\ EquDesc(dli[l], q)' => k = l
    BY <2>5
  <2> QED BY <2>6, <2>7, <2>8 DEF Counted
<1> QED BY <1>3, <1>6, <1>10, <1>11 DEF IInv

\* A string is entered for the head, or by a process that does not live to store
\* where it is.
LEMMA StringEntered ==
    ASSUME IInv, NEW n \in Names, str_pos + NameLen[n] <= MaxStr, AddStr(n) \/ AddStrCut(n),
           UNCHANGED <<dl_num, dl_num_max, dli, hist>>,
           arb_ip' \in Offsets, comm' \in {"unset", "desc", "garbage"},
           harm \subseteq harm', harm' \subseteq Harms, call.step # "double"
    PROVE  Typed' /\ Strings' /\ (Laid' => SameElements)
<1>1. /\ str' \in [Offsets -> Cells]
      /\ str_pos' \in 1..MaxStr /\ str_pos <= str_pos' /\ str_pos' \in Nat
      /\ last_str_pos' \in Nat /\ last_str_pos' <= str_pos'
      /\ size' \in Nat /\ used' <= size'
      /\ \A o \in Offsets : o < str_pos => str'[o] = str[o]
  BY AddStrGrows DEF IInv
<1>2. Typed'
  BY <1>1 DEF IInv, Typed, hist
<1>3. Laid' => Laid
  BY LaidBefore
<1>4. Strings' /\ (Laid' => SameElements)
  BY <1>1, <1>3, OnlyString DEF IInv
<1> QED BY <1>2, <1>4

\* The process dies in a string, or before its place is stored in the element.
LEMMA SetDatasetCutKeeps ==
    ASSUME IInv, NEW j \in {1, 2}, SetDatasetCut(j, IF j = 1 THEN "ds1" ELSE "ds2")
    PROVE  IInv'
<1>1. call.step = (IF j = 1 THEN "ds1" ELSE "ds2") /\ call.step \in Filling /\ call.step \in Inserts
      /\ call.step # "double"
  BY DEF SetDatasetCut, At, Inserts, Filling
<1>2. PICK p \in Pairs : p = call.pair
  BY <1>1, Inserting DEF IInv
<1>3. call.op = "insert" /\ call # NoCall /\ p.ds[j] \in Names /\ p.ds[1] \in Names /\ p.ds[2] \in Names
  BY <1>1, Inserting, PairsAssumption DEF IInv
<1>4. str_pos + NameLen[p.ds[j]] <= MaxStr
  <2>1. NameLen[p.ds[1]] \in Nat /\ NameLen[p.ds[2]] \in Nat /\ MaxLen \in Nat /\ str_pos \in Nat /\ MaxStr \in Nat
    BY <1>3, MaxLenIsMax, SpaceTypes DEF IInv
  <2>2. CASE j = 1
    <3>1. str_pos + NameLen[p.ds[1]] + NameLen[p.ds[2]] + MaxLen <= MaxStr
      BY <1>1, <1>2, <2>2 DEF IInv, Placed, Before
    <3> QED BY <2>1, <2>2, <3>1
  <2>3. CASE j = 2
    <3>1. str_pos + NameLen[p.ds[2]] + MaxLen <= MaxStr
      BY <1>1, <1>2, <2>3 DEF IInv, Placed
    <3> QED BY <2>1, <2>3, <3>1
  <2> QED BY <2>2, <2>3
<1>5. /\ AddStrCut(p.ds[j]) /\ call' = NoCall /\ UNCHANGED <<head, dli, hist>>
      /\ harm \subseteq harm' /\ harm' \subseteq Harms /\ "killed" \in harm'
  BY <1>2 DEF SetDatasetCut, Harmed, Harms, IInv, Typed
<1>6. Typed' /\ Strings' /\ (Laid' => SameElements)
  <2>1. arb_ip' \in Offsets /\ comm' \in {"unset", "desc", "garbage"} /\ UNCHANGED <<dl_num, dl_num_max, dli, hist>>
    BY <1>5 DEF head, IInv, Typed
  <2> QED BY <1>1, <1>3, <1>4, <1>5, <2>1, StringEntered
<1>7. dl_num' = dl_num /\ members' = members /\ told' = told /\ harm' # {} /\ call.op # "remove"
  BY <1>3, <1>5 DEF head, hist
<1>8. Found1' /\ Counted'
  BY <1>1, <1>5, <1>6, <1>7, Abandons DEF IInv
<1> QED BY <1>5, <1>6, <1>8, Ends DEF IInv

\* What is common to the ways on from comm to ready.
LEMMA CommKeeps ==
    ASSUME IInv, call.step = "comm", Go("ready"), Typed', Strings', Laid' => SameElements,
           dl_num' = dl_num, UNCHANGED <<hist, harm>>
    PROVE  IInv'
<1>1. call.step \in Inserts /\ "ready" \in Inserts
  BY DEF Inserts
<1>2. PICK p \in Pairs, i \in Nat : p = call.pair /\ i = call.i
  BY <1>1, Inserting DEF IInv, Called
<1>3. /\ Called' /\ call.op = "insert"
      /\ call'.op = "insert" /\ call'.pair = p /\ call'.step = "ready" /\ call'.i = i
  BY <1>1, <1>2, Goes, Inserting DEF IInv
<1>4. Placed'
  BY <1>2, <1>3 DEF IInv, Placed, Before, Filling
<1>5. Whole' = Whole /\ members' = members /\ told' = told /\ harm' = harm
  BY <1>3 DEF Whole, Live, Filling, hist
<1>8. /\ Sound' =>
           /\ Sound
           /\ \A q \in members' : \E k \in Whole' : FirstFor(k, q)' /\ told'[q] \subseteq dli'[k].words
           /\ \A q \in Pairs \ members' : told'[q] = {}
           /\ \A q \in Pairs : \A k : FirstFor(k, q) => FirstFor(k, q)'
      /\ Clean' =>
           /\ Clean
           /\ \A k \in Whole', q \in Pairs : EquDesc(dli[k], q)' => q \in members'
           /\ \A k, l \in Whole', q \in Pairs : EquDesc(dli[k], q)' /\ EquDesc(dli[l], q)' => k = l
  BY <1>5, SameWhole DEF IInv
<1>6. Found1'
  <2> SUFFICES ASSUME Sound' PROVE Found1'
    BY DEF Found1
  <2>1. Sound /\ \A q \in Pairs : \A k : FirstFor(k, q) => FirstFor(k, q)'
    BY <1>8
  <2>2. FirstFor(i, p)' /\ p \in members
    BY <1>2, <2>1 DEF IInv, Found1
  <2>3. FirstFor(call.i, call.pair)'
    BY <1>3, <2>2, Zenon
  <2>4. call'.step \notin Before /\ call'.step \notin Filling /\ call'.step \notin {"host2", "ds1", "ds2"}
    BY <1>3 DEF Before, Filling
  <2>5. call'.pair \in members'
    BY <1>3, <1>5, <2>2
  <2> QED BY <1>8, <2>3, <2>4, <2>5 DEF Found1
<1>7. Counted'
  <2> SUFFICES ASSUME Clean' PROVE Counted'
    BY DEF Counted
  <2>1. call'.step \notin Filling /\ call.step \notin Filling
    BY <1>3 DEF Filling
  <2>2. dl_num' = Cardinality(members') + (IF call'.step \in Filling THEN 1 ELSE 0)
    BY <1>5, <1>8, <2>1 DEF IInv, Counted
  <2> QED BY <1>8, <2>2, Zenon DEF Counted
<1> QED BY <1>3, <1>4, <1>6, <1>7 DEF IInv

\* The head has the arbiter's address already.
LEMMA SkipCommKeeps ==
    ASSUME IInv, SkipComm
    PROVE  IInv'
<1>1. call.step = "comm" /\ Go("ready") /\ UNCHANGED <<head, strs, dli, size, hist, harm>>
  BY DEF SkipComm, At
<1>2. Typed' /\ Strings' /\ SameElements
  BY <1>1, NothingElse
<1> QED BY <1>1, <1>2, CommKeeps DEF head

\* There is room for any string that the head is given.
LEMMA CommRoom ==
    ASSUME IInv, call.step = "comm", NEW n \in Names
    PROVE  str_pos + NameLen[n] <= MaxStr
<1>1. NameLen[n] \in Nat /\ NameLen[n] <= MaxLen /\ MaxLen \in Nat /\ str_pos \in Nat /\ MaxStr \in Nat
  BY MaxLenIsMax, SpaceTypes DEF IInv
<1>2. str_pos + MaxLen <= MaxStr
  BY DEF IInv, Placed
<1> QED BY <1>1, <1>2

\* The address, or whatever is in its place, is one more string.
LEMMA SetCommKeeps ==
    ASSUME IInv, SetComm
    PROVE  IInv'
<1>1. PICK n \in Names : AddStr(n)
  BY NamesAssumption DEF SetComm, Addresses
<1>6. comm' \in {"unset", "desc", "garbage"}
  BY DEF SetComm
<1>2. call.step = "comm" /\ arb_ip' = last_str_pos' /\ Go("ready") /\ UNCHANGED <<dl_num, dl_num_max, dli, hist, harm>>
  BY DEF SetComm, At
<1>3. str_pos + NameLen[n] <= MaxStr
  BY <1>2, CommRoom
<1>4. arb_ip' \in Offsets
  BY <1>1, <1>2, <1>3, AddStrEnters DEF IInv
<1>5. Typed' /\ Strings' /\ (Laid' => SameElements)
  <2>1. harm \subseteq harm' /\ harm' \subseteq Harms
    BY <1>2 DEF IInv, Typed
  <2> QED BY <1>1, <1>2, <1>3, <1>4, <1>6, <2>1, StringEntered
<1> QED BY <1>2, <1>5, CommKeeps

\* The process dies on the way.
LEMMA SetCommCutKeeps ==
    ASSUME IInv, SetCommCut
    PROVE  IInv'
<1>1. /\ call.step = "comm" /\ call' = NoCall /\ UNCHANGED <<dl_num, dl_num_max, comm, dli, hist>>
      /\ harm \subseteq harm' /\ harm' \subseteq Harms /\ "killed" \in harm'
  BY DEF SetCommCut, At, Harmed, Harms, IInv, Typed
<1>2. call.op = "insert" /\ call # NoCall
  BY <1>1, Inserting DEF IInv, Inserts
<1>3. PICK n \in Names : \/ AddStrCut(n) /\ UNCHANGED arb_ip
                         \/ AddStr(n) /\ arb_ip' = last_str_pos'
  BY NamesAssumption DEF SetCommCut, Addresses
<1>4. str_pos + NameLen[n] <= MaxStr
  BY <1>1, CommRoom
<1>5. arb_ip' \in Offsets
  <2>1. CASE UNCHANGED arb_ip
    BY <2>1 DEF IInv, Typed
  <2>2. CASE AddStr(n) /\ arb_ip' = last_str_pos'
    BY <1>1, <1>4, <2>2, AddStrEnters DEF IInv
  <2> QED BY <1>3, <2>1, <2>2
<1>6. Typed' /\ Strings' /\ (Laid' => SameElements)
  <2>1. comm' \in {"unset", "desc", "garbage"} /\ call.step # "double"
    BY <1>1 DEF IInv, Typed
  <2> QED BY <1>1, <1>3, <1>4, <1>5, <2>1, StringEntered
<1>7. dl_num' = dl_num /\ members' = members /\ told' = told /\ harm' # {} /\ call.op # "remove"
      /\ call.step # "double"
  BY <1>1, <1>2 DEF hist
<1>8. Found1' /\ Counted'
  BY <1>1, <1>6, <1>7, Abandons DEF IInv
<1> QED BY <1>1, <1>6, <1>8, Ends DEF IInv

-----------------------------------------------------------------------------
(* Selecting, removing, dying, and a new file.                              *)

\* A store of a version's state leaves the pair of every element what it was.
LEMMA SelectKeeps ==
    ASSUME IInv, NEW v \in 1..MaxVer, Select(v)
    PROVE  IInv'
<1>1. call.step = "ready" /\ call.step \in Inserts /\ call.step \notin Filling
  BY DEF Select, At, Inserts, Filling
<1>2. PICK p \in Pairs, i \in Slots : p = call.pair /\ i = call.i
  BY <1>1, Inserting, WholeInside DEF IInv
<1>3. dli \in [Slots -> [host : Nat \X Nat, ds : Offsets \X Offsets, words : SUBSET (Words \cup {Junk})]]
  BY DEF IInv, Typed
<1>4. PICK word \in Words \cup {Junk} : /\ dli' = [dli EXCEPT ![i].words = @ \cup {word}]
                                        /\ told' = [told EXCEPT ![p] = @ \cup {word}]
  <2> DEFINE old == {w \in dli[call.i].words : w.version = v}
             new == IF old # {} THEN CHOOSE w \in old : TRUE ELSE [version |-> v, state |-> call.side]
  <2>1. new \in Words \cup {Junk}
    <3>1. old \subseteq Words \cup {Junk}
      BY <1>2, <1>3
    <3>2. [version |-> v, state |-> call.side] \in Words
      BY <1>1, Inserting DEF IInv, Words
    <3> QED BY <3>1, <3>2
  <2>2. dli' = [dli EXCEPT ![i].words = @ \cup {new}] /\ told' = [told EXCEPT ![p] = @ \cup {new}]
    BY <1>2 DEF Select
  <2> HIDE DEF new
  <2> QED BY <2>1, <2>2
<1>5. call' = NoCall /\ UNCHANGED <<head, strs, size, members, harm>>
  BY DEF Select
<1>6. /\ dli' \in [Slots -> [host : Nat \X Nat, ds : Offsets \X Offsets, words : SUBSET (Words \cup {Junk})]]
      /\ dli'[i].words = dli[i].words \cup {word}
      /\ \A k \in Slots : /\ dli'[k].host = dli[k].host /\ dli'[k].ds = dli[k].ds
                          /\ dli[k].words \subseteq dli'[k].words
  BY <1>3, <1>4
<1>7. told' \in [Pairs -> SUBSET (Words \cup {Junk})] /\ told'[p] = told[p] \cup {word}
      /\ \A q \in Pairs : q # p => told'[q] = told[q]
  BY <1>4 DEF IInv, Typed
<1>8. Typed'
  BY <1>5, <1>6, <1>7 DEF IInv, Typed, used, stroff, head, strs
<1>15. call.step # "double" /\ (Laid' => Laid) /\ (Sound' => Sound) /\ (Clean' => Clean)
  BY <1>1, <1>5, LaidBefore
<1>9. Strings'
  <2> SUFFICES ASSUME Laid
               PROVE  Strings'
    BY <1>15 DEF Strings
  <2>1. str[0] = Nul /\ \A k \in Slots : Begins(dli[k].ds[1]) /\ Begins(dli[k].ds[2])
    BY DEF IInv, Strings
  <2>2. \A o : Begins(o) => Begins(o)'
    BY <1>5 DEF Begins, StrAt, strs
  <2>3. ASSUME NEW k \in Slots
        PROVE  Begins(dli[k].ds[1])' /\ Begins(dli[k].ds[2])'
    <3>1. PICK o1 \in Offsets, o2 \in Offsets : o1 = dli[k].ds[1] /\ o2 = dli[k].ds[2]
      BY <1>3
    <3>2. Begins(o1)' /\ Begins(o2)'
      BY <2>1, <2>2, <3>1
    <3>3. dli'[k].ds[1] = o1 /\ dli'[k].ds[2] = o2
      BY <1>6, <3>1
    <3> QED BY <3>2, <3>3, Zenon
  <2>4. str'[0] = Nul
    BY <1>5, <2>1 DEF strs
  <2> QED BY <2>3, <2>4 DEF Strings
<1>10. \A k \in Slots : \A q : EquDesc(dli[k], q)' <=> EquDesc(dli[k], q)
  <2> SUFFICES ASSUME NEW k \in Slots, NEW q PROVE EquDesc(dli[k], q)' <=> EquDesc(dli[k], q)
    OBVIOUS
  <2>1. str' = str /\ dli'[k].host = dli[k].host /\ dli'[k].ds = dli[k].ds
    BY <1>5, <1>6 DEF strs
  <2>2. \A j \in {1, 2} : StrAt(dli[k].ds[j], q.ds[j])' <=> StrAt(dli[k].ds[j], q.ds[j])
    BY <2>1 DEF StrAt
  <2> QED BY <2>1, <2>2 DEF EquDesc
<1>11. Whole = Live /\ Whole' = Live /\ Live \subseteq Slots /\ Slots \subseteq Nat
  <2>1. call.op = "insert"
    BY <1>1, Inserting DEF IInv
  <2> QED BY <1>1, <1>5, <2>1, NoCallIs, WholeInside DEF IInv, Whole, Live, head
<1>12. \A k, q : FirstFor(k, q) => FirstFor(k, q)'
  <2> SUFFICES ASSUME NEW k, NEW q, FirstFor(k, q) PROVE FirstFor(k, q)'
    OBVIOUS
  <2>1. k \in Live /\ EquDesc(dli[k], q) /\ \A l \in Live : l < k => ~EquDesc(dli[l], q)
    BY <1>11 DEF FirstFor
  <2>2. k \in Live /\ EquDesc(dli[k], q)' /\ \A l \in Live : l < k => ~EquDesc(dli[l], q)'
    BY <1>10, <1>11, <2>1
  <2> QED BY <1>11, <2>2 DEF FirstFor
<1>13. Found1'
  <2> SUFFICES ASSUME Sound'
               PROVE  /\ \A q \in members' : \E k \in Whole' : FirstFor(k, q)' /\ told'[q] \subseteq dli'[k].words
                      /\ \A q \in Pairs \ members' : told'[q] = {}
    BY <1>5, NoCallIs, Zenon DEF Found1
  <2>1. Sound
    BY <1>15
  <2>2. p \in members /\ FirstFor(i, p)
    BY <1>1, <1>2, <2>1 DEF IInv, Found1
  <2>3. ASSUME NEW q \in members
        PROVE  \E k \in Whole' : FirstFor(k, q)' /\ told'[q] \subseteq dli'[k].words
    <3>1. PICK k \in Whole : FirstFor(k, q) /\ told[q] \subseteq dli[k].words
      BY <2>1 DEF IInv, Found1
    <3>2. q \in Pairs /\ k \in Slots /\ k \in Live /\ k \in Nat /\ i \in Nat
      BY <1>2, <1>11 DEF IInv, Typed
    <3>3. FirstFor(k, q)'
      BY <1>12, <3>1
    <3>4. CASE q = p
      <4>1. k = i
        <5>1. ~(k < i)
          BY <2>2, <3>1, <3>4 DEF FirstFor
        <5>2. ~(i < k)
          BY <2>2, <3>1, <3>4 DEF FirstFor
        <5> QED BY <3>2, <5>1, <5>2
      <4>2. told'[q] \subseteq dli'[k].words
        BY <1>6, <1>7, <3>1, <3>4, <4>1
      <4> QED BY <1>11, <3>1, <3>3, <4>2
    <3>5. CASE q # p
      <4>1. told'[q] \subseteq dli'[k].words
        BY <1>6, <1>7, <3>1, <3>2, <3>5
      <4> QED BY <1>11, <3>1, <3>3, <4>1
    <3> QED BY <3>4, <3>5
  <2>4. \A q \in Pairs \ members' : told'[q] = {}
    BY <1>5, <1>7, <2>1, <2>2 DEF IInv, Found1
  <2> QED BY <1>5, <2>3, <2>4
<1>14. Counted'
  <2> SUFFICES ASSUME Clean' PROVE Counted'
    BY DEF Counted
  <2>1. Clean /\ members' = members /\ dl_num' = dl_num
    BY <1>5, <1>15 DEF head
  <2>2. call'.step \notin Filling
    BY <1>5, NoCallIs
  <2>3. \A k \in Live : \A q : EquDesc(dli[k], q)' <=> EquDesc(dli[k], q)
    BY <1>10, <1>11
  <2> QED BY <1>1, <1>11, <2>1, <2>2, <2>3 DEF IInv, Counted
<1> QED BY <1>5, <1>8, <1>9, <1>13, <1>14, Ends DEF IInv

\* A query of an unknown version stores nothing.
LEMMA QueryUnknownKeeps ==
    ASSUME IInv, QueryUnknown
    PROVE  IInv'
<1>1. call.step = "ready" /\ call.step \in Inserts /\ call.step \notin Filling
  BY DEF QueryUnknown, At, Inserts, Filling
<1>2. call # NoCall /\ call.op # "remove"
  BY <1>1, Inserting DEF IInv
<1>3. size' \in Nat /\ size <= size' /\ harm \subseteq harm' /\ harm' \subseteq Harms
  BY DEF QueryUnknown, IInv, Typed
<1> QED BY <1>1, <1>2, <1>3, EndKeeps DEF QueryUnknown

\* The process dies.
LEMMA KillKeeps ==
    ASSUME IInv, Kill
    PROVE  IInv'
<1>1. /\ call # NoCall /\ call' = NoCall /\ UNCHANGED <<head, strs, dli, size, hist>>
      /\ harm \subseteq harm' /\ harm' \subseteq Harms
      /\ call.op = "remove" => "cut" \in harm'
      /\ call.op # "remove" /\ call.step = "double" => "torn" \in harm'
      /\ call.op # "remove" /\ call.step \in Filling => harm' # {}
  BY DEF Kill, At, Harmed, Harms, IInv, Typed, Filling
<1>2. CASE call.op = "remove" \/ call.step = "double"
  <2>1. Typed'
    BY <1>1 DEF IInv, Typed, used, stroff, head, strs, hist
  <2>2. harm' \cap {"cut", "torn"} # {} /\ call'.step # "double" /\ (call.step = "double" => ~Laid')
    BY <1>1, <1>2, Inserting, NoCallIs DEF Laid, IInv, Called, Inserts, Before
  <2>3. Strings'
    <3>1. CASE call.step = "double"
      BY <2>2, <3>1 DEF Strings
    <3>2. CASE call.step # "double"
      BY <1>1, <3>2, LaidBefore DEF IInv, Strings, Begins, StrAt, strs
    <3> QED BY <3>1, <3>2
  <2>4. Found1' /\ Counted'
    BY <2>2 DEF Found1, Sound, Counted, Clean, Laid
  <2> QED BY <1>1, <2>1, <2>3, <2>4, Ends DEF IInv
<1>3. CASE call.op # "remove" /\ call.step # "double"
  <2>1. size' \in Nat /\ size <= size'
    BY <1>1 DEF IInv, Typed
  <2> QED BY <1>1, <1>3, <2>1, EndKeeps
<1> QED BY <1>2, <1>3

\* A file without pairs is deleted: what is remembered of pairs is nothing.
LEMMA RecreateKeeps ==
    ASSUME IInv, Recreate
    PROVE  IInv'
<1>1. /\ call' = NoCall /\ call = NoCall /\ dl_num = 0 /\ members' = members /\ told' = told /\ harm' = harm
      /\ dl_num' = 0 /\ dl_num_max' = ARB_DFL_DLI_NUM /\ arb_ip' = 0 /\ comm' = "unset"
      /\ dli' = BlankArray
      /\ str' = BlankStrings /\ str_pos' = 1 /\ last_str_pos' = 0
      /\ size' = MinSize
  BY DEF Recreate, hist
<1>2. Typed'
  <2>1. BlankArray \in [Slots -> [host : Nat \X Nat, ds : Offsets \X Offsets, words : SUBSET (Words \cup {Junk})]]
    BY SizesAssumption DEF BlankArray, Fresh, Offsets
  <2>2. BlankStrings \in [Offsets -> Cells]
    BY DEF BlankStrings, Cells
  <2>3. DliSize * ARB_DFL_DLI_NUM \in Nat
    BY SizesAssumption
  <2>4. size' \in Nat /\ used' <= size'
    BY <1>1, <2>3, SizesAssumption DEF MinSize, used, stroff
  <2>5. /\ dl_num' \in Nat /\ dl_num_max' \in 1..MaxDli /\ dl_num' <= dl_num_max'
        /\ str_pos' \in 1..MaxStr /\ last_str_pos' \in Nat /\ last_str_pos' <= str_pos'
        /\ arb_ip' \in Offsets /\ comm' \in {"unset", "desc", "garbage"}
    BY <1>1, SizesAssumption DEF Offsets
  <2>6. /\ members' \subseteq Pairs /\ told' \in [Pairs -> SUBSET (Words \cup {Junk})] /\ harm' \subseteq Harms
    BY <1>1 DEF IInv, Typed
  <2> QED BY <1>1, <2>1, <2>2, <2>4, <2>5, <2>6 DEF Typed
<1>3. Strings'
  <2>1. 0 \in Offsets
    BY SizesAssumption DEF Offsets
  <2> QED BY <1>1, <2>1 DEF Strings, Begins, BlankArray, BlankStrings, Fresh
<1>4. Whole = {} /\ Whole' = {}
  BY <1>1, NoCallIs DEF Whole, Live
<1>5. Sound => members = {}
  BY <1>4 DEF IInv, Found1
<1>8. call.step # "double" /\ (Laid' => Laid) /\ (Sound' => Sound) /\ (Clean' => Clean)
  BY <1>1, NoCallIs, LaidBefore
<1>6. Found1'
  <2>1. Sound' => members' = {} /\ \A p \in Pairs \ members' : told'[p] = {}
    BY <1>1, <1>5, <1>8 DEF IInv, Found1
  <2> QED BY <1>1, <2>1, NoCallIs, Zenon DEF Found1
<1>7. Counted'
  <2>2. call.step \notin Filling /\ call'.step \notin Filling /\ Cardinality(members) \in Nat
    BY <1>1, NoCallIs, PairsAssumption, FS_Subset, FS_CardinalityType DEF IInv, Typed
  <2>1. Clean' => dl_num' = Cardinality(members')
    BY <1>1, <1>8, <2>2 DEF IInv, Counted
  <2>3. dl_num' = Cardinality(members') + 0 <=> dl_num' = Cardinality(members')
    BY <1>1, <2>2
  <2> QED BY <1>4, <2>1, <2>2, <2>3, Zenon DEF Counted
<1> QED BY <1>1, <1>2, <1>3, <1>6, <1>7, Ends DEF IInv

\* The element of a pair that is removed leaves a gap; it was the pair's first,
\* and as long as nothing went wrong its only one.
LEMMA RemoveKeeps ==
    ASSUME IInv, NEW p \in Pairs, Remove(p)
    PROVE  IInv'
<1>0. PICK i : i = First(Found(p))
  OBVIOUS
<1>1. /\ call = NoCall /\ Found(p) # {}
      /\ call' = [op |-> "remove", pair |-> p, side |-> "none", step |-> "shift", i |-> i]
      /\ dl_num' = dl_num - 1
      /\ members' = members \ {p}
      /\ told' = [told EXCEPT ![p] = {}]
      /\ UNCHANGED <<dl_num_max, arb_ip, comm, strs, dli, size, harm>>
  BY <1>0 DEF Remove
<1>2. Whole = Live /\ Live \subseteq Slots /\ Slots \subseteq Nat
  BY <1>1, NoCallIs, WholeInside DEF IInv, Whole
<1>3. i \in Live /\ EquDesc(dli[i], p)
  <2>1. Found(p) \subseteq Nat
    BY <1>2 DEF Found
  <2>2. i \in Found(p)
    BY <1>0, <1>1, <2>1, FirstIsLeast
  <2> QED BY <2>2 DEF Found
<1>4. dl_num \in Nat /\ dl_num > 0 /\ i \in Nat /\ i <= dl_num - 1 /\ dl_num_max \in Nat /\ dl_num <= dl_num_max
  BY <1>3 DEF Live, IInv, Typed
<1>5. Called'
  BY <1>1, <1>4 DEF Called
<1>6. Typed'
  <2>1. dl_num' \in Nat /\ dl_num' <= dl_num_max' /\ members' \subseteq Pairs
    BY <1>1, <1>4 DEF IInv, Typed
  <2>2. told' \in [Pairs -> SUBSET (Words \cup {Junk})]
    BY <1>1 DEF IInv, Typed
  <2> QED BY <1>1, <2>1, <2>2 DEF IInv, Typed, used, stroff, strs
<1>7. Placed'
  <2>1. call'.op = "remove" /\ call'.step = "shift" /\ call'.i = i
    BY <1>1
  <2>2. i <= dl_num' /\ dl_num' < dl_num_max'
    BY <1>1, <1>4
  <2> QED BY <2>1, <2>2 DEF Placed, Before, Filling
<1>15. call.step # "double" /\ (Laid' => Laid) /\ (Sound' => Sound) /\ (Clean' => Clean)
  BY <1>1, NoCallIs, LaidBefore
<1>8. Strings'
  BY <1>1, <1>15 DEF IInv, Strings, Begins, StrAt, strs
<1>9. Whole' = Live \ {i}
  <2>1. Whole' = (0..(dl_num - 1)) \ {i}
    BY <1>1 DEF Whole
  <2> QED BY <2>1 DEF Live
<1>10. \A k, q : EquDesc(dli[k], q)' <=> EquDesc(dli[k], q)
  BY <1>1, NothingStored
<1>11. \A q \in Pairs : EquDesc(dli[i], q) => q = p
  <2>1. EquDesc(dli[i], p)' /\ i \in Slots
    BY <1>2, <1>3, <1>10
  <2> QED BY <1>6, <1>10, <2>1, OnePair
<1>12. call'.op = "remove" /\ call'.step = "shift" /\ call'.step \notin Filling /\ call'.step \notin Before
  BY <1>1 DEF Filling, Before
<1>13. Found1'
  <2> SUFFICES ASSUME Sound'
               PROVE  /\ \A q \in members' : \E k \in Whole' : FirstFor(k, q)' /\ told'[q] \subseteq dli'[k].words
                      /\ \A q \in Pairs \ members' : told'[q] = {}
    BY <1>12 DEF Found1
  <2>1. Sound
    BY <1>15
  <2>2. ASSUME NEW q \in members'
        PROVE  \E k \in Whole' : FirstFor(k, q)' /\ told'[q] \subseteq dli'[k].words
    <3>1. q \in members /\ q # p /\ q \in Pairs
      BY <1>1 DEF IInv, Typed
    <3>2. PICK k \in Whole : FirstFor(k, q) /\ told[q] \subseteq dli[k].words
      BY <2>1, <3>1 DEF IInv, Found1
    <3>3. k # i
      <4>1. EquDesc(dli[k], q)
        BY <3>2 DEF FirstFor
      <4> QED BY <1>11, <3>1, <4>1
    <3>4. k \in Whole' /\ \A l \in Whole' : l \in Whole
      BY <1>2, <1>9, <3>3
    <3>5. FirstFor(k, q)'
      BY <1>10, <3>2, <3>4 DEF FirstFor
    <3>6. told'[q] = told[q] /\ dli' = dli
      BY <1>1, <3>1 DEF IInv, Typed
    <3> QED BY <3>2, <3>4, <3>5, <3>6
  <2>3. ASSUME NEW q \in Pairs \ members'
        PROVE  told'[q] = {}
    <3>1. CASE q = p
      BY <1>1, <3>1 DEF IInv, Typed
    <3>2. CASE q # p
      <4>1. q \notin members /\ told'[q] = told[q]
        BY <1>1, <3>2 DEF IInv, Typed
      <4> QED BY <2>1, <4>1 DEF IInv, Found1
    <3> QED BY <3>1, <3>2
  <2> QED BY <2>2, <2>3
<1>14. Counted'
  <2> SUFFICES ASSUME Clean' PROVE Counted'
    BY DEF Counted
  <2>1. Clean /\ \A k \in Whole' : k \in Whole
    BY <1>2, <1>9, <1>15
  <2>2. p \in members
    BY <1>2, <1>3, <2>1 DEF IInv, Counted
  <2>3. ASSUME NEW k \in Whole', NEW q \in Pairs, EquDesc(dli[k], q)'
        PROVE  q \in members'
    <3>1. EquDesc(dli[k], q) /\ k \in Whole /\ k # i
      BY <1>9, <1>10, <2>1, <2>3
    <3>2. q \in members
      BY <2>1, <3>1 DEF IInv, Counted
    <3>3. q # p
      BY <1>2, <1>3, <2>1, <3>1 DEF IInv, Counted
    <3> QED BY <1>1, <3>2, <3>3
  <2>4. \A k, l \in Whole', q \in Pairs : EquDesc(dli[k], q)' /\ EquDesc(dli[l], q)' => k = l
    BY <1>10, <2>1 DEF IInv, Counted
  <2>5. dl_num' = Cardinality(members')
    <3>1. IsFiniteSet(members)
      BY PairsAssumption, FS_Subset DEF IInv, Typed
    <3>2. Cardinality(members) \in Nat /\ Cardinality(members \ {p}) = Cardinality(members) - 1
      BY <2>2, <3>1, FS_CardinalityType, FS_RemoveElement
    <3>3. dl_num = Cardinality(members)
      BY <1>1, <2>1, <3>2, NoCallIs DEF IInv, Counted
    <3> QED BY <1>1, <3>2, <3>3
  <2>6. Cardinality(members') \in Nat
    <3>1. members' \subseteq Pairs /\ IsFiniteSet(Pairs)
      BY <1>6, PairsAssumption DEF Typed
    <3> QED BY <3>1, FS_Subset, FS_CardinalityType
  <2> QED BY <1>12, <2>3, <2>4, <2>5, <2>6 DEF Counted
<1> QED BY <1>5, <1>6, <1>7, <1>8, <1>13, <1>14 DEF IInv

\* A turn of the loop moves the gap: what is behind it comes before it, in the
\* same order.
LEMMA ShiftKeeps ==
    ASSUME IInv, Shift
    PROVE  IInv'
<1>1. call.step = "shift" /\ UNCHANGED <<head, strs, size, hist, harm>>
  BY DEF Shift, At
<1>2. call.op = "remove" /\ call.pair \in Pairs /\ call.i \in Slots /\ call.i <= dl_num /\ dl_num < dl_num_max
  <2>1. call.op = "remove"
    BY <1>1, NoCallIs DEF IInv, Called, Inserts, Before, Filling
  <2> QED BY <2>1, WholeInside DEF IInv, Called, Placed
<1>3. PICK i \in Slots : i = call.i
  BY <1>2
<1>4. /\ dl_num \in Nat /\ i \in Nat /\ i <= dl_num /\ Whole = (0..dl_num) \ {i} /\ Whole \subseteq Slots
      /\ 0..dl_num \subseteq Slots /\ Slots \subseteq Nat
  <2>1. dl_num_max \in Nat /\ dl_num_max <= MaxDli /\ MaxDli \in Nat /\ dl_num \in Nat
    BY SizesAssumption DEF IInv, Typed
  <2>2. 0..dl_num \subseteq Slots /\ Slots \subseteq Nat
    BY <1>2, <2>1 DEF Slots
  <2> QED BY <1>2, <1>3, <2>1, <2>2 DEF Whole
<1>5. members' = members /\ told' = told /\ harm' = harm /\ dl_num' = dl_num /\ str' = str
  BY <1>1 DEF hist, head, strs
<1>6. dli \in [Slots -> [host : Nat \X Nat, ds : Offsets \X Offsets, words : SUBSET (Words \cup {Junk})]]
  BY DEF IInv, Typed
<1>9. call.step # "double" /\ (Laid' => Laid) /\ (Sound' => Sound) /\ (Clean' => Clean)
  BY <1>1, LaidBefore
<1>7. CASE i < dl_num
  <2>1. dli' = [dli EXCEPT ![i] = dli[i + 1]] /\ call' = [call EXCEPT !.i = @ + 1]
    BY <1>3, <1>7 DEF Shift
  <2>2. i + 1 \in Slots /\ i + 1 \in Nat /\ i + 1 # i
    BY <1>4, <1>7
  <2>3. Called' /\ call'.op = "remove" /\ call'.step = "shift" /\ call'.i = i + 1
    <3>1. i + 1 \in Nat
      BY <1>4
    <3> QED BY <1>1, <1>2, <1>3, <2>1, <3>1 DEF IInv, Called
  <2>4. Placed'
    BY <1>1, <1>2, <1>4, <1>7, <2>3 DEF Placed, Before, Filling, head
  <2> DEFINE from(k) == IF k = i THEN i + 1 ELSE k
             to(k)   == IF k = i + 1 THEN i ELSE k
  <2>5. dli' \in [Slots -> [host : Nat \X Nat, ds : Offsets \X Offsets, words : SUBSET (Words \cup {Junk})]]
        /\ \A k \in Slots : from(k) \in Slots /\ dli'[k] = dli[from(k)]
    BY <1>6, <2>1, <2>2
  <2>6. Typed'
    BY <1>1, <2>5 DEF IInv, Typed, used, stroff, head, strs, hist
  <2>7. Whole' = (0..dl_num) \ {i + 1}
    BY <1>5, <2>3 DEF Whole
  <2>8. /\ \A k \in Whole' : from(k) \in Whole /\ to(from(k)) = k /\ k \in Slots
        /\ \A k \in Whole : to(k) \in Whole' /\ from(to(k)) = k /\ k \in Slots
        /\ \A k \in Whole, l \in Whole' : l < to(k) => from(l) < k
    BY <1>4, <1>7, <2>2, <2>7
  <2> HIDE DEF from, to
  <2>9. Strings'
    <3> SUFFICES ASSUME Laid PROVE Strings'
      BY <1>9 DEF Strings
    <3>1. str[0] = Nul /\ \A k \in Slots : Begins(dli[k].ds[1]) /\ Begins(dli[k].ds[2])
      BY DEF IInv, Strings
    <3>2. \A o : Begins(o) => Begins(o)'
      BY <1>1 DEF Begins, StrAt, strs
    <3>3. ASSUME NEW k \in Slots
          PROVE  Begins(dli[k].ds[1])' /\ Begins(dli[k].ds[2])'
      <4>1. PICK l \in Slots : dli'[k] = dli[l]
        BY <2>5
      <4>2. PICK o1 \in Offsets, o2 \in Offsets : o1 = dli[l].ds[1] /\ o2 = dli[l].ds[2]
        BY <1>6
      <4>3. Begins(o1)' /\ Begins(o2)'
        BY <3>1, <3>2, <4>2
      <4>4. dli'[k].ds[1] = o1 /\ dli'[k].ds[2] = o2
        BY <4>1, <4>2
      <4> QED BY <4>3, <4>4, Zenon
    <3> QED BY <1>5, <3>1, <3>3 DEF Strings
  <2>10. \A k \in Whole' : \A q : EquDesc(dli[k], q)' <=> EquDesc(dli[from(k)], q)
    <3>1. \A k \in Whole' : dli'[k] = dli[from(k)]
      BY <2>5, <2>8
    <3>2. \A e, q : EquDesc(e, q)' <=> EquDesc(e, q)
      BY <1>5 DEF EquDesc, StrAt
    <3>3. ASSUME NEW k \in Whole', NEW q
          PROVE  EquDesc(dli[k], q)' <=> EquDesc(dli[from(k)], q)
      <4>1. PICK e : e = dli'[k] /\ e = dli[from(k)]
        BY <3>1
      <4>2. EquDesc(dli[k], q)' <=> EquDesc(e, q)'
        BY <4>1, Zenon
      <4>3. EquDesc(dli[from(k)], q) <=> EquDesc(e, q)
        BY <4>1, Zenon
      <4> QED BY <3>2, <4>2, <4>3
    <3> QED BY <3>3
  <2>11. call'.step \notin Filling /\ call.step \notin Filling
    BY <1>1, <2>3 DEF Filling
  <2>12. Found1'
    <3> SUFFICES ASSUME Sound'
                 PROVE  /\ \A q \in members' : \E k \in Whole' : FirstFor(k, q)' /\ told'[q] \subseteq dli'[k].words
                        /\ \A q \in Pairs \ members' : told'[q] = {}
      BY <2>3 DEF Found1, Before, Filling
    <3>1. Sound
      BY <1>9
    <3>2. ASSUME NEW q \in members
          PROVE  \E k \in Whole' : FirstFor(k, q)' /\ told[q] \subseteq dli'[k].words
      <4>1. PICK k \in Whole : FirstFor(k, q) /\ told[q] \subseteq dli[k].words
        BY <3>1 DEF IInv, Found1
      <4>2. PICK l \in Whole' : l = to(k) /\ from(l) = k /\ l \in Slots
        BY <2>8
      <4>3. EquDesc(dli[l], q)'
        BY <2>10, <4>1, <4>2 DEF FirstFor
      <4>4. ASSUME NEW m \in Whole', m < l
            PROVE  ~EquDesc(dli[m], q)'
        <5>1. from(m) \in Whole /\ from(m) < k
          BY <2>8, <4>2, <4>4
        <5>2. ~EquDesc(dli[from(m)], q)
          BY <4>1, <5>1 DEF FirstFor
        <5> QED BY <2>10, <5>2
      <4>5. FirstFor(l, q)'
        BY <4>3, <4>4 DEF FirstFor
      <4>6. dli'[l] = dli[k]
        BY <2>5, <4>2
      <4> QED BY <4>1, <4>5, <4>6
    <3>3. \A q \in Pairs \ members : told[q] = {}
      BY <3>1 DEF IInv, Found1
    <3> QED BY <1>5, <3>2, <3>3
  <2>13. Counted'
    <3> SUFFICES ASSUME Clean' PROVE Counted'
      BY DEF Counted
    <3>1. Clean
      BY <1>9
    <3>2. ASSUME NEW k \in Whole', NEW q \in Pairs, EquDesc(dli[k], q)'
          PROVE  q \in members /\ from(k) \in Whole /\ EquDesc(dli[from(k)], q)
      <4>1. from(k) \in Whole /\ EquDesc(dli[from(k)], q)
        BY <2>8, <2>10, <3>2
      <4> QED BY <3>1, <4>1 DEF IInv, Counted
    <3>3. ASSUME NEW k \in Whole', NEW l \in Whole', NEW q \in Pairs, EquDesc(dli[k], q)', EquDesc(dli[l], q)'
          PROVE  k = l
      <4>1. from(k) = from(l)
        BY <3>1, <3>2, <3>3 DEF IInv, Counted
      <4>2. to(from(k)) = k /\ to(from(l)) = l
        BY <2>8
      <4> QED BY <4>1, <4>2
    <3>4. dl_num' = Cardinality(members') + (IF call'.step \in Filling THEN 1 ELSE 0)
      BY <1>5, <2>11, <3>1 DEF IInv, Counted
    <3> QED BY <1>5, <3>2, <3>3, <3>4 DEF Counted
  <2> QED BY <2>3, <2>4, <2>6, <2>9, <2>12, <2>13 DEF IInv
<1>8. CASE ~(i < dl_num)
  <2>1. dli' = dli /\ call' = NoCall
    BY <1>3, <1>8 DEF Shift
  <2>2. Typed' /\ Strings' /\ SameElements /\ Live' = Live
    BY <1>1, <2>1, NothingElse
  <2>3. Whole = Live /\ Whole' = Live
    <3>1. i = dl_num
      BY <1>4, <1>8
    <3>2. (0..dl_num) \ {dl_num} = 0..(dl_num - 1)
      BY <1>4
    <3>3. Whole' = Live'
      BY <2>1, NoCallIs DEF Whole
    <3> QED BY <1>4, <2>2, <3>1, <3>2, <3>3 DEF Live
  <2>4. call'.step \notin Filling /\ call.step \notin Filling
    BY <1>1, <2>1, NoCallIs DEF Filling
  <2>7. /\ Sound' =>
             /\ \A q \in members' : \E k \in Whole' : FirstFor(k, q)' /\ told'[q] \subseteq dli'[k].words
             /\ \A q \in Pairs \ members' : told'[q] = {}
        /\ Clean' =>
             /\ Clean
             /\ \A k \in Whole', q \in Pairs : EquDesc(dli[k], q)' => q \in members'
             /\ \A k, l \in Whole', q \in Pairs : EquDesc(dli[k], q)' /\ EquDesc(dli[l], q)' => k = l
    BY <1>5, <1>9, <2>2, <2>3, SameWhole DEF IInv
  <2>5. Found1'
    <3>1. call'.step = "idle"
      BY <2>1, NoCallIs
    <3>2. "idle" \notin (Before \ {"find"}) \cup Filling /\ "idle" \notin {"host2", "ds1", "ds2", "comm", "ready"}
      BY DEF Before, Filling
    <3> QED BY <2>7, <3>1, <3>2 DEF Found1
  <2>6. Counted'
    <3> SUFFICES ASSUME Clean' PROVE Counted'
      BY DEF Counted
    <3>1. dl_num' = Cardinality(members') + (IF call'.step \in Filling THEN 1 ELSE 0)
      BY <1>5, <2>4, <2>7 DEF IInv, Counted
    <3> QED BY <2>7, <3>1, Zenon DEF Counted
  <2> QED BY <2>1, <2>2, <2>5, <2>6, Ends DEF IInv
<1> QED BY <1>7, <1>8

\* Every step keeps the invariant.
LEMMA NextInv == IInv /\ [Next]_vars => IInv'
<1> SUFFICES ASSUME IInv, [Next]_vars PROVE IInv'
  OBVIOUS
<1>1. ASSUME NEW p \in Pairs, NEW s \in Sides, Open(p, s) PROVE IInv'
  BY <1>1, OpenKeeps
<1>2. ASSUME NEW p \in Pairs, Remove(p) PROVE IInv'
  BY <1>2, RemoveKeeps
<1>3. CASE FindPresent
  BY <1>3, FindPresentKeeps
<1>4. CASE FindAbsent
  BY <1>4, FindAbsentKeeps
<1>5. CASE GrowFile
  BY <1>5, GrowFileKeeps
<1>6. CASE MoveStrings
  BY <1>6, MoveStringsKeeps
<1>22. CASE MoveStringsCut
  BY <1>22, MoveStringsCutKeeps
<1>23. CASE MoveWraps
  BY <1>23, MoveWrapsKeeps
<1>24. CASE Double
  BY <1>24, DoubleKeeps
<1>7. CASE Claim
  BY <1>7, ClaimKeeps
<1>8. CASE SetHost(1, "host1", "host2")
  BY <1>8, SetHost1Keeps
<1>25. CASE SetHost(2, "host2", "ds1")
  BY <1>25, SetHost2Keeps
<1>9. CASE SetDataset(1, "ds1", "ds2")
  BY <1>9, SetFirstKeeps
<1>10. CASE SetDatasetCut(1, "ds1")
  BY <1>10, SetDatasetCutKeeps
<1>11. CASE SetDataset(2, "ds2", "comm")
  BY <1>11, SetSecondKeeps
<1>12. CASE SetDatasetCut(2, "ds2")
  <2>1. (IF 2 = 1 THEN "ds1" ELSE "ds2") = "ds2"
    OBVIOUS
  <2> QED BY <1>12, <2>1, SetDatasetCutKeeps
<1>13. CASE SkipComm
  BY <1>13, SkipCommKeeps
<1>14. CASE SetComm
  BY <1>14, SetCommKeeps
<1>15. CASE SetCommCut
  BY <1>15, SetCommCutKeeps
<1>16. ASSUME NEW v \in 1..MaxVer, Select(v) PROVE IInv'
  BY <1>16, SelectKeeps
<1>17. CASE QueryUnknown
  BY <1>17, QueryUnknownKeeps
<1>18. CASE Shift
  BY <1>18, ShiftKeeps
<1>19. CASE Kill
  BY <1>19, KillKeeps
<1>20. CASE Recreate
  BY <1>20, RecreateKeeps
<1>21. CASE UNCHANGED vars
  <2>1. UNCHANGED <<head, strs, dli, size, hist, harm>> /\ call' = call
    BY <1>21 DEF vars
  <2>13. (Laid' <=> Laid) /\ (Sound' <=> Sound) /\ (Clean' <=> Clean)
    BY <2>1 DEF Laid, Sound, Clean
  <2>2. Typed' /\ Strings' /\ SameElements /\ Live' = Live
    <3>1. size' \in Nat /\ size <= size'
      BY <2>1 DEF IInv, Typed
    <3> QED BY <2>1, <2>13, <3>1, OnlyCall
  <2>3. Called' /\ Placed'
    <3>1. used' = used /\ More' = More /\ dl_num' = dl_num /\ dl_num_max' = dl_num_max /\ size' = size /\ str_pos' = str_pos
      BY <2>1 DEF used, More, stroff, head, strs
    <3> QED BY <2>1, <3>1 DEF IInv, Called, Placed
  <2>4. Whole' = Whole /\ members' = members /\ told' = told /\ harm' = harm /\ dl_num' = dl_num
    BY <2>1, <2>2 DEF Whole, head, hist
  <2>5. dl_num' = dl_num /\ dli' = dli /\ str' = str /\ call' = call /\ harm' = harm /\ members' = members /\ told' = told
    BY <2>1, <2>4 DEF strs
  <2>6. \A k, q : EquDesc(dli[k], q)' <=> EquDesc(dli[k], q)
    BY <2>1, NothingStored
  <2>7. \A k, q : FirstFor(k, q)' <=> FirstFor(k, q)
    BY <2>4, <2>6, Zenon DEF FirstFor
  <2>8. StrAt(dli[call.i].ds[1], call.pair.ds[1])' <=> StrAt(dli[call.i].ds[1], call.pair.ds[1])
    BY <2>5, Zenon DEF StrAt
  <2>9. FirstFor(call.i, call.pair)' <=> FirstFor(call.i, call.pair)
    <3>1. PICK i, p : i = call.i /\ p = call.pair /\ i = call'.i /\ p = call'.pair
      BY <2>5
    <3>2. FirstFor(i, p)' <=> FirstFor(call.i, call.pair)'
      BY <3>1, Zenon
    <3>3. FirstFor(i, p) <=> FirstFor(call.i, call.pair)
      BY <3>1, Zenon
    <3> QED BY <2>7, <3>2, <3>3
  <2>10. ASSUME NEW k PROVE EquDesc(dli[k], call.pair)' <=> EquDesc(dli[k], call.pair)
    <3>1. PICK p : p = call.pair /\ p = call'.pair
      BY <2>5
    <3>2. EquDesc(dli[k], p)' <=> EquDesc(dli[k], call.pair)'
      BY <3>1, Zenon
    <3>3. EquDesc(dli[k], p) <=> EquDesc(dli[k], call.pair)
      BY <3>1, Zenon
    <3> QED BY <2>6, <3>2, <3>3
  <2>11. Found1'
    BY <2>4, <2>5, <2>7, <2>8, <2>9, <2>10, <2>13 DEF IInv, Found1
  <2>12. Counted'
    BY <2>4, <2>5, <2>6, <2>13 DEF IInv, Counted
  <2> QED BY <2>2, <2>3, <2>11, <2>12 DEF IInv
<1> QED BY <1>1, <1>2, <1>3, <1>4, <1>5, <1>6, <1>7, <1>8, <1>9, <1>10, <1>11, <1>12, <1>13, <1>14,
           <1>15, <1>16, <1>17, <1>18, <1>19, <1>20, <1>21, <1>22, <1>23, <1>24, <1>25 DEF Next

-----------------------------------------------------------------------------
(* The theorems.                                                            *)

\* The invariant holds in every behaviour of the disk's image.
THEOREM Invariance == Spec => []IInv
BY InitInv, NextInv, PTL DEF Spec

\* The stores of an insertion and of a doubling stay inside the file and the
\* array, for any pairs, strings and sizes.
THEOREM StoresAreInside == Spec => []StoresInside
<1>1. IInv => StoresInside
  <2> SUFFICES ASSUME IInv PROVE StoresInside
    OBVIOUS
  <2>1. dl_num \in 0..MaxDli /\ last_str_pos \in Offsets /\ str_pos \in Offsets
    BY SizesAssumption DEF IInv, Typed, Offsets
  <2>2. call = NoCall \/ call.pair \in Pairs
    BY DEF IInv, Called
  <2>3. TypeOK
    BY <2>1, <2>2 DEF IInv, Typed, TypeOK
  <2>4. used <= size /\ (At("move") => used + More <= size) /\ (At("claim") => dl_num < dl_num_max)
    BY DEF IInv, Typed, Placed, At
  <2> QED BY <2>3, <2>4 DEF StoresInside
<1> QED BY <1>1, Invariance, PTL

\* arb_disk_find_dli finds every pair that was entered and not removed, with the
\* decisions its hosts were told.
LEMMA FoundFirst ==
    ASSUME IInv, Settled, Sound, NEW p \in members
    PROVE  Found(p) # {} /\ told[p] \subseteq dli[First(Found(p))].words
<1>1. PICK k \in Whole : FirstFor(k, p) /\ told[p] \subseteq dli[k].words
  BY DEF IInv, Found1
<1>2. Whole = (IF call.step \in Filling THEN Live \ {call.i} ELSE Live) /\ Live \subseteq Nat
  BY WholeInside DEF IInv, Whole, Settled
<1>3. k \in Live /\ k \in Found(p)
  BY <1>1, <1>2 DEF FirstFor, Found
<1>4. PICK f : f = First(Found(p))
  OBVIOUS
<1>5. f \in Live /\ EquDesc(dli[f], p) /\ f <= k
  <2>1. Found(p) \subseteq Nat /\ Found(p) # {}
    BY <1>2, <1>3 DEF Found
  <2>2. f \in Found(p) /\ f <= k
    BY <1>3, <1>4, <2>1, FirstIsLeast
  <2> QED BY <2>2 DEF Found
<1>6. f \in Whole
  <2>1. CASE call.step \in Filling
    <3>1. call.i = dl_num - 1 /\ dl_num \in Nat /\ k \in Live /\ k # call.i
      BY <1>1, <1>2, <2>1 DEF IInv, Placed, Typed
    <3> QED BY <1>2, <1>5, <2>1, <3>1 DEF Live
  <2>2. CASE call.step \notin Filling
    BY <1>2, <1>5, <2>2
  <2> QED BY <2>1, <2>2
<1>7. ~(f < k)
  BY <1>1, <1>5, <1>6 DEF FirstFor
<1>8. f = k
  BY <1>2, <1>3, <1>5, <1>7
<1> QED BY <1>1, <1>3, <1>4, <1>8

\* A pair that was entered and not removed is found, whatever came since, unless
\* a removal was cut short, the array was doubled, or the process died after the
\* strings began to move for that.
THEOREM MembersAreFound == Spec => []MembersFound
<1>1. IInv => MembersFound
  BY FoundFirst DEF MembersFound, Sound, Laid, Settled, Losses, At
<1> QED BY <1>1, Invariance, PTL

\* The element that is found holds every decision that the pair's hosts were told,
\* with the same three exceptions.
THEOREM DecisionsAreKept == Spec => []DecisionsKept
<1>1. IInv => DecisionsKept
  BY FoundFirst DEF DecisionsKept, Sound, Laid, Settled, Losses, At
<1> QED BY <1>1, Invariance, PTL

\* Between calls the array has as many elements as pairs were entered and not
\* removed, so a file that is deleted as empty has none.
THEOREM MembersAreExact == Spec => []MembersExact
<1>1. IInv => MembersExact
  <2> SUFFICES ASSUME IInv, call = NoCall, harm = {} PROVE dl_num = Cardinality(members)
    BY DEF MembersExact
  <2>1. call.step \notin Filling /\ Clean
    BY NoCallIs DEF Clean, Laid
  <2>2. dl_num = Cardinality(members) + 0
    BY <2>1 DEF IInv, Counted
  <2>3. Cardinality(members) \in Nat
    BY PairsAssumption, FS_Subset, FS_CardinalityType DEF IInv, Typed
  <2> QED BY <2>2, <2>3
<1> QED BY <1>1, Invariance, PTL
=============================================================================
