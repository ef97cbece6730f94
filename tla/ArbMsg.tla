------------------------------- MODULE ArbMsg -------------------------------
(****************************************************************************)
(* The messages between hosts and arbiter: arb_msg_encoder_*, the growing   *)
(* vectors of cvector.c that it fills, check_msg and arb_msg_decoder_*.     *)
(*                                                                          *)
(* A string is its name; in the string area of a vector or a message it is  *)
(* a run of cells, one per byte, the terminator included, so that offsets   *)
(* and lengths are those of the code.  The identity of a pair (uuid, host   *)
(* ids, port) and a version are values that are only copied.                *)
(****************************************************************************)
EXTENDS Integers, Sequences

CONSTANTS
    Names, NameLen,              \* the strings, and strlen + 1 of each
    Descs,                       \* [id, ip, lds, rds]: dl_desc_t
    Vers,                        \* dl_ver_t
    HeadSize, DliSize, VerSize,  \* sizeof arb_msg_head_t, arb_dli_t, dl_ver_t
    PAGE_SIZE,                   \* the first size of a vector
    NumMod,                      \* dl_num is a uint16_t: 2^16
    MaxAdds,                     \* bound: additions to one encoder
    Empty,                       \* the empty string, one of Names
    NoMsg

ASSUME NamesAssumption == NameLen \in [Names -> Nat \ {0}] /\ Empty \in Names /\ NameLen[Empty] = 1
ASSUME SizesAssumption == {HeadSize, DliSize, VerSize, PAGE_SIZE, NumMod} \subseteq Nat \ {0}
ASSUME DescsAssumption == \A d \in Descs : {d.ip, d.lds, d.rds} \subseteq Names

Types  == {"req_sel", "rsp_sel", "req_rm", "rsp_rm"}
HasDli == {"req_sel", "req_rm"}       \* the types with pairs and strings
HasVer == {"req_sel", "rsp_sel"}      \* and those with versions

VARIABLES
    type,          \* enc->msg_type, or "none" before arb_msg_encoder_init
    dl_num, arb_ip,
    v_dli, v_ver,  \* vec_t: the elements and the size of the buffer
    v_str,         \* strvec_t: cells, last_pos and size; pos is their number
    out,           \* what the last arb_msg_encoder_output did
    msg,           \* the message it made, until it is freed
    dec,           \* a message that arb_msg_decoder_init accepted
    added, total   \* history: what was added, and how many pairs that is

encVars == <<type, dl_num, arb_ip, v_dli, v_ver, v_str, added, total>>
msgVars == <<encVars, out, msg, dec>>

-----------------------------------------------------------------------------
(* cvector.c                                                                *)

\* Each operator named ...Bug is the definition below it with a plausible
\* mistake.  No specification uses it: it shows that a property can fail.

\* The buffer is doubled once.
ExpandedBug(size, used, need) == IF used + need <= size THEN size ELSE 2 * size

\* expand, when it is called: the size doubles until the need is met.
Expanded(size, used, need) ==
    LET doubled[s \in Nat \ {0}] == IF used + need <= s THEN s ELSE doubled[2 * s]
    IN  doubled[size]

NewVec == [items |-> <<>>, size |-> PAGE_SIZE]

VecAdd(v, elem_size, x) ==
    [items |-> Append(v.items, x),
     size  |-> Expanded(v.size, elem_size * Len(v.items), elem_size)]

CellsOf(n) == [k \in 1..NameLen[n] |-> <<n, k>>]
StrAt(cells, o, n) ==
    o + NameLen[n] <= Len(cells) /\ SubSeq(cells, o + 1, o + NameLen[n]) = CellsOf(n)

NewStrvec == [cells |-> CellsOf(Empty), last |-> 0, size |-> PAGE_SIZE]

\* A string as long as the last one passes for it.
StrvecAddBug(v, n) ==
    LET pos == Len(v.cells) IN
    IF v.last + NameLen[n] = pos THEN v
    ELSE [cells |-> v.cells \o CellsOf(n),
          last  |-> pos,
          size  |-> Expanded(v.size, pos, NameLen[n])]

\* strvec_add: a string equal to the last one is shared.  The offset that it
\* returns is last of the result.
StrvecAdd(v, n) ==
    LET pos == Len(v.cells) IN
    IF v.last + NameLen[n] = pos /\ StrAt(v.cells, v.last, n) THEN v
    ELSE [cells |-> v.cells \o CellsOf(n),
          last  |-> pos,
          size  |-> Expanded(v.size, pos, NameLen[n])]

-----------------------------------------------------------------------------
(* The encoder.                                                             *)

MsgInit ==
    /\ type = "none" /\ dl_num = 0 /\ arb_ip = 0
    /\ v_dli = NewVec /\ v_ver = NewVec /\ v_str = NewStrvec
    /\ out = "none" /\ msg = NoMsg /\ dec = NoMsg
    /\ added = <<>> /\ total = 0

EncoderInit(t) ==
    /\ type = "none"
    /\ type' = t
    /\ UNCHANGED <<dl_num, arb_ip, v_dli, v_ver, v_str, added, total, out, msg, dec>>

\* arb_msg_encoder_fini, and arb_msg_free of the message; or the process starts
\* again after an abort.
EncoderFini ==
    /\ type # "none"
    /\ type' = "none" /\ dl_num' = 0 /\ arb_ip' = 0
    /\ v_dli' = NewVec /\ v_ver' = NewVec /\ v_str' = NewStrvec
    /\ out' = "none" /\ msg' = NoMsg /\ dec' = NoMsg
    /\ added' = <<>> /\ total' = 0

Plus(n) == (dl_num + n) % NumMod

\* What every arb_msg_encoder_add does to the count (and to the history).
Count(n, what) ==
    /\ Len(added) < MaxAdds
    /\ out # "aborted"
    /\ dl_num' = Plus(n)
    /\ added' = Append(added, what)
    /\ total' = total + n
    /\ out' = "none"
    /\ msg' = NoMsg /\ dec' = NoMsg
    /\ UNCHANGED type

\* encode_dl_info: the address is encoded when dl_num is 0 and reused after
\* that, whatever the address of the later pairs is.
EncodeDlInfo(d) ==
    LET s0 == IF dl_num > 0 THEN v_str ELSE StrvecAdd(v_str, d.ip)
        ip == IF dl_num > 0 THEN arb_ip ELSE s0.last
        s1 == StrvecAdd(s0, d.lds)
        s2 == StrvecAdd(s1, d.rds)
    IN  /\ arb_ip' = ip
        /\ v_str' = s2
        /\ v_dli' = VecAdd(v_dli, DliSize, [id |-> d.id, ip |-> ip, lds |-> s1.last, rds |-> s2.last])

\* The version of a request is forgotten.
AddRequestBug(d, v) ==
    /\ type = "req_sel"
    /\ EncodeDlInfo(d)
    /\ Count(1, [desc |-> d, ver |-> v])
    /\ UNCHANGED v_ver

AddRequest(d, v) ==
    /\ type = "req_sel"
    /\ EncodeDlInfo(d)
    /\ v_ver' = VecAdd(v_ver, VerSize, v)
    /\ Count(1, [desc |-> d, ver |-> v])

AddAnswer(v) ==
    /\ type = "rsp_sel"
    /\ v_ver' = VecAdd(v_ver, VerSize, v)
    /\ Count(1, [ver |-> v])
    /\ UNCHANGED <<arb_ip, v_dli, v_str>>

AddRemoval(d) ==
    /\ type = "req_rm"
    /\ EncodeDlInfo(d)
    /\ Count(1, [desc |-> d])
    /\ UNCHANGED v_ver

AddRemoved(n) ==
    /\ type = "rsp_rm"
    /\ Count(n, [removed |-> n])
    /\ UNCHANGED <<arb_ip, v_dli, v_ver, v_str>>

\* The VERIFYs of the encode functions: the vectors have dl_num elements.
Full == /\ type \in HasDli => Len(v_dli.items) = dl_num
        /\ type \in HasVer => Len(v_ver.items) = dl_num

ArrayBytes(t, n) ==
    (IF t \in HasDli THEN DliSize * n ELSE 0) + (IF t \in HasVer THEN VerSize * n ELSE 0)

\* arb_msg_encoder_output with the encode function of the type.
OutputNull ==
    /\ type # "none" /\ out = "none"
    /\ dl_num = 0
    /\ out' = "null"
    /\ UNCHANGED <<encVars, msg, dec>>

OutputAborts ==
    /\ type # "none" /\ out = "none"
    /\ dl_num # 0
    /\ ~Full
    /\ out' = "aborted"
    /\ UNCHANGED <<encVars, msg, dec>>

Output ==
    LET cells == IF type \in HasDli THEN v_str.cells ELSE <<>> IN
    /\ type # "none" /\ out = "none"
    /\ dl_num # 0
    /\ Full
    /\ out' = "msg"
    /\ msg' = [type |-> type, num |-> dl_num, str |-> cells,
               len |-> HeadSize + ArrayBytes(type, dl_num) + Len(cells),
               dli |-> v_dli.items, ver |-> v_ver.items]
    /\ UNCHANGED <<encVars, dec>>

-----------------------------------------------------------------------------
(* The decoder.                                                             *)

\* The first string of the area is refused as well.
StrValidBug(pos, limit) == pos > 1 /\ pos < limit

StrValid(pos, limit) == pos > 0 /\ pos < limit

\* check_msg with the check function of the type.
CheckMsg(m, size) ==
    LET fixed == HeadSize + ArrayBytes(m.type, m.num) IN
    /\ size >= HeadSize /\ size = m.len
    /\ m.type \in HasDli =>
         /\ m.len > fixed
         /\ \A i \in 1..m.num : \A o \in {m.dli[i].ip, m.dli[i].lds, m.dli[i].rds} :
                StrValid(o, m.len - fixed)
    /\ m.type \notin HasDli => m.len = fixed

\* A message, or a part of it, reaches arb_msg_decoder_init.
DecoderInit(size) ==
    /\ msg # NoMsg /\ dec = NoMsg
    /\ CheckMsg(msg, size)
    /\ dec' = msg
    /\ UNCHANGED <<encVars, out, msg>>

\* arb_msg_decoder_get of pair i gives description d.
GetsDesc(m, i, d) ==
    LET e == m.dli[i] IN
    /\ e.id = d.id
    /\ StrAt(m.str, e.ip, d.ip) /\ StrAt(m.str, e.lds, d.lds) /\ StrAt(m.str, e.rds, d.rds)

MsgNext ==
    \/ \E t \in Types : EncoderInit(t)
    \/ \E d \in Descs, v \in Vers : AddRequest(d, v)
    \/ \E v \in Vers : AddAnswer(v)
    \/ \E d \in Descs : AddRemoval(d)
    \/ \E n \in 0..2 : AddRemoved(n)
    \/ OutputNull \/ OutputAborts \/ Output
    \/ msg # NoMsg /\ \E size \in {0, HeadSize, msg.len - 1, msg.len} : DecoderInit(size)
    \/ EncoderFini

MsgSpec == MsgInit /\ [][MsgNext]_msgVars

-----------------------------------------------------------------------------
(* Properties.                                                              *)

\* The count stays in its 16 bits, and offsets are inside the string area.
MsgTypeOK ==
    /\ type \in Types \cup {"none"}
    /\ dl_num \in 0..(NumMod - 1)
    /\ v_ver.items \in Seq(Vers)
    /\ \A i \in 1..Len(v_dli.items) :
         {v_dli.items[i].ip, v_dli.items[i].lds, v_dli.items[i].rds} \subseteq 0..(Len(v_str.cells) - 1)
    /\ out \in {"none", "null", "msg", "aborted"}

\* No memcpy runs over the end of its buffer, however the vectors grow, and every
\* variable keeps its type.
BuffersHold ==
    /\ MsgTypeOK
    /\ DliSize * Len(v_dli.items) <= v_dli.size
    /\ VerSize * Len(v_ver.items) <= v_ver.size
    /\ Len(v_str.cells) <= v_str.size

\* A decoder that accepts a message gets from it every pair and version that
\* was added, in order, with the strings of each, except that all pairs have
\* the arbiter address of the first.
RoundTrip ==
    dec # NoMsg =>
        /\ total < NumMod \/ type # "rsp_rm" => dec.num = total
        /\ type \in HasVer => \A i \in 1..dec.num : dec.ver[i] = added[i].ver
        /\ type \in HasDli => \A i \in 1..dec.num :
                GetsDesc(dec, i, [added[i].desc EXCEPT !.ip = added[1].desc.ip])

\* What the encoder makes the decoder accepts, except when the address of the
\* first pair is empty: it then shares the null string at offset 0.
MadeIsAccepted ==
    out = "msg" =>
        CheckMsg(msg, msg.len) \/ (type \in HasDli /\ added[1].desc.ip = Empty)

\* The encoder makes a message of any number of pairs that its count can hold;
\* the VERIFYs on the sizes of its vectors fail only after a wrap of dl_num.
NoneLost == out \in {"null", "aborted"} => total = 0 \/ total >= NumMod
=============================================================================
