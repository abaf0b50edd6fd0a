------------------------------ MODULE PbDecode ------------------------------
(***************************************************************************)
(* nanopb's decoder (lab3/nanopb/pb_decode.c) with the callbacks simple.c  *)
(* gives it for conditions.  These build the condition_t in memory: `pool` *)
(* is the sequence of the condition_t allocated, and a pointer is <<k>>    *)
(* for the k-th, or empty.  A decoder gives [is, val, pool]: the stream    *)
(* behind what it read, the data, the memory.                              *)
(***************************************************************************)
EXTENDS PbEncode

NotSet == -1  \* the opType of a condition_t fresh from malloc
NewCondition == [op |-> NotSet, one |-> << >>, two |-> << >>]

Result(is, val, pool) == [is |-> is, val |-> val, pool |-> pool]
Refused(is, how, val, pool) == Result(Broken(is, how), val, pool)

(* Truncated to the width of the field, and compared. *)
Clamped(r, f) ==
    LET v == CASE f.ltype = "UVARINT" -> r.val
               [] f.ltype = "SVARINT" -> r.val
               [] OTHER -> Signed(r.val, f.size)
        clamped == IF f.ltype = "UVARINT" THEN Unsigned(r.val, f.size) ELSE Signed(v, f.size)
    IN  IF r.is.st = "ok" /\ clamped # v THEN Failed(r.is, "integer too large") ELSE Got(r.is, <<v>>)

DecVarint(is, f) == Clamped(IF f.ltype = "SVARINT" THEN DecodeSvarint(is) ELSE DecodeVarint(is), f)

(* One byte is left for the end of the string: or not. *)
BadDecString(is, f) ==
    LET r == DecodeVarint32(is)
    IN  IF r.is.st # "ok" THEN r
        ELSE IF r.val >= f.size - 1 THEN Failed(r.is, "string overflow")
        ELSE Read(r.is, r.val)

DecString(is, f) ==
    LET r == DecodeVarint32(is)
    IN  IF r.is.st # "ok" THEN r
        ELSE IF r.val = 2^Half - 1 THEN Failed(r.is, "size too large")
        ELSE IF r.val + 1 > f.size THEN Failed(r.is, "string overflow")
        ELSE Read(r.is, r.val)

DecBytes(is, f) ==
    LET r == DecodeVarint32(is)
    IN  IF r.is.st # "ok" THEN r
        ELSE IF r.val > f.size THEN Failed(r.is, "bytes overflow")
        ELSE Read(r.is, r.val)

DecFixedLength(is, f) ==
    LET r == DecodeVarint32(is)
    IN  IF r.is.st # "ok" THEN r
        ELSE IF r.val = 0 THEN Got(r.is, ZeroOf(f))
        ELSE IF r.val # f.size THEN Failed(r.is, "incorrect fixed length bytes size")
        ELSE Read(r.is, f.size)

(* The wire types a field may come with. *)
Accepts(f, wiretype) ==
    CASE f.ltype \in {"BOOL", "VARINT", "UVARINT", "SVARINT"} -> wiretype \in {WtVarint, WtPacked}
      [] f.ltype = "FIXED32" -> wiretype \in {Wt32Bit, WtPacked}
      [] f.ltype = "FIXED64" -> wiretype \in {Wt64Bit, WtPacked}
      [] OTHER -> wiretype = WtString

(* intElement, doubleElement, ... of what element_decoder has received.    *)
(* For a string the code allocates strlen bytes and copies one more, the   *)
(* NUL (simple.c:68-70): a write behind the block, of undefined effect.    *)
(* Here the value arrives intact.                                          *)
ConditionElement(m) ==
    <<[type |-> m[1].v[1], key |-> m[2].v, value |-> m[3].v]>>

-----------------------------------------------------------------------------
RECURSIVE DecodeLoop(_, _, _), DecodeBasic(_, _, _, _, _), PackedLoop(_, _, _, _, _), RunDecoder(_, _, _)

Message(d) == Result(d.is, d.m, d.pool)

(* pb_decode_inner: `fixed` is the fixed count field in progress with its  *)
(* count, `seen` the tags met, `at` where the iterator stands.             *)
DecodeInner(is, desc, m, flags, pool) ==
    Message(DecodeLoop(desc, flags,
               [is |-> is, m |-> IF flags = "noinit" THEN m ELSE SetToDefaults(desc, m), pool |-> pool,
                at |-> 1, seen |-> {}, fixed |-> 0, count |-> 0]))

(* r was read from a substream; is is the stream behind it. *)
Behind(is, r) == [r EXCEPT !.is = CloseSubstream(is, @)]

(* pb_decode_inner's NOINIT for static submessages that are no array. *)
DecSubmessage(is, f, old, pool) ==
    LET s == StringSubstream(is)
        start == IF f.htype = "REPEATED" THEN Blank(f.sub) ELSE old
        flags == IF f.htype = "REPEATED" THEN "none" ELSE "noinit"
    IN  IF s.is.st # "ok" THEN Result(s.is, old, pool)
        ELSE Behind(s.is, DecodeInner(s.val, f.sub, start, flags, pool))

DecodeValue(is, f) ==
    CASE f.ltype = "BOOL" -> DecodeBool(is)
      [] f.ltype \in {"VARINT", "UVARINT", "SVARINT"} -> DecVarint(is, f)
      [] f.ltype = "FIXED32" -> Read(is, 4)
      [] f.ltype = "FIXED64" -> Read(is, 8)
      [] f.ltype = "BYTES" -> DecBytes(is, f)
      [] f.ltype = "STRING" -> DecString(is, f)
      [] f.ltype = "FIXED_LENGTH_BYTES" -> DecFixedLength(is, f)

DecodeBasic(is, wiretype, f, old, pool) ==
    IF ~Accepts(f, wiretype) THEN Refused(is, "wrong wire type", old, pool)
    ELSE IF f.ltype = "SUBMESSAGE" THEN DecSubmessage(is, f, old, pool)
    ELSE DecodeValue(is, f) @@ [pool |-> pool]

Placed(vs, k, v) == IF k <= Len(vs) THEN [vs EXCEPT ![k] = v] ELSE Append(vs, v)

(* A packed array as far as there are bytes, and room. *)
PackedNext(r, f, vs, count) ==
    PackedLoop(r.is, f, Placed(vs, count + 1, r.val), count + 1, r.pool)

PackedLoop(is, f, vs, count, pool) ==
    IF is.left = << >> \/ count >= f.max \/ is.st # "ok" THEN Result(is, Slot(count, vs), pool)
    ELSE PackedNext(DecodeBasic(is, WtPacked, f, 0, pool), f, vs, count)

AllTaken(is, slot, r) ==
    IF r.is.left # << >> THEN Refused(is, "array overflow", slot, r.pool) ELSE Behind(is, r)

DecodePacked(is, f, slot, count, pool) ==
    LET s == StringSubstream(is)
    IN  IF s.is.st # "ok" THEN Result(s.is, slot, pool)
        ELSE AllTaken(s.is, slot, PackedLoop(s.val, f, slot.v, count, pool))

(* The next entry of an array; the count is checked before it is used. *)
DecodeEntry(is, wiretype, f, slot, count, pool) ==
    IF count >= f.max THEN Refused(is, "array overflow", slot, pool)
    ELSE [DecodeBasic(is, wiretype, f, 0, pool) EXCEPT
             !.val = Slot(count + 1, Placed(slot.v, count + 1, @))]

(* decode_static_field: the slot behind it. *)
DecodeStatic(is, wiretype, f, slot, count, pool) ==
    CASE f.htype = "REPEATED" /\ wiretype = WtString /\ f.ltype \in Packable ->
           DecodePacked(is, f, slot, count, pool)
      [] f.htype = "REPEATED" /\ ~(wiretype = WtString /\ f.ltype \in Packable) ->
           DecodeEntry(is, wiretype, f, slot, count, pool)
      [] f.htype = "ONEOF" ->
           LET old == IF f.ltype = "SUBMESSAGE" /\ slot.n # f.tag THEN Blank(f.sub) ELSE slot.v
           IN  [DecodeBasic(is, wiretype, f, old, pool) EXCEPT !.val = Slot(f.tag, @)]
      [] OTHER -> [DecodeBasic(is, wiretype, f, slot.v, pool) EXCEPT !.val = Slot(1, @)]

(* The callback gets the string as a substream, again and again as long as *)
(* it reads and leaves something; a scalar in a stream of its own.         *)
RECURSIVE CallbackLoop(_, _, _)
Again(r, sub, callback) ==
    IF r.is.st = "ok" /\ r.is.left # << >> /\ Len(r.is.left) < Len(sub.left)
    THEN CallbackLoop(r.is, callback, r.pool) ELSE r

CallbackLoop(sub, callback, pool) == Again(RunDecoder(sub, callback, pool), sub, callback)

DecodeCallback(is, wiretype, slot, pool) ==
    LET s == IF wiretype = WtString THEN StringSubstream(is) ELSE ReadRawValue(is, wiretype)
        read == IF wiretype = WtString THEN CallbackLoop(s.val, slot.v, pool)
                ELSE RunDecoder(IStream(s.val), slot.v, pool)
    IN  IF s.is.st # "ok" THEN Result(s.is, slot, pool)
        ELSE [Behind(s.is, read) EXCEPT !.val = slot]

(* condition_decoder into a condition_t just allocated as the k-th. *)
DecodesInto(k) ==
    LET decoder == [fn |-> "condition_decoder", arg |-> k]
    IN  [Blank("Condition") EXCEPT ![1] = Slot(1, [fn |-> "opType_decode", arg |-> k]),
                                   ![2] = Slot(0, decoder), ![3] = Slot(0, decoder),
                                   ![4] = Slot(1, decoder)]

DecodeMessage(is, desc, m, pool) == DecodeInner(is, desc, m, "none", pool)

(* The element read goes where the condition_t k points. *)
ElementInto(k, r) == [r EXCEPT !.pool = [@ EXCEPT ![k].one = ConditionElement(r.val)]]

(* The second condition goes where the first is. *)
BadConditionDecoder(is, k, pool) ==
    LET new == Len(pool) + 1
    IN  IF pool[k].op \in {OpAnd, OpOr}
        THEN DecodeMessage(is, "Condition", DecodesInto(new),
                           Append([pool EXCEPT ![k].one = <<new>>], NewCondition))
        ELSE ElementInto(k, DecodeMessage(is, "Element", Blank("Element"), pool))

(* One decoder serves condition1, element and condition2 (the first two    *)
(* are a union): the operator, which comes first, says whether a condition *)
(* or an element follows, and the first free pointer takes the condition.  *)
ConditionDecoder(is, k, pool) ==
    LET new == Len(pool) + 1
        node == pool[k]
    IN  CASE node.op \in {OpAnd, OpOr} /\ node.one = << >> ->
               DecodeMessage(is, "Condition", DecodesInto(new),
                             Append([pool EXCEPT ![k].one = <<new>>], NewCondition))
          [] node.op \in {OpAnd, OpOr} /\ node.one # << >> /\ node.two = << >> ->
               DecodeMessage(is, "Condition", DecodesInto(new),
                             Append([pool EXCEPT ![k].two = <<new>>], NewCondition))
          [] node.op \in {OpAnd, OpOr} /\ node.one # << >> /\ node.two # << >> ->
               DecodeMessage(is, "Condition", Blank("Condition"), pool)
          [] OTHER -> ElementInto(k, DecodeMessage(is, "Element", Blank("Element"), pool))

RunDecoder(is, callback, pool) ==
    CASE callback.fn = "none" -> Result(is, << >>, pool)
      [] callback.fn = "opType_decode" ->
           LET r == DecodeVarint(is)
           IN  Result(r.is, << >>, [pool EXCEPT ![callback.arg].op =
                                      IF r.is.st = "ok" THEN r.val ELSE NotSet])
      [] callback.fn = "condition_decoder" -> ConditionDecoder(is, callback.arg, pool)

DecodeField(is, wiretype, f, slot, count, pool) ==
    IF f.atype = "CALLBACK" THEN DecodeCallback(is, wiretype, slot, pool)
    ELSE DecodeStatic(is, wiretype, f, slot, count, pool)

-----------------------------------------------------------------------------
Required(desc) == {f.tag : f \in {g \in ToSet(Messages[desc]) : g.htype = "REQUIRED"}}

(* A fixed count field begun must be complete when another one begins, and *)
(* at the end.                                                             *)
Incomplete(fields, d) == d.fixed # 0 /\ d.count # fields[d.fixed].max

(* The end of the message, and the required fields. *)
Finished(desc, d) ==
    IF Incomplete(Messages[desc], d) THEN [d EXCEPT !.is = Broken(@, "wrong size for fixed count field")]
    ELSE IF ~(Required(desc) \subseteq d.seen) THEN [d EXCEPT !.is = Broken(@, "missing required field")]
    ELSE d

Counting(f) == f.htype = "REPEATED" /\ f.fixed

(* The field at k has been read. *)
Taken(desc, d, k, r) ==
    LET f == Messages[desc][k]
    IN  [d EXCEPT !.is = r.is, !.pool = r.pool, !.at = k, !.seen = @ \cup {f.tag},
                  !.m = WithSlot(desc, @, f, IF Counting(f) THEN [r.val EXCEPT !.n = f.max] ELSE r.val),
                  !.fixed = IF Counting(f) THEN k ELSE @,
                  !.count = IF Counting(f) THEN r.val.n ELSE @]

(* The field the iterator has found at k. *)
DecodeFound(desc, d, is, wiretype, k) ==
    LET f == Messages[desc][k]
        slot == d.m[f.tag]
        begins == Counting(f) /\ d.fixed # k
        count == IF begins THEN 0 ELSE IF Counting(f) THEN d.count ELSE slot.n
    IN  IF begins /\ Incomplete(Messages[desc], d)
        THEN [d EXCEPT !.is = Broken(is, "wrong size for fixed count field")]
        ELSE Taken(desc, d, k, DecodeField(is, wiretype, f, slot, count, d.pool))

(* A field of no known tag is skipped. *)
DecodeLoop(desc, flags, d) ==
    LET t == DecodeTag(d.is)
        k == IterFind(Messages[desc], d.at, t.val.tag)
    IN  CASE d.is.st # "ok" -> d
          [] d.is.st = "ok" /\ d.is.left = << >> -> Finished(desc, d)
          [] OTHER ->
               IF t.is.st # "ok" THEN [d EXCEPT !.is = t.is]
               ELSE IF t.val.tag = 0
                    THEN IF flags = "nullterminated" THEN Finished(desc, [d EXCEPT !.is = t.is])
                         ELSE [d EXCEPT !.is = Broken(t.is, "zero tag")]
               ELSE IF k = 0
                    THEN DecodeLoop(desc, flags, [d EXCEPT !.is = SkipField(t.is, t.val.wiretype)])
               ELSE DecodeLoop(desc, flags, DecodeFound(desc, d, t.is, t.val.wiretype, k))

(* pb_decode_ex: the message after its length is all that is read.         *)
DecodeEx(is, desc, m, flags, pool) ==
    IF flags # "delimited" THEN DecodeInner(is, desc, m, flags, pool)
    ELSE LET s == StringSubstream(is)
         IN  IF s.is.st # "ok" THEN Result(s.is, m, pool)
             ELSE Behind(s.is, DecodeInner(s.val, desc, m, "none", pool))
=============================================================================
