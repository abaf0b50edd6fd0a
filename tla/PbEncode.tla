------------------------------ MODULE PbEncode ------------------------------
(***************************************************************************)
(* nanopb's encoder (lab3/nanopb/pb_encode.c) with the callbacks simple.c  *)
(* gives it for conditions.  A condition_t is a sequence, empty for NULL,  *)
(* of a record [op, one, two]; `one` is the union of condition1 and        *)
(* element.                                                                *)
(***************************************************************************)
EXTENDS PbFields

OpAnd == 7
OpOr == 8
OpSameLevel == 9

(* elementType_t of ast.h, numbered like the ElementType of the messages. *)
ElInt == 0
ElDouble == 1
ElString == 2
ElBoolean == 3

WireTypeOf(ltype) ==
    CASE ltype \in {"BOOL", "VARINT", "UVARINT", "SVARINT"} -> WtVarint
      [] ltype = "FIXED32" -> Wt32Bit
      [] ltype = "FIXED64" -> Wt64Bit
      [] OTHER -> WtString

TagForField(os, f) == EncodeTag(os, WireTypeOf(f.ltype), f.tag)

(* Booleans in a packed array come this way too. *)
EncVarint(os, f, v) ==
    IF f.ltype = "SVARINT" THEN EncodeSvarint(os, v[1]) ELSE EncodeVarint(os, Unsigned(v[1], Wide))

(* A string fills its array up to the last byte but one. *)
EncString(os, f, v) ==
    IF Len(v) > f.size - 1 THEN Broken(os, "unterminated string") ELSE EncodeString(os, v)

EncBytes(os, f, v) ==
    IF Len(v) > f.size THEN Broken(os, "bytes size exceeded") ELSE EncodeString(os, v)

(* A message that was never set is not written (proto3). *)
RECURSIVE IsDefault(_, _)
IsDefault(f, slot) ==
    CASE f.atype = "CALLBACK" -> slot.v.fn = "none"
      [] f.atype = "STATIC" /\ f.htype = "REQUIRED" -> FALSE
      [] f.atype = "STATIC" /\ (f.htype \in {"REPEATED", "ONEOF"} \/ f.sized) -> slot.n = 0
      [] f.atype = "STATIC" /\ f.htype = "OPTIONAL" /\ ~f.sized ->
           IF f.ltype = "SUBMESSAGE"
           THEN \A g \in ToSet(Messages[f.sub]) : IsDefault(g, slot.v[g.tag])
           ELSE f.ltype # "FIXED_LENGTH_BYTES" /\ slot.v = ZeroOf(f)

(* fillElement, and the same in element_encoder. *)
FillElement(e) ==
    LET which == CASE e.type = ElInt -> 4 [] e.type = ElDouble -> 5
                   [] e.type = ElBoolean -> 6 [] e.type = ElString -> 3
    IN  [t \in 1..6 |-> CASE t = 1 -> Slot(1, <<e.type>>) [] t = 2 -> Slot(1, e.key)
                          [] OTHER -> Slot(which, e.value)]

(* The string and its end do not fit the array: strncpy writes past it. *)
Overruns(e) ==
    e.type = ElString /\
        \E f \in ToSet(Messages["Element"]) : f.tag = 3 /\ Len(e.value) + 1 > f.size

(* fillCondition, and the same in condition_encoder. *)
FillCondition(c) ==
    LET inner == c.op \in {OpAnd, OpOr}
        one == IF inner THEN Slot(2, [fn |-> "condition_encoder", arg |-> c.one])
               ELSE Slot(3, [fn |-> "element_encoder", arg |-> c.one])
        two == IF inner THEN [fn |-> "condition_encoder", arg |-> c.two] ELSE NoCallback
    IN  [Blank("Condition") EXCEPT ![1] = Slot(1, [fn |-> "opType_encode", arg |-> c.op]),
                                   ![2] = one, ![3] = one, ![4] = Slot(1, two)]

-----------------------------------------------------------------------------
RECURSIVE EncodeFields(_, _, _, _), EncodeSubmessage(_, _, _), EncodeEach(_, _, _), EncodeCallback(_, _, _)

Encode(os, desc, m) == EncodeFields(os, Messages[desc], m, 1)

EncodeBasic(os, f, v) ==
    LET tagged == TagForField(os, f)
    IN  CASE f.ltype \in {"BOOL", "VARINT", "UVARINT", "SVARINT"} -> EncVarint(tagged, f, v)
          [] f.ltype \in {"FIXED32", "FIXED64"} -> Write(tagged, v)
          [] f.ltype = "BYTES" -> EncBytes(tagged, f, v)
          [] f.ltype = "STRING" -> EncString(tagged, f, v)
          [] f.ltype = "SUBMESSAGE" -> EncodeSubmessage(tagged, f.sub, v)
          [] f.ltype = "FIXED_LENGTH_BYTES" -> EncodeString(tagged, v)

EncodeEach(os, f, vs) ==
    IF vs = << >> THEN os ELSE EncodeEach(EncodeBasic(os, f, Head(vs)), f, Tail(vs))

PackedValue(os, f, v) ==
    IF f.ltype \in {"FIXED32", "FIXED64"} THEN Write(os, v) ELSE EncVarint(os, f, v)
Packed(os, f, vs) == FoldLeft(LAMBDA s, v : PackedValue(s, f, v), os, vs)

(* The size is that of one value only. *)
BadPackedSize(f, vs) == Packed(SizingStream, f, <<Head(vs)>>).written

PackedSize(f, vs) ==
    CASE f.ltype = "FIXED32" -> 4 * Len(vs)
      [] f.ltype = "FIXED64" -> 8 * Len(vs)
      [] OTHER -> Packed(SizingStream, f, vs).written

(* A count beyond the array is refused; scalars are packed. *)
EncodeArray(os, f, slot) ==
    IF slot.n = 0 THEN os
    ELSE IF slot.n > f.max THEN Broken(os, "array max size exceeded")
    ELSE IF f.ltype \notin Packable THEN EncodeEach(os, f, slot.v)
    ELSE LET head == EncodeVarint(EncodeTag(os, WtString, f.tag), PackedSize(f, slot.v))
         IN  IF os.sizing THEN Skip(head, PackedSize(f, slot.v)) ELSE Packed(head, f, slot.v)

(* Which fields are there at all. *)
Absent(f, slot) ==
    \/ f.htype = "ONEOF" /\ slot.n # f.tag
    \/ f.htype = "OPTIONAL" /\ f.sized /\ slot.n = 0
    \/ f.htype = "OPTIONAL" /\ ~f.sized /\ f.atype = "STATIC" /\ IsDefault(f, slot)

EncodeField(os, f, slot) ==
    CASE os.st # "ok" \/ Absent(f, slot) -> os
      [] OTHER -> IF f.atype = "CALLBACK" THEN EncodeCallback(os, f, slot.v)
                  ELSE IF f.htype = "REPEATED" THEN EncodeArray(os, f, slot)
                  ELSE EncodeBasic(os, f, slot.v)

EncodeFields(os, fields, m, k) ==
    IF k > Len(fields) THEN os
    ELSE EncodeFields(EncodeField(os, fields[k], m[fields[k].tag]), fields, m, k + 1)

(* The message is gone through twice: a first time for its size alone, and *)
(* the second time it may not write more than that.                        *)
Joined(head, sub, size) ==
    [sub EXCEPT !.written = head.written + @, !.max = head.max,
                !.st = IF sub.written = size THEN @ ELSE "submsg size changed"]

EncodeSized(os, sized, desc, m) ==
    LET size == sized.written
        head == EncodeVarint(os, size)
    IN  IF sized.st # "ok" THEN Broken(os, sized.st)
        ELSE IF head.st # "ok" \/ head.sizing THEN Skip(head, size)
        ELSE IF head.written + size > head.max THEN Broken(head, "stream full")
        ELSE Joined(head, Encode([head EXCEPT !.written = 0, !.max = size], desc, m), size)

EncodeSubmessage(os, desc, m) ==
    IF os.st # "ok" THEN os ELSE EncodeSized(os, Encode(SizingStream, desc, m), desc, m)

(* pb_default_field_callback with the encoders of simple.c.  A condition   *)
(* or an element that is NULL is read through; a SAME_LEVEL condition is   *)
(* taken for an element.                                                   *)
EncodeCallback(os, f, callback) ==
    CASE callback.fn = "none" -> os
      [] callback.fn = "opType_encode" -> EncodeVarint(TagForField(os, f), callback.arg)
      [] callback.fn = "condition_encoder" ->
           IF callback.arg = << >> THEN Broken(os, "crash")
           ELSE EncodeSubmessage(TagForField(os, f), "Condition", FillCondition(callback.arg[1]))
      [] callback.fn = "element_encoder" ->
           IF callback.arg = << >> THEN Broken(os, "crash")
           ELSE IF "op" \in DOMAIN callback.arg[1] THEN Broken(os, "undefined")
           ELSE IF Overruns(callback.arg[1]) THEN Broken(os, "undefined")
           ELSE EncodeSubmessage(TagForField(os, f), "Element", FillElement(callback.arg[1]))

(* pb_encode_ex: a length before the message, or a zero behind it. *)
EncodeEx(os, desc, m, flags) ==
    CASE flags = "delimited" -> EncodeSubmessage(os, desc, m)
      [] flags = "nullterminated" -> Write(Encode(os, desc, m), <<0>>)
      [] OTHER -> Encode(os, desc, m)

EncodedSize(desc, m) == Encode(SizingStream, desc, m).written
=============================================================================
