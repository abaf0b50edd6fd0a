------------------------------ MODULE PbFields ------------------------------
(***************************************************************************)
(* Message descriptors of nanopb and the structs they describe             *)
(* (lab3/nanopb/pb.h, pb_common.c).  A descriptor is the sequence of its   *)
(* fields in tag order.  A struct is a function from tags to slots         *)
(* [n, v]: n is what pSize points to (has_, the count, which_), v the      *)
(* data: an integer or a truth value as a sequence of one number, anything *)
(* else as its bytes.  The members of a oneof are a union: they have one   *)
(* slot.                                                                   *)
(***************************************************************************)
EXTENDS PbWire

CONSTANT Messages  \* the descriptor of each message type

Packable == {"BOOL", "VARINT", "UVARINT", "SVARINT", "FIXED32", "FIXED64"}
NoCallback == [fn |-> "none", arg |-> << >>]

(* A field: size is the bits of an integer, the bytes of anything else;    *)
(* max is array_size; fixed is for an array without a counter, sized for   *)
(* an optional field with a has_ of its own.                               *)
Field(tag, atype, htype, ltype, size, max, sub, more) ==
    [tag |-> tag, atype |-> atype, htype |-> htype, ltype |-> ltype, size |-> size,
     max |-> max, sub |-> sub, sized |-> "sized" \in more, fixed |-> "fixed" \in more]

Slot(n, v) == [n |-> n, v |-> v]

RECURSIVE ZeroOf(_), Blank(_)
ZeroOf(f) ==
    CASE f.atype = "CALLBACK" -> NoCallback
      [] f.ltype \in {"BOOL", "VARINT", "UVARINT", "SVARINT"} -> <<0>>
      [] f.ltype \in {"FIXED32", "FIXED64", "FIXED_LENGTH_BYTES"} -> [k \in 1..f.size |-> 0]
      [] f.ltype \in {"STRING", "BYTES"} -> << >>
      [] f.ltype = "SUBMESSAGE" -> Blank(f.sub)

EmptySlot(f) ==
    CASE f.htype = "REPEATED" /\ f.fixed -> Slot(f.max, [k \in 1..f.max |-> ZeroOf(f)])
      [] f.htype = "REPEATED" /\ ~f.fixed -> Slot(0, << >>)
      [] f.htype = "ONEOF" -> Slot(0, IF f.atype = "CALLBACK" THEN NoCallback ELSE << >>)
      [] OTHER -> Slot(IF f.sized THEN 0 ELSE 1, ZeroOf(f))

(* The ..._init_zero of a message. *)
Blank(desc) ==
    [t \in {f.tag : f \in ToSet(Messages[desc])} |->
        EmptySlot(CHOOSE f \in ToSet(Messages[desc]) : f.tag = t)]

Shares(desc, f) ==
    {g.tag : g \in {h \in ToSet(Messages[desc]) : h = f \/ (h.htype = "ONEOF" /\ f.htype = "ONEOF")}}

(* The struct with another slot for field f. *)
WithSlot(desc, m, f, slot) == [t \in DOMAIN m |-> IF t \in Shares(desc, f) THEN slot ELSE m[t]]

(* Before decoding: callbacks stay, submessages are gone through, the      *)
(* count of an array and the which_ of a oneof become 0, the rest zero.    *)
RECURSIVE SetToDefaults(_, _)
DefaultSlot(f, slot) ==
    IF f.atype = "CALLBACK" THEN slot
    ELSE IF f.htype \in {"REPEATED", "ONEOF"} THEN EmptySlot(f)
    ELSE IF f.ltype = "SUBMESSAGE"
         THEN Slot(IF f.sized THEN 0 ELSE slot.n, SetToDefaults(f.sub, slot.v))
    ELSE EmptySlot(f)
SetToDefaults(desc, m) ==
    [t \in DOMAIN m |-> DefaultSlot(CHOOSE f \in ToSet(Messages[desc]) : f.tag = t, m[t])]

-----------------------------------------------------------------------------
(* The iterator stands at a field and looks for a tag: from the beginning  *)
(* when the tag is smaller, else onwards and round.                        *)
Advance(fields, k) == IF k >= Len(fields) THEN 1 ELSE k + 1

RECURSIVE FindFrom(_, _, _, _)
FindFrom(fields, k, start, tag) ==
    LET next == Advance(fields, k)
    IN  IF fields[next].tag = tag THEN next
        ELSE IF next = start THEN 0
        ELSE FindFrom(fields, next, start, tag)

IterFind(fields, at, tag) ==
    IF fields[at].tag = tag THEN at
    ELSE IF tag > fields[Len(fields)].tag THEN 0
    ELSE FindFrom(fields, IF tag < fields[at].tag THEN Len(fields) ELSE at, at, tag)
=============================================================================
