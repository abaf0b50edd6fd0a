------------------------------- MODULE PbWire -------------------------------
(***************************************************************************)
(* The wire layer of nanopb (lab3/nanopb/pb_encode.c, pb_decode.c): the    *)
(* output stream with its limit and its sizing mode, the input stream with *)
(* its substreams, variable-length integers, tags, strings.  An operation  *)
(* takes a stream and gives the stream behind it; on a stream that has     *)
(* failed it does nothing, as its callers return at once.                  *)
(***************************************************************************)
EXTENDS Integers, SequencesExt

CONSTANT Half  \* the bits of a uint32_t; a uint64_t has twice as many

ASSUME HalfAssumption == Half \in Nat /\ Half > 7 /\ Half % 7 # 0

Wide == 2 * Half
Low7 == 128

Unsigned(v, bits) == v % 2^bits
(* A cast to a signed integer. *)
Signed(v, bits) == LET u == v % 2^bits IN IF u >= 2^(bits - 1) THEN u - 2^bits ELSE u

-----------------------------------------------------------------------------
(* pb_ostream_t: what is in the buffer, bytes_written, max_size, no        *)
(* callback (sizing), and how the stream is.                               *)
OStream(max) == [buf |-> << >>, written |-> 0, max |-> max, sizing |-> FALSE, st |-> "ok"]
SizingStream == [OStream(0) EXCEPT !.sizing = TRUE]
Broken(s, how) == [s EXCEPT !.st = how]

(* pb_write without data, in a stream that only counts. *)
Skip(os, n) == IF os.st # "ok" THEN os ELSE [os EXCEPT !.written = @ + n]

(* One byte too many fits. *)
BadWrite(os, bytes) ==
    IF os.st # "ok" THEN os
    ELSE IF os.sizing THEN Skip(os, Len(bytes))
    ELSE IF bytes # << >> /\ os.written + Len(bytes) > os.max + 1 THEN Broken(os, "stream full")
    ELSE [os EXCEPT !.buf = @ \o bytes, !.written = @ + Len(bytes)]

Write(os, bytes) ==
    IF os.st # "ok" THEN os
    ELSE IF os.sizing THEN Skip(os, Len(bytes))
    ELSE IF bytes # << >> /\ os.written + Len(bytes) > os.max THEN Broken(os, "stream full")
    ELSE [os EXCEPT !.buf = @ \o bytes, !.written = @ + Len(bytes)]

(* A varint is 7 bits a byte, and the code shifts the two halves of the    *)
(* value apart: LowBytes of the low half are full, LowRest bits are left.  *)
LowBytes == Half \div 7
LowRest == Half % 7

RECURSIVE LowLoop(_, _, _, _), HighLoop(_, _, _)
LowLoop(buffer, byte, low, high) ==
    IF Len(buffer) < LowBytes /\ (low # 0 \/ high # 0)
    THEN LowLoop(Append(buffer, byte + Low7), low % Low7, low \div Low7, high)
    ELSE <<buffer, byte>>
HighLoop(buffer, byte, high) ==
    IF high = 0 THEN Append(buffer, byte)
    ELSE HighLoop(Append(buffer, byte + Low7), high % Low7, high \div Low7)

Varint32(low, high) ==
    LET l == LowLoop(<< >>, low % Low7, low \div Low7, high)
        room == 2^(7 - LowRest)
    IN  IF high = 0 THEN Append(l[1], l[2])
        ELSE HighLoop(l[1], l[2] + (high % room) * 2^LowRest, high \div room)

Varint(value) ==
    IF value <= 127 THEN <<value>> ELSE Varint32(value % 2^Half, value \div 2^Half)

EncodeVarint(os, value) == Write(os, Varint(value))

Zigzag(value) == IF value < 0 THEN -2 * value - 1 ELSE 2 * value
EncodeSvarint(os, value) == EncodeVarint(os, Zigzag(value))

WtVarint == 0
Wt64Bit == 1
WtString == 2
Wt32Bit == 5
WtPacked == 255

EncodeTag(os, wiretype, number) == EncodeVarint(os, number * 8 + wiretype)
EncodeString(os, bytes) == Write(EncodeVarint(os, Len(bytes)), bytes)

-----------------------------------------------------------------------------
(* pb_istream_t: the bytes left.  An operation gives the value it has read *)
(* with the stream.                                                        *)
IStream(bytes) == [left |-> bytes, st |-> "ok"]
Got(is, value) == [is |-> is, val |-> value]
Failed(is, how) == Got(Broken(is, how), 0)

Read(is, n) ==
    IF is.st # "ok" THEN Got(is, << >>)
    ELSE IF Len(is.left) < n THEN Got(Broken(is, "end-of-stream"), << >>)
    ELSE Got([is EXCEPT !.left = SubSeq(@, n + 1, Len(@))], SubSeq(is.left, 1, n))

ReadByte(is) ==
    LET r == Read(is, 1) IN IF r.is.st = "ok" THEN Got(r.is, r.val[1]) ELSE Failed(r.is, r.is.st)

More(byte) == byte >= Low7
WideRest == Wide % 7

(* bitpos >= 64: a varint that does not end is a varint overflow. *)
RECURSIVE VarintLoop(_, _, _), Varint32Loop(_, _, _)
VarintByte(r, result, bitpos) ==
    LET value == result + (r.val % Low7) * 2^bitpos
    IN  IF r.is.st # "ok" THEN r
        ELSE IF bitpos + 7 > Wide /\ r.val >= 2^WideRest THEN Failed(r.is, "varint overflow")
        ELSE IF More(r.val) THEN VarintLoop(r.is, value, bitpos + 7)
        ELSE Got(r.is, value)

VarintLoop(is, result, bitpos) == VarintByte(ReadByte(is), result, bitpos)

DecodeVarint(is) == VarintLoop(is, 0, 0)

(* Bytes behind the 32 bits must be sign extension, or zero. *)
SignExtension(result, byte, bitpos) ==
    \/ byte % Low7 = 0
    \/ result >= 2^(Half - 1) /\ byte = IF bitpos + 7 <= Wide THEN 255 ELSE 2^WideRest - 1

(* In the byte that ends the 32 bits, the bits behind them are zero or     *)
(* continue the sign.                                                      *)
FitsLow(byte) ==
    \/ (byte % Low7) \div 2^LowRest = 0
    \/ (byte % Low7) \div 2^(LowRest - 1) = 2^(8 - LowRest) - 1

Varint32Byte(r, result, bitpos) ==
    LET value == IF bitpos >= Half THEN result
                 ELSE IF bitpos + 7 > Half THEN result + (r.val % 2^LowRest) * 2^bitpos
                 ELSE result + (r.val % Low7) * 2^bitpos
    IN  IF r.is.st # "ok" THEN r
        ELSE IF \/ bitpos >= Half /\ (bitpos >= Wide \/ ~SignExtension(result, r.val, bitpos))
                \/ bitpos < Half /\ bitpos + 7 > Half /\ ~FitsLow(r.val)
             THEN Failed(r.is, "varint overflow")
        ELSE IF More(r.val) THEN Varint32Loop(r.is, value, bitpos + 7)
        ELSE Got(r.is, value)

Varint32Loop(is, result, bitpos) == Varint32Byte(ReadByte(is), result, bitpos)

DecodeVarint32(is) == Varint32Loop(is, 0, 0)

DecodeBool(is) == [DecodeVarint32(is) EXCEPT !.val = <<IF @ = 0 THEN 0 ELSE 1>>]

DecodeSvarint(is) ==
    [DecodeVarint(is) EXCEPT !.val = IF @ % 2 = 1 THEN -(@ \div 2) - 1 ELSE @ \div 2]

RECURSIVE SkipVarint(_)
SkipVarint(is) ==
    LET r == ReadByte(is) IN IF r.is.st = "ok" /\ More(r.val) THEN SkipVarint(r.is) ELSE r.is

SkipString(is) ==
    LET r == DecodeVarint32(is) IN IF r.is.st = "ok" THEN Read(r.is, r.val).is ELSE r.is

(* The length of the string is not skipped with it. *)
BadSkipField(is, wiretype) ==
    IF wiretype = WtString THEN DecodeVarint32(is).is ELSE SkipVarint(is)

SkipField(is, wiretype) ==
    CASE wiretype = WtVarint -> SkipVarint(is)
      [] wiretype = Wt64Bit -> Read(is, 8).is
      [] wiretype = WtString -> SkipString(is)
      [] wiretype = Wt32Bit -> Read(is, 4).is
      [] OTHER -> Broken(is, "invalid wire_type")

(* The number of the field and its wire type. *)
DecodeTag(is) ==
    [DecodeVarint32(is) EXCEPT !.val = [tag |-> @ \div 8, wiretype |-> @ % 8]]

(* As much of the string as there is. *)
BadStringSubstream(is) ==
    LET r == DecodeVarint32(is)
        n == IF r.val > Len(r.is.left) THEN Len(r.is.left) ELSE r.val
        s == Read(r.is, n)
    IN  IF r.is.st # "ok" THEN Got(r.is, IStream(<< >>)) ELSE Got(s.is, IStream(s.val))

Substream(r) ==
    IF r.is.st # "ok" THEN Got(r.is, IStream(<< >>))
    ELSE IF Len(r.is.left) < r.val THEN Got(Broken(r.is, "parent stream too short"), IStream(<< >>))
    ELSE [Read(r.is, r.val) EXCEPT !.val = IStream(@)]

(* The stream behind a string, and a stream of the string alone; closing   *)
(* the substream passes over what is left in it.                           *)
StringSubstream(is) == Substream(DecodeVarint32(is))

CloseSubstream(is, sub) == IF sub.st = "ok" THEN is ELSE Broken(is, sub.st)

(* A scalar as it stands, for a callback. *)
RECURSIVE RawVarint(_, _)
RawVarint(is, size) ==
    LET r == ReadByte(is)
    IN  IF size = 10 THEN Got(Broken(is, "varint overflow"), << >>)
        ELSE IF r.is.st # "ok" THEN Got(r.is, << >>)
        ELSE IF More(r.val)
             THEN LET rest == RawVarint(r.is, size + 1) IN Got(rest.is, <<r.val>> \o rest.val)
        ELSE Got(r.is, <<r.val>>)

ReadRawValue(is, wiretype) ==
    CASE wiretype = WtVarint -> RawVarint(is, 0)
      [] wiretype = Wt64Bit -> Read(is, 8)
      [] wiretype = Wt32Bit -> Read(is, 4)
      [] OTHER -> Got(Broken(is, "invalid wire_type"), << >>)
=============================================================================
