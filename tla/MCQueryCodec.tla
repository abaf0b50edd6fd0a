---------------------------- MODULE MCQueryCodec ----------------------------
(***************************************************************************)
(* Queries and messages for TLC.  "Whole" is a message with a field of     *)
(* every kind nanopb knows, "Part" what a reader of an older schema knows  *)
(* of it.  Integers have 15 and 30 bits for 32 and 64.                     *)
(***************************************************************************)
EXTENDS QueryCodec

MustHave(tag, ltype, size) == Field(tag, "STATIC", "REQUIRED", ltype, size, 0, "", {})
Present(tag, ltype, size) == Field(tag, "STATIC", "OPTIONAL", ltype, size, 0, "", {"sized"})
Many(tag, ltype, size, more) == Field(tag, "STATIC", "REPEATED", ltype, size, 2, "", more)

InnerFields == <<Singular(1, "BOOL", 1), Singular(2, "SVARINT", Half)>>
WholeFields ==
    <<MustHave(1, "SVARINT", Half), Present(2, "VARINT", Half), Singular(3, "STRING", 4),
      Many(4, "SVARINT", Half, {}), Singular(5, "FIXED32", 4), Present(6, "FIXED64", 8),
      Singular(7, "BYTES", 2), Present(8, "FIXED_LENGTH_BYTES", 2), Many(9, "UVARINT", Half, {"fixed"}),
      Member(10, "BOOL", 1), Field(11, "STATIC", "ONEOF", "SUBMESSAGE", 0, 0, "Inner", {}),
      Many(12, "FIXED32", 4, {}), Many(13, "STRING", 3, {}), Singular(14, "UVARINT", Wide),
      Array(16, "Inner", 2), Singular(17, "BOOL", 1)>>
PartFields == SelectSeq(WholeFields, LAMBDA f : f.tag \in {1, 4, 14, 16})

MCMessages ==
    [d \in {"Whole", "Part", "Inner"} |->
        CASE d = "Whole" -> WholeFields [] d = "Part" -> PartFields [] d = "Inner" -> InnerFields]
    @@ QueryDescriptors

Inner(b, v) == <<Slot(1, <<b>>), Slot(1, <<v>>)>>

Settings ==
    {<<2, Slot(1, <<-3>>)>>, <<3, Slot(1, <<65, 66, 67>>)>>, <<4, Slot(2, <<<<-70>>, <<1>>>>)>>,
     <<5, Slot(1, <<1, 0, 0, 8>>)>>, <<6, Slot(1, <<7, 0, 0, 0, 0, 0, 0, 1>>)>>,
     <<7, Slot(1, <<0, 130>>)>>, <<8, Slot(1, <<5, 6>>)>>, <<9, Slot(2, <<<<200>>, <<1>>>>)>>,
     <<10, Slot(10, <<1>>)>>, <<11, Slot(11, Inner(1, 0))>>,
     <<12, Slot(2, <<<<1, 2, 3, 4>>, <<8, 8, 8, 8>>>>)>>, <<13, Slot(2, <<<<65>>, << >>>>)>>,
     <<14, Slot(1, <<2^Half + 5>>)>>, <<16, Slot(2, <<Inner(0, -9), Inner(1, 0)>>)>>,
     <<17, Slot(1, <<1>>)>>}

(* The fixed count array is always sent whole; the others one or two.      *)
Base == [Blank("Whole") EXCEPT ![1] = Slot(1, <<-65>>), ![9] = Slot(2, <<<<0>>, <<3>>>>)]
Set(m, s) == WithSlot("Whole", m, CHOOSE f \in ToSet(WholeFields) : f.tag = s[1], s[2])
WholeMessages == {Set(Set(Base, s), t) : s, t \in Settings}

Job(m, flags, max) == [desc |-> "Whole", msg |-> m, flags |-> flags, max |-> max]
MCJobs == {Job(m, flags, max) : m \in WholeMessages,
                                flags \in {"none", "delimited", "nullterminated"}, max \in {15, 60}}
MCReadersOf == [d \in {"Whole"} |-> {"Whole", "Part"}]

-----------------------------------------------------------------------------
El(type, key, value) == [type |-> type, key |-> key, value |-> value]
Number == El(ElInt, <<97>>, <<-2>>)
Truth == El(ElBoolean, <<98, 99>>, <<1>>)
Half1 == El(ElDouble, << >>, <<0, 0, 0, 0, 0, 0, 240, 63>>)
Word == El(ElString, <<97>>, <<104, 105>>)
LongWord == El(ElString, <<97>>, <<104, 105, 106, 107>>)

Leaf(op, e) == [op |-> op, one |-> <<e>>, two |-> << >>]
Node(op, c, d) == [op |-> op, one |-> <<c>>, two |-> <<d>>]
Pair == Node(OpOr, Leaf(4, Word), Leaf(1, Number))
Deep == Node(OpAnd, Pair, Node(OpAnd, Leaf(0, Half1), Leaf(1, Truth)))

Conditions == {<< >>, <<Leaf(0, Number)>>, <<Leaf(3, LongWord)>>, <<Pair>>, <<Deep>>,
               <<Node(OpAnd, Leaf(5, Truth), Deep)>>,
               <<[Leaf(OpAnd, Number) EXCEPT !.one = << >>]>>,
               <<[Pair EXCEPT !.two = << >>]>>, <<[Pair EXCEPT !.op = OpSameLevel]>>}

Doc(name, elements) == [name |-> name, elements |-> elements]
DocumentLists ==
    {<< >>, << << >> >>} \cup
    {<<ds>> : ds \in {<<Doc(<<100>>, << >>)>>, <<Doc(<<100>>, <<Number, Truth>>)>>,
                      <<Doc(<< >>, <<Word>>), Doc(<<101, 102>>, <<Half1>>)>>,
                      <<Doc(<<100>>, <<LongWord>>)>>,
                      <<Doc(<<100>>, <<Number, Number, Number>>)>>,
                      [k \in 1..3 |-> Doc(<<100>>, << >>)]}}

MCQueries ==
    {[type |-> type, name |-> name, condition |-> c, documents |-> ds, limit |-> limit] :
        type \in {0, 3}, name \in {<< >>, <<<<110, 97>>>>}, c \in Conditions,
        ds \in DocumentLists, limit \in {-1, 7}}
=============================================================================
