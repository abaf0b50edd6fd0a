--------------------------- MODULE MCQueryParser ---------------------------
(* Statements like those of lab2/test.txt, and the texts that come of one  *)
(* mistake in typing them.                                                 *)
EXTENDS QueryParserProps

W(stem) == Word(0, stem)
Key == W("year")
SKey == Word(1, "core")   \* score
LongKey == W("longerThanTwelve")
MCLong == {"longerThanTwelve"}

E(key, type, value) == [key |-> key, type |-> type, value |-> value]
Year == E(Key, "INT", W("5"))
Married == E(W("married"), "BOOLEAN", W("true"))
Raid == E(W("raid"), "DOUBLE", W("2.5"))
Joe == E(SKey, "STRING", Word(1, "am"))
TooLong == E(LongKey, "INT", W("7"))

Is(e) == [is |-> "plain", e |-> e]
Cmp(op, e) == [is |-> "compare", op |-> W(op), e |-> e]
Logic(op, groups) == [is |-> "logic", op |-> W(op), groups |-> groups]

Conditions1 == {<< >>, <<<<Is(Year)>>>>, <<<<Cmp("NEQ", Joe), Is(Raid), Is(Year)>>>>,
                <<<<Is(Joe)>>, <<Cmp("GT", Year), Is(Married)>>, <<Is(Raid)>>>>,
                <<<<Is(Year), Logic("OR", <<<<Is(Joe), Cmp("LTE", Raid)>>>>)>>>>,
                <<<<Logic("AND", <<<<Is(Joe)>>, <<Is(Year), Is(Married)>>,
                                   <<Logic("OR", <<<<Is(Raid)>>, <<Is(Joe)>>>>)>>>>), Is(Year)>>>>,
                <<<<Is(TooLong)>>>>}

Doc(name, es) == [name |-> name, elements |-> es]
Documents1 == {<<Doc(W("child"), <<Year>>)>>,
               <<Doc(W("child"), <<Joe, Year, Married>>), Doc(W("root"), <<Raid, Year>>),
                 Doc(W("root"), <<Married>>)>>,
               <<Doc(W("child"), <<Year, TooLong>>), Doc(W("root"), <<Year>>)>>,
               <<Doc(W("child"), <<TooLong, Year>>)>>,
               <<Doc(W("child"), <<Year>>), Doc(LongKey, <<Raid>>)>>}

Ask(kind, name, groups, commas, docs, set, limit) ==
    [kind |-> kind, name |-> name, groups |-> groups, commas |-> commas,
     docs |-> docs, set |-> set, limit |-> limit]

Tree == Word(0, "tree")

MCStatements ==
    {Ask(kind, Tree, g, c, << >>, << >>, NULL) : kind \in {"find", "deleteOne"}, g \in Conditions1, c \in {1, 2}}
    \cup {Ask(kind, n, g, 2, << >>, << >>, <<W("50")>>) :
             kind \in {"find", "deleteMany"}, n \in {Tree, LongKey}, g \in Conditions1}
    \cup {Ask("findOne", Word(1, "chool"), << >>, 1, << >>, << >>, NULL)}
    \cup {Ask(kind, Tree, << >>, 1, d, << >>, NULL) : kind \in {"insertOne", "insertMany"}, d \in Documents1}
    \cup {Ask(kind, Tree, g, 2, << >>, s, NULL) :
             kind \in {"updateOne", "updateMany"}, g \in Conditions1 \ {<< >>},
             s \in {<<Year>>, <<Joe, Raid, Married>>, <<TooLong, Year>>}}
    \cup {Ask("updateMany", Tree, <<<<Is(Year)>>>>, 1, << >>, <<Joe, Year>>, <<W("3")>>)}

(* The statements typed with a lexeme left out, or with a stray character  *)
(* instead of one or between two.                                          *)
Mistyped ==
    {Ask("find", Tree, g, 2, << >>, << >>, <<W("50")>>) : g \in Conditions1}
    \cup {Ask("insertMany", Tree, << >>, 1, d, << >>, NULL) : d \in Documents1}
    \cup {Ask("updateMany", Tree, <<<<Is(Year)>>, <<Is(Raid), Is(Joe)>>>>, 2, << >>, <<Joe, Year>>, <<W("3")>>)}
Without(s, k) == SubSeq(s, 1, k - 1) \o SubSeq(s, k + 1, Len(s))
With(s, k) == SubSeq(s, 1, k) \o <<Sym("STRAY")>> \o SubSeq(s, k + 1, Len(s))

MCTexts ==
    {Lexemes(st) : st \in MCStatements}
    \cup {Lexemes(Ask("find", Tree, <<<<Is(E(Word(2, ""), "INT", W("5")))>>>>, 1, << >>, << >>, NULL))}
    \cup UNION {{Without(Lexemes(st), k) : k \in DOMAIN Lexemes(st)} : st \in Mistyped}
    \cup UNION {{With(Lexemes(st), k) : k \in DOMAIN Lexemes(st)} : st \in Mistyped}
    \cup UNION {{[Lexemes(st) EXCEPT ![k] = Sym("STRAY")] : k \in DOMAIN Lexemes(st)} : st \in Mistyped}
=============================================================================
