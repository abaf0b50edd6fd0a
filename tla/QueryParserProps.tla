-------------------------- MODULE QueryParserProps --------------------------
(***************************************************************************)
(* What a query must say after parsing, from the statement a user meant.   *)
(* A statement is a record: a kind (the word behind the last dot), a name, *)
(* the groups of conditions ({...} each) with the commas typed between     *)
(* them, the documents, the elements to set, and the limit typed or NULL.  *)
(***************************************************************************)
EXTENDS QueryParser

CONSTANT Statements

-----------------------------------------------------------------------------
(* The lexemes of a statement.  A key is typed after a blank.              *)
Lexeme(t, v, spaced) == [t |-> t, v |-> v, spaced |-> spaced]
Sym(t) == Lexeme(t, Word(0, ""), FALSE)
Syms(ts) == [k \in DOMAIN ts |-> Sym(ts[k])]
Plain(word) == <<Lexeme("WORD", word, FALSE)>>

Joined(parts, commas) ==
    FoldLeft(LAMBDA acc, part : IF acc = << >> THEN part
                                ELSE acc \o [k \in 1..commas |-> Sym(",")] \o part,
             << >>, parts)

ValueText(e) ==
    IF e.type = "STRING" THEN Syms(<<"QUOTE">>) \o Plain(e.value) \o Syms(<<"QUOTE">>)
    ELSE <<Lexeme(e.type, e.value, FALSE)>>
KeyText(e) == <<Lexeme("WORD", e.key, TRUE), Sym(":")>>
ElementsText(es) == Joined([k \in DOMAIN es |-> KeyText(es[k]) \o ValueText(es[k])], 1)

RECURSIVE ConditionText(_, _)
GroupsText(groups, commas) ==
    Joined([g \in DOMAIN groups |->
               Syms(<<"{">>)
               \o Joined([k \in DOMAIN groups[g] |-> ConditionText(groups[g][k], commas)], 1)
               \o Syms(<<"}">>)],
           commas)
ConditionText(c, commas) ==
    CASE c.is = "logic" -> <<Lexeme("LOGIC", c.op, FALSE)>> \o Syms(<<":", "[">>)
                           \o GroupsText(c.groups, commas) \o Syms(<<"]">>)
      [] c.is = "plain" -> ElementsText(<<c.e>>)
      [] c.is = "compare" -> KeyText(c.e) \o <<Sym("{"), Lexeme("CMP", c.op, FALSE), Sym(":")>>
                             \o ValueText(c.e) \o Syms(<<"}">>)

DocumentText(d) ==
    Syms(<<"{", "doc_name", ":">>) \o Plain(d.name) \o Syms(<<",">>)
    \o ElementsText(d.elements) \o Syms(<<"}">>)

Arguments(st) ==
    CASE st.kind = "insertOne" -> Joined([k \in DOMAIN st.docs |-> DocumentText(st.docs[k])], 1)
      [] st.kind = "insertMany" ->
           Syms(<<"[">>) \o Joined([k \in DOMAIN st.docs |-> DocumentText(st.docs[k])], 1) \o Syms(<<"]">>)
      [] st.kind \in {"updateOne", "updateMany"} ->
           GroupsText(st.groups, st.commas) \o Syms(<<",", "{", "$", "set", ":", "{">>)
           \o ElementsText(st.set) \o Syms(<<"}", "}">>)
      [] OTHER -> GroupsText(st.groups, st.commas)

Lexemes(st) ==
    Syms(<<"db", ".">>) \o Plain(st.name) \o Syms(<<".", st.kind, "(">>) \o Arguments(st) \o Syms(<<")">>)
    \o (IF st.limit = NULL THEN << >>
        ELSE Syms(<<".", "limit", "(">>) \o <<Lexeme("INT", st.limit[1], FALSE)>> \o Syms(<<")">>))
    \o Syms(<<";">>)

-----------------------------------------------------------------------------
(* What the statement means.                                               *)

(* A key without the letters s it begins with, which follow a blank. *)
Heard(e) == [e EXCEPT !.key = Word(0, @.stem)]
Made(es) == SelectSeq([k \in DOMAIN es |-> Heard(es[k])], LAMBDA e : ~IsLong(e.key))

(* An element that is not created, with another one behind it. *)
Spoiled(es) == \E k \in DOMAIN es : k < Len(es) /\ IsLong(es[k].key)

(* A list of groups with one comma between them is not accepted. *)
RECURSIVE TooMany(_, _)
TooMany(groups, commas) ==
    \/ Len(groups) > 1 /\ commas = 1
    \/ \E g \in DOMAIN groups : \E k \in DOMAIN groups[g] :
          groups[g][k].is = "logic" /\ TooMany(groups[g][k].groups, commas)

(* The conditions a list of groups asks for, in order; of more groups in a *)
(* logical condition the first is the second operand.                      *)
RECURSIVE Meant(_)
Meant(groups) ==
    LET Condition1(c) ==
          CASE c.is = "logic" ->
                 [op |-> c.op.stem,
                  one |-> Meant(IF Len(c.groups) = 1 THEN c.groups ELSE Tail(c.groups)),
                  two |-> IF Len(c.groups) = 1 THEN << >> ELSE Meant(<<c.groups[1]>>)]
            [] OTHER -> [op |-> IF c.is = "plain" THEN "EQ" ELSE c.op.stem,
                         one |-> Made(<<c.e>>), two |-> << >>]
    IN  FlattenSeq([g \in DOMAIN groups |-> [k \in DOMAIN groups[g] |-> Condition1(groups[g][k])]])

(* The conditions of a tree, with SAME_LEVEL taken apart. *)
RECURSIVE Flat(_)
Flat(condition) ==
    IF condition = NULL THEN << >>
    ELSE LET c == condition[1]
         IN  CASE c.op = "SAME_LEVEL" -> Flat(c.one) \o Flat(c.two)
               [] c.op \in {"AND", "OR"} -> <<[op |-> c.op, one |-> Flat(c.one), two |-> Flat(c.two)]>>
               [] OTHER -> <<[op |-> c.op, one |-> c.one, two |-> c.two]>>

DocumentsMeant(st) ==
    CASE st.docs # << >> -> Reverse([k \in DOMAIN st.docs |->
                              [name |-> st.docs[k].name, elements |-> Made(st.docs[k].elements)]])
      [] st.set # << >> -> <<[name |-> Word(0, "0"), elements |-> Made(st.set)]>>
      [] OTHER -> << >>

TypeMeant(st) ==
    CASE st.kind \in {"find", "findOne"} -> "SELECT"
      [] st.kind \in {"deleteOne", "deleteMany"} -> "DELETE"
      [] st.kind \in {"updateOne", "updateMany"} -> "UPDATE"
      [] OTHER -> "INSERT"

Says(q, st) ==
    /\ q.type = TypeMeant(st)
    /\ q.name = IF IsLong(st.name) THEN NULL ELSE <<st.name>>
    /\ q.limit = IF st.limit = NULL THEN NoLimit ELSE st.limit[1]
    /\ Flat(q.condition) = Meant(st.groups)
    /\ q.documents = DocumentsMeant(st)

OutcomeMeant(st) ==
    CASE TooMany(st.groups, st.commas) -> "error"
      [] \/ Spoiled(st.set)
         \/ \E k \in DOMAIN st.docs : IsLong(st.docs[k].name) \/ Spoiled(st.docs[k].elements) -> "crash"
      [] OTHER -> "accepted"

Done == outcome \notin {"typed", "scanned"}

-----------------------------------------------------------------------------
(* A text without the characters that no rule of the scanner matches. *)
Clean(lexemes) == SelectSeq(lexemes, LAMBDA lexeme : lexeme.t # "STRAY")

(* A statement becomes the query it means, stray characters or not: all    *)
(* conditions of a list in their order although the grammar folds them     *)
(* from the right (and the operands of a logical condition change places), *)
(* all elements, the documents last first, the limit only where one was    *)
(* typed.  The keys are what the scanner leaves of them: the letters s a   *)
(* key begins with are swallowed with the blank before it (lex.l:9), so    *)
(* `score` is `core`.  A statement is refused when groups are separated by *)
(* one comma, which the conflict of parser.y:211 and 224 gives to the      *)
(* first group; it crashes when a key or a name of more than 12 letters    *)
(* leaves a NULL that is followed.                                         *)
ParsesAsMeant ==
    \A st \in Statements : Clean(text) = Lexemes(st) /\ Done =>
        /\ outcome = OutcomeMeant(st)
        /\ outcome = "accepted" => Says(query[1], st)

Payload(ts) == SelectSeq(ts, LAMBDA token : token.t \in {"WORD", "INT", "DOUBLE", "BOOLEAN"})

(* The words and values in a query, a value with its type. *)
ElementWords(e) == <<Token("WORD", e.key),
                     Token(IF e.type = "STRING" THEN "WORD" ELSE e.type, e.value)>>
ElementsWords(es) == FlattenSeq([k \in DOMAIN es |-> ElementWords(es[k])])

RECURSIVE ConditionWords(_)
ConditionWords(condition) ==
    IF condition = NULL THEN << >>
    ELSE IF condition[1].op \in {"AND", "OR", "SAME_LEVEL"}
         THEN ConditionWords(condition[1].one) \o ConditionWords(condition[1].two)
         ELSE ElementsWords(condition[1].one)

QueryWords(q) ==
    [k \in DOMAIN q.name |-> Token("WORD", q.name[k])]
    \o ConditionWords(q.condition)
    \o FlattenSeq([k \in DOMAIN q.documents |->
           (IF q.type = "UPDATE" THEN << >> ELSE <<Token("WORD", q.documents[k].name)>>)
           \o ElementsWords(q.documents[k].elements)])
    \o (IF q.limit = NoLimit THEN << >> ELSE <<Token("INT", q.limit)>>)

Times(x, s) == Cardinality({k \in DOMAIN s : s[k] = x})

(* Whatever text is accepted, mistyped ones and stray characters included: *)
(* every word, name and value the scanner delivered is in the query, as    *)
(* often as it was typed, and nothing else is.  The actions hand pointers on through a global     *)
(* union and a chain of `next`: none may be lost or used twice.            *)
WordsKept ==
    (outcome = "accepted" /\ \A k \in DOMAIN tokens : ~IsLong(tokens[k].v)) =>
        LET typed == Payload(tokens)
            kept == QueryWords(query[1])
        IN  /\ Len(typed) = Len(kept)
            /\ \A k \in DOMAIN typed : Times(typed[k], typed) = Times(typed[k], kept)
=============================================================================
