---------------------------- MODULE QueryParser ----------------------------
(***************************************************************************)
(* The query language of lab2: the scanner (lab2/lex.l), the grammar with  *)
(* its semantic actions (lab2/parser.y) and the constructors of the query  *)
(* they call (lab2/ast.c).  One operator per nonterminal takes the tokens  *)
(* that are left and gives the value the productions build, with the rest  *)
(* of the tokens.  Bison resolves the conflicts of the grammar by a shift: *)
(* the comma behind a query_condition always belongs to it.                *)
(*                                                                         *)
(* A word or numeral is its number of leading letters s and the stem       *)
(* behind them: the scanner's class of blanks contains the letter          *)
(* (lex.l:9).  A pointer is a sequence: empty for NULL.                    *)
(***************************************************************************)
EXTENDS Integers, SequencesExt

CONSTANTS Texts,  \* the sequences of lexemes a user may type
          Long    \* the stems of more than 12 letters

VARIABLES text,     \* the lexemes typed
          tokens,   \* what the scanner made of them
          outcome,  \* "typed", "scanned", "accepted", "error" or "crash"
          query     \* the query_t built

vars == <<text, tokens, outcome, query>>

NULL == << >>
Word(s, stem) == [s |-> s, stem |-> stem]
IsLong(word) == word.stem \in Long

-----------------------------------------------------------------------------
(* The constructors (ast.c).                                               *)

CreateElement(key, type, value) ==
    IF IsLong(key) THEN NULL ELSE <<[key |-> key, type |-> type, value |-> value]>>

(* `elements` is left uninitialized (lab2/ast.c:49) and given to realloc    *)
(* by the first addElement (ast.c:62).  The model begins with no elements, *)
(* as when malloc gives zeroed memory; with other contents realloc may     *)
(* abort the program, which is not modelled.                               *)
CreateDocument(name) == IF IsLong(name) THEN NULL ELSE <<[name |-> name, elements |-> << >>]>>

(* The last element is left out. *)
BadAddElements(document, els) == [document EXCEPT !.elements = Front(els)]

(* The chain `next` of elements becomes the array of the document. *)
AddElements(document, els) == [document EXCEPT !.elements = @ \o els]

(* The new document goes to the front. *)
BadAddQueryResult(result, document) == <<document>> \o result

AddQueryResult(result, document) == Append(result, document)

CreateCondition(op, one, two) == <<[op |-> op, one |-> one, two |-> two]>>

NoLimit == Word(0, "-1")

CreateManyQuery(type, name, condition, documents, limit) ==
    [type |-> type, name |-> IF IsLong(name) THEN NULL ELSE <<name>>,
     condition |-> condition, documents |-> documents, limit |-> limit]

CreateQuery(type, name, condition, documents) ==
    CreateManyQuery(type, name, condition, documents, NoLimit)

-----------------------------------------------------------------------------
Token(t, v) == [t |-> t, v |-> v]
Symbol(t) == Token(t, Word(0, ""))

(* Scanning: blanks are longest match, and swallow the letters s that      *)
(* follow; a word of nothing else is blank wherever it stands.  A stray    *)
(* character, for which there is no rule, is echoed and skipped: flex's    *)
(* own rule takes one character, more than the empty rule of lex.l:12,     *)
(* which therefore never wins and never returns EMPTY.                     *)
Scanned(lexeme) ==
    CASE lexeme.t = "STRAY" -> << >>
      [] lexeme.t = "WORD" /\ lexeme.v.stem = "" -> << >>
      [] lexeme.t = "WORD" /\ lexeme.spaced -> <<Token("WORD", Word(0, lexeme.v.stem))>>
      [] OTHER -> <<Token(lexeme.t, lexeme.v)>>

Yylex(lexemes) == FlattenSeq([k \in DOMAIN lexemes |-> Scanned(lexemes[k])])

-----------------------------------------------------------------------------
(* The outcome of parsing a nonterminal. *)
Built(value, rest) == [is |-> "accepted", val |-> value, rest |-> rest]
Error == [is |-> "error", val |-> NULL, rest |-> << >>]
Crash == [is |-> "crash", val |-> NULL, rest |-> << >>]

Starts(ts, kinds) ==
    Len(ts) >= Len(kinds) /\ \A k \in DOMAIN kinds : ts[k].t = kinds[k]
After(ts, n) == SubSeq(ts, n + 1, Len(ts))

Then(r, F(_)) == IF r.is = "accepted" THEN F(r) ELSE r
Expect(r, kinds) ==
    Then(r, LAMBDA p : IF Starts(p.rest, kinds) THEN Built(p.val, After(p.rest, Len(kinds)))
                       ELSE Error)

Scalar(ts) == ts # << >> /\ Head(ts).t \in {"INT", "DOUBLE", "BOOLEAN"}
Quoted == <<"QUOTE", "WORD", "QUOTE">>

(* intElement, doubleElement, boolElement, stringElement: key is read. *)
ElementValue(key, ts) ==
    IF Scalar(ts) THEN Built(CreateElement(key, Head(ts).t, Head(ts).v), Tail(ts))
    ELSE IF Starts(ts, Quoted) THEN Built(CreateElement(key, "STRING", ts[2].v), After(ts, 3))
    ELSE Error

ElementRule(ts) ==
    IF Starts(ts, <<"WORD", ":">>) THEN ElementValue(ts[1].v, After(ts, 2)) ELSE Error

(* `$1->next = $3` on an element that was not created. *)
RECURSIVE Elements(_)
Elements(ts) ==
    Then(ElementRule(ts),
         LAMBDA e : IF Starts(e.rest, <<",">>)
                    THEN Then(Elements(Tail(e.rest)),
                              LAMBDA r : IF e.val = NULL THEN Crash
                                         ELSE Built(e.val \o r.val, r.rest))
                    ELSE e)

(* addElements on a document that was not created. *)
Filled(document, els) ==
    IF document = NULL THEN NULL ELSE <<AddElements(document[1], els)>>

CreateDocumentRule(ts) ==
    IF Starts(ts, <<"{", "doc_name", ":", "WORD", ",">>)
    THEN Built(CreateDocument(ts[4].v), After(ts, 5)) ELSE Error

(* The documents behind this one are added first. *)
RECURSIVE FillDocument(_)
FillDocument(ts) ==
    Then(CreateDocumentRule(ts),
         LAMBDA d : Then(Expect(Elements(d.rest), <<"}">>),
            LAMBDA e : Then(IF Starts(e.rest, <<",">>) THEN FillDocument(Tail(e.rest))
                            ELSE Built(<< >>, e.rest),
               LAMBDA f : IF d.val = NULL THEN Crash
                          ELSE Built(AddQueryResult(f.val, Filled(d.val, e.val)[1]), f.rest))))

AddSetElements(ts) ==
    IF ~Starts(ts, <<"{", "$", "set", ":", "{">>) THEN Error
    ELSE Then(Expect(Elements(After(ts, 5)), <<"}", "}">>),
              LAMBDA e : Built(AddQueryResult(<< >>, Filled(CreateDocument(Word(0, "0")), e.val)[1]), e.rest))

-----------------------------------------------------------------------------
CmpCondition(ts) ==
    IF Starts(ts, <<"WORD", ":", "{", "CMP", ":">>)
    THEN Then(Expect(ElementValue(ts[1].v, After(ts, 5)), <<"}">>),
              LAMBDA e : Built(CreateCondition(ts[4].v.stem, e.val, NULL), e.rest))
    ELSE Then(ElementRule(ts), LAMBDA e : Built(CreateCondition("EQ", e.val, NULL), e.rest))

RECURSIVE Conditions(_), QueryConditions(_), Condition(_)

(* The comma behind the brace is shifted whenever there is one. *)
QueryCondition(ts) ==
    IF ~Starts(ts, <<"{">>) THEN Error
    ELSE Then(Expect(Conditions(Tail(ts)), <<"}">>),
              LAMBDA c : IF Starts(c.rest, <<",">>) THEN Built(c.val, Tail(c.rest)) ELSE c)

(* The conditions of a list that begins at ts and continues with More      *)
(* behind a comma; with NULL for "no more".                                *)
Listed(first, More(_)) ==
    Then(first,
         LAMBDA c : IF Starts(c.rest, <<",">>)
                    THEN Then(More(Tail(c.rest)),
                              LAMBDA r : Built(CreateCondition("SAME_LEVEL", c.val, r.val), r.rest))
                    ELSE c)

Conditions(ts) == Listed(Condition(ts), LAMBDA rest : Conditions(rest))

QueryConditions(ts) ==
    IF Starts(ts, <<"EMPTY">>) THEN Built(NULL, Tail(ts))
    ELSE Listed(QueryCondition(ts), LAMBDA rest : QueryConditions(rest))

(* The operands change places when there are two. *)
LogicalCondition(op, ts) ==
    Then(IF Starts(ts, <<"EMPTY">>) THEN QueryConditions(ts) ELSE QueryCondition(ts),
         LAMBDA c : Expect(IF Starts(c.rest, <<",">>)
                           THEN Then(QueryConditions(Tail(c.rest)),
                                     LAMBDA r : Built(CreateCondition(op, r.val, c.val), r.rest))
                           ELSE Built(CreateCondition(op, c.val, NULL), c.rest),
                           <<"]">>))

Condition(ts) ==
    IF Starts(ts, <<"LOGIC", ":", "[">>) THEN LogicalCondition(ts[1].v.stem, After(ts, 3))
    ELSE CmpCondition(ts)

-----------------------------------------------------------------------------
Input(ts) ==
    IF Starts(ts, <<"(", ")">>) THEN Built(NULL, After(ts, 2))
    ELSE IF Starts(ts, <<"(">>) THEN Expect(QueryConditions(Tail(ts)), <<")">>)
    ELSE Error

(* The query with the limit that may follow a ...Many. *)
Limited(type, name, condition, documents, many, ts) ==
    IF many /\ Starts(ts, <<".">>)
    THEN IF Starts(ts, <<".", "limit", "(", "INT", ")">>)
         THEN Built(CreateManyQuery(type, name, condition, documents, ts[4].v), After(ts, 5))
         ELSE Error
    ELSE Built(CreateQuery(type, name, condition, documents), ts)

(* selectOne, selectMany, deleteOne, deleteMany *)
InputQuery(type, name, many, ts) ==
    Then(Input(ts), LAMBDA i : Limited(type, name, i.val, NULL, many, i.rest))

(* updateOne, updateMany *)
UpdateQuery(name, many, ts) ==
    IF ~Starts(ts, <<"(">>) THEN Error
    ELSE Then(QueryConditions(Tail(ts)),
              LAMBDA c : Then(Expect(AddSetElements(c.rest), <<")">>),
                 LAMBDA s : Limited("UPDATE", name, c.val, s.val, many, s.rest)))

(* insertOne, insertMany *)
InsertQuery(name, open, close, ts) ==
    IF ~Starts(ts, open) THEN Error
    ELSE Then(Expect(FillDocument(After(ts, Len(open))), close),
              LAMBDA f : Built(CreateQuery("INSERT", name, NULL, f.val), f.rest))

QueryRule(ts) ==
    IF ~Starts(ts, <<"db", ".", "WORD", ".">>) \/ Len(ts) < 5 THEN Error
    ELSE LET name == ts[3].v
             rest == After(ts, 5)
         IN  CASE ts[5].t = "findOne" -> InputQuery("SELECT", name, FALSE, rest)
               [] ts[5].t = "find" -> InputQuery("SELECT", name, TRUE, rest)
               [] ts[5].t = "deleteOne" -> InputQuery("DELETE", name, FALSE, rest)
               [] ts[5].t = "deleteMany" -> InputQuery("DELETE", name, TRUE, rest)
               [] ts[5].t = "updateOne" -> UpdateQuery(name, FALSE, rest)
               [] ts[5].t = "updateMany" -> UpdateQuery(name, TRUE, rest)
               [] ts[5].t = "insertOne" -> InsertQuery(name, <<"(">>, <<")">>, rest)
               [] ts[5].t = "insertMany" -> InsertQuery(name, <<"(", "[">>, <<"]", ")">>, rest)
               [] OTHER -> Error

Yyparse(ts) == Expect(QueryRule(ts), <<";">>)

-----------------------------------------------------------------------------
Init ==
    /\ text \in Texts
    /\ tokens = << >>
    /\ outcome = "typed"
    /\ query = NULL

Scan ==
    /\ outcome = "typed"
    /\ tokens' = Yylex(text)
    /\ outcome' = "scanned"
    /\ UNCHANGED <<text, query>>

(* YYACCEPT hands the query to main. *)
Parse ==
    /\ outcome = "scanned"
    /\ LET r == Yyparse(tokens)
       IN  /\ outcome' = r.is
           /\ query' = IF r.is = "accepted" THEN <<r.val>> ELSE NULL
    /\ UNCHANGED <<text, tokens>>

Next == Scan \/ Parse

Spec == Init /\ [][Next]_vars /\ WF_vars(Next)
=============================================================================
