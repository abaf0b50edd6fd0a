---------------------------- MODULE QueryEngine ----------------------------
(***************************************************************************)
(* The query engine of lab1 (lab1/src/query.c): a query finds its start by *)
(* the root or by name, and treeQueryExecute walks from there along child  *)
(* and brother, reading a document before it acts on it and going on with  *)
(* the links it read.  The recursion is the stack `walk`; a deletion runs  *)
(* to its end (DocFile's own stack) while the walk waits.                  *)
(*                                                                         *)
(* `expected` is no variable of the program: it is what the query asks     *)
(* for, computed from the tree the client built when the query starts.     *)
(***************************************************************************)
EXTENDS DocTree, Conditions

CONSTANTS NameOf,     \* the name of a document a client may insert
          ContentOf,  \* its elements
          Queries     \* the SELECT, UPDATE, DELETE and PRINT queries tried

(* The elements that come from clients. *)
Known == UNION {Range(ContentOf[d]) : d \in Documents} \cup UNION {Range(q.update) : q \in Queries}

ASSUME QueryEngineAssumption ==
    /\ \A q \in Queries : /\ q.type \in {"SELECT", "UPDATE", "DELETE", "PRINT"}
                          /\ q.update \in Seq(Known)
    /\ \A d \in Documents : ContentOf[d] \in Seq(Known)

VARIABLES query,     \* the query that runs, or ran last
          walk,      \* the visits in progress, outermost first
          found,     \* what the visit that returned last returned
          hits,      \* query->result: the numbers of the documents added
          elements,  \* the elements readDocument gives for each inode
          expected

engineVars == <<query, walk, found, hits, elements, expected>>
queryVars == <<treeVars, engineVars>>

NoName == "NULL"
NoQuery == [type |-> "NONE", name |-> NoName, condition |-> NoCondition, update |-> << >>]

Calls == [id : Links, child : Links, brother : Links,
          at : {"lookup", "enter", "delete", "down", "child", "next", "brother"}]

EngineTypeOK ==
    /\ query \in Queries \cup {NoQuery}
    /\ walk \in Seq(Calls)
    /\ found \in BOOLEAN
    /\ hits \in Seq(Ids)
    /\ elements \in [Ids -> Seq(Known)]
    /\ expected \in [named : BOOLEAN, documents : SUBSET Ids, passedOver : SUBSET Ids]

EngineInit ==
    /\ TreeInit
    /\ query = NoQuery
    /\ walk = << >>
    /\ found = FALSE
    /\ hits = << >>
    /\ elements = [i \in Ids |-> << >>]
    /\ expected = [named |-> FALSE, documents |-> {}, passedOver |-> {}]

Free == Idle /\ walk = << >>

-----------------------------------------------------------------------------
Named(i, name) == NameOf[MetaOf(i).doc] = name

(* A brother is looked at only when there is no child. *)
NextSearched(i) == IF Child(i) # NoDoc THEN Child(i) ELSE Brother(i)

(* The documents the search comes to: from the root one link after the     *)
(* other, up to the first that has the name.                               *)
Searched(name) ==
    LET complete == {S \in SUBSET Placed :
            /\ header.root \in S
            /\ \A j \in S : Named(j, name) \/ NextSearched(j) \in S \cup {NoDoc}}
    IN  {i \in Placed : \A S \in complete : i \in S}

(* Not found is a number behind the table. *)
BadFindDocumentMetaByName(name) ==
    LET searched == Searched(name)
    IN  IF header.root = NoDoc \/ Status(header.root) # CLOSE THEN C_DEFAULT
        ELSE IF \E i \in searched : Named(i, name)
             THEN CHOOSE i \in searched : Named(i, name)
             ELSE C_DEFAULT

(* The meta_t of zeros for "not found" has the number 0.  NoDoc stands for *)
(* a search that never ends.                                               *)
FindDocumentMetaByName(name) ==
    LET searched == Searched(name)
    IN  IF header.root = NoDoc \/ Status(header.root) # CLOSE THEN 0
        ELSE IF \E i \in searched : Named(i, name)
             THEN CHOOSE i \in searched : Named(i, name)
             ELSE IF \E i \in searched : NextSearched(i) = NoDoc THEN 0 ELSE NoDoc

StartOf(name) == IF name = NoName THEN header.root ELSE FindDocumentMetaByName(name)

-----------------------------------------------------------------------------
(* What the queries ask for, from the parents the client asked for.        *)

Satisfies(els, c) == CheckDocumentByCondition(els, c) # 0

(* Where the elements of the new document are in els; 0 if nowhere. *)
IndexElements(els, new) ==
    [j \in DOMAIN new |-> CheckDocumentByCondition(els, Compare("EQ_KEY_TYPE", new[j]))]

Updatable(els, new) == \A j \in DOMAIN new : IndexElements(els, new)[j] # 0

(* The documents in use in the tree below i, and i. *)
Below(i) == {k \in Live : i \in Ancestors(k)}

(* The documents in use a query may mean. *)
Bearers(name) ==
    IF name = NoName THEN Live \cap {header.root} ELSE {i \in Live : Named(i, name)}

(* printTree prints a document with those beside it, inserted before under *)
(* the same parent.                                                        *)
Beside(q, i) ==
    IF q.type # "PRINT" THEN {} ELSE {j \in Placed : j < i /\ parentOf[j] = parentOf[i]}

(* All documents in the tree of the one the query names, that satisfy it;  *)
(* of a DELETE those that go, each with what is below it.                  *)
Asked(q, targets) ==
    LET area == UNION {Below(i) : i \in targets \cup UNION {Beside(q, i) : i \in targets}}
        matching == {i \in area : /\ Satisfies(elements[i], q.condition)
                                  /\ q.type = "UPDATE" => Updatable(elements[i], q.update)}
    IN  IF q.type = "DELETE" THEN {i \in matching : matching \cap Ancestors(i) = {i}}
        ELSE matching

(* On the way from the start to i a document has been removed, or a        *)
(* younger brother of one.                                                 *)
BehindRemoved(i, start) ==
    \E a \in Ancestors(i) \ Ancestors(start), k \in Placed :
        /\ a <= k /\ parentOf[k] = parentOf[a] /\ inode[k].status = REMOVE
        /\ parentOf[k] = parentOf[start] => k < start

(* The code does not come to these: it stops at a document that is not in  *)
(* use (query.c:85, 249), with its brothers and children, and a DELETE     *)
(* never goes to a child (query.c:124).                                    *)
PassedOver(q, start) ==
    IF q.type = "DELETE" THEN Ids \ {start} ELSE {i \in Live : BehindRemoved(i, start)}

(* `named`: the query starts with a document it means, or there is none    *)
(* and it starts with none.  Not so if a name is not found and document 0  *)
(* is taken for it.                                                        *)
Expected(q, start) ==
    LET bearers == Bearers(q.name)
    IN  [named      |-> start \in bearers \/ (bearers = {} /\ start \notin Live),
         documents  |-> Asked(q, IF start \in bearers THEN {start} ELSE bearers),
         passedOver |-> PassedOver(q, start)]

-----------------------------------------------------------------------------
Visit(id) == [id |-> id, child |-> NoDoc, brother |-> NoDoc, at |-> "enter"]

(* executeQuery; an INSERT does not walk (InsertQuery below). *)
ExecuteQuery(q) ==
    /\ Free
    /\ LET start == StartOf(q.name)
       IN  /\ walk' = <<IF start = NoDoc /\ header.root # NoDoc
                        THEN [Visit(start) EXCEPT !.at = "lookup"] ELSE Visit(start)>>
           /\ expected' = Expected(q, start)
    /\ query' = q
    /\ hits' = << >>
    /\ UNCHANGED <<treeVars, found, elements>>

(* insertExecute: the condition is about the parent, and without a parent  *)
(* there must be none.                                                     *)
AcceptsInsert(parent, c) ==
    IF parent = NoDoc THEN header.root = NoDoc /\ c = NoCondition
    ELSE Status(parent) = CLOSE /\ Satisfies(elements[parent], c)

(* The number of the new document goes to a result of its own; `hits` is   *)
(* that of the last query that walked.                                     *)
InsertQuery(name, c, d) ==
    /\ AcceptsInsert(StartOf(name), c)
    /\ elements' = [i \in Ids |-> IF Appears(i) THEN ContentOf[d] ELSE elements[i]]
    /\ UNCHANGED <<query, walk, found, hits, expected>>

-----------------------------------------------------------------------------
Here == Last(walk)
(* The visit in progress goes on at another place, with the links as read. *)
GoOn(at) == walk' = Front(walk) \o <<[Here EXCEPT !.at = at, !.child = Child(Here.id),
                                                  !.brother = Brother(Here.id)]>>
StepTo(at) == walk' = [walk EXCEPT ![Len(walk)].at = at]

(* Calls nest no deeper than there are inodes, or they never end: the walk *)
(* of a cycle, which changes nothing, stands still here.                   *)
Descend(at, id) ==
    /\ Len(walk) <= C_DEFAULT
    /\ walk' = Front(walk) \o <<[Here EXCEPT !.at = at], Visit(id)>>

Leave(value) ==
    /\ walk' = Front(walk)
    /\ found' = value

Enters == Idle /\ walk # << >> /\ Here.at = "enter"
Matches == Satisfies(elements[Here.id], query.condition)

(* printTree without a document prints from the root.  In an empty file    *)
(* that is no document either, and the call never returns (query.c:244).   *)
PrintFromRoot ==
    /\ Enters
    /\ query.type = "PRINT" /\ Here.id = NoDoc
    /\ walk' = Front(walk) \o <<Visit(header.root)>>
    /\ UNCHANGED <<treeVars, query, found, hits, elements, expected>>

VisitRejected ==
    /\ Enters
    /\ Status(Here.id) # CLOSE
    /\ query.type = "PRINT" => Here.id # NoDoc
    /\ Leave(FALSE)
    /\ UNCHANGED <<treeVars, query, hits, elements, expected>>

(* A DELETE that does not match has result = true, as if it had deleted:   *)
(* the child is passed over.                                               *)
PassBy ==
    /\ Enters
    /\ Status(Here.id) = CLOSE
    /\ ~Matches
    /\ GoOn(IF query.type = "DELETE" THEN "next" ELSE "down")
    /\ UNCHANGED <<treeVars, query, found, hits, elements, expected>>

(* printTree adds the document after its child and brother: the order of   *)
(* the result is not followed here.                                        *)
SelectHit ==
    /\ Enters
    /\ Status(Here.id) = CLOSE
    /\ Matches
    /\ query.type \in {"SELECT", "PRINT"}
    /\ GoOn("down")
    /\ hits' = Append(hits, Here.id)
    /\ UNCHANGED <<treeVars, query, found, elements, expected>>

(* The value goes to the same number in the new document. *)
BadUpdated(els, new) == [k \in DOMAIN els |-> IF k \in DOMAIN new THEN new[k] ELSE els[k]]

(* The new elements are written one after the other: the last one stays.  *)
Updated(els, new) ==
    [k \in DOMAIN els |->
        LET writes == {j \in DOMAIN new : IndexElements(els, new)[j] = k}
        IN  IF writes = {} THEN els[k] ELSE new[Max(writes)]]

(* updateDocument for values of fixed size; a string is StringUpdate's.    *)
UpdateHit ==
    /\ Enters
    /\ Status(Here.id) = CLOSE
    /\ Matches
    /\ query.type = "UPDATE"
    /\ GoOn("down")
    /\ IF Updatable(elements[Here.id], query.update)
       THEN /\ elements' = [elements EXCEPT ![Here.id] = Updated(@, query.update)]
            /\ hits' = Append(hits, Here.id)
       ELSE UNCHANGED <<elements, hits>>
    /\ UNCHANGED <<treeVars, query, found, expected>>

DeleteHit ==
    /\ Enters
    /\ Status(Here.id) = CLOSE
    /\ Matches
    /\ query.type = "DELETE"
    /\ GoOn("delete")
    /\ DeleteTree(Here.id)
    /\ hits' = Append(hits, Here.id)
    /\ UNCHANGED <<query, found, elements, expected>>

Deleting == DeleteTreeStep /\ UNCHANGED engineVars

DeleteDone ==
    /\ Idle /\ walk # << >> /\ Here.at = "delete"
    /\ StepTo(IF result THEN "next" ELSE "down")
    /\ UNCHANGED <<treeVars, query, found, hits, elements, expected>>

(* The child is called for again when it comes back. *)
BadGoDown ==
    /\ walk # << >> /\ Here.at = "down"
    /\ IF Here.child = NoDoc THEN StepTo("next") ELSE Descend("down", Here.child)
    /\ UNCHANGED <<treeVars, query, found, hits, elements, expected>>

GoDown ==
    /\ walk # << >> /\ Here.at = "down"
    /\ IF Here.child = NoDoc THEN StepTo("next") ELSE Descend("child", Here.child)
    /\ UNCHANGED <<treeVars, query, found, hits, elements, expected>>

(* printTree goes on to the brother whatever the child's visit returned. *)
ChildVisited ==
    /\ walk # << >> /\ Here.at = "child"
    /\ IF found /\ query.type # "PRINT" THEN Leave(TRUE)
       ELSE StepTo("next") /\ UNCHANGED found
    /\ UNCHANGED <<treeVars, query, hits, elements, expected>>

(* The brothers of the start are visited too. *)
BadGoToBrother ==
    /\ walk # << >> /\ Here.at = "next"
    /\ IF Here.brother = NoDoc THEN Leave(FALSE)
       ELSE Descend("brother", Here.brother) /\ UNCHANGED found
    /\ UNCHANGED <<treeVars, query, hits, elements, expected>>

(* The brother of the document the query starts with is not visited, and   *)
(* makes the query return true; without a brother it returns false.        *)
GoToBrother ==
    /\ walk # << >> /\ Here.at = "next"
    /\ IF query.type = "PRINT"
       THEN IF Here.brother = NoDoc THEN Leave(TRUE)
            ELSE Descend("brother", Here.brother) /\ UNCHANGED found
       ELSE IF Here.brother = NoDoc \/ Here.id = walk[1].id
            THEN Leave(Here.brother # NoDoc)
            ELSE Descend("brother", Here.brother) /\ UNCHANGED found
    /\ UNCHANGED <<treeVars, query, hits, elements, expected>>

BrotherVisited ==
    /\ walk # << >> /\ Here.at = "brother"
    /\ Leave(found \/ query.type = "PRINT")
    /\ UNCHANGED <<treeVars, query, hits, elements, expected>>

WalkStep ==
    \/ PrintFromRoot \/ VisitRejected \/ PassBy \/ SelectHit \/ UpdateHit \/ DeleteHit \/ Deleting
    \/ DeleteDone \/ GoDown \/ ChildVisited \/ GoToBrother \/ BrotherVisited

-----------------------------------------------------------------------------
Names == {NoName} \cup {NameOf[d] : d \in Documents}
InsertConditions == {q.condition : q \in Queries}

QueryStart == \E q \in Queries : ExecuteQuery(q)

InsertNew ==
    /\ Free
    /\ \E name \in Names, c \in InsertConditions, d \in Documents :
          /\ InsertInNewPlace(StartOf(name), d)
          /\ InsertQuery(name, c, d)

InsertOld ==
    /\ Free
    /\ \E name \in Names, c \in InsertConditions, d \in Documents :
          /\ InsertInOldPlace(StartOf(name), d)
          /\ InsertQuery(name, c, d)

(* Queries are executed, but no gap is filled again. *)
QueryNextNoReuse == QueryStart \/ InsertNew \/ WalkStep
QueryNext == QueryNextNoReuse \/ InsertOld

(* The program has one thread: a query that has begun runs on. *)
QuerySpecNoReuse == EngineInit /\ [][QueryNextNoReuse]_queryVars /\ WF_queryVars(WalkStep)
QuerySpec == EngineInit /\ [][QueryNext]_queryVars /\ WF_queryVars(WalkStep)

-----------------------------------------------------------------------------
(* As long as no gap is filled again, a query that is done has added each  *)
(* document once.  If it starts with the document it names, it has added   *)
(* nothing that it does not ask for, and all that it asks for except what  *)
(* stands behind a removed document; a DELETE, its start at least.  After  *)
(* the root has been removed, header.root still names it, and nothing is   *)
(* added.  The jumps of treeQueryExecute between child and brother         *)
(* (query.c:124) and the links it read before a deletion must not lose or  *)
(* repeat a document.                                                      *)
HitsExact ==
    Free => /\ \A j, k \in DOMAIN hits : hits[j] = hits[k] => j = k
            /\ expected.named =>
                  /\ Range(hits) \subseteq expected.documents
                  /\ expected.documents \subseteq Range(hits) \cup expected.passedOver

(* demo.c:53, "SELECT DOCUMENT "child" AND CHILD DOCUMENTS": a query that  *)
(* is done has added every document in use in the tree of the one it       *)
(* names that satisfies it, and no other.                                  *)
NamedReached == Free /\ expected.named => Range(hits) = expected.documents

(* What element k of a document is after an update: of elements with the   *)
(* same key and type the first gets the last value named for it.           *)
AsAsked(value, els, new, k) ==
    LET Like(e) == SameKeyAndType(e, els[k])
    IN  \/ /\ value = els[k]
           /\ \/ \A j \in DOMAIN new : ~Like(new[j])
              \/ \E m \in 1..(k - 1) : Like(els[m])
        \/ /\ \A m \in 1..(k - 1) : ~Like(els[m])
           /\ \E j \in DOMAIN new :
                 /\ Like(new[j]) /\ value = new[j]
                 /\ \A m \in DOMAIN new : m > j => ~Like(new[m])

ChangesAsAsked ==
    \A i \in Ids : elements'[i] # elements[i] /\ ~Appears(i) =>
        /\ query.type = "UPDATE" /\ (expected.named => i \in expected.documents)
        /\ DOMAIN elements'[i] = DOMAIN elements[i]
        /\ \A k \in DOMAIN elements[i] :
              AsAsked(elements'[i][k], elements[i], query.update, k)

(* An UPDATE changes only documents it asks for (if it starts with the one *)
(* it names and not with document 0 instead), and of them exactly the      *)
(* elements the new document names, whatever places they have in the       *)
(* two (getIndexForDocumentUpdate, query.c:70-81, and the loop at 101).    *)
UpdatesExact == [][ChangesAsAsked]_queryVars

(* Every query comes back: the walk meets no document again above itself.  *)
(* Only the tree of an empty file is printed for ever (PrintFromRoot).     *)
WalkReturns ==
    walk # << >> /\ ~(query.type = "PRINT" /\ header.root = NoDoc) ~> walk = << >>
=============================================================================
