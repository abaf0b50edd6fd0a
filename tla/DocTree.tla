------------------------------ MODULE DocTree ------------------------------
(***************************************************************************)
(* The tree the documents form.  The file keeps it in two links per block: *)
(* `child`, the document inserted last under this one, and `brother`, the  *)
(* one that was last before (insertDocument, lab1/src/operation.c).  Here  *)
(* the parent every insertion asked for is remembered beside the file and  *)
(* compared with what the links say.                                       *)
(***************************************************************************)
EXTENDS DocFileProps

VARIABLE parentOf  \* the parent a document in use was inserted under

treeVars == <<header, diskHeader, inode, disk, list, stack, result, parentOf>>

TreeInit == Init /\ parentOf = [i \in Ids |-> NoDoc]

(* The document of inode i comes into use by this step. *)
Appears(i) == inode[i].status # CLOSE /\ inode'[i].status = CLOSE

InsertedUnder(parent) ==
    parentOf' = [i \in Ids |-> IF Appears(i) THEN parent ELSE parentOf[i]]

InsertInNewPlace(parent, d) == InsertAtEnd(parent, d) /\ InsertedUnder(parent)
InsertInOldPlace(parent, d) == InsertIntoGap(parent, d) /\ InsertedUnder(parent)
InsertNowhere(parent) == InsertRejected(parent) /\ UNCHANGED parentOf
DeleteTree(id) == DeleteDocument(id) /\ UNCHANGED parentOf
DeleteTreeStep == DeleteStep /\ UNCHANGED parentOf

(* As long as no gap is filled again. *)
TreeNext ==
    \/ \E parent \in Ids : InsertNowhere(parent)
    \/ \E parent \in Links, d \in Documents : InsertInNewPlace(parent, d)
    \/ \E id \in Ids : DeleteTree(id)
    \/ DeleteTreeStep

TreeSpec == TreeInit /\ [][TreeNext]_treeVars

-----------------------------------------------------------------------------
Live == {i \in Ids : inode[i].status = CLOSE}

(* The documents inserted under p, the deleted ones included. *)
Under(p) == {i \in Placed : parentOf[i] = p}

(* The documents the links lead to from the child of p to its brothers,    *)
(* through removed ones too (their blocks keep the links): those that      *)
(* no set can leave out which has the child and, with a document, its      *)
(* brother.                                                                *)
Met(p) ==
    {i \in Placed : \A S \in SUBSET Placed :
        /\ Child(p) \in S \cup {NoDoc}
        /\ \A j \in S : Brother(j) \in S \cup {NoDoc}
        => i \in S}

(* As long as no gap is filled again, the links under p lead to exactly    *)
(* the documents inserted under p, newest first, the deleted ones          *)
(* included, and end.  Inodes are handed out in ascending order, so newest *)
(* first is by descending number.  This is a property of the links that    *)
(* insertDocument writes; the walks of query.c stop at a removed document  *)
(* (lines 85 and 249), and what they reach is QueryEngine's question.      *)
SiblingsExact ==
    /\ \A p \in Placed : Met(p) = Under(p)
    /\ \A i \in Placed : Brother(i) < i

(* Document i and the documents above it. *)
Ancestors(i) ==
    {a \in Ids : \A S \in SUBSET Ids :
        i \in S /\ (\A j \in S : parentOf[j] \in S \cup {NoDoc}) => a \in S}

(* demo.c:98, "delete document and document children documents": as long   *)
(* as no gap is filled again, what a deletion frees is the document it was *)
(* asked to delete or was inserted below it, however the two functions of  *)
(* operation.c call each other.                                            *)
DeletesBelowTarget ==
    \A k \in DOMAIN stack :
        stack[k].at # "enter" => stack[1].id \in Ancestors(stack[k].id)
=============================================================================
