------------------------------ MODULE DocStore ------------------------------
(***************************************************************************)
(* What the document file promises its users, without inodes, gaps or      *)
(* offsets: a table of documents.  An operation stores one document under  *)
(* a free number or takes one document away, and never touches another.    *)
(* (The entry itself is compared first: it tells most steps apart.)        *)
(***************************************************************************)
CONSTANTS Ids,      \* document numbers
          Contents, \* what a document may hold
          Absent    \* marks a free number

VARIABLE docs

Init == docs = [i \in Ids |-> Absent]

Insert(i, c) ==
    /\ docs[i] = Absent /\ docs'[i] = c
    /\ docs' = [docs EXCEPT ![i] = c]

Delete(i) ==
    /\ docs[i] # Absent /\ docs'[i] = Absent
    /\ docs' = [docs EXCEPT ![i] = Absent]

Next ==
    \/ \E i \in Ids, c \in Contents : Insert(i, c)
    \/ \E i \in Ids : Delete(i)

Spec == Init /\ [][Next]_docs
=============================================================================
