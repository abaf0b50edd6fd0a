# Verification of llp-itmo

The repository holds three laboratory works around one idea, a document store:

* `lab1`: a C library that keeps a tree of documents in one file, with insert,
  update, delete, select and a small query interface (single thread, one file);
* `lab2`: a bison/flex parser of a query language, which builds a syntax tree;
* `lab3`: the syntax tree sent as protobuf messages (nanopb, vendored).

The store of `lab1` has the state that can go wrong over a long run, and the deepest
models; `lab2` and `lab3` are functions from a text or a message to a result, and are
modelled as such: a few steps over operators that compute what the code computes.

## Inventory

| Component | State | Operations | Meets | Hard behaviour |
|---|---|---|---|---|
| sorted list (`list.c`) | heap nodes with `prev`, `next`, `size`, `index`; `front`, `back` | `createNode`, `insertNode`, `popMaxSizeNode`, `popMinSizeNode`, `removeNodeByIndex` | called by the file and the operations | a wrong `back`, ties, lists of one and two nodes, loops that must end |
| document file (`file.c`) | header (in memory and in the file), inode table, data area, the list | `createFile`, `writeDocument`, `reallocateNewInode`, `move`, inode updates, reads | writes and reads through one file position; takes inodes from the list | space reused by smaller documents, inode table and list as two copies of a fact, growth of the table while documents are in its way |
| operations (`operation.c`) | none of its own | `insertDocument`, `deleteDocument`, `deleteSameLevelDocuments`, `updateDocument`, `updateString` | call the file; the two deletions call each other | blocks read before a call and used after it, stale child and brother links, places computed before a string changed its length, partial failure |
| query engine (`query.c`) | query, result set | `executeQuery`, `treeQueryExecute`, `insertExecute`, `printTree` | walks the tree, evaluates conditions, calls the operations during the walk | deletion during a walk, names not found, order of visits |
| conditions (`condition.c`) | condition tree | `checkDocumentByCondition` | pure function on a document | and/or over the index of the matching element |
| elements, documents (`element.c`, `doc.c`) | typed values | constructors, sizes | serialised by the file | sizes |
| parser (`lab2`) | the text, the token stream, the query under construction | `yylex`, the productions with their actions, the constructors of `ast.c` | flex, bison | order of actions, conflicts of the grammar, keys that are too long |
| codec (`lab3/simple.c`, `ast.c`) | message, buffer, decoded condition tree | `fillQuery`, encoders and decoders of conditions, `getQuery` | callbacks called by nanopb | a callback that is called once per pass, arrays of fixed length, a failed encoding |
| nanopb (`lab3/nanopb`) | streams, field iterators | encode, decode, skip, varints, submessages, arrays | descriptors and callbacks | two passes that must agree, negative numbers, messages cut short, unknown fields |
| generated code (`simple.pb.h`) | field lists | - | nanopb | - |

What makes each component correct, in one line: the *list* holds the free inodes,
each once, largest gap first; the *file* gives every inode its own cells and leads
from an inode to the block of that document; *insert* and
*delete* change one document at a time, keep the others' bytes, and come to an
end; the *tree* of child and brother links is the tree the client built; a *query*
reaches exactly the documents below the one it names that satisfy its condition (where
the code falls short of this, see the findings); a *text* becomes the query it says;
*decode* after *encode* gives the query back, and never a part of it.

Nothing in `lab1` runs concurrently and no file is ever reopened (`createFile`
truncates), so the hazards are long sequences of legal calls, recursion over data
that changes under it, and boundary cases of sizes and lists. `PROJECT.json` lists
them at their lines.

## Modules

```
FreeListOps   the list as a value: a sequence of nodes, and its operators
  FreeList        the list as its clients see it (abstract specification)
  SortedList      list.c pointer by pointer, refines FreeList
    SortedListProps   its properties, the refinement mapping
      SortedListProofs  the linked list is the sequence, for any cells and inodes
  FreeListProofs  lemmas on the operators
  DocFile         header, inodes, data area, list; insert and delete
    DocFileProps      its properties, refinement of DocStore
      DocFileProofs   the inductive invariant, the theorems, the refinement of DocStore
      MCDocFile       instances for TLC
      InodeGrowth     DocFile (by INSTANCE) whose inode table grows
        InodeGrowthProps   its properties
          InodeGrowthProofs  theorems on a file that only grows
            InodeReuseProofs   theorems with deletions, gaps and lost inodes
          MCInodeGrowth    instances for TLC
      StringUpdate    DocFile with updates that change the length of strings
        StringUpdateProofs theorems on updates (also EXTENDS DocFileProofs)
        MCStringUpdate     instances for TLC
      DocTree         DocFile and the parent each insertion asked for
        DocTreeProofs      theorems on the links (also EXTENDS DocFileProofs)
        QueryEngine        queries that walk that tree
          QueryEngineProofs  theorems on what queries reach (also EXTENDS DocTreeProofs)
          MCQueryEngine      instances for TLC
DocStore      what the document file promises: a table of documents
Elements      typed values, their sizes and comparison (doc.c, element.c)
Conditions    evaluation of a condition on a document (condition.c)

QueryParser   lab2: scanner, productions, constructors
  QueryParserProps  statements, their text and what they mean
    MCQueryParser     instances for TLC

PbWire        nanopb: streams, varints, tags, strings, skipping
  PbFields        field descriptors, messages as slots, iterators, defaults
    PbEncode        pb_encode and simple.c's encoders
    PbDecode        pb_decode and simple.c's decoders
      QueryMessages   the messages of simple.pb.h, fillQuery, getQuery
        QueryCodec      main of simple.c, and nanopb on any message
          MCQueryCodec    instances for TLC
```

### SortedList

`heap` maps every allocated cell to the fields of its `listNode_t`; `front` and
`back` are the list; `call` is the program counter and local variables of the
operation in progress. An iteration of the loop of `insertNode` or
`removeNodeByIndex` is an action (`InsertBefore`, `InsertAfterBack`,
`InsertAdvance`, `RemoveMatch`, `RemoveNoMatch`), as is each pop. A freed cell is
out of `DOMAIN heap` and may be allocated again. The environment is the code that
uses the list: `file.c` and `operation.c` list an inode at most once, free what
they pop or resize it to 0 and link it again (`RecycleMaxSizeNode`, file.c:217),
and follow a removal by an insertion (`Relist`, file.c:198-204).

* `ImplementsFreeList`: under the mapping `AsSequence` (walk from `front`) and
  `NoBack` every step is a step of `FreeList` or a stutter. `FreeList` is written
  with the operators of `FreeListOps`, so these are what the pointers compute, and
  `DocFile` and `InodeGrowth`, which use them, inherit it. That holds after the
  removal that resets `back` too (list.c:98 compares the successor with the back):
  `Linked` says exactly which insertion then loses its node, and a removal from
  elsewhere than the front, which never comes back (the loop of list.c:85 does not
  advance), is no step of `FreeList`.
* `DoublyLinked`: unless a removal has reset `back`, the list read backwards is the
  list read forwards.
* `LargestFirst`: the list is sorted in every state, in the middle of a call too, which
  is why the code may offer the front without a search.
* `InsertReturns`: an insertion comes back.

`AsSequence` is the sequence of cells in which each names the next (`IsChain`), searched
among all sequences no longer than the number of cells; `SortedListAssumption` says that
there are finitely many cells.

### DocFile

The data area is a function from cells to contents. A cell is the unit of size: a
document takes `DocSize[d]` cells, the first holds its `meta_t`, the others its
elements, so an overwritten neighbour is seen in both. `inode` is the table
(`status`, `pos`, `size`), `list` the value of `SortedList`, `header` the header in
memory and `diskHeader` the one in the file. `stack` is the chain of calls of a
deletion, each frame with the function, the document and how far it has come:
`DeleteChild` is the inner call, `RetryChild` the second call of operation.c:43,
`GiveUp` the `return false` after it, `DeleteRejected` the return for an inode not
in use, `FreeDocument` the relisting and the status update at the end. An
insertion is one action (nothing can interrupt it): `InsertIntoGap` when the front
of the list is large enough, `InsertAtEnd` when the back has no place yet,
`InsertRejected` when the parent is not in use.

`DocFile` covers the store for as long as a deletion or the table created with the
file provides an inode. An insertion that needs `reallocateNewInode` is not a step
of it but of `InodeGrowth`.

* `ExtentsDisjoint`: no cell is reserved by two inodes (an inode that was reused by a
  smaller document still reserves all it was first given).
* `ExtentsCover`: what is reserved is the whole data area, that is, `endPosition` moves by
  exactly what an inode gets. It is about `inode.size`, which the code writes and never reads.
* `BlocksFit`: an inode leads to its own block, which fits.
* `FreeListExact`: list and inode table agree in every state, also in the middle of
  a recursive deletion. It makes the guard of file.c:105 always true.
* `NoChildCycle`, `StackChained`, `DeleteReturns`: why the recursion ends, that
  documents in the course of deletion stay in use, and that it does end.
* `ImplementsDocStore`: seen through `ReadBack` (what `readDocument` gives), the
  file is a table from numbers to whole documents.

The node of a gap carries the size of the gap when it is listed for the first time,
and the size of the document when a smaller document has filled it and is deleted
(operation.c:47 lists `meta.size`). So the rest of a reused gap is never offered
again: space is lost, and `ExtentsCover`, which counts it as reserved, does not say
otherwise. The theorem `OneSizeLosesNothing` says when none is: if all documents have one size.

### InodeGrowth

`DocFile` for a table that grows: `INSTANCE DocFileProps` with `MaxInodes` for
`C_DEFAULT`, and three more variables. `firstPosition` is the header's count of cells
left over between table and data, `backNull` records that a removal has reset the
back of the list, `growth` is the call of `reallocateNewInode` in progress (where the
loop reads, the space found so far, the insertion it is for) or how it has ended.

An iteration of the loop is an action: `MoveToGap` and `MoveToEnd` for a document in
the way (`move` and the update of its inode), `RemoveGapInWay` for a gap in the way,
`SpinOnGapInWay` when `removeNodeByIndex` cannot find it at the front, `GrowthFails`
for each `return false`, with what `writeDocument` and `insertDocument` then make of
it. `SpaceFound` is the end of that loop (lines 236-240), `WriteNewListNode` an iteration
of `writeNewListNode`, one inode written and listed, `EndGrowth` the writing of the header;
`PlaceAfterGrowth` is the rest of `writeDocument`, `CrashAfterGrowth` its read of
`back->index` through NULL. `InodeGrowthAssumption` asks that a document is larger than an
inode (`sizeof(meta_t)` is more than `sizeof(inode_t)`) and that there is a largest one,
which bounds how far a growth overshoots and so, with `MaxInodes`, when one may start. A
read behind the end of the file, which the loop can come to, makes the growth fail.
The size of an inode and of the header in cells are constants. What the loop reads
between two blocks (elements of a document, or stale bytes) is taken for the number
of no inode, which makes the growth fail; behaviour after a failure or a crash is not
followed. Clients insert under the first document, as the tests do.

* `TableApart`: behind the table and the left-over cells begins the data; so the
  table, which is extended in place, never overwrites a document in use.
* `ImplementsDocStore` (of `DocFileProps`): a growth changes no document;
  `MovesKeepBlocks`: nor the number, size and links of any block in use, which the
  insertion that waits for the growth has read before it (operation.c:12).
* `DataTiled`, `NewInodesListed`: as long as nothing is deleted the documents lie one
  behind the other, so the loop always finds a block, and the list is the table
  without the documents.
* `NoLiveInodeListed`: with deletions, and whatever is lost, no inode in use is listed.
* `GrowthAloneReturns`: as long as nothing is deleted the growth comes back; `GrowthReturns`,
  without this condition, does not hold (finding 1).

`DataTiled`, `NewInodesListed` and `GrowthAloneReturns` are about the behaviours of
`GrowthSpec` in which no deletion has begun (`NothingDeleted`).

A growth that meets the rest of a gap filled by a smaller document fails (the loop of
`reallocateNewInode` walks by `meta.size`); `writeDocument` then returns `false`, that is
0, and `insertDocument` makes document 0 the parent's child and returns true with nothing
stored. `GrowthFails` does this, and no property forbids it: `NoLiveInodeListed` and
`ImplementsDocStore` are about the documents that are in the file, not about what an
insertion reports or the child link it leaves.

### DocTree and QueryEngine

`parentOf` remembers which parent each insertion asked for. In `QueryEngine` clients issue
queries: `ExecuteQuery` finds the start (`FindDocumentMetaByName` as the code searches: a
brother is looked at only if there is no child, and "not found" is document 0), `walk` is
the stack of calls of `treeQueryExecute` (or `printTree`), each with the links it read
before it acted. `SelectHit`, `UpdateHit`, `DeleteHit` are the `switch`; `GoDown`,
`ChildVisited`, `GoToBrother`, `BrotherVisited` the recursion of query.c:120-135; a
deletion runs through `DocFile`'s own stack while the walk waits (`Deleting`). Insertions
evaluate the condition on the parent. A call that would nest deeper than there are
inodes does not happen, which is what an endless recursion looks like here.

What a query asks for is said without links and without the walk, when it starts
(`Expected`): `documents` are those in use in the tree, by `parentOf`, of the document it names
whose elements satisfy the condition (of a DELETE, the topmost of them, since the others go
with these; of the printing of a tree, also those beside the start that were inserted before it). `named` says that the query starts with a document it names, or that there is none
and it starts with none. `passedOver` are the documents the code does not come to: it stops at
a document that is not in use, with its children and the brothers behind it (query.c:85, 249), and
a DELETE whose condition its start does not satisfy goes to no child (query.c:124 takes that for done).

* `SiblingsExact`: what is met by following the child of a document and then brothers
  (`Met`) is exactly what was inserted under it (`Under`), and brothers lead to ever older
  documents, so following them ends. This is about the links `insertDocument` writes, removed
  documents included; a walk of `query.c` stops at one of those.
* `HitsExact`: a finished query that is `named` has added nothing that is not in `documents`, all
  of it that is not in `passedOver`, and nothing twice. After the root has been removed
  `header.root` still names it, and nothing is added.
* `NamedReached`: it has added all of `documents`. This is what `demo.c` says, and it does
  not hold (finding 4).
* `DeletesBelowTarget`: what a deletion frees has its target among its `Ancestors`.
* `UpdatesExact`: an update changes only documents it asks for, and of them the elements
  named, whichever places they have in the two documents: of elements with the same key and
  type the first, which gets the last value named for it.
* `WalkReturns`: a query comes back, but for one: `printTree` without a document in a file without
  documents calls itself for ever (query.c:244, `PrintFromRoot`), and is left out of the property.

An unknown name gives a `meta_t` of zeros, and the query works on document 0
(query.c:169-170). `FindDocumentMetaByName` does so; such a query is not `named`, and
`HitsExact` says no more of it than that it adds nothing twice. An INSERT adds its document to the
result it is given, which no walk reads and the model does not keep.

`TreeSpec` has the clients of `DocTree` alone: they insert under any document or none, at the
end of the file, and delete. A step of `QueryEngine` that fills no gap is a step of `TreeSpec`
for the file and `parentOf` (`InsertInNewPlace`, `DeleteTree`, `DeleteTreeStep`) or leaves both
alone (`QueriesKeepTheTree`), so what is proved of the tree holds during queries.

The search for a name (`Searched`) and the evaluation of a condition are loops and recursion in
the code. The first is a least set here, the second a recursive
function over `AllConditions`, the conditions of the queries and their parts.

All of these but `NamedReached` hold as long as no gap is filled again. Once one is, links are stale: a
document may be its own brother (finding 2), and a deletion may reach a document
inserted under another parent.

### StringUpdate

The data area of `DocFile`, with what `writeElement` puts into the cells of a document:
type and key, then a value, or a length and the characters of a string. `ReadDocument`
reads it back as the code does, element after element, and gives garbled values for
cells that do not fit. `BeginUpdate` is the reading of the document in
`treeQueryExecute`, then one action per element: `UpdateFixed`, `UpdateInPlace` (the
string keeps its length or shrinks), `GrowAtEnd`, `GrowIntoGap` (which is refused: line
129 asks a gap for `CLOSE`, and `updateDocument` ignores the refusal), `GrowByMoving`
(the block goes to the end, its old place becomes a gap of the inode at the back).
Clients insert and delete in between.

* `BlocksApart`, `FreeListExact`: blocks that grow, shrink and move stay apart; list and
  table agree.
* `WritesExact`: in place, at the end of the file or moved there, one update changes one
  element of one document, and no link.
* `UpdateExact`: so does every update. The comment at operation.c:120 says so; it does not hold,
  since `GrowIntoGap` writes nothing (finding 5).
* `UpdateWritesAll`: all elements of a longer update arrive (finding 3).

### QueryParser

A text is a sequence of lexemes, a lexeme has its kind and whether a blank stands before
it; a word is the number of its leading letters s and the rest, because lex.l:9 makes
blanks swallow those (`\s` in a character class is the letter s). A character that no rule
knows is echoed and skipped: the default rule of flex matches one character and so is longer than the
empty rule of lex.l:12, which never wins. `Scan` is the
scanner, `Parse` the grammar: an operator per nonterminal, each production with its
action, in the order bison runs them, and the conflict over the comma behind a group of
conditions (parser.y:211 and 224) resolved as bison does, in favour of the group. `Crash` is an action that follows the NULL a constructor
returned for a key of more than 12 letters. (`createDocument` leaves `elements`
uninitialised and then hands it to `realloc`, ast.c:49-62; the model takes the outcome in
which it was NULL, an empty sequence.)

* `ParsesAsMeant`: from a statement as a user means it, the text and the query are
  derived independently; text that is scanned and parsed gives that query, or the refusal
  or crash the statement is bound to. That blanks swallow letters s is part of what is
  derived (`Heard`): a word is meant as the scanner hears it.
* `WordsKept`: in any accepted text, mistyped ones included, every word and value is in
  the query as often as it was typed.

### PbWire to QueryCodec

The messages are bytes. `PbWire` has the streams and what is written and read through
them; an error is a state of the stream, and after one nothing is read or written. A
32-bit integer is one of `Half` bits, a 64-bit one of `2 * Half`, with the code's two-part
encoding of both. `PbFields` has descriptors (tag, allocation, rule, type, size, length)
and messages (a slot per tag with its count or presence, and its value), the order in which
the iterator looks for a tag, and the defaults. `PbEncode` and `PbDecode` follow
`pb_encode.c` and `pb_decode.c` function by function, down to the size pass of a submessage,
packed arrays, fixed counts and the three framings. The callbacks of `simple.c` are part of
them: encoders of conditions, elements and operators recurse through `pb_encode_submessage`,
and the decoder of conditions builds its tree in `pool`, the memory it allocates.

`QueryCodec` runs `main` (fill, encode, decode what was encoded, build the query) and, since
nanopb is not written for one message, the same two steps on messages of every field type,
with the three framings, read whole or cut anywhere, under the sender's schema or one that
knows fewer fields.

* `RefusedOnlyWhenFull`: the size computed in advance is the size written, and a message
  is refused exactly if the buffer is smaller.
* `RoundTrips`, `UnknownSkipped`, `CutRefused`: what is decoded is what was sent; fields a
  reader does not know are skipped; a delimited message that lost its end is refused, any
  other gives fields that are whole or absent, or an array cut short.
* `DeliveredWhole`: a query arrives with its whole operator tree and all its documents, or,
  if the buffer was too small, as a query of zeros: main does not look at the result of
  `pb_encode` and decodes zero bytes, then follows the empty array of documents.

What the codec leaves dangling is in the model as the value `Dangling`: the name and every
string point into the message on main's stack or into freed memory, and the limit is never
read back. Fills past the arrays of the message (5 documents, 20 elements, strings of 1024
bytes) and conditions with a missing operand end in `"undefined"` or `"crash"`, and nothing is
claimed about what follows. The zero query of a full buffer is a legal outcome of
`DeliveredWhole`. Decoding an element copies its string with one byte more than was
allocated (simple.c:68-70), and `opType_decode` stores 8 bytes in a local enum of 4 (simple.c:16): the
model takes the outcomes in which nothing that is still needed lies behind them.

## Runs

| Run | What it asks | Instance | Result |
|---|---|---|---|
| `sorted_list` | types, both directions, order, refinement of `FreeList`, return | 4 cells, 3 inodes, sizes 0..2 | holds, 46 312 states |
| `document_file` | space, list, recursion of deletion, refinement of `DocStore` | 3 inodes, documents of 1 and of 2 cells | holds, 939 382 states |
| `growth` | growths after deletions and reuse, and while nothing is deleted | 3 inodes, tables of up to 12, documents of 4 and 5 cells, inodes of 3 | holds, 47 569 states |
| `growth_returns` | does the insertion come back? | same sizes, tables of up to 7 | violated |
| `query_engine` | what queries reach, change, and that they end | 4 inodes never reused, 2 documents, 9 queries | holds, 125 308 states |
| `query_returns` | do queries end when gaps are filled again? | 3 inodes, 2 queries | violated |
| `query_reach` | does a query reach every document it asks for? | 3 inodes never reused, 2 queries | violated |
| `string_update` | updates among insertions and deletions | 3 inodes, strings of 1 and 2 characters, 3 updates | holds, 340 783 states |
| `update_exact` | is every update written? | as `string_update` | violated |
| `update_writes` | do all elements of an update arrive? | one update of two elements | violated |
| `parser` | statements and mistyped texts | 1 374 texts | holds, 4 122 states |
| `codec` | queries and messages through nanopb | 576 queries, about 720 sendings of messages | holds, 19 324 states |

Why the bounds are enough. List: three nodes give a front, a back and an inner
node, the fourth cell lets an address be reused while others are linked, three
sizes give smaller, equal and larger, and 0 is the size of an unplaced inode.
File: three inodes give a parent, its child and a brother or grandchild, the stack
reaches its full depth, and every inode is reused any number of times (the state
space is finite without a bound on the length of the run, because the data area
stops growing when no inode is unplaced). Two sizes give an exact fit, too large a
gap and too small a gap. `C_DEFAULT` is 10000 in the code; no action depends on its
value except through the list running empty. `DataStart` is an arbitrary offset.
Growth: documents of 4 and 5 cells over inodes of 3 leave 0, 1 and 2 cells over, and
one to three documents are in the way of one growth. `MaxInodes` bounds the table (a growth
starts only when it fits: up to three in a row), `MaxEnd` the end of a document that is put, not moved, at the
end; `MaxCountToDelete` lets clients delete before the first growth only. Because of these bounds, and because nothing follows a crash, these
runs do not check deadlock; `GrowthAloneReturns` and `GrowthReturns` cover the growth itself.

Query engine: four inodes give every tree with a parent, brothers and a grandchild, and
a brother on either side of a removed document. The queries take each type by root and by
name, with conditions true of one document, the other, both; every comparison and connective
occurs. Updates: strings of length 1 and 2 make every sign of `delta`; one document ends
with its string, the other has a number behind it; an update never starts without enough
unplaced inodes, so `reallocateNewInode` is not needed. Parser: every production occurs,
lists have up to three members, logical conditions nest once and mix with others; every
single lexeme of representative statements is left out, replaced, or has a character in front of
it that the scanner does not know. Codec: `Half = 15` keeps
the property that matters, that the two halves of a number meet inside a byte of the
varint; keys, strings and arrays are one longer than a limit at most (`KeySize`, `StringSize`,
`MaxElements`, `MaxDocuments` for 13, 1024, 20, 5), which reaches every overrun;
`BufferSize = 120` (256) refuses some of the queries and not others. Condition trees are
up to four levels deep. The `codec` run ends with its message, so it does not check deadlock.

For each property of a passing run `PROJECT.json` names a variant of a definition
(`Bad...`, `Forgetful...` in the modules) with a plausible mistake, which the property
rejects.

**Fairness.** The program has one thread and the calls do not block, so a call that
has begun takes its next step: weak fairness of `InsertStep` and `RemoveStep` in
`SortedList`, of `DeleteStep` in `DocFile`, of `GrowthStep` in `InodeGrowth`, of `WalkStep` in
`QueryEngine` and of the whole of the two programs `QueryParser` and `QueryCodec`.
Nothing is assumed of clients: no operation has to be called.

## Findings

1. `growth_returns`: after two deletions, an insertion that needs inodes may never
   come back. `removeNodeByIndex` is at fault twice: list.c:98 compares the successor
   with `back`, so removing the front of a list of two leaves `back = NULL`, the new
   inodes are linked nowhere, and `writeDocument` reads `back->index`; and the loop of
   list.c:85 never advances, so a gap that is not at the front is looked for for ever.
2. `query_returns`: insert a document under p, delete it, insert another under p. The
   second takes the inode of the first; p still names it as its child, so it becomes the
   brother of the new document: its own. The next query below p recurses without end.
3. `update_writes`: an UPDATE computes where its elements stand from the document as read
   before the first of them was written; if that one was a string whose length changed,
   the second is written into the wrong place.

4. `query_reach`: insert two documents under the root and delete the younger one. The root's
   child link still names it, and the walk stops at a document that is not in use before it looks at
   its brother (query.c:85): the older child is reached by no query about the root any more.
5. `update_exact`: a string that grows, in a document that is not the last of the file, while the
   front of the list names a gap large enough. The gap is asked for the status CLOSE
   (operation.c:129), `updateString` returns false, `updateDocument` ignores that (line 102):
   the old value stays, and the query reports success.

Seen while modelling and part of the models, without a run of their own: a deletion frees the
chain of last children only, though operation.c:65 says "we delete the children", so the
other children stay in use and unreachable; an unknown name means document 0 (query.c:169-170);
the tree of an empty file is printed for ever (query.c:244); an insertion whose growth fails returns
true (file.c:100); a shrunken last document leaves `endPosition` where it was.

## Proofs

Every property of the passing runs on the list, the document file, the growth of the inode
table, the tree, the queries and the updates is a theorem, except those about coming to an end. (The
properties of the five other runs do not hold.) TLC checks them for three or four
inodes; the theorems hold for every number of inodes, set of documents, size of a
document and of an inode, set of heap cells, and set of gap sizes. Assumed of the constants:
`SortedListAssumption` (finitely many cells, NULL not one of them, 0 a size),
`DocFileAssumption` (positive sizes, three distinct statuses), `InodeGrowthAssumption`
(above), `ConditionsAssumption` (the parts of a condition are conditions),
`QueryEngineAssumption` (four types of queries, documents that are sequences of elements) and
`StringUpdateAssumption` (a key with its type and a value of fixed size take one cell each, a
document the cells of its elements). TLC evaluates them in the runs. The bounds of `InodeGrowth` (`MaxInodes`, `MaxEnd`,
`MaxCountToDelete`) are constants of the theorems too, so they hold however large these are.

**`FreeListProofs`**: the list as a value. The scan of `insertNode` finds a place
(`InsertPosProperties`, from a least element), what the result is element by element
(`InsertNodeProperties`), that order is kept (`InsertNodeSorted`), and the two pops.

**`SortedListProofs`**: `TypeCorrect`, `BothWays`, `LargestStaysFirst`, `Refinement`, from

    IInv == TypeOK, IndicesDistinct, \E s \in Seq(Allocated) : Links(s) /\ CallFits(s)

`s` is the list as a sequence of cells. `OnlyChain` shows there is one such sequence, which is
then the one `AsSequence` chooses, so each step is proved by naming the sequence after it:
with a cell inserted at `j`, without its first, without its last. `CallFits` is what the loop of
`insertNode` knows in between: the nodes passed are larger than the new one (so the place where it stops is
the place of `InsertPos`, with the same choice among ties), and the new node is not on the list. A back that was reset by
a removal is part of it: then the scan may run off the end, and the step that does
is the one in which `FreeList` loses the node.

**`DocFileProofs`**: `TypeCorrect`, `NoSharedCell`, `BlockInPlace`, `FreeListStaysExact`,
`ChildLinksAcyclic`, `CallersStayInUse`, `ExtentsKeepCovering`, `OneSizeLosesNothing` and
`Refinement` (the file implements `DocStore`), from

    IInv == TypeOK, ExtentsDisjoint, BlocksFit, FreeListExact,
            NoChildCycle, StackChained, DataStart <= endPosition

No part is inductive alone. That a deletion frees each document once (`FreeListExact`)
needs the outer callers to be other documents than the one freed: that is `StackChained`
with `NoChildCycle` (`NoDocumentTwice`: the segment between two occurrences of a document
on the stack would be a set closed under child links). `NoChildCycle` survives an insertion
because the new block is a leaf and its inode was not in use (`NewLeafNoCycle`), stale links
included, and needs the blocks to be where the inodes say (`BlocksFit`), which needs what is
written to stay within one inode's cells (`ExtentsDisjoint`, and `FreeListExact` for the
gap's size). It is stated over sets (every non-empty set of placed inodes has a member whose
child is outside) rather than with paths, which keeps it first-order.

Of this, `Bookkeeping` is what does not depend on how blocks lie in the data area: the types,
`FreeListExact`, `NoChildCycle`, `StackChained` and that each placed inode leads to a block with its
number. It is inductive for insertions and deletions by itself, and so serves `StringUpdate` too,
whose moved blocks leave `ExtentsDisjoint` and `BlocksFit` behind.

`DeletionDepth` follows: the documents of the calls that wait are distinct inodes (`CallersDistinct`), so
the recursion is never deeper than the number of inodes and one. A chain of all inodes gets there.

`ExtentsKeepCovering` adds `ExtentsCover` to the invariant. It does not say that space is not lost;
`OneSizeLosesNothing` does, for documents of one size: then the block in an inode always fills what the inode
reserves (`BlocksFill`), so every cell is part of a document in use or of a gap on the list, with
its whole size.

For the refinement `IInv` is joined by `ContentsIntact`: behind the block of a document in use lie
the elements written with it, as many as it says. Both insertions are shown to store one document
in room of its own (`Stores`), after which the abstract step follows once for the two.

**`StringUpdateProofs`**: `UpdateTypes`, `UpdatesStayApart`, `UpdatesKeepFreeList`, `UpdateStepsExact`,
for strings of every length, from

    UInv == StringsLast, Bookkeeping, Layout, ContentsReadable, UpdateValid

    Layout            BlocksApart; the cells are those of the data area; children are placed
    ContentsReadable  what readDocument reads behind a block in use are elements, and
                      they end where the block ends
    UpdateValid       the update in progress has the size of its block as it is in the
                      file, and its document agrees with the one in the file in keys,
                      types and strings: so the places it computes are right

`StringsLast` is the hypothesis of the theorems: in what a query writes, a string comes last. Finding
3 is what happens without it (`update_writes`): what follows the string is written to a place that is
out of date, and neither `ContentsReadable` nor `WritesExact` survives. The updates of `string_update` satisfy it.

The place of an element is a sum over the elements before it. That such a sum is what its recursive
equation says is shown without an induction theorem, from a least length for which no such function
exists (`PartialSums`, `ElementsSizeAdds`). It follows that sums grow with the index
(`ElementsSizeGrows`), so an element lies inside its block (`ElementInside`), and that all behind a string move by
`delta` when it changes its length (`ElementsSizeShifts`).

`HasElements` says, cell by cell, what a document is in the file; `DocumentRead` that
`readDocument` reads exactly that. It is where the cells of a document never touched (`Written`) and those an update
has written come together (`Meaning`). A step is then one of three changes to cells: a value replaced
(`ValueReplaced`), a string replaced with all behind it shifted (`StringReplaced`), a block carried
along unchanged (`SpellsMoved`). `InPlaceKeeps`, `StringInPlaceKeeps` and `MovedKeeps` lift them to the file,
where other blocks keep their cells because blocks are apart.

**`DocTreeProofs`**: `LinksHoldTheTree`, `DeletionStaysBelow`, from

    TreeInv == IInv, LinksTellAges, HandedOutInOrder

`LinksTellAges` says which document each link names: the child is the newest under its
parent, the brother the newest among the older ones. A new document must then be newer than
all others, which is `HandedOutInOrder`: unplaced inodes lie on the list in descending
order, so the back is the least of them. `SiblingsExact` follows from the ages: a set that
could leave out a document of `Under(p)` has a newest one missing, whose younger neighbour
names it. In `DeletesBelowTarget` a set closed under parents that holds `stack[k].id` holds,
frame by frame downwards, the document the stack began with.

**`InodeGrowthProofs`**, for `GrowOnlySpec`: `GrowthTypeCorrect`, `TableStaysApart`,
`MovesKeepEveryBlock`, and for `GrowthSpec` `DataStaysTiled` and `NewInodesStayListed`, from
`GrowInv`. As long as nothing is deleted a step of `GrowthSpec` is one of `GrowOnlySpec`
(`GrowsOnly`), so `GrowInv` holds there too (`GrowsWithoutGaps`). Its core is
`BlocksTiled`: from `Begin` to the end of the file every cell belongs to the block of one
document. `Begin` moves with the call in progress (where the loop reads, or where the table will
end), and with it the invariant speaks of the middle of a growth. `GrowthKnows` ties
the local variables to the file: what the loop has gained is the distance between the table and where it
reads, never more than the need and one document, and so never more inodes than `MaxInodes`
leaves room for.

**`InodeReuseProofs`**, for `GrowthSpec` with deletions, gaps and inodes the list has lost:
`ReuseTypeCorrect`, `NoLiveInodeOffered`, `TableStaysApartWithGaps`,
`MovesKeepEveryBlockWithGaps`, `ReuseRefinement`, and `GrowOnlyRefinement` for a file that
only grows. Neither tiling nor an exact list survives here, nor disjoint extents (a
document moved into a smaller gap leaves `inode.size` behind), so `ReuseInv` says less
about space and more about what is read:

    BlocksKept     each placed inode leads to its own block, and blocks share no cell
    NoStaleBlock   a cell behind Begin that looks like a block is where an inode points:
                   else the loop would move a document that is not there any more
                   (a failed growth leaves such cells behind, and the call ends)
    CellsIntact    the elements behind a block in use
    ListSound      the list may miss inodes, but its nodes are true, distinct and sorted
    OneCall        no deletion is in progress during a growth; child links are acyclic
    GrowthMayRely  as GrowthKnows, with UnplacedAtHand: some listed inode has no place,
                   or the back is lost

`UnplacedAtHand` is why `writeDocument` after a growth takes an inode without a place, or
crashes, but never takes the inode of a gap. `NoLiveInodeListed` needs all of `BlocksKept`, since
`removeNodeByIndex` and `move` are called with the number read from a block.

**`QueryEngineProofs`**, for `QuerySpecNoReuse`: `EngineTypeCorrect`, `HitsAreExact`,
`UpdatesAreExact`, `QueriesKeepTheTree` and with it `QueriesKeepTheLinks`, `QueriesDeleteBelow`, from

    EngineInv == TreeInv, OneOldestRoot, EngineTypeOK, Accounted, WalkFollows, NoneFound,
                 DeletesStartOnly

`HitsExact` speaks of the end of a query. `Accounted` says it of the middle: there is a set of
documents E which is what has been added together with what satisfies the query among what the visits in
progress have still to visit (`Rests`); no document is in two of these, nor twice among the hits.
At the end nothing is left to be visited, and the hits are E. That E `Honours` what the query asks
for (no document it does not ask for, all but those passed over) is shown when the query starts, where
E is what the links lead to from the start, removed documents and what is behind them left out
(`Reached`). This is where walk and request meet: `BelowIsReached` shows that a document in use below the
start is reached by links unless it is `BehindRemoved`, `ReachedIsBelow` that nothing else is, both from
the ages in `TreeInv`; `BesideIsVisited` does the same for the brothers `printTree` prints.

What one visit has still to do is said by where it
is: all from its document on, or the tree below the child it has read and the brothers, or the
brothers only. Each step then takes one document away (`AccountsAct`), splits what the last visit
has to do between it and the visit it calls (`AccountsCall`), or drops an empty rest
(`AccountsReturn`). The splits are two lemmas about the tree without any walk: below a
document lies what is visited from its child on (`VisitsBelow`), and from a document on what is
below it and what is visited from its brother on (`VisitsBeside`), without a document twice. They are where
ages and links of `TreeInv` are needed, and `OneOldestRoot` (a document is younger than its parent),
by which what is below two brothers is apart.

The rest is what the walk relies on. `WalkFollows`: the links a visit has read are still those of its
document, though a deletion may have run in between, and a visit that was called for lies below the start
(so `parentIndex != index` of query.c:127 tells the start from all others). `NoneFound`: no visit of
a SELECT or UPDATE but the first returns true, or the brothers above would be passed over.
`DeletesStartOnly`: a deletion of a document in use succeeds, so a DELETE never goes on to the child.

`UpdatesAreExact` joins two facts: the document an UPDATE changes was still to be visited, so the query
asks for it if it is `named` (`MetIsExpected`, from `Accounted`); and `checkDocumentByCondition`, asked for key and
type, finds the first element alike (`FirstAlike`), of which `UpdatedIs` follows for one element
of a document whatever is written to the others.

Model-checked only:

* coming to an end (`InsertReturns`, `DeleteReturns`, `GrowthAloneReturns`, `WalkReturns`):
  liveness under fairness is out of the prover's reach;
* queries once gaps are filled again: links are stale then, and the walk need not end (finding 2);
* the parser and the codec: what a grammar or an encoding computes for every text or
  message is induction over data through RECURSIVE operators.

## Not modelled, and abstractions

* I/O errors and a failing `malloc` (the code mostly ignores both), and the file position
  (every caller seeks before it reads or writes; file.c:330 restores it relative to the
  wrong origin, without effect).
* `closeFile`, `destroyList`, printing and freeing: they change no state that is read again.
  What lab2's main prints after a syntax error (an arbitrary pointer) is left out.
* In `InodeGrowth`: what happens after a failed growth, and what a misread block
  that happens to look like a valid one leads to. In `StringUpdate`: an update that needs
  `reallocateNewInode` first.
* `findDocumentByCondition` is a copy of `treeQueryExecute` that nothing calls. `main1` and
  `main2` of `simple.c`, and the functions of lab3's `ast.c` main does not reach, are not
  called either.
* Of nanopb: pointer fields and `pb_release` (`PB_ENABLE_MALLOC` is not set), extensions,
  UTF-8 checks, conversion of doubles, streams with a callback of the user's.
* The order of the list of a printed tree, and the text of names, keys and values: they
  are values that are compared.
* `demo.c` and `tests.c`: clients; their calls shape the clients of the models.

## Left to do

What is left: the composition of `StringUpdate` with `QueryEngine` (an UPDATE that moves blocks during the
walk; links are numbers, so the walk should not notice) and with `InodeGrowth`.
