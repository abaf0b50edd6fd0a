----------------------------- MODULE QueryCodec -----------------------------
(***************************************************************************)
(* The codec of lab3 from end to end: main of simple.c fills a message     *)
(* from a query, encodes it into a buffer, decodes what it has encoded and *)
(* builds a query from it.                                                 *)
(*                                                                         *)
(* nanopb is a library for any message, so the same two steps also run on  *)
(* messages given as they are (`Jobs`): encoded with either framing into a *)
(* buffer of some length, then read whole or cut short, under the schema   *)
(* of the sender or of a reader that knows fewer fields.                   *)
(***************************************************************************)
EXTENDS QueryMessages

CONSTANTS Queries,     \* the queries sent
          Jobs,        \* the messages sent as they are: [desc, msg, flags, max]
          ReadersOf,   \* the descriptors a message of a descriptor is read with
          BufferSize   \* uint8_t buffer[256]

ASSUME QueryCodecAssumption == BufferSize \in Nat \ {0}

VARIABLES at,       \* "fill", "encode", "decode", "get", or how it has ended
          query,    \* the query sent, or none
          job,      \* the message being sent
          stream,   \* pb_ostream_t behind it
          arrived,  \* [desc, len, is, m, pool]: what the decoder has made of it
          answer    \* the query received

vars == <<at, query, job, stream, arrived, answer>>

NoJob == [desc |-> "", msg |-> << >>, flags |-> "none", max |-> 0]
Nothing == [desc |-> "", len |-> 0, is |-> IStream(<< >>), m |-> << >>, pool |-> << >>]

Init ==
    /\ \/ at = "fill" /\ query \in {<<q>> : q \in Queries} /\ job = NoJob
       \/ at = "encode" /\ query = << >> /\ job \in Jobs
    /\ stream = OStream(0)
    /\ arrived = Nothing
    /\ answer = << >>

(* createQuery leaves out a name that is too long, and strncpy reads it.   *)
FillMessage ==
    /\ at = "fill"
    /\ LET q == query[1]
       IN  IF q.name = << >>
           THEN at' = "crash" /\ UNCHANGED job
           ELSE IF q.documents # << >> /\ FillOverruns(q.documents[1])
           THEN at' = "undefined" /\ UNCHANGED job
           ELSE /\ at' = "encode"
                /\ job' = [desc |-> "Query", msg |-> FillQuery(q), flags |-> "none", max |-> BufferSize]
    /\ UNCHANGED <<query, stream, arrived, answer>>

EncodeMessage ==
    /\ at = "encode"
    /\ LET s == EncodeEx(OStream(job.max), job.desc, job.msg, job.flags)
       IN  /\ at' = IF s.st \in {"crash", "undefined"} THEN s.st ELSE "decode"
           /\ stream' = s
    /\ UNCHANGED <<query, job, arrived, answer>>

(* When the encoding has failed total_bytes_encoded is still 0.            *)
TotalBytesEncoded == IF stream.st = "ok" THEN stream.written ELSE 0

(* main prepares the callbacks for a condition, and the condition_t they   *)
(* work on, before it decodes.                                             *)
Prepared(desc) ==
    IF desc = "Query" THEN [Blank("Query") EXCEPT ![3] = Slot(0, DecodesInto(1))] ELSE Blank(desc)
Memory(desc) == IF desc = "Query" THEN <<NewCondition>> ELSE << >>

Arrived(desc, len, d) == [desc |-> desc, len |-> len, is |-> d.is, m |-> d.val, pool |-> d.pool]

Decoded(desc, len) ==
    Arrived(desc, len, DecodeEx(IStream(SubSeq(stream.buf, 1, len)), desc, Prepared(desc),
                                job.flags, Memory(desc)))

DecodeQuery ==
    /\ at = "decode" /\ query # << >>
    /\ arrived' = Decoded("Query", TotalBytesEncoded)
    /\ at' = "get"
    /\ UNCHANGED <<query, job, stream, answer>>

DecodeSomeMessage ==
    /\ at = "decode" /\ query = << >> /\ stream.st = "ok"
    /\ \E desc \in ReadersOf[job.desc], len \in 0..stream.written : arrived' = Decoded(desc, len)
    /\ at' = "done"
    /\ UNCHANGED <<query, job, stream, answer>>

(* getQuery, decoded or not, and a look at the first document.             *)
Get ==
    /\ at = "get"
    /\ answer' = <<GetQuery(arrived.m, TreeAt(arrived.pool, 1))>>
    /\ at' = IF answer'[1].documents[1] = << >> THEN "crash" ELSE "done"
    /\ UNCHANGED <<query, job, stream, arrived>>

Next == FillMessage \/ EncodeMessage \/ DecodeQuery \/ DecodeSomeMessage \/ Get

Spec == Init /\ [][Next]_vars /\ WF_vars(Next)

-----------------------------------------------------------------------------
(* What may be in the variables: a stream that has not failed has written  *)
(* what it says, and never more than it may.                               *)
CodecTypeOK ==
    /\ at \in {"fill", "encode", "decode", "get", "done", "crash", "undefined"}
    /\ query \in {<< >>} \cup {<<q>> : q \in Queries}
    /\ stream.written \in Nat /\ stream.buf \in Seq(0..255)
    /\ ~stream.sizing /\ (stream.st = "ok" => Len(stream.buf) = stream.written)
    /\ Len(stream.buf) <= stream.max
    /\ arrived.len <= Len(stream.buf)
    /\ Len(answer) <= 1

(* The size nanopb computes beforehand is the size it writes, and the      *)
(* message is refused exactly when the buffer is smaller, whatever it is   *)
(* made of: submessages sized in a pass of their own, packed arrays,       *)
(* nested conditions whose callbacks run once for each pass above them.    *)
FullSize ==
    LET size == EncodedSize(job.desc, job.msg)
    IN  CASE job.flags = "delimited" -> Len(Varint(size)) + size
          [] job.flags = "nullterminated" -> size + 1
          [] OTHER -> size

RefusedOnlyWhenFull ==
    at = "decode" =>
        /\ stream.st \in {"ok", "stream full"}
        /\ stream.st = "ok" <=> FullSize <= stream.max
        /\ stream.st = "ok" => stream.written = FullSize

Ended == at = "done" /\ query = << >>
Whole == Ended /\ arrived.len = stream.written

(* What is decoded whole, under the schema of the sender, is the message.  *)
RoundTrips ==
    Whole /\ arrived.desc = job.desc => arrived.is = IStream(<< >>) /\ arrived.m = job.msg

(* A reader that knows only some of the fields reads those as if it knew   *)
(* the others too.                                                         *)
UnknownSkipped ==
    Whole =>
        /\ arrived.is.st = "ok"
        /\ \A t \in DOMAIN arrived.m : arrived.m[t] = job.msg[t]

(* A message that has lost its end is refused if it came with a length,    *)
(* and where it is not, each field is the sender's or as if never sent, or *)
(* an array cut short: never a value made of half the bytes.               *)
FieldCut(f, slot, sent) ==
    \/ slot = sent
    \/ slot = EmptySlot(f)
    \/ f.htype = "REPEATED" /\ ~f.fixed /\ slot.n < sent.n /\ IsPrefix(slot.v, sent.v)

CutRefused ==
    Ended /\ arrived.len < stream.written /\ arrived.is.st = "ok" =>
        /\ job.flags # "delimited"
        /\ \A f \in ToSet(Messages[arrived.desc]) : FieldCut(f, arrived.m[f.tag], job.msg[f.tag])

(* A query comes back whole or not at all: with the operator tree of its   *)
(* condition, however deep, and its documents with all their elements, or  *)
(* as a query of zeros, when the buffer was too small.  (Strings and the   *)
(* name point to memory that is gone, the limit is not read.)              *)
NotGiven == NewCondition
Received(q) ==
    [type |-> q.type, name |-> <<Dangling>>,
     condition |-> <<IF q.condition = << >> THEN NotGiven ELSE q.condition[1]>>,
     documents |-> <<IF q.documents = << >> THEN << >>
                     ELSE [k \in DOMAIN q.documents[1] |->
                             [q.documents[1][k] EXCEPT !.elements =
                                [j \in DOMAIN @ |->
                                    IF @[j].type = ElString THEN [@[j] EXCEPT !.value = Dangling]
                                    ELSE @[j]]]]>>,
     limit |-> -1]
ZeroQuery ==
    [type |-> 0, name |-> <<Dangling>>, condition |-> <<NotGiven>>, documents |-> << << >> >>,
     limit |-> -1]

DeliveredWhole ==
    answer # << >> =>
        /\ arrived.is = IStream(<< >>)
        /\ answer[1] = IF stream.st = "ok" THEN Received(query[1]) ELSE ZeroQuery
=============================================================================
