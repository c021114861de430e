----------------------------- MODULE PagedSelect -----------------------------
(* The SELECT of the builder (rivetxsql/select.go).  SelectRaw asks for the *)
(* rows in pages of a batch size, by LIMIT and OFFSET, and for the values   *)
(* of an IN condition in chunks, each with pages of its own; with           *)
(* OrderFieldSelect a page begins after the last value of the order field   *)
(* the page before it ended with (the keyset).  Every page is a query of    *)
(* its own: the table may change between two of them.  A row stands for     *)
(* what the fixed columns and the caller's condition let through.           *)
EXTENDS Naturals, Sequences, SequencesExt, FiniteSets

CONSTANTS
    Row,        \* the rows the table may hold
    Field,      \* Field[r]: the value of the order field
    Value,      \* Value[r]: the value of the column of the IN condition
    Calls,      \* the selects that may be built, see SelectBuilder
    BatchSize,  \* the page, and the chunk, when the caller names no size
    NoLimit,    \* math.MaxInt32
    None        \* lastID before the first page

\* The fields of the builder.  order: there is an ORDER BY (a keyset has one of
\* its own); fixed, cond: there are fixed columns, there is a condition.
SelectBuilder ==
    [keyset : BOOLEAN, desc : BOOLEAN, order : BOOLEAN, fixed : BOOLEAN, cond : BOOLEAN,
     inVals : Seq({Value[r] : r \in Row}), inBatchSize : Nat,
     limit : Nat, offset : Nat, batchSize : Nat]

VARIABLES
    table,      \* the rows the table holds
    call,       \* the select
    pc,         \* where Exec stands: exec, loop (the keyset's), query, returned, failed
    raw,        \* SelectRaw's chunk, dataOffset, dataLimit, result; its order, limit, offset
    lastID,     \* the keyset's last value
    result,     \* what Exec returns, the keyset's pages while it runs
    steady,     \* history: the rows that were in the table all along
    still       \* history: nobody changed the table

history == <<steady, still>>
vars == <<table, call, pc, raw, lastID, result, history>>

Smaller(m, n) == IF m < n THEN m ELSE n

\* LIMIT n OFFSET o
Slice(s, o, n) == SubSeq(s, o + 1, Smaller(o + n, Len(s)))

-----------------------------------------------------------------------------
(* The database *)

\* Row r comes before row s in the order asked for.
Precedes(desc, r, s) == IF desc THEN Field[r] > Field[s] ELSE Field[r] < Field[s]
Before(r, s) == Precedes(call.desc, r, s)

\* a mutant: <= and >= instead of < and >
BeyondOrAt(r) ==
    \/ lastID = None
    \/ IF call.desc THEN Field[r] <= lastID ELSE Field[r] >= lastID

\* The condition of the keyset: the field is beyond lastID.
Beyond(r) ==
    \/ lastID = None
    \/ IF call.desc THEN Field[r] < lastID ELSE Field[r] > lastID

\* The sequences of S an engine may list: rows that tie, and all rows when
\* there is no ORDER BY, come in whatever order it finds them.
AnyOrder == [S \in SUBSET Row |-> SetToSeqs(S)]
InOrder == [desc \in BOOLEAN |-> [S \in SUBSET Row |->
    {s \in AnyOrder[S] : \A i, j \in DOMAIN s : Precedes(desc, s[i], s[j]) => i < j}]]
Listings(S) == IF raw.order THEN InOrder[call.desc][S] ELSE AnyOrder[S]

-----------------------------------------------------------------------------
(* SelectRaw *)

PageSize(b) == IF b.batchSize = 0 THEN BatchSize ELSE b.batchSize

\* SelectRaw with no condition, or with chunks where it cannot have them.
Refused(order, limit, offset) ==
    \/ call.inBatchSize > 0 /\ (order \/ limit > 0 \/ offset > 0)
    \/ ~call.keyset /\ ~call.fixed /\ ~call.cond /\ call.inVals = <<>>

\* IN values per query: all of them as soon as the rows are ordered or counted.
ChunkSize(order, limit, offset) ==
    IF call.inBatchSize > 0 THEN call.inBatchSize
    ELSE IF order \/ limit > 0 \/ offset > 0 THEN NoLimit ELSE BatchSize

Chunks ==
    IF call.inVals = <<>> THEN 1 ELSE (Len(call.inVals) + raw.chunkSize - 1) \div raw.chunkSize

ChunkValues == Slice(call.inVals, (raw.chunk - 1) * raw.chunkSize, raw.chunkSize)

Matching(r) == Beyond(r) /\ (call.inVals # <<>> => Value[r] \in ToSet(ChunkValues))

\* The keyset joins its own condition with AND: after fixed columns and no
\* condition the statement has two, which no database accepts.
Malformed == call.keyset /\ call.fixed /\ ~call.cond

Call(order, limit, offset) ==
    /\ pc' = IF Refused(order, limit, offset) THEN "failed" ELSE "query"
    /\ raw' = [order |-> order, chunkSize |-> ChunkSize(order, limit, offset),
               limit |-> IF limit = 0 THEN NoLimit ELSE limit, offset |-> offset,
               chunk |-> 1, dataOffset |-> offset,
               dataLimit |-> IF limit = 0 THEN NoLimit ELSE limit, rows |-> <<>>]

MinLimit == Smaller(raw.dataLimit, PageSize(call))

\* What the query of a page may return: LIMIT minLimit OFFSET dataOffset.
Pages == {Slice(s, raw.dataOffset, MinLimit) : s \in Listings({r \in table : Matching(r)})}

\* A page that is not short, and not the last the limit leaves.
Full(page) == Len(page) = MinLimit /\ raw.dataLimit > MinLimit

\* a mutant: every page is asked for at the first one's offset
NextPageSameOffset ==
    /\ pc = "query" /\ ~Malformed
    /\ \E page \in Pages :
        /\ Full(page)
        /\ raw' = [raw EXCEPT !.dataLimit = @ - MinLimit, !.rows = @ \o page]
    /\ UNCHANGED <<table, call, pc, lastID, result, history>>

NextPage ==
    /\ pc = "query" /\ ~Malformed
    /\ \E page \in Pages :
        /\ Full(page)
        /\ raw' = [raw EXCEPT !.dataOffset = @ + MinLimit, !.dataLimit = @ - MinLimit,
                              !.rows = @ \o page]
    /\ UNCHANGED <<table, call, pc, lastID, result, history>>

NextChunk ==
    /\ pc = "query" /\ ~Malformed /\ raw.chunk < Chunks
    /\ \E page \in Pages :
        /\ ~Full(page)
        /\ raw' = [raw EXCEPT !.chunk = @ + 1, !.dataOffset = raw.offset,
                              !.dataLimit = raw.limit, !.rows = @ \o page]
    /\ UNCHANGED <<table, call, pc, lastID, result, history>>

\* a mutant: an empty page does not end the keyset
LastPageGoesOn ==
    /\ pc = "query" /\ ~Malformed /\ raw.chunk = Chunks
    /\ \E page \in Pages :
        LET rows == raw.rows \o page IN
        /\ ~Full(page)
        /\ result' = result \o rows
        /\ lastID' = IF call.keyset /\ rows # <<>> THEN Field[Last(rows)] ELSE lastID
        /\ pc' = IF call.keyset THEN "loop" ELSE "returned"
    /\ UNCHANGED <<table, call, raw, history>>

\* SelectRaw returns the rows: the keyset goes on with the field of the last
\* of them, or ends when there is none.
LastPage ==
    /\ pc = "query" /\ ~Malformed /\ raw.chunk = Chunks
    /\ \E page \in Pages :
        LET rows == raw.rows \o page IN
        /\ ~Full(page)
        /\ result' = result \o rows
        /\ lastID' = IF call.keyset /\ rows # <<>> THEN Field[Last(rows)] ELSE lastID
        /\ pc' = IF call.keyset /\ rows # <<>> THEN "loop" ELSE "returned"
    /\ UNCHANGED <<table, call, raw, history>>

\* A query ends with an error (the connection, the timeout of its context, a
\* row that does not scan): the rows read so far are dropped.
QueryFails ==
    /\ pc = "query"
    /\ pc' = "failed" /\ result' = <<>>
    /\ UNCHANGED <<table, call, raw, lastID, history>>

-----------------------------------------------------------------------------
(* Exec and execOrderFieldSelect *)

Exec ==
    /\ pc = "exec"
    /\ IF call.keyset
         THEN pc' = (IF call.offset > call.limit THEN "failed" ELSE "loop") /\ raw' = raw
         ELSE Call(call.order, call.limit, call.offset)
    /\ UNCHANGED <<table, call, lastID, result, history>>

\* The rows the keyset may still take, and the offset of its first page.
Remaining == call.limit - Len(result)
FirstOffset == IF lastID = None THEN call.offset ELSE 0

Loop ==
    /\ pc = "loop"
    /\ IF Remaining = 0
         THEN pc' = "returned" /\ raw' = raw
         ELSE Call(TRUE, Smaller(Remaining, PageSize(call)), FirstOffset)
    /\ UNCHANGED <<table, call, lastID, result, history>>

\* Others insert and delete rows before each query of the call (what Exec does
\* between two queries does not touch the table).
Change(r) ==
    /\ pc = "query"
    /\ table' = IF r \in table THEN table \ {r} ELSE table \cup {r}
    /\ steady' = steady \ {r} /\ still' = FALSE
    /\ UNCHANGED <<call, pc, raw, lastID, result>>

Init ==
    /\ table \in SUBSET Row
    /\ call \in Calls
    /\ pc = "exec" /\ lastID = None /\ result = <<>>
    /\ raw = [order |-> FALSE, chunkSize |-> 1, limit |-> 0, offset |-> 0,
              chunk |-> 1, dataOffset |-> 0, dataLimit |-> 0, rows |-> <<>>]
    /\ steady = table /\ still = TRUE

Page == NextPage \/ NextChunk \/ LastPage \/ QueryFails
Select == Exec \/ Loop \/ Page
Next == Select \/ \E r \in Row : Change(r)

Spec == Init /\ [][Next]_vars /\ WF_vars(Select)

-----------------------------------------------------------------------------
(* Properties *)

\* The rows of the call: those its IN condition names, all when it has none.
Wanted(S) == {r \in S : call.inVals # <<>> => Value[r] \in ToSet(call.inVals)}
Untied(S) == \A r, s \in S : r # s => Field[r] # Field[s]

\* The answer of one query over the whole table.
OneQuery(s) ==
    IF call.limit = 0 /\ ~call.keyset THEN SubSeq(s, call.offset + 1, Len(s))
    ELSE Slice(s, call.offset, call.limit)

Ordered == call.keyset \/ call.order

\* Whatever the pages and chunks, Exec answers what the caller asked for.  Over
\* a table nobody changes, whose rows the order tells apart, the pages add up to
\* the answer of the one query they stand for.  When each chunk of an IN
\* condition fits a page and no value is named twice, every row that stayed in
\* the table is returned, and no row twice, though the table changes between
\* the chunks.
ResultAddsUp ==
    pc = "returned" =>
        /\ (Ordered /\ still /\ Untied(Wanted(table)))
            => \E s \in SetToSeqs(Wanted(table)) :
                /\ \A i, j \in DOMAIN s : i < j => Before(s[i], s[j])
                /\ result = OneQuery(s)
        /\ (/\ ~Ordered /\ call.limit = 0 /\ call.offset = 0
            /\ IsInjective(call.inVals) /\ Cardinality(Row) < PageSize(call))
            => IsInjective(result) /\ Wanted(steady) \subseteq ToSet(result)

\* Whatever others insert and delete while a keyset runs, it returns its rows in
\* the order of the field, none of them twice, and no more than asked for; and
\* it skips no row that stays: one that ties with no other and is not returned
\* lies before the first row, beyond the offset, or after the last of as many
\* rows as asked for.
KeysetIsExact ==
    call.keyset =>
        /\ \A i, j \in DOMAIN result :
            i < j => result[i] # result[j] /\ ~Before(result[j], result[i])
        /\ Len(result) <= call.limit
        /\ pc = "returned" =>
            \A r \in Wanted(steady) \ ToSet(result) :
                \/ \E s \in Row \ {r} : Field[s] = Field[r]
                \/ call.offset > 0 /\ (result = <<>> \/ Before(r, result[1]))
                \/ Len(result) = call.limit /\ (result = <<>> \/ Before(Last(result), r))

\* A select ends, with rows or with an error, though rows come and go forever.
SelectReturns == <>(pc \in {"returned", "failed"})
=============================================================================
