----------------------------- MODULE Statements -----------------------------
(* The statements that change a table (rivetxsql/insert.go, delete.go,      *)
(* update.go) and the pool of connections they share (conn.go).  A list of  *)
(* rows goes out in chunks, each a statement of its own with a context of   *)
(* its own; ReserveSize reads a boundary and deletes what lies at or below  *)
(* it, a batch at a time, through a second connection of the pool while the *)
(* rows of the first query stay open.                                       *)
EXTENDS Naturals, Sequences, SequencesExt, FiniteSets, FiniteSetsExt

CONSTANTS
    Caller,         \* the goroutines that call Exec
    Jobs,           \* Jobs[c]: the calls c may make, see Job
    Row,            \* the rows there may be, by their ids: bounds the auto-increment
    Field,          \* Field[r]: the reserveField of row r
    Rows,           \* the rows the table holds at first
    ReserveSize,    \* the rows a trim keeps
    BatchSize,      \* the rows a trim deletes at a time
    MaxOpenConns,   \* the size of the pool
    None            \* no boundary

\* A call: the rows or the IN values it is given, and the size of a chunk.
Job == [kind : {"insert", "delete", "update", "trim"}, data : Seq(Nat), batch : Nat \ {0}]

ASSUME JobsType == \A c \in Caller : Jobs[c] \subseteq Job
\* InsertRaw and UpdateRaw refuse a call with no rows.
ASSUME RowsAreGiven == \A c \in Caller : \A j \in Jobs[c] :
                          j.kind \in {"insert", "update"} => j.data # <<>>
ASSUME RowsType == Row \subseteq Nat /\ IsFiniteSet(Row) /\ Rows \subseteq Row
ASSUME FieldType == Field \in [Row -> Nat] /\ None \notin Nat
ASSUME SizesAreNumbers == /\ ReserveSize \in Nat /\ BatchSize \in Nat \ {0}
                          /\ MaxOpenConns \in Nat \ {0}

VARIABLES
    table,      \* the rows of the table
    nextId,     \* the next value of the auto-increment column
    free,       \* the connections of the pool nobody holds
    job,        \* the call each caller makes
    pc,         \* where each caller stands
    start,      \* the rows of its data a caller has sent
    open,       \* the trims that hold a connection by the rows of their query
    key,        \* the boundary a trim has read
    total,      \* TotalAffected
    lastID,     \* LastInsertId
    did,        \* history: the rows a caller's statements inserted, changed or deleted
    due,        \* history: the rows at or below the boundary when a trim read it
    cut         \* history: the rows deleted by callers that do not trim

history == <<did, due, cut>>
vars == <<table, nextId, free, job, pc, start, open, key, total, lastID, history>>

Ended == {"returned", "failed"}

Init ==
    /\ table = Rows /\ nextId = Max(Rows \cup {0}) + 1
    /\ free = MaxOpenConns /\ open = {}
    /\ job \in [Caller -> UNION {Jobs[c] : c \in Caller}] /\ \A c \in Caller : job[c] \in Jobs[c]
    /\ pc = [c \in Caller |-> IF job[c].kind = "trim" THEN "query" ELSE "exec"]
    /\ start = [c \in Caller |-> 0]
    /\ key = [c \in Caller |-> None]
    /\ total = [c \in Caller |-> 0] /\ lastID = [c \in Caller |-> 0]
    /\ did = [c \in Caller |-> {}] /\ due = [c \in Caller |-> {}] /\ cut = {}

-----------------------------------------------------------------------------
(* ExecContext: a connection of the pool, the statement, its result *)

\* the connections of a caller that goes back to the pool when it goes to l
Release(c, l) ==
    /\ pc' = [pc EXCEPT ![c] = l]
    /\ IF l \in Ended /\ c \in open
         THEN free' = free + 2 /\ open' = open \ {c}
         ELSE free' = free + 1 /\ UNCHANGED open

Connect(c) ==
    /\ pc[c] = "exec" /\ free > 0
    /\ free' = free - 1
    /\ pc' = [pc EXCEPT ![c] = "run"]
    /\ UNCHANGED <<table, nextId, job, start, open, key, total, lastID, history>>

\* a mutant: no time limit on the wait for a connection
NoExpire(c) == FALSE /\ UNCHANGED vars

\* The context ends while the statement waits for a connection.  A trim closes
\* its rows on the way out.
Expire(c) ==
    /\ pc[c] = "exec"
    /\ pc' = [pc EXCEPT ![c] = "failed"]
    /\ free' = IF c \in open THEN free + 1 ELSE free
    /\ open' = open \ {c}
    /\ UNCHANGED <<table, nextId, job, start, key, total, lastID, history>>

\* The database refuses the statement, or it is lost on the way.
Refuse(c) ==
    /\ pc[c] = "run"
    /\ Release(c, "failed")
    /\ UNCHANGED <<table, nextId, job, start, key, total, lastID, history>>

\* LastInsertId of a chunk, from what the driver reports of it
LastOfChunk(affected, first) == first + affected - 1

\* The statement of c has changed rows and the driver reports its first id.
\* The caller goes to l, or the answer is lost and it fails.
Answer(c, rows, first, l) ==
    /\ did' = [did EXCEPT ![c] = @ \cup rows]
    /\ \/ /\ total' = [total EXCEPT ![c] = @ + Cardinality(rows)]
          /\ lastID' = IF rows = {} THEN lastID
                       ELSE [lastID EXCEPT ![c] = LastOfChunk(Cardinality(rows), first)]
          /\ Release(c, l)
       \/ Release(c, "failed") /\ UNCHANGED <<total, lastID>>

-----------------------------------------------------------------------------
(* InsertRaw, UpdateRaw and DeleteRaw: one statement per chunk *)

\* a mutant: a chunk begins with the last row of the one before it
ChunkOverlap(c) ==
    SubSeq(job[c].data, IF start[c] = 0 THEN 1 ELSE start[c],
           Min({start[c] + job[c].batch, Len(job[c].data)}))

Chunk(c) == SubSeq(job[c].data, start[c] + 1, Min({start[c] + job[c].batch, Len(job[c].data)}))

SendChunk(c, kind) ==
    /\ pc[c] = "run" /\ job[c].kind = kind
    /\ start' = [start EXCEPT ![c] = @ + job[c].batch]
    /\ UNCHANGED <<job, key, due>>

AfterChunk(c) == IF start[c] + job[c].batch < Len(job[c].data) THEN "exec" ELSE "returned"

\* The rows of one INSERT get ids that follow one another.
InsertChunk(c) ==
    /\ SendChunk(c, "insert")
    /\ LET ids == nextId .. nextId + Len(Chunk(c)) - 1 IN
        /\ ids \subseteq Row
        /\ table' = table \cup ids /\ nextId' = nextId + Len(Chunk(c))
        /\ Answer(c, ids, nextId, AfterChunk(c))
    /\ UNCHANGED cut

DeleteChunk(c) ==
    /\ SendChunk(c, "delete")
    /\ LET rows == table \cap ToSet(Chunk(c)) IN
        /\ table' = table \ rows /\ cut' = cut \cup rows
        /\ Answer(c, rows, 0, AfterChunk(c))
    /\ UNCHANGED nextId

UpdateChunk(c) ==
    /\ SendChunk(c, "update")
    /\ Answer(c, table \cap ToSet(Chunk(c)), 0, AfterChunk(c))
    /\ UNCHANGED <<table, nextId, cut>>

-----------------------------------------------------------------------------
(* execReserveSize *)

Above(S, k) == {r \in S : Field[r] > k}
UpTo(S, k) == {r \in S : Field[r] <= k}

\* a mutant: one row fewer is skipped
BoundaryAbove(r) == Cardinality(Above(table, Field[r])) + 1 = ReserveSize

\* The row at OFFSET reserveSize of the rows in descending order: as many rows
\* come before it.  (Of rows that tie, the database lists any one first.)
Boundary(r) ==
    /\ Cardinality(Above(table, Field[r])) <= ReserveSize
    /\ ReserveSize < Cardinality({s \in table : Field[s] >= Field[r]})

\* The query waits for a connection without a limit in time; it finds the
\* boundary and its rows stay open.
QueryFinds(c) ==
    /\ pc[c] = "query" /\ free > 0
    /\ \E r \in table :
        /\ Boundary(r)
        /\ key' = [key EXCEPT ![c] = Field[r]]
        /\ due' = [due EXCEPT ![c] = UpTo(table, Field[r])]
    /\ free' = free - 1 /\ open' = open \cup {c}
    /\ pc' = [pc EXCEPT ![c] = "exec"]
    /\ UNCHANGED <<table, nextId, job, start, total, lastID, did, cut>>

\* There is no such row, or the answer is lost while it is read: an error of
\* rows.Next is not looked at.  The query itself may fail.
QueryEnds(c) ==
    /\ pc[c] = "query" /\ free > 0
    /\ \E l \in Ended : pc' = [pc EXCEPT ![c] = l]
    /\ UNCHANGED <<table, nextId, free, job, start, open, key, total, lastID, history>>

AfterTrim(rows) == IF rows = {} THEN "returned" ELSE "exec"

Trimmed(c) == UpTo(table, key[c])

\* DELETE ... LIMIT without an order: any of the rows at or below the boundary.
Trim(c) ==
    /\ pc[c] = "run" /\ job[c].kind = "trim"
    /\ \E rows \in SUBSET Trimmed(c) :
        /\ Cardinality(rows) = Min({BatchSize, Cardinality(Trimmed(c))})
        /\ table' = table \ rows
        /\ Answer(c, rows, 0, AfterTrim(rows))
    /\ UNCHANGED <<nextId, job, start, key, due, cut>>

Step(c) ==
    \/ Connect(c) \/ Expire(c) \/ Refuse(c)
    \/ InsertChunk(c) \/ DeleteChunk(c) \/ UpdateChunk(c)
    \/ QueryFinds(c) \/ QueryEnds(c) \/ Trim(c)

Next == \E c \in Caller : Step(c)

Spec == Init /\ [][Next]_vars /\ \A c \in Caller : WF_vars(Step(c))

-----------------------------------------------------------------------------
(* Properties *)

\* No trim deletes one of the newest reserveSize rows: above a row it deletes
\* there are as many in the table, not counting one somebody else deleted on
\* purpose, whatever other trims and inserts did since it read the boundary.
NewestKept ==
    [][\A r \in table \ table' :
        \/ r \in cut'
        \/ Cardinality(Above(table' \cup cut', Field[r])) >= ReserveSize]_vars

\* A call that returns has sent each of its rows once and reports what its
\* statements did, to the last id it inserted; a trim has deleted all it found
\* at or below its boundary.
ReportIsTrue ==
    \A c \in Caller : pc[c] = "returned" =>
        /\ total[c] = Cardinality(did[c])
        /\ job[c].kind = "insert" =>
            Cardinality(did[c]) = Len(job[c].data) /\ lastID[c] = Max(did[c])
        /\ due[c] \cap table = {}

\* Every call returns, though each trim of the pool's last connections waits
\* for one that another trim holds.
CallsReturn == \A c \in Caller : <>(pc[c] \in Ended)
=============================================================================
