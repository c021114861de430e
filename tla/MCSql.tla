------------------------------- MODULE MCSql -------------------------------
(* Statements: two trims that keep two rows and the calls that change the   *)
(* table beside them.  Rows that come later may have smaller fields; no two *)
(* tie.  PagedSelect: four rows, two of which tie in the order field; pages *)
(* of one or two, chunks of two.                                            *)
EXTENDS Sql, TLC

MCField == <<2, 5, 3, 7, 1, 6, 4, 8>>

MCTrim == [kind |-> "trim", data |-> <<>>, batch |-> 1]

MCJobs == [c \in Caller |->
    CASE c = "insert" -> {[kind |-> "insert", data |-> <<1, 2, 3>>, batch |-> 2],
                          [kind |-> "insert", data |-> <<1, 2>>, batch |-> 2]}
      [] c = "other" -> {[kind |-> "delete", data |-> <<2, 5>>, batch |-> 2],
                         [kind |-> "update", data |-> <<1, 7>>, batch |-> 2]}
      [] OTHER -> {MCTrim}]

-----------------------------------------------------------------------------
MCSelectRow == 1..4
MCSelectField == <<1, 2, 2, 3>>
MCValue == <<"a", "b", "c", "a">>

MCPlain == [keyset |-> FALSE, desc |-> FALSE, order |-> FALSE, fixed |-> FALSE, cond |-> TRUE,
            inVals |-> <<>>, inBatchSize |-> 0, limit |-> 0, offset |-> 0, batchSize |-> 2]

\* keysets of up to five pages, with and without an offset and an IN condition,
\* one that joins two ANDs, one whose offset is beyond its limit
MCKeysets ==
    {[MCPlain EXCEPT !.keyset = TRUE, !.desc = d, !.limit = n, !.offset = o,
                         !.batchSize = b] :
        d \in BOOLEAN, n \in {3, 4}, o \in {0, 1}, b \in {1, 2}}
    \cup {[MCPlain EXCEPT !.keyset = TRUE, !.limit = 4, !.inVals = <<"a", "b">>],
          [MCPlain EXCEPT !.keyset = TRUE, !.limit = 3, !.fixed = TRUE, !.cond = FALSE],
          [MCPlain EXCEPT !.keyset = TRUE, !.limit = 1, !.offset = 2],
          [MCPlain EXCEPT !.keyset = TRUE, !.limit = 1, !.inBatchSize = 1]}

\* pages by offset, ordered or not; chunks of an IN condition, whose rows fit a
\* page or do not; what SelectRaw refuses
MCPaged ==
    {[MCPlain EXCEPT !.order = TRUE, !.limit = n, !.offset = o] : n \in {0, 3}, o \in {0, 1}}
    \cup {[MCPlain EXCEPT !.inVals = <<"a", "b", "c">>, !.batchSize = b] : b \in {0, 5}}
    \cup {[MCPlain EXCEPT !.inVals = <<"a", "b">>, !.inBatchSize = 1, !.batchSize = 5],
          [MCPlain EXCEPT !.order = TRUE, !.inVals = <<"a", "b", "c">>],
          [MCPlain EXCEPT !.cond = FALSE],
          [MCPlain EXCEPT !.limit = 1, !.inBatchSize = 1]}

MCCalls == MCKeysets \cup MCPaged
=============================================================================
