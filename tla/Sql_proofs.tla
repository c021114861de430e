----------------------------- MODULE Sql_proofs -----------------------------
(* For any table without ties in the reserveField, any callers, calls,      *)
(* sizes and pools: no trim deletes one of the newest reserveSize rows.     *)
(* For any table and calls, of which an update names each row once: a call  *)
(* that returns reports what its statements did.  And for any SELECT, table *)
(* and batch sizes: the pages and chunks add up to what was asked for, and  *)
(* a keyset is exact though the table changes.                              *)
EXTENDS Sql, FiniteSetTheorems, SequenceTheorems, WellFoundedInduction, TLAPS

\* Of rows that tie at the boundary a trim deletes all, and may keep too few:
\* the theorem is about a field that tells the rows apart.
NoTies == \A r, s \in Row : Field[r] = Field[s] => r = s

\* A trim that may delete has read its boundary.
KeyRead ==
    \A c \in Caller : job[c].kind = "trim" /\ pc[c] \in {"exec", "run"} => key[c] \in Nat

\* What makes the invariant inductive: once read, a boundary keeps reserveSize
\* rows above it, not counting those deleted on purpose, also against the trims
\* of the others.
KeysKeep ==
    \A c \in Caller : key[c] \in Nat =>
        Cardinality(Above(table \cup cut, key[c])) >= ReserveSize

Types ==
    /\ table \subseteq Row /\ cut \subseteq Row
    /\ key \in [Caller -> Nat \cup {None}]
    /\ pc \in [Caller -> {"query", "exec", "run"} \cup Ended]

IInv == Types /\ KeyRead /\ KeysKeep

-----------------------------------------------------------------------------
(* Rows above a boundary *)

\* More rows, or a lower boundary, leave more above it.
LEMMA MoreAbove ==
    ASSUME NEW T, T \subseteq Row, NEW S, NEW k \in Nat, NEW m \in Nat,
           Above(S, k) \subseteq Above(T, m), Cardinality(Above(S, k)) >= ReserveSize
    PROVE  Cardinality(Above(T, m)) >= ReserveSize
<1>1. IsFiniteSet(Above(T, m))
  BY RowsType, FS_Subset DEF Above
<1>2. IsFiniteSet(Above(S, k)) /\ Cardinality(Above(S, k)) <= Cardinality(Above(T, m))
  BY <1>1, FS_Subset
<1>3. Cardinality(Above(S, k)) \in Nat /\ Cardinality(Above(T, m)) \in Nat
  BY <1>1, <1>2, FS_CardinalityType
<1>4. QED BY <1>2, <1>3, SizesAreNumbers

\* The row at OFFSET reserveSize has as many above it, when none ties with it.
LEMMA BoundaryKeeps ==
    ASSUME NoTies, table \subseteq Row, NEW r \in table, Boundary(r)
    PROVE  Cardinality(Above(table, Field[r])) >= ReserveSize
<1> DEFINE A == Above(table, Field[r])
           B == {s \in table : Field[s] >= Field[r]}
<1>1. Field \in [Row -> Nat]
  BY FieldType
<1>2. B = A \cup {r} /\ r \notin A
  BY <1>1 DEF Above, NoTies
<1>3. IsFiniteSet(A)
  BY RowsType, FS_Subset DEF Above
<1>4. Cardinality(B) = Cardinality(A) + 1
  BY <1>2, <1>3, FS_AddElement
<1>5. Cardinality(A) \in Nat
  BY <1>3, FS_CardinalityType
<1>6. ReserveSize < Cardinality(B)
  BY DEF Boundary
<1>7. QED BY <1>4, <1>5, <1>6, SizesAreNumbers

\* Boundaries go on keeping their rows when no row is lost but to a delete.
LEMMA KeysKeepMore ==
    ASSUME Types, Types', KeysKeep, key' = key, table \cup cut \subseteq table' \cup cut'
    PROVE  KeysKeep'
<1>1. SUFFICES ASSUME NEW c \in Caller, key[c] \in Nat
               PROVE  Cardinality(Above(table' \cup cut', key[c])) >= ReserveSize
  BY DEF KeysKeep, Above
<1>2. Above(table \cup cut, key[c]) \subseteq Above(table' \cup cut', key[c])
  BY DEF Above
<1>3. Cardinality(Above(table \cup cut, key[c])) >= ReserveSize
  BY <1>1 DEF KeysKeep
<1>4. QED BY <1>1, <1>2, <1>3, MoreAbove DEF Types

-----------------------------------------------------------------------------
(* The steps that leave the boundaries alone *)

LEMMA InitHolds == Init => IInv
<1>1. SUFFICES ASSUME Init PROVE IInv
  OBVIOUS
<1>2. Types
  BY <1>1, RowsType DEF Init, Types, Ended
<1>3. KeyRead
  BY <1>1 DEF Init, KeyRead
<1>4. KeysKeep
  BY <1>1, FieldType DEF Init, KeysKeep
<1>5. QED BY <1>2, <1>3, <1>4 DEF IInv

\* where a statement's answer leaves the caller
LEMMA AnswerMoves ==
    ASSUME NEW c \in Caller, NEW rows, NEW first, NEW l \in {"exec", "returned"},
           Types, pc[c] = "run", Answer(c, rows, first, l)
    PROVE  \E m \in {"exec"} \cup Ended : pc' = [pc EXCEPT ![c] = m]
BY DEF Answer, Release, Ended

\* A caller that ran a statement, or was about to, goes anywhere but to a query.
LEMMA KeyStaysRead ==
    ASSUME NEW c \in Caller, NEW m \in {"exec", "run"} \cup Ended, Types, KeyRead,
           pc[c] \in {"exec", "run"}, pc' = [pc EXCEPT ![c] = m], key' = key, job' = job
    PROVE  KeyRead'
BY DEF KeyRead, Types

LEMMA Connects ==
    ASSUME NEW c \in Caller, IInv, Connect(c) \/ Expire(c) \/ Refuse(c)
    PROVE  IInv'
<1>1. /\ table' = table /\ cut' = cut /\ key' = key /\ job' = job
      /\ pc[c] \in {"exec", "run"}
      /\ \E m \in {"run", "failed"} : pc' = [pc EXCEPT ![c] = m]
  BY DEF Connect, Expire, Refuse, Release, history
<1>2. Types'
  BY <1>1 DEF IInv, Types, Ended
<1>3. KeyRead'
  BY <1>1, KeyStaysRead DEF IInv, Ended
<1>4. KeysKeep'
  BY <1>1 DEF IInv, KeysKeep, Above
<1>5. QED BY <1>2, <1>3, <1>4 DEF IInv

LEMMA ChunkChanges ==
    ASSUME NEW c \in Caller, IInv, InsertChunk(c) \/ DeleteChunk(c) \/ UpdateChunk(c)
    PROVE  IInv' /\ table \ table' \subseteq cut'
<1>1. key' = key /\ job' = job /\ pc[c] = "run"
  BY DEF InsertChunk, DeleteChunk, UpdateChunk, SendChunk
<1>2. AfterChunk(c) \in {"exec", "returned"}
  BY DEF AfterChunk
<1>3. \E m \in {"exec"} \cup Ended : pc' = [pc EXCEPT ![c] = m]
  BY <1>1, <1>2, AnswerMoves DEF IInv, InsertChunk, DeleteChunk, UpdateChunk
<1>4. /\ table' \subseteq Row /\ cut' \subseteq Row
      /\ table \cup cut \subseteq table' \cup cut' /\ table \ table' \subseteq cut'
  BY DEF IInv, Types, InsertChunk, DeleteChunk, UpdateChunk
<1>5. Types'
  BY <1>1, <1>3, <1>4 DEF IInv, Types, Ended
<1>6. KeyRead'
  BY <1>1, <1>3, KeyStaysRead DEF IInv
<1>7. KeysKeep'
  BY <1>1, <1>4, <1>5, KeysKeepMore DEF IInv
<1>8. QED BY <1>4, <1>5, <1>6, <1>7 DEF IInv

LEMMA QueryHolds ==
    ASSUME NEW c \in Caller, IInv, QueryEnds(c)
    PROVE  IInv'
<1>1. /\ table' = table /\ cut' = cut /\ key' = key /\ job' = job
      /\ \E l \in Ended : pc' = [pc EXCEPT ![c] = l]
  BY DEF QueryEnds, history
<1>2. Types'
  BY <1>1 DEF IInv, Types
<1>3. KeyRead'
  BY <1>1 DEF IInv, KeyRead, Types, Ended
<1>4. KeysKeep'
  BY <1>1 DEF IInv, KeysKeep, Above
<1>5. QED BY <1>2, <1>3, <1>4 DEF IInv

-----------------------------------------------------------------------------
(* The steps of a trim *)

\* The boundary a trim reads keeps its rows from the start.
LEMMA FoundKeeps ==
    ASSUME NoTies, NEW c \in Caller, IInv, QueryFinds(c)
    PROVE  IInv'
<1>1. PICK r \in table : Boundary(r) /\ key' = [key EXCEPT ![c] = Field[r]]
  BY DEF QueryFinds
<1>2. /\ table' = table /\ cut' = cut /\ job' = job
      /\ pc' = [pc EXCEPT ![c] = "exec"]
  BY DEF QueryFinds
<1>3. Field[r] \in Nat
  BY FieldType DEF IInv, Types
<1>4. Types'
  BY <1>1, <1>2, <1>3 DEF IInv, Types
<1>5. KeyRead'
  BY <1>1, <1>2, <1>3 DEF IInv, KeyRead, Types
<1>6. KeysKeep'
  <2>1. Cardinality(Above(table, Field[r])) >= ReserveSize
    BY <1>1, BoundaryKeeps DEF IInv, Types
  <2>2. Cardinality(Above(table \cup cut, Field[r])) >= ReserveSize
    <3>1. Above(table, Field[r]) \subseteq Above(table \cup cut, Field[r])
      BY DEF Above
    <3>2. table \cup cut \subseteq Row
      BY DEF IInv, Types
    <3>3. QED BY <1>3, <2>1, <3>1, <3>2, MoreAbove
  <2>3. SUFFICES ASSUME NEW d \in Caller, key'[d] \in Nat
                 PROVE  Cardinality(Above(table \cup cut, key'[d])) >= ReserveSize
    BY <1>2 DEF KeysKeep, Above
  <2>4. CASE d = c
    BY <1>1, <2>2, <2>4 DEF IInv, Types
  <2>5. CASE d # c
    BY <1>1, <2>3, <2>5 DEF IInv, Types, KeysKeep
  <2>6. QED BY <2>4, <2>5
<1>7. QED BY <1>4, <1>5, <1>6 DEF IInv

\* A trim takes rows at or below its own boundary: those above a lower one stay
\* as many as those above its own, and those above a higher one are untouched.
LEMMA TrimKeeps ==
    ASSUME NEW c \in Caller, IInv, Trim(c)
    PROVE  /\ IInv'
           /\ \A r \in table \ table' :
                Cardinality(Above(table' \cup cut', Field[r])) >= ReserveSize
<1>1. /\ pc[c] = "run" /\ job[c].kind = "trim"
      /\ key' = key /\ job' = job /\ cut' = cut
  BY DEF Trim
<1>2. key[c] \in Nat
  BY <1>1 DEF IInv, KeyRead
<1>3. PICK rows \in SUBSET Trimmed(c) :
        table' = table \ rows /\ Answer(c, rows, 0, AfterTrim(rows))
  BY DEF Trim
<1>4. \A r \in rows : r \in table /\ Field[r] <= key[c]
  BY DEF Trimmed, UpTo
<1>5. \E m \in {"exec"} \cup Ended : pc' = [pc EXCEPT ![c] = m]
  BY <1>1, <1>3, AnswerMoves DEF IInv, AfterTrim
<1>6. Types'
  BY <1>1, <1>3, <1>5 DEF IInv, Types, Ended
<1>7. KeyRead'
  BY <1>1, <1>5, KeyStaysRead DEF IInv
<1>8. Field \in [Row -> Nat] /\ table \cup cut \subseteq Row /\ table' \cup cut' \subseteq Row
  BY <1>6, FieldType DEF IInv, Types
<1>9. Cardinality(Above(table \cup cut, key[c])) >= ReserveSize
  BY <1>2 DEF IInv, KeysKeep
<1>10. ASSUME NEW k \in Nat, k <= key[c]
       PROVE  Cardinality(Above(table' \cup cut', k)) >= ReserveSize
  <2>1. Above(table \cup cut, key[c]) \subseteq Above(table' \cup cut', k)
    BY <1>1, <1>2, <1>3, <1>4, <1>8, <1>10 DEF Above
  <2>2. QED BY <1>2, <1>8, <1>9, <2>1, MoreAbove
<1>11. KeysKeep'
  <2>1. SUFFICES ASSUME NEW d \in Caller, key[d] \in Nat
                 PROVE  Cardinality(Above(table' \cup cut', key[d])) >= ReserveSize
    BY <1>1 DEF KeysKeep, Above
  <2>2. CASE key[d] <= key[c]
    BY <1>10, <2>1, <2>2
  <2>3. CASE key[d] > key[c]
    <3>1. Above(table \cup cut, key[d]) \subseteq Above(table' \cup cut', key[d])
      BY <1>1, <1>2, <1>3, <1>4, <1>8, <2>1, <2>3 DEF Above
    <3>2. Cardinality(Above(table \cup cut, key[d])) >= ReserveSize
      BY <2>1 DEF IInv, KeysKeep
    <3>3. QED BY <1>8, <2>1, <3>1, <3>2, MoreAbove
  <2>4. QED BY <1>2, <2>1, <2>2, <2>3
<1>12. \A r \in table \ table' :
         Cardinality(Above(table' \cup cut', Field[r])) >= ReserveSize
  BY <1>3, <1>4, <1>8, <1>10
<1>13. QED BY <1>6, <1>7, <1>11, <1>12 DEF IInv

-----------------------------------------------------------------------------
\* No step deletes one of the newest rows, nor takes a boundary's rows away.
LEMMA StepKeeps ==
    ASSUME NoTies, IInv, [Next]_vars
    PROVE  /\ IInv'
           /\ \A r \in table \ table' :
                \/ r \in cut'
                \/ Cardinality(Above(table' \cup cut', Field[r])) >= ReserveSize
<1>1. CASE UNCHANGED vars
  BY <1>1 DEF vars, history, IInv, Types, KeyRead, KeysKeep, Above
<1>2. CASE Next
  <2>1. PICK c \in Caller : Step(c)
    BY <1>2 DEF Next
  <2>2. CASE Connect(c) \/ Expire(c) \/ Refuse(c)
    <3>1. table' = table
      BY <2>2 DEF Connect, Expire, Refuse
    <3>2. QED BY <2>2, <3>1, Connects
  <2>3. CASE InsertChunk(c) \/ DeleteChunk(c) \/ UpdateChunk(c)
    BY <2>3, ChunkChanges
  <2>4. CASE QueryFinds(c)
    <3>1. table' = table
      BY <2>4 DEF QueryFinds
    <3>2. QED BY <2>4, <3>1, FoundKeeps
  <2>5. CASE QueryEnds(c)
    <3>1. table' = table
      BY <2>5 DEF QueryEnds
    <3>2. QED BY <2>5, <3>1, QueryHolds
  <2>6. CASE Trim(c)
    BY <2>6, TrimKeeps
  <2>7. QED BY <2>1, <2>2, <2>3, <2>4, <2>5, <2>6 DEF Step
<1>3. QED BY <1>1, <1>2

\* ReserveSize of delete.go: whatever other trims and inserts do between the
\* query of the boundary and the deletes, a trim leaves the newest reserveSize
\* rows alone, for any table whose rows the field tells apart.
THEOREM NewestAlwaysKept == ASSUME NoTies PROVE Spec => NewestKept
<1>1. Init => IInv
  BY InitHolds
<1>2. IInv /\ [Next]_vars => IInv'
  BY StepKeeps
<1>3. IInv /\ [Next]_vars =>
        [\A r \in table \ table' :
            \/ r \in cut'
            \/ Cardinality(Above(table' \cup cut', Field[r])) >= ReserveSize]_vars
  BY StepKeeps
<1>4. QED BY <1>1, <1>2, <1>3, PTL DEF Spec, NewestKept

-----------------------------------------------------------------------------
(* What a call reports.  The ids given out lie below the next one, so that a *)
(* row deleted does not come back and those of an insert are new.            *)

\* Of a row that an update is given twice, in two chunks, the total counts two
\* changes: the theorem is about updates that name each row once.
NamedOnce ==
    \A c \in Caller : \A j \in Jobs[c] : j.kind = "update" =>
        \A m, n \in 1 .. Len(j.data) : j.data[m] = j.data[n] => m = n

CallTypes ==
    /\ \A c \in Caller : job[c] \in Jobs[c]
    /\ pc \in [Caller -> {"query", "exec", "run"} \cup Ended]
    /\ start \in [Caller -> Nat] /\ key \in [Caller -> Nat \cup {None}]
    /\ total \in [Caller -> Nat] /\ lastID \in [Caller -> Int]
    /\ did \in [Caller -> SUBSET Row] /\ due \in [Caller -> SUBSET Row]

Ids ==
    /\ table \subseteq Row /\ nextId \in Nat
    /\ \A r \in table : r < nextId
    /\ \A c \in Caller : \A r \in did[c] \cup due[c] : r < nextId

Highest(m, S) == m \in S /\ \A x \in S : x <= m

\* an insert has the rows it has sent so far
Inserts(c) ==
    job[c].kind = "insert" =>
        /\ pc[c] \in {"exec", "run"} =>
             start[c] < Len(job[c].data) /\ Cardinality(did[c]) = start[c]
        /\ pc[c] = "returned" => Cardinality(did[c]) = Len(job[c].data)
        /\ pc[c] # "failed" /\ did[c] # {} => Highest(lastID[c], did[c])

\* what keeps the next rows of a call apart from those it has had
Apart(c) ==
    /\ job[c].kind \in {"delete", "trim"} => did[c] \cap table = {}
    /\ job[c].kind = "update" =>
         \A r \in did[c] : \E i \in 1 .. Len(job[c].data) : i <= start[c] /\ job[c].data[i] = r

\* a trim has its boundary while rows are due
Dues(c) ==
    /\ job[c].kind # "trim" => pc[c] # "query" /\ due[c] = {}
    /\ pc[c] = "query" => due[c] = {}
    /\ job[c].kind = "trim" /\ pc[c] \in {"exec", "run"} =>
         key[c] \in Nat /\ \A r \in due[c] : Field[r] <= key[c]
    /\ pc[c] = "returned" => due[c] \cap table = {}

Counts(c) == pc[c] # "failed" => total[c] = Cardinality(did[c])

Reports(c) == Counts(c) /\ Inserts(c) /\ Apart(c) /\ Dues(c)

RInv == CallTypes /\ Ids /\ \A c \in Caller : Reports(c)

-----------------------------------------------------------------------------
(* Numbers, rows and chunks *)

\* A set of numbers that is not empty has a least one.
LEMMA Least ==
    ASSUME NEW T \in SUBSET Nat, T # {}
    PROVE  \E x \in T : \A y \in T : x <= y
<1> DEFINE Lt == OpToRel(<, Nat)
<1>1. Lt = {ss \in Nat \X Nat : ss[1] < ss[2]}
  BY DEF OpToRel
<1>2. IsWellFoundedOn(Lt, Nat)
  BY NatLessThanWellFounded
<1>3. \A x, y \in Nat : <<x, y>> \in Lt <=> x < y
  BY <1>1
<1> HIDE DEF Lt
<1>4. PICK x \in T : \A y \in T : ~(<<y, x>> \in Lt)
  BY <1>2, WFMin
<1>5. x \in Nat /\ \A y \in T : y \in Nat /\ ~(y < x)
  BY <1>3, <1>4, Zenon
<1>6. QED BY <1>5

\* A finite set of numbers that is not empty has a greatest one: of the one with
\* the fewest above it, there is none above.
LEMMA MaxExists ==
    ASSUME NEW S \in SUBSET Nat, S # {}, IsFiniteSet(S)
    PROVE  Max(S) \in Nat /\ \A y \in S : y <= Max(S)
<1> DEFINE A(x) == {y \in S : y > x}
           T == {Cardinality(A(x)) : x \in S}
<1>1. ASSUME NEW x \in S PROVE IsFiniteSet(A(x)) /\ Cardinality(A(x)) \in Nat
  <2>1. A(x) \subseteq S
    OBVIOUS
  <2> HIDE DEF A
  <2>2. QED BY <2>1, FS_Subset, FS_CardinalityType
<1>2. T \in SUBSET Nat /\ T # {}
  <2> HIDE DEF A
  <2>1. QED BY <1>1
<1>3. PICK n \in T : \A m \in T : n <= m
  <2> HIDE DEF T
  <2>1. QED BY <1>2, Least
<1>4. PICK x \in S : \A z \in S : Cardinality(A(x)) <= Cardinality(A(z))
  <2> HIDE DEF A
  <2>1. QED BY <1>3
<1>5. ASSUME NEW y \in S, y > x PROVE FALSE
  <2>1. A(y) \subseteq A(x) /\ y \in A(x) /\ y \notin A(y)
    <3> HIDE DEF T
    <3>1. x \in Nat /\ y \in Nat
      OBVIOUS
    <3>2. \A z \in S : z > y => z > x
      BY <1>5, <3>1
    <3>3. ~(y > y)
      BY <3>1
    <3> HIDE DEF A
    <3>4. A(y) \subseteq A(x)
      BY <3>2 DEF A
    <3>5. y \in A(x) /\ y \notin A(y)
      BY <1>5, <3>3 DEF A
    <3>6. QED BY <3>4, <3>5
  <2> HIDE DEF A
  <2>2. Cardinality(A(y)) <= Cardinality(A(x)) /\ Cardinality(A(y)) # Cardinality(A(x))
    BY <1>1, <2>1, FS_Subset
  <2>3. Cardinality(A(x)) <= Cardinality(A(y))
    BY <1>4
  <2>4. QED BY <1>1, <2>2, <2>3
<1>6. x \in S /\ \A y \in S : x >= y
  BY <1>5
<1> HIDE DEF A, T
<1>7. Max(S) \in S /\ \A y \in S : Max(S) >= y
  BY <1>6 DEF Max
<1>8. QED BY <1>7

LEMMA CallFacts ==
    ASSUME CallTypes, NEW c \in Caller
    PROVE  /\ job[c].kind \in {"insert", "delete", "update", "trim"}
           /\ job[c].data \in Seq(Nat) /\ Len(job[c].data) \in Nat
           /\ job[c].batch \in Nat \ {0}
           /\ job[c].kind = "insert" => Len(job[c].data) > 0
           /\ NamedOnce /\ job[c].kind = "update" =>
                \A m, n \in 1 .. Len(job[c].data) : job[c].data[m] = job[c].data[n] => m = n
<1> DEFINE j == job[c]
<1>1. j \in Jobs[c] /\ j \in Job
  BY JobsType DEF CallTypes
<1> HIDE DEF j
<1>2. /\ j.kind \in {"insert", "delete", "update", "trim"}
      /\ j.data \in Seq(Nat) /\ j.batch \in Nat \ {0}
  BY <1>1 DEF Job
<1>3. Len(j.data) \in Nat /\ (j.data # <<>> => Len(j.data) > 0)
  BY <1>2, EmptySeq, LenProperties
<1>4. j.kind = "insert" => j.data # <<>>
  BY <1>1, RowsAreGiven
<1>5. NamedOnce /\ j.kind = "update" =>
        \A m, n \in 1 .. Len(j.data) : j.data[m] = j.data[n] => m = n
  BY <1>1 DEF NamedOnce
<1>6. QED BY <1>2, <1>3, <1>4, <1>5 DEF j

LEMMA CallerFacts ==
    ASSUME CallTypes, NEW c \in Caller
    PROVE  /\ pc[c] \in {"query", "exec", "run"} \cup Ended
           /\ start[c] \in Nat /\ key[c] \in Nat \cup {None}
           /\ total[c] \in Nat /\ lastID[c] \in Int
           /\ did[c] \subseteq Row /\ due[c] \subseteq Row
           /\ IsFiniteSet(did[c]) /\ Cardinality(did[c]) \in Nat
<1>1. did[c] \subseteq Row
  BY DEF CallTypes
<1>2. IsFiniteSet(did[c])
  BY <1>1, RowsType, FS_Subset
<1>3. QED BY <1>1, <1>2, FS_CardinalityType DEF CallTypes

\* Rows that are not counted yet are, when the answer comes.
LEMMA CountsMore ==
    ASSUME NEW S \in SUBSET Row, NEW T \in SUBSET Row, S \cap T = {}
    PROVE  /\ Cardinality(S \cup T) = Cardinality(S) + Cardinality(T)
           /\ Cardinality(S) \in Nat /\ Cardinality(T) \in Nat
           /\ T = {} <=> Cardinality(T) = 0
<1>1. IsFiniteSet(S) /\ IsFiniteSet(T)
  BY RowsType, FS_Subset
<1>2. Cardinality(S) \in Nat /\ Cardinality(T) \in Nat
  BY <1>1, FS_CardinalityType
<1>3. QED BY <1>1, <1>2, FS_Union, FS_EmptySet

LEMMA HighestIsMax ==
    ASSUME NEW S \in SUBSET Nat, NEW m, Highest(m, S)
    PROVE  Max(S) = m
<1>1. m \in S /\ \A y \in S : m >= y
  BY DEF Highest
<1>2. Max(S) \in S /\ \A y \in S : Max(S) >= y
  BY <1>1 DEF Max
<1>3. m \in Nat /\ Max(S) \in Nat /\ Max(S) >= m /\ m >= Max(S)
  BY <1>1, <1>2
<1>4. QED BY <1>3

LEMMA SmallerOfTwo ==
    ASSUME NEW a \in Nat, NEW b \in Nat
    PROVE  Min({a, b}) = IF a <= b THEN a ELSE b
<1> DEFINE m == IF a <= b THEN a ELSE b
<1>1. m \in {a, b} /\ \A y \in {a, b} : m <= y
  OBVIOUS
<1>2. Min({a, b}) \in {a, b} /\ \A y \in {a, b} : Min({a, b}) <= y
  BY <1>1 DEF Min
<1>3. QED BY <1>1, <1>2

\* The rows of a chunk: those behind start.
LEMMA ChunkFacts ==
    ASSUME CallTypes, NEW c \in Caller, start[c] <= Len(job[c].data)
    PROVE  LET n == Len(job[c].data)
               e == IF start[c] + job[c].batch <= n THEN start[c] + job[c].batch ELSE n
           IN  /\ Len(Chunk(c)) = e - start[c]
               /\ ToSet(Chunk(c)) \subseteq {job[c].data[i] : i \in start[c] + 1 .. e}
<1> DEFINE d == job[c].data
           n == Len(d)
           a == start[c]
           e == IF a + job[c].batch <= n THEN a + job[c].batch ELSE n
<1>1. /\ d \in Seq(Nat) /\ n \in Nat /\ a \in Nat /\ job[c].batch \in Nat \ {0}
      /\ a <= n
  BY CallFacts, CallerFacts
<1>2. Chunk(c) = SubSeq(d, a + 1, e)
  <2>1. a + job[c].batch \in Nat
    BY <1>1
  <2>2. Min({a + job[c].batch, n}) = e
    BY <1>1, <2>1, SmallerOfTwo
  <2> HIDE DEF e
  <2>3. QED BY <2>2 DEF Chunk
<1>3. e \in Nat /\ a <= e /\ e <= n
  BY <1>1
<1> HIDE DEF e, d, a
<1>4. \A i \in a + 1 .. e : d[i] \in Nat
  BY <1>1, <1>3, ElementOfSeq
<1> DEFINE s == SubSeq(d, a + 1, e)
<1>5. /\ s \in Seq(Nat) /\ Len(s) = IF a + 1 <= e THEN e - (a + 1) + 1 ELSE 0
      /\ \A i \in 1 .. e - (a + 1) + 1 : s[i] = d[a + 1 + i - 1]
  <2>1. a + 1 \in Int /\ e \in Int
    BY <1>1, <1>3
  <2>2. QED BY <1>4, <2>1, SubSeqProperties
<1> HIDE DEF s
<1>6. Len(s) = e - a
  BY <1>1, <1>3, <1>5
<1>7. ToSet(s) \subseteq {d[i] : i \in a + 1 .. e}
  <2>1. ASSUME NEW i \in 1 .. Len(s) PROVE s[i] \in {d[k] : k \in a + 1 .. e}
    <3>1. /\ i \in 1 .. e - (a + 1) + 1 /\ a + 1 + i - 1 = a + i /\ a + i \in a + 1 .. e
      BY <1>1, <1>3, <1>6
    <3>2. s[i] = d[a + i]
      BY <1>5, <3>1
    <3>3. QED BY <3>1, <3>2
  <2>2. DOMAIN s = 1 .. Len(s)
    BY <1>5, LenProperties
  <2>3. QED BY <2>1, <2>2 DEF ToSet
<1>8. QED BY <1>2, <1>6, <1>7 DEF s, e, a, d

-----------------------------------------------------------------------------
\* A step of c leaves the calls of the others as they were.
OthersAsBefore(c) ==
    \A d \in Caller \ {c} :
        /\ pc'[d] = pc[d] /\ start'[d] = start[d] /\ key'[d] = key[d]
        /\ total'[d] = total[d] /\ lastID'[d] = lastID[d]
        /\ did'[d] = did[d] /\ due'[d] = due[d]

\* Rows come under new ids only.
NewIds ==
    /\ table' \subseteq Row /\ nextId' \in Nat /\ nextId' >= nextId
    /\ \A r \in table' : r < nextId' /\ (r \in table \/ r >= nextId)

\* The reports of the others stay true, whatever rows come and go.
LEMMA OthersReport ==
    ASSUME RInv, NEW c \in Caller, OthersAsBefore(c), NewIds, job' = job,
           NEW d \in Caller \ {c}
    PROVE  Reports(d)'
<1>1. /\ pc'[d] = pc[d] /\ start'[d] = start[d] /\ key'[d] = key[d]
      /\ total'[d] = total[d] /\ lastID'[d] = lastID[d]
      /\ did'[d] = did[d] /\ due'[d] = due[d] /\ job'[d] = job[d]
  BY DEF OthersAsBefore
<1>2. /\ did[d] \cap table = {} => did'[d] \cap table' = {}
      /\ due[d] \cap table = {} => due'[d] \cap table' = {}
  <2>1. ASSUME NEW r \in table', r \notin table PROVE r \notin did[d] \cup due[d]
    <3>1. r >= nextId /\ r \in Nat /\ nextId \in Nat
      BY <2>1, RowsType DEF NewIds, RInv, Ids
    <3>2. r \in did[d] \cup due[d] => r < nextId
      BY DEF RInv, Ids
    <3>3. QED BY <3>1, <3>2
  <2>2. QED BY <1>1, <2>1
<1>3. Counts(d)'
  BY <1>1 DEF RInv, Reports, Counts
<1>4. Inserts(d)'
  BY <1>1 DEF RInv, Reports, Inserts, Highest
<1>5. Apart(d)'
  BY <1>1, <1>2 DEF RInv, Reports, Apart
<1>6. Dues(d)'
  BY <1>1, <1>2 DEF RInv, Reports, Dues
<1>7. QED BY <1>3, <1>4, <1>5, <1>6 DEF Reports

LEMMA StepReports ==
    ASSUME RInv, NEW c \in Caller, OthersAsBefore(c), NewIds, job' = job,
           CallTypes', Reports(c)', \A r \in did'[c] \cup due'[c] : r < nextId'
    PROVE  RInv'
<1>1. \A d \in Caller : Reports(d)'
  BY OthersReport
<1>2. Ids'
  <2>1. ASSUME NEW d \in Caller, NEW r \in did'[d] \cup due'[d] PROVE r < nextId'
    <3>1. CASE d = c
      BY <2>1, <3>1
    <3>2. CASE d # c
      <4>1. r \in did[d] \cup due[d] /\ r \in Row
        BY <2>1, <3>2 DEF OthersAsBefore, RInv, CallTypes
      <4>2. r < nextId /\ r \in Nat /\ nextId \in Nat /\ nextId' \in Nat /\ nextId' >= nextId
        BY <4>1, RowsType DEF RInv, Ids, NewIds
      <4>3. QED BY <4>2
    <3>3. QED BY <3>1, <3>2
  <2>2. QED BY <2>1 DEF Ids, NewIds
<1>3. QED BY <1>1, <1>2 DEF RInv

\* What an answer of rows to the call of c counts, the call going on at l.
Counted(c, rows, first, l) ==
    /\ did' = [did EXCEPT ![c] = did[c] \cup rows]
    /\ did \in [Caller -> SUBSET Row] /\ did'[c] = did[c] \cup rows
    /\ pc'[c] \in {l, "failed"} /\ pc' \in [Caller -> {"query", "exec", "run"} \cup Ended]
    /\ total' \in [Caller -> Nat] /\ lastID' \in [Caller -> Int]
    /\ did' \in [Caller -> SUBSET Row]
    /\ Counts(c)'
    /\ pc'[c] # "failed" /\ rows # {} => lastID'[c] = first + Cardinality(rows) - 1
    /\ pc'[c] # "failed" /\ rows = {} => lastID'[c] = lastID[c]
    /\ \A d \in Caller \ {c} : /\ pc'[d] = pc[d] /\ total'[d] = total[d]
                               /\ lastID'[d] = lastID[d] /\ did'[d] = did[d]

LEMMA AnswerCounts ==
    ASSUME RInv, NEW c \in Caller, NEW rows \in SUBSET Row, NEW first \in Nat,
           NEW l \in {"exec", "returned"}, pc[c] = "run", Answer(c, rows, first, l),
           did[c] \cap rows = {}, job' = job
    PROVE  Counted(c, rows, first, l)
<1>1. /\ pc \in [Caller -> {"query", "exec", "run"} \cup Ended] /\ did \in [Caller -> SUBSET Row]
      /\ total \in [Caller -> Nat] /\ lastID \in [Caller -> Int]
  BY DEF RInv, CallTypes
<1>2. did' = [did EXCEPT ![c] = did[c] \cup rows]
  BY DEF Answer
<1>3. did'[c] = did[c] \cup rows /\ did' \in [Caller -> SUBSET Row]
      /\ \A d \in Caller \ {c} : did'[d] = did[d]
  BY <1>1, <1>2
<1> DEFINE n == Cardinality(rows)
<1>4. /\ Cardinality(did[c] \cup rows) = Cardinality(did[c]) + n
      /\ n \in Nat /\ Cardinality(did[c]) \in Nat
  BY <1>1, CountsMore
<1>5. \/ /\ total' = [total EXCEPT ![c] = total[c] + n]
         /\ lastID' = IF rows = {} THEN lastID ELSE [lastID EXCEPT ![c] = first + n - 1]
         /\ pc' = [pc EXCEPT ![c] = l]
      \/ pc' = [pc EXCEPT ![c] = "failed"] /\ total' = total /\ lastID' = lastID
  BY DEF Answer, Release, LastOfChunk
<1> HIDE DEF n
<1>6. total[c] = Cardinality(did[c])
  BY DEF RInv, Reports, Counts
<1>7. CASE pc' = [pc EXCEPT ![c] = "failed"] /\ total' = total /\ lastID' = lastID
  <2>1. pc'[c] = "failed" /\ pc' \in [Caller -> {"query", "exec", "run"} \cup Ended]
        /\ \A d \in Caller \ {c} : pc'[d] = pc[d]
    BY <1>1, <1>7 DEF Ended
  <2>2. QED BY <1>1, <1>2, <1>3, <1>7, <2>1 DEF Counted, Counts
<1>8. CASE /\ total' = [total EXCEPT ![c] = total[c] + n]
           /\ lastID' = IF rows = {} THEN lastID ELSE [lastID EXCEPT ![c] = first + n - 1]
           /\ pc' = [pc EXCEPT ![c] = l]
  <2>1. pc'[c] = l /\ pc' \in [Caller -> {"query", "exec", "run"} \cup Ended]
        /\ \A d \in Caller \ {c} : pc'[d] = pc[d]
    BY <1>1, <1>8 DEF Ended
  <2>2. total'[c] = total[c] + n /\ total' \in [Caller -> Nat]
        /\ \A d \in Caller \ {c} : total'[d] = total[d]
    BY <1>1, <1>4, <1>8
  <2>3. first + n - 1 \in Int
    BY <1>4
  <2>4. /\ lastID' \in [Caller -> Int] /\ \A d \in Caller \ {c} : lastID'[d] = lastID[d]
        /\ rows # {} => lastID'[c] = first + n - 1
        /\ rows = {} => lastID'[c] = lastID[c]
    BY <1>1, <1>8, <2>3
  <2>5. Counts(c)'
    BY <1>3, <1>4, <1>6, <2>2 DEF Counts
  <2>6. QED BY <1>1, <1>2, <1>3, <2>1, <2>2, <2>4, <2>5 DEF Counted, n
<1>9. QED BY <1>5, <1>7, <1>8

-----------------------------------------------------------------------------
(* The steps *)

LEMMA InitReports == Init => RInv
<1>1. SUFFICES ASSUME Init PROVE RInv
  OBVIOUS
<1>2. CallTypes
  <2>1. /\ \A c \in Caller : job[c] \in Jobs[c]
        /\ pc = [c \in Caller |-> IF job[c].kind = "trim" THEN "query" ELSE "exec"]
        /\ start = [c \in Caller |-> 0] /\ key = [c \in Caller |-> None]
        /\ total = [c \in Caller |-> 0] /\ lastID = [c \in Caller |-> 0]
        /\ did = [c \in Caller |-> {}] /\ due = [c \in Caller |-> {}]
    BY <1>1 DEF Init
  <2>2. QED BY <2>1 DEF CallTypes
<1>3. Ids
  <2> DEFINE S == Rows \cup {0}
  <2>1. S \subseteq Nat /\ S # {} /\ IsFiniteSet(S)
    <3>1. IsFiniteSet(Rows)
      BY RowsType, FS_Subset
    <3>2. QED BY <3>1, RowsType, FS_AddElement
  <2> HIDE DEF S
  <2>2. Max(S) \in Nat /\ \A y \in S : y <= Max(S)
    BY <2>1, MaxExists
  <2>3. nextId = Max(S) + 1 /\ table = Rows
    BY <1>1 DEF Init, S
  <2>4. \A r \in Rows : r \in S /\ r \in Nat
    BY RowsType DEF S
  <2>5. \A c \in Caller : did[c] = {} /\ due[c] = {}
    BY <1>1 DEF Init
  <2>6. QED BY <2>2, <2>3, <2>4, <2>5, RowsType DEF Ids
<1>4. ASSUME NEW c \in Caller PROVE Reports(c)
  <2>1. /\ pc[c] = IF job[c].kind = "trim" THEN "query" ELSE "exec"
        /\ start[c] = 0 /\ total[c] = 0 /\ did[c] = {} /\ due[c] = {}
    BY <1>1 DEF Init
  <2>2. Cardinality({}) = 0
    BY FS_EmptySet
  <2>3. job[c].kind = "insert" => 0 < Len(job[c].data)
    BY <1>2, CallFacts
  <2>4. QED BY <2>1, <2>2, <2>3 DEF Reports, Counts, Inserts, Apart, Dues
<1>5. QED BY <1>2, <1>3, <1>4 DEF RInv

\* a step of c that changes nothing but where c stands
LEMMA MovesReport ==
    ASSUME RInv, NEW c \in Caller, NEW l \in {"run", "failed"}, pc' = [pc EXCEPT ![c] = l],
           l = "run" => pc[c] = "exec",
           UNCHANGED <<table, nextId, job, start, key, total, lastID, did, due>>
    PROVE  RInv'
<1>1. pc'[c] = l /\ \A d \in Caller \ {c} : pc'[d] = pc[d]
  BY DEF RInv, CallTypes
<1>2. OthersAsBefore(c) /\ job' = job
  BY <1>1 DEF OthersAsBefore
<1>3. CallTypes'
  BY DEF RInv, CallTypes, Ended
<1>4. NewIds
  <2>1. \A r \in table : r \in Nat /\ r < nextId
    BY RowsType DEF RInv, Ids
  <2>2. nextId \in Nat /\ table \subseteq Row
    BY DEF RInv, Ids
  <2>3. QED BY <2>1, <2>2 DEF NewIds
<1>5. Reports(c)'
  <2>1. Reports(c)
    BY DEF RInv
  <2>2. QED BY <1>1, <2>1 DEF Reports, Counts, Inserts, Apart, Dues, Highest
<1>6. \A r \in did'[c] \cup due'[c] : r < nextId'
  BY DEF RInv, Ids
<1>7. QED BY <1>2, <1>3, <1>4, <1>5, <1>6, StepReports

LEMMA ConnectReports ==
    ASSUME RInv, NEW c \in Caller, Connect(c) \/ Expire(c) \/ Refuse(c)
    PROVE  RInv'
<1>1. PICK l \in {"run", "failed"} :
        pc' = [pc EXCEPT ![c] = l] /\ (l = "run" => pc[c] = "exec")
  BY DEF Connect, Expire, Refuse, Release
<1>2. UNCHANGED <<table, nextId, job, start, key, total, lastID, did, due>>
  BY DEF Connect, Expire, Refuse, history
<1>3. QED BY <1>1, <1>2, MovesReport

LEMMA InsertReports ==
    ASSUME RInv, NEW c \in Caller, InsertChunk(c)
    PROVE  RInv'
<1> DEFINE n == Len(Chunk(c))
           ids == nextId .. nextId + n - 1
           len == Len(job[c].data)
           l == AfterChunk(c)
<1>1. /\ pc[c] = "run" /\ job[c].kind = "insert" /\ job' = job
      /\ start' = [start EXCEPT ![c] = start[c] + job[c].batch]
      /\ key' = key /\ due' = due
      /\ ids \subseteq Row /\ table' = table \cup ids /\ nextId' = nextId + n
      /\ Answer(c, ids, nextId, l)
  BY DEF InsertChunk, SendChunk
<1>2. /\ len \in Nat /\ start[c] \in Nat /\ job[c].batch \in Nat \ {0}
      /\ nextId \in Nat /\ start \in [Caller -> Nat]
      /\ did[c] \subseteq Row
  BY CallFacts, CallerFacts DEF RInv, CallTypes, Ids
<1>3. start[c] < len /\ Cardinality(did[c]) = start[c]
  BY <1>1 DEF RInv, Reports, Inserts
<1>4. /\ n = (IF start[c] + job[c].batch <= len THEN start[c] + job[c].batch ELSE len) - start[c]
  BY <1>2, <1>3, ChunkFacts DEF RInv
<1>5. n \in Nat /\ n > 0
  BY <1>2, <1>3, <1>4
<1>6. /\ start[c] + job[c].batch < len =>
           l = "exec" /\ start[c] + n = start[c] + job[c].batch
      /\ ~(start[c] + job[c].batch < len) => l = "returned" /\ start[c] + n = len
  BY <1>2, <1>3, <1>4 DEF AfterChunk
<1> HIDE DEF n, l
<1>7. /\ Cardinality(ids) = n /\ nextId + n - 1 \in ids /\ ids # {}
      /\ \A r \in ids : r >= nextId /\ r <= nextId + n - 1 /\ r < nextId + n
  <2>1. nextId \in Int /\ nextId + n - 1 \in Int /\ ~(nextId > nextId + n - 1)
        /\ nextId + n - 1 - nextId + 1 = n
    BY <1>2, <1>5
  <2>2. Cardinality(ids) = n
    <3> DEFINE b == nextId + n - 1
    <3>1. b \in Int /\ nextId \in Int /\ ~(nextId > b) /\ b - nextId + 1 = n
      BY <1>2, <1>5
    <3> HIDE DEF b
    <3>2. Cardinality(nextId .. b) = IF nextId > b THEN 0 ELSE b - nextId + 1
      BY <3>1, FS_Interval
    <3>3. Cardinality(nextId .. b) = n
      BY <3>1, <3>2
    <3>4. QED BY <3>3 DEF b
  <2>3. nextId + n - 1 \in ids
    BY <1>2, <1>5
  <2>4. \A r \in ids : r >= nextId /\ r <= nextId + n - 1 /\ r < nextId + n
    BY <1>2, <1>5
  <2> HIDE DEF ids
  <2>5. QED BY <2>2, <2>3, <2>4
<1> HIDE DEF ids
<1>8. did[c] \cap ids = {} /\ \A r \in did[c] : r \in Nat /\ r < nextId
  <2>1. \A r \in did[c] : r \in Nat /\ r < nextId
    BY <1>2, RowsType DEF RInv, Ids
  <2>2. QED BY <1>2, <1>7, <2>1
<1>9. l \in {"exec", "returned"}
  BY <1>6
<1>10. /\ did' = [did EXCEPT ![c] = did[c] \cup ids]
       /\ did'[c] = did[c] \cup ids
       /\ pc'[c] \in {l, "failed"} /\ pc' \in [Caller -> {"query", "exec", "run"} \cup Ended]
       /\ total' \in [Caller -> Nat] /\ lastID' \in [Caller -> Int]
       /\ did' \in [Caller -> SUBSET Row]
       /\ Counts(c)'
       /\ pc'[c] # "failed" => lastID'[c] = nextId + n - 1
       /\ \A d \in Caller \ {c} : /\ pc'[d] = pc[d] /\ total'[d] = total[d]
                                  /\ lastID'[d] = lastID[d] /\ did'[d] = did[d]
  <2>1. Counted(c, ids, nextId, l)
    BY <1>1, <1>2, <1>8, <1>9, AnswerCounts
  <2>2. QED BY <1>7, <2>1 DEF Counted
<1>11. /\ start' \in [Caller -> Nat] /\ start'[c] = start[c] + job[c].batch
       /\ \A d \in Caller \ {c} : start'[d] = start[d]
  BY <1>1, <1>2
<1>12. OthersAsBefore(c)
  BY <1>1, <1>10, <1>11 DEF OthersAsBefore
<1>13. CallTypes'
  BY <1>1, <1>10, <1>11 DEF RInv, CallTypes
<1>14. NewIds
  <2>1. \A r \in table : r \in Nat /\ r < nextId
    BY RowsType DEF RInv, Ids
  <2>2. table' \subseteq Row
    BY <1>1 DEF RInv, Ids
  <2>3. nextId' \in Nat /\ nextId' >= nextId
    BY <1>1, <1>2, <1>5
  <2>4. ASSUME NEW r \in table' PROVE r < nextId' /\ (r \in table \/ r >= nextId)
    BY <1>1, <1>2, <1>5, <1>7, <2>1
  <2>5. QED BY <2>2, <2>3, <2>4 DEF NewIds
<1>15. Cardinality(did'[c]) = start[c] + n
  <2>1. did[c] \in SUBSET Row /\ ids \in SUBSET Row /\ did[c] \cap ids = {}
    BY <1>1, <1>2, <1>8
  <2>2. Cardinality(did[c] \cup ids) = Cardinality(did[c]) + Cardinality(ids)
    BY <2>1, CountsMore
  <2>3. QED BY <1>3, <1>7, <1>10, <2>2
<1>16. Inserts(c)'
  <2>1. pc'[c] \in {"exec", "run"} => start'[c] < len /\ Cardinality(did'[c]) = start'[c]
    BY <1>2, <1>6, <1>10, <1>11, <1>15
  <2>2. pc'[c] = "returned" => Cardinality(did'[c]) = len
    BY <1>2, <1>6, <1>10, <1>15
  <2>3. pc'[c] # "failed" => Highest(lastID'[c], did'[c])
    BY <1>2, <1>5, <1>7, <1>8, <1>10 DEF Highest
  <2>4. QED BY <1>1, <2>1, <2>2, <2>3 DEF Inserts
<1>17. Dues(c)'
  <2>1. due[c] = {}
    BY <1>1 DEF RInv, Reports, Dues
  <2>2. QED BY <1>1, <1>9, <1>10, <2>1 DEF Dues
<1>18. Reports(c)'
  BY <1>1, <1>10, <1>16, <1>17 DEF Reports, Apart
<1>19. ASSUME NEW r \in did'[c] \cup due'[c] PROVE r < nextId'
  <2>1. due'[c] = {}
    BY <1>1 DEF RInv, Reports, Dues
  <2>2. QED BY <1>1, <1>2, <1>5, <1>7, <1>8, <1>10, <2>1
<1>20. QED BY <1>1, <1>12, <1>13, <1>14, <1>18, <1>19, StepReports

\* A chunk of a delete or an update changes rows that it did not change before.
LEMMA ChangeReports ==
    ASSUME NamedOnce, RInv, NEW c \in Caller, DeleteChunk(c) \/ UpdateChunk(c)
    PROVE  RInv'
<1> DEFINE rows == table \cap ToSet(Chunk(c))
           data == job[c].data
           len == Len(data)
           l == AfterChunk(c)
<1>1. /\ pc[c] = "run" /\ job' = job
      /\ start' = [start EXCEPT ![c] = start[c] + job[c].batch]
      /\ key' = key /\ due' = due /\ nextId' = nextId
      /\ \/ job[c].kind = "delete" /\ table' = table \ rows
         \/ job[c].kind = "update" /\ table' = table
      /\ Answer(c, rows, 0, l)
  BY DEF DeleteChunk, UpdateChunk, SendChunk
<1>2. /\ len \in Nat /\ start[c] \in Nat /\ job[c].batch \in Nat \ {0}
      /\ start \in [Caller -> Nat] /\ table \subseteq Row
      /\ did[c] \subseteq Row
  BY CallFacts, CallerFacts DEF RInv, CallTypes, Ids
<1>3. l \in {"exec", "returned"}
  BY DEF AfterChunk
<1>4. due[c] = {}
  BY <1>1 DEF RInv, Reports, Dues
\* an update's rows come from its data, behind what it has sent
<1>5. ASSUME job[c].kind = "update", NEW r \in rows
      PROVE  \E i \in 1 .. len : start[c] < i /\ i <= start[c] + job[c].batch /\ data[i] = r
  <2>1. CASE start[c] <= len
    <3> DEFINE e == IF start[c] + job[c].batch <= len THEN start[c] + job[c].batch ELSE len
    <3>1. ToSet(Chunk(c)) \subseteq {data[i] : i \in start[c] + 1 .. e}
      BY <2>1, ChunkFacts DEF RInv
    <3> HIDE DEF data, len
    <3>2. PICK i \in start[c] + 1 .. e : r = data[i]
      BY <3>1
    <3>3. i \in 1 .. len /\ start[c] < i /\ i <= start[c] + job[c].batch
      BY <1>2
    <3>4. QED BY <3>2, <3>3
  <2>2. CASE ~(start[c] <= len)
    <3>1. Len(Chunk(c)) = 0 /\ ToSet(Chunk(c)) = {}
      <4>1. Chunk(c) = SubSeq(data, start[c] + 1, len)
        <5>1. start[c] + job[c].batch \in Nat /\ ~(start[c] + job[c].batch <= len)
          BY <1>2, <2>2
        <5> HIDE DEF len
        <5>2. Min({start[c] + job[c].batch, len}) = len
          BY <1>2, <5>1, SmallerOfTwo
        <5>3. QED BY <5>2 DEF Chunk, len
      <4>2. Chunk(c) = <<>>
        BY <1>2, <2>2, <4>1, SubSeqEmpty
      <4>3. QED BY <4>2 DEF ToSet
    <3>2. QED BY <1>5, <3>1
  <2>3. QED BY <2>1, <2>2
<1>6. did[c] \cap rows = {}
  <2>1. CASE job[c].kind = "delete"
    BY <2>1 DEF RInv, Reports, Apart
  <2>2. CASE job[c].kind = "update"
    <3>1. ASSUME NEW r \in did[c], r \in rows PROVE FALSE
      <4>1. PICK i \in 1 .. len : i <= start[c] /\ data[i] = r
        BY <2>2, <3>1 DEF RInv, Reports, Apart
      <4>2. PICK k \in 1 .. len : start[c] < k /\ data[k] = r
        BY <1>5, <2>2, <3>1
      <4>3. i = k
        BY <2>2, <4>1, <4>2, CallFacts DEF RInv
      <4> HIDE DEF len, data
      <4>4. QED BY <1>2, <4>1, <4>2, <4>3
    <3>2. QED BY <3>1
  <2>3. QED BY <1>1, <2>1, <2>2
<1> HIDE DEF rows, l
<1>7. rows \in SUBSET Row /\ rows \subseteq table
  BY <1>2 DEF rows
<1>8. /\ did'[c] = did[c] \cup rows
      /\ pc'[c] \in {l, "failed"} /\ pc' \in [Caller -> {"query", "exec", "run"} \cup Ended]
      /\ total' \in [Caller -> Nat] /\ lastID' \in [Caller -> Int]
      /\ did' \in [Caller -> SUBSET Row]
      /\ Counts(c)'
      /\ \A d \in Caller \ {c} : /\ pc'[d] = pc[d] /\ total'[d] = total[d]
                                 /\ lastID'[d] = lastID[d] /\ did'[d] = did[d]
  <2> DEFINE none == 0
  <2>1. none \in Nat /\ Answer(c, rows, none, l)
    BY <1>1
  <2> HIDE DEF none
  <2>2. l \in {"exec", "returned"} /\ pc[c] = "run" /\ did[c] \cap rows = {} /\ job' = job
    BY <1>1, <1>3, <1>6
  <2>3. Counted(c, rows, none, l)
    BY <1>7, <2>1, <2>2, AnswerCounts
  <2>4. QED BY <2>3 DEF Counted
<1>9. /\ start' \in [Caller -> Nat] /\ start'[c] = start[c] + job[c].batch
      /\ \A d \in Caller \ {c} : start'[d] = start[d]
  BY <1>1, <1>2
<1>10. OthersAsBefore(c)
  BY <1>1, <1>8, <1>9 DEF OthersAsBefore
<1>11. CallTypes'
  BY <1>1, <1>8, <1>9 DEF RInv, CallTypes
<1>12. table' \subseteq table
  BY <1>1
<1>13. NewIds
  <2>1. \A r \in table : r \in Nat /\ r < nextId
    BY RowsType DEF RInv, Ids
  <2>2. nextId' \in Nat /\ nextId' >= nextId
    BY <1>1 DEF RInv, Ids
  <2>3. QED BY <1>1, <1>2, <1>12, <2>1, <2>2 DEF NewIds
<1>14. Apart(c)'
  <2>1. CASE job[c].kind = "delete"
    BY <1>1, <1>8, <2>1 DEF RInv, Reports, Apart
  <2>2. CASE job[c].kind = "update"
    <3>1. ASSUME NEW r \in did'[c]
          PROVE  \E i \in 1 .. len : i <= start'[c] /\ data[i] = r
      <4>1. CASE r \in did[c]
        <5>1. PICK i \in 1 .. len : i <= start[c] /\ data[i] = r
          BY <2>2, <4>1 DEF RInv, Reports, Apart
        <5> HIDE DEF len, data
        <5>2. i <= start'[c]
          BY <1>2, <1>9, <5>1
        <5>3. QED BY <5>1, <5>2
      <4>2. CASE r \in rows
        <5>1. PICK i \in 1 .. len : i <= start[c] + job[c].batch /\ data[i] = r
          BY <1>5, <2>2, <4>2
        <5> HIDE DEF len, data
        <5>2. QED BY <1>9, <5>1
      <4>3. QED BY <1>8, <3>1, <4>1, <4>2
    <3>2. QED BY <1>1, <2>2, <3>1 DEF Apart
  <2>3. QED BY <1>1, <2>1, <2>2
<1>15. Dues(c)'
  <2>1. pc'[c] # "query"
    BY <1>3, <1>8
  <2>2. job[c].kind # "trim"
    BY <1>1
  <2>3. QED BY <1>1, <1>4, <2>1, <2>2 DEF Dues
<1>16. Inserts(c)'
  <2>1. job[c].kind # "insert"
    BY <1>1
  <2>2. QED BY <1>1, <2>1 DEF Inserts
<1>17. Reports(c)'
  BY <1>8, <1>14, <1>15, <1>16 DEF Reports
<1>18. \A r \in did'[c] \cup due'[c] : r < nextId'
  BY <1>1, <1>4, <1>7, <1>8 DEF RInv, Ids
<1>19. QED BY <1>1, <1>10, <1>11, <1>13, <1>17, <1>18, StepReports

-----------------------------------------------------------------------------
\* The query of a trim.
LEMMA QueryReports ==
    ASSUME RInv, NEW c \in Caller, QueryFinds(c) \/ QueryEnds(c)
    PROVE  RInv'
<1>1. /\ pc[c] = "query" /\ UNCHANGED <<table, nextId, job, start, total, lastID, did>>
      /\ \/ /\ pc' = [pc EXCEPT ![c] = "exec"]
            /\ \E r \in table : /\ key' = [key EXCEPT ![c] = Field[r]]
                                /\ due' = [due EXCEPT ![c] = UpTo(table, Field[r])]
         \/ /\ \E l \in Ended : pc' = [pc EXCEPT ![c] = l]
            /\ UNCHANGED <<key, due>>
  BY DEF QueryFinds, QueryEnds, history
<1>2. /\ pc \in [Caller -> {"query", "exec", "run"} \cup Ended]
      /\ key \in [Caller -> Nat \cup {None}] /\ due \in [Caller -> SUBSET Row]
      /\ table \subseteq Row /\ \A r \in table : r \in Nat /\ r < nextId
      /\ nextId \in Nat
  BY RowsType DEF RInv, CallTypes, Ids
<1>3. job[c].kind = "trim" /\ due[c] = {}
  BY <1>1 DEF RInv, Reports, Dues
<1>4. NewIds
  BY <1>1, <1>2 DEF NewIds
<1>5. CASE /\ pc' = [pc EXCEPT ![c] = "exec"]
           /\ \E r \in table : /\ key' = [key EXCEPT ![c] = Field[r]]
                               /\ due' = [due EXCEPT ![c] = UpTo(table, Field[r])]
  <2>1. PICK r \in table : /\ key' = [key EXCEPT ![c] = Field[r]]
                           /\ due' = [due EXCEPT ![c] = UpTo(table, Field[r])]
    BY <1>5
  <2>2. Field[r] \in Nat
    BY <1>2, FieldType
  <2>3. /\ UpTo(table, Field[r]) \subseteq table
        /\ \A s \in UpTo(table, Field[r]) : Field[s] <= Field[r]
    BY DEF UpTo
  <2>4. pc'[c] = "exec" /\ pc' \in [Caller -> {"query", "exec", "run"} \cup Ended]
        /\ key'[c] = Field[r] /\ key' \in [Caller -> Nat \cup {None}]
        /\ due'[c] = UpTo(table, Field[r]) /\ due' \in [Caller -> SUBSET Row]
    BY <1>2, <1>5, <2>1, <2>2, <2>3
  <2>5. CallTypes'
    BY <1>1, <2>4 DEF RInv, CallTypes
  <2>6. OthersAsBefore(c)
    BY <1>1, <1>2, <1>5, <2>1 DEF OthersAsBefore
  <2>7. Reports(c)'
    <3>1. Reports(c)
      BY DEF RInv
    <3>2. QED BY <1>1, <1>3, <2>2, <2>3, <2>4, <3>1
              DEF Reports, Counts, Inserts, Apart, Dues
  <2>8. \A s \in did'[c] \cup due'[c] : s < nextId'
    BY <1>1, <1>2, <2>3, <2>4 DEF RInv, Ids
  <2>9. QED BY <1>1, <1>4, <2>5, <2>6, <2>7, <2>8, StepReports
<1>6. CASE (\E l \in Ended : pc' = [pc EXCEPT ![c] = l]) /\ UNCHANGED <<key, due>>
  <2>1. pc'[c] \in Ended /\ pc' \in [Caller -> {"query", "exec", "run"} \cup Ended]
    BY <1>2, <1>6
  <2>2. CallTypes'
    BY <1>1, <1>6, <2>1 DEF RInv, CallTypes
  <2>3. OthersAsBefore(c)
    BY <1>1, <1>2, <1>6 DEF OthersAsBefore
  <2>4. Reports(c)'
    <3>1. Reports(c)
      BY DEF RInv
    <3>2. QED BY <1>1, <1>3, <1>6, <2>1, <3>1
              DEF Reports, Counts, Inserts, Apart, Dues, Ended
  <2>5. \A s \in did'[c] \cup due'[c] : s < nextId'
    BY <1>1, <1>6 DEF RInv, Ids
  <2>6. QED BY <1>1, <1>4, <2>2, <2>3, <2>4, <2>5, StepReports
<1>7. QED BY <1>1, <1>5, <1>6

\* A trim ends when nothing is left at or below its boundary.
LEMMA TrimReports ==
    ASSUME RInv, NEW c \in Caller, Trim(c)
    PROVE  RInv'
<1>1. /\ pc[c] = "run" /\ job[c].kind = "trim" /\ job' = job
      /\ UNCHANGED <<nextId, start, key, due>>
  BY DEF Trim
<1>2. PICK rows \in SUBSET Trimmed(c) :
        /\ Cardinality(rows) = Min({BatchSize, Cardinality(Trimmed(c))})
        /\ table' = table \ rows
        /\ Answer(c, rows, 0, AfterTrim(rows))
  BY DEF Trim
<1>3. /\ table \subseteq Row /\ \A r \in table : r \in Nat /\ r < nextId
      /\ nextId \in Nat /\ Trimmed(c) \subseteq table
  BY RowsType DEF RInv, CallTypes, Ids, Trimmed, UpTo
<1>4. rows \in SUBSET Row /\ rows \subseteq table /\ did[c] \cap rows = {} /\ did[c] \cap table = {}
  BY <1>1, <1>3 DEF RInv, Reports, Apart
<1>5. AfterTrim(rows) \in {"exec", "returned"}
      /\ (AfterTrim(rows) = "returned" => rows = {})
  BY DEF AfterTrim
<1>6. /\ did'[c] = did[c] \cup rows
      /\ pc'[c] \in {AfterTrim(rows), "failed"}
      /\ pc' \in [Caller -> {"query", "exec", "run"} \cup Ended]
      /\ total' \in [Caller -> Nat] /\ lastID' \in [Caller -> Int]
      /\ did' \in [Caller -> SUBSET Row]
      /\ Counts(c)'
      /\ \A d \in Caller \ {c} : /\ pc'[d] = pc[d] /\ total'[d] = total[d]
                                 /\ lastID'[d] = lastID[d] /\ did'[d] = did[d]
  <2>1. Counted(c, rows, 0, AfterTrim(rows))
    BY <1>1, <1>2, <1>4, <1>5, AnswerCounts
  <2>2. QED BY <2>1 DEF Counted
<1>7. OthersAsBefore(c) /\ CallTypes'
  BY <1>1, <1>6 DEF OthersAsBefore, RInv, CallTypes
<1>8. NewIds
  BY <1>1, <1>2, <1>3 DEF NewIds
<1>9. key[c] \in Nat /\ \A r \in due[c] : Field[r] <= key[c]
  BY <1>1 DEF RInv, Reports, Dues
<1>10. rows = {} => due[c] \cap table = {}
  <2>1. SUFFICES ASSUME rows = {} PROVE due[c] \cap table = {}
    OBVIOUS
  <2>2. IsFiniteSet(Trimmed(c))
    BY <1>3, RowsType, FS_Subset
  <2>3. Cardinality(Trimmed(c)) \in Nat
    BY <2>2, FS_CardinalityType
  <2>4. Cardinality(rows) = 0
    BY <2>1, FS_EmptySet
  <2>5. Cardinality(Trimmed(c)) = 0
    BY <1>2, <2>3, <2>4, SmallerOfTwo, SizesAreNumbers
  <2>6. Trimmed(c) = {}
    BY <2>2, <2>5, FS_EmptySet
  <2>7. QED BY <1>9, <2>6 DEF Trimmed, UpTo
<1>11. Dues(c)'
  BY <1>1, <1>2, <1>5, <1>6, <1>9, <1>10 DEF Dues
<1>12. Apart(c)'
  BY <1>1, <1>2, <1>4, <1>6 DEF Apart
<1>13. Inserts(c)'
  BY <1>1 DEF Inserts
<1>14. Reports(c)'
  BY <1>6, <1>11, <1>12, <1>13 DEF Reports
<1>15. \A r \in did'[c] \cup due'[c] : r < nextId'
  BY <1>1, <1>3, <1>4, <1>6 DEF RInv, Ids
<1>16. QED BY <1>1, <1>7, <1>8, <1>14, <1>15, StepReports

LEMMA RInvReports ==
    ASSUME RInv
    PROVE  ReportIsTrue
<1> SUFFICES ASSUME NEW c \in Caller, pc[c] = "returned"
             PROVE  /\ total[c] = Cardinality(did[c])
                    /\ job[c].kind = "insert" =>
                        Cardinality(did[c]) = Len(job[c].data) /\ lastID[c] = Max(did[c])
                    /\ due[c] \cap table = {}
  BY DEF ReportIsTrue
<1>1. total[c] = Cardinality(did[c]) /\ due[c] \cap table = {}
  BY DEF RInv, Reports, Counts, Dues
<1>2. ASSUME job[c].kind = "insert"
      PROVE  Cardinality(did[c]) = Len(job[c].data) /\ lastID[c] = Max(did[c])
  <2>1. Cardinality(did[c]) = Len(job[c].data) /\ Len(job[c].data) > 0
    BY <1>2, CallFacts DEF RInv, Reports, Inserts
  <2>2. did[c] # {}
    <3>1. Cardinality({}) = 0
      BY FS_EmptySet
    <3>2. ASSUME did[c] = {} PROVE FALSE
      <4>1. Cardinality(did[c]) = 0
        BY <3>1, <3>2
      <4> DEFINE n == Len(job[c].data)
      <4>2. n = 0 /\ n > 0
        BY <2>1, <4>1
      <4> HIDE DEF n
      <4>3. QED BY <4>2
    <3>3. QED BY <3>2
  <2>3. Highest(lastID[c], did[c])
    BY <1>2, <2>2 DEF RInv, Reports, Inserts
  <2>4. did[c] \in SUBSET Nat
    BY CallerFacts, RowsType DEF RInv
  <2>5. QED BY <2>1, <2>3, <2>4, HighestIsMax
<1>3. QED BY <1>1, <1>2

(* What a call returns is what its statements did: every row counted once,  *)
(* an insert's rows all in the table's history with the last id the highest *)
(* of them, and nothing left that a trim found due, whatever the other      *)
(* calls do meanwhile; for updates that name each row once.                 *)
THEOREM ReportIsAlwaysTrue == ASSUME NamedOnce PROVE Spec => []ReportIsTrue
<1>1. ASSUME RInv, [Next]_vars PROVE RInv'
  <2>1. CASE UNCHANGED vars
    BY <1>1, <2>1 DEF vars, history, RInv, CallTypes, Ids, Reports, Counts, Inserts, Apart, Dues,
                      Highest
  <2>2. CASE Next
    BY <1>1, <2>2, ConnectReports, InsertReports, ChangeReports, QueryReports, TrimReports
       DEF Next, Step
  <2>3. QED BY <1>1, <2>1, <2>2
<1>2. RInv => ReportIsTrue
  BY RInvReports
<1>3. RInv /\ [Next]_vars => RInv'
  BY <1>1
<1>4. QED BY <1>2, <1>3, InitReports, PTL DEF Spec

-----------------------------------------------------------------------------
(* SELECT *)

-----------------------------------------------------------------------------
(* Listings: the sequences that list each row of a set once *)

Lists(s, S) ==
    /\ s \in [1 .. Cardinality(S) -> S]
    /\ \A i, j \in 1 .. Cardinality(S) : i # j => s[i] # s[j]

\* in the order of the numbers K gives the rows, those with one number in any order
Ascends(s, K) == \A i, j \in DOMAIN s : K[s[i]] < K[s[j]] => i < j

\* K tells the rows of S apart.
ToldApart(S, K) == \A r, q \in S : K[r] = K[q] => r = q

\* how many rows of S come before r
Rank(S, K, r) == Cardinality({q \in S : K[q] < K[r]})

\* A listing has every row of its set.
LEMMA ListsAll ==
    ASSUME NEW S, IsFiniteSet(S), NEW s, Lists(s, S)
    PROVE  /\ s \in Seq(S) /\ Len(s) = Cardinality(S) /\ Len(s) \in Nat
           /\ \A r \in S : \E i \in 1 .. Len(s) : s[i] = r
<1> DEFINE n == Cardinality(S)
<1>1. n \in Nat
  BY FS_CardinalityType
<1>2. s \in [1 .. n -> S]
  BY DEF Lists
<1>3. s \in Seq(S) /\ Len(s) = n
  BY <1>1, <1>2
<1>4. s \in Injection(1 .. n, S)
  BY <1>2 DEF Lists, Injection, IsInjective
<1>5. Cardinality(1 .. n) = n
  BY <1>1, FS_Interval
<1>6. s \in Surjection(1 .. n, S)
  BY <1>4, <1>5, FS_Injection
<1>7. \A r \in S : \E i \in 1 .. n : s[i] = r
  BY <1>6 DEF Surjection
<1>8. QED BY <1>1, <1>3, <1>7

\* In an ascending listing of rows that K tells apart, a row's place is the
\* number of rows with a smaller K.
LEMMA PlaceIsRank ==
    ASSUME NEW S, IsFiniteSet(S), NEW K, \A r \in S : K[r] \in Int, ToldApart(S, K),
           NEW s, Lists(s, S), Ascends(s, K), NEW i \in 1 .. Len(s)
    PROVE  Rank(S, K, s[i]) = i - 1
<1> DEFINE n == Cardinality(S)
           T == {r \in S : K[r] < K[s[i]]}
           f == [j \in 1 .. i - 1 |-> s[j]]
<1>1. /\ s \in Seq(S) /\ Len(s) = n /\ n \in Nat
      /\ \A r \in S : \E j \in 1 .. n : s[j] = r
  BY ListsAll
<1>2. /\ DOMAIN s = 1 .. n /\ \A j \in 1 .. n : s[j] \in S
      /\ \A j, k \in 1 .. n : j # k => s[j] # s[k]
  BY <1>1 DEF Lists
<1>3. \A j, k \in 1 .. n : K[s[j]] < K[s[k]] <=> j < k
  <2> TAKE j, k \in 1 .. n
  <2>1. K[s[j]] < K[s[k]] => j < k
    BY <1>2 DEF Ascends
  <2>2. ASSUME j < k PROVE K[s[j]] < K[s[k]]
    <3>1. s[j] # s[k] /\ s[j] \in S /\ s[k] \in S
      BY <1>2, <2>2
    <3>2. K[s[j]] # K[s[k]]
      BY <3>1 DEF ToldApart
    <3>3. ~(K[s[k]] < K[s[j]])
      BY <1>2, <2>2 DEF Ascends
    <3>4. K[s[j]] \in Int /\ K[s[k]] \in Int
      BY <3>1
    <3>5. QED BY <3>2, <3>3, <3>4
  <2>3. QED BY <2>1, <2>2
<1>4. i \in 1 .. n
  BY <1>1
<1>5. \A j \in 1 .. i - 1 : j \in 1 .. n /\ s[j] \in T
  BY <1>1, <1>2, <1>3, <1>4
<1>6. f \in Injection(1 .. i - 1, T)
  <2>1. f \in [1 .. i - 1 -> T]
    BY <1>5
  <2>2. \A a, b \in DOMAIN f : f[a] = f[b] => a = b
    BY <1>2, <1>5
  <2>3. QED BY <2>1, <2>2 DEF Injection, IsInjective
<1>7. f \in Surjection(1 .. i - 1, T)
  <2>1. ASSUME NEW r \in T PROVE \E j \in 1 .. i - 1 : f[j] = r
    <3>1. PICK j \in 1 .. n : s[j] = r
      BY <1>1
    <3>2. j < i
      BY <1>3, <1>4, <3>1
    <3>3. QED BY <3>1, <3>2
  <2>2. QED BY <1>6, <2>1 DEF Injection, Surjection
<1>8. ExistsBijection(1 .. i - 1, T)
  BY <1>6, <1>7 DEF ExistsBijection, Bijection
<1>9. i - 1 \in Nat
  BY <1>1, <1>4
<1>10. QED BY <1>8, <1>9, FS_CountingElements DEF Rank

\* There is one ascending listing of rows that K tells apart.
LEMMA ListingIsUnique ==
    ASSUME NEW S, IsFiniteSet(S), NEW K, \A r \in S : K[r] \in Int, ToldApart(S, K),
           NEW s, Lists(s, S), Ascends(s, K), NEW t, Lists(t, S), Ascends(t, K)
    PROVE  s = t
<1> DEFINE n == Cardinality(S)
<1>1. /\ s \in Seq(S) /\ Len(s) = n /\ t \in Seq(S) /\ Len(t) = n /\ n \in Nat
      /\ \A r \in S : \E j \in 1 .. n : t[j] = r
  BY ListsAll
<1>2. ASSUME NEW i \in 1 .. n PROVE s[i] = t[i]
  <2>1. PICK j \in 1 .. n : t[j] = s[i]
    BY <1>1
  <2>2. i \in 1 .. Len(s) /\ j \in 1 .. Len(t)
    BY <1>1
  <2>3. Rank(S, K, s[i]) = i - 1
    BY <2>2, PlaceIsRank
  <2>4. Rank(S, K, t[j]) = j - 1
    BY <2>2, PlaceIsRank
  <2>5. i = j
    BY <1>1, <2>1, <2>3, <2>4
  <2>6. QED BY <2>1, <2>5
<1>3. s \in [1 .. n -> S] /\ t \in [1 .. n -> S]
  BY DEF Lists
<1>4. \A i \in 1 .. n : s[i] = t[i]
  BY <1>2
<1> HIDE DEF n
<1>5. s = [i \in 1 .. n |-> s[i]] /\ t = [i \in 1 .. n |-> t[i]]
  BY <1>3
<1>6. [i \in 1 .. n |-> s[i]] = [i \in 1 .. n |-> t[i]]
  BY <1>4
<1>7. QED BY <1>5, <1>6

\* And there is one.
LEMMA ListingExists ==
    ASSUME NEW S, IsFiniteSet(S), NEW K, \A r \in S : K[r] \in Int, ToldApart(S, K)
    PROVE  \E s : Lists(s, S) /\ Ascends(s, K)
<1> DEFINE n == Cardinality(S)
           T(r) == {q \in S : K[q] < K[r]}
           f == [r \in S |-> Cardinality(T(r)) + 1]
           s == [i \in 1 .. n |-> CHOOSE r \in S : f[r] = i]
<1>1. n \in Nat
  BY FS_CardinalityType
<1>2. ASSUME NEW r \in S PROVE IsFiniteSet(T(r)) /\ Cardinality(T(r)) \in Nat
  BY FS_Subset, FS_CardinalityType
<1>3. ASSUME NEW r \in S PROVE f[r] \in 1 .. n
  <2>1. r \notin T(r) /\ T(r) \in SUBSET S
    OBVIOUS
  <2>2. Cardinality(T(r)) <= n /\ Cardinality(T(r)) # n
    BY <2>1, FS_Subset
  <2>3. QED BY <1>1, <1>2, <2>2
<1>4. ASSUME NEW r \in S, NEW q \in S, K[q] < K[r] PROVE f[q] < f[r]
  <2>1. T(q) \subseteq T(r) /\ q \in T(r) /\ q \notin T(q)
    BY <1>4
  <2>2. Cardinality(T(q)) <= Cardinality(T(r)) /\ Cardinality(T(q)) # Cardinality(T(r))
    BY <1>2, <2>1, FS_Subset
  <2>3. Cardinality(T(q)) < Cardinality(T(r)) /\ Cardinality(T(q)) \in Nat /\ Cardinality(T(r)) \in Nat
    BY <1>2, <2>2
  <2>4. f[q] = Cardinality(T(q)) + 1 /\ f[r] = Cardinality(T(r)) + 1
    OBVIOUS
  <2> HIDE DEF f, T
  <2>5. QED BY <2>3, <2>4
<1>5. f \in Injection(S, 1 .. n)
  <2>1. ASSUME NEW q \in S, NEW r \in S, f[q] = f[r] PROVE q = r
    <3>1. ~(f[q] < f[r]) /\ ~(f[r] < f[q])
      BY <1>3, <2>1
    <3>2. ~(K[q] < K[r]) /\ ~(K[r] < K[q])
      BY <1>4, <3>1
    <3>3. K[q] \in Int /\ K[r] \in Int
      OBVIOUS
    <3>4. K[q] = K[r]
      BY <3>2, <3>3
    <3>5. QED BY <3>4 DEF ToldApart
  <2>2. f \in [S -> 1 .. n]
    BY <1>3
  <2>3. QED BY <2>1, <2>2 DEF Injection, IsInjective
<1>6. IsFiniteSet(1 .. n) /\ Cardinality(1 .. n) = n
  BY <1>1, FS_Interval
<1>7. f \in Surjection(S, 1 .. n)
  BY <1>5, <1>6, FS_Injection
<1>8. \A i \in 1 .. n : s[i] \in S /\ f[s[i]] = i
  BY <1>7 DEF Surjection
<1>9. Lists(s, S)
  BY <1>8 DEF Lists
<1>10. ASSUME NEW i \in DOMAIN s, NEW j \in DOMAIN s, K[s[i]] < K[s[j]] PROVE i < j
  <2>1. f[s[i]] = i /\ f[s[j]] = j /\ s[i] \in S /\ s[j] \in S
    BY <1>8
  <2>2. QED BY <1>4, <1>10, <2>1
<1>11. QED BY <1>9, <1>10 DEF Ascends

\* What follows the first k rows of an ascending listing is the ascending
\* listing of the rest.
LEMMA RestIsListed ==
    ASSUME NEW S, IsFiniteSet(S), NEW K, \A r \in S : K[r] \in Int, ToldApart(S, K),
           NEW t, Lists(t, S), Ascends(t, K), NEW k \in 0 .. Len(t),
           NEW s, NEW M, M = {t[j] : j \in k + 1 .. Len(t)}, Lists(s, M), Ascends(s, K)
    PROVE  Len(s) = Len(t) - k /\ \A i \in 1 .. Len(s) : s[i] = t[k + i]
<1> DEFINE n == Len(t)
           u == [i \in 1 .. n - k |-> t[k + i]]
<1>1. t \in Seq(S) /\ n = Cardinality(S) /\ n \in Nat /\ t \in [1 .. n -> S]
      /\ \A i, j \in 1 .. n : i # j => t[i] # t[j]
  BY ListsAll DEF Lists
<1>2. M \subseteq S /\ IsFiniteSet(M)
  <2>1. M \subseteq S
    BY <1>1
  <2>2. QED BY <2>1, FS_Subset
<1>3. \A i \in 1 .. n - k : k + i \in k + 1 .. n /\ k + i \in 1 .. n
  BY <1>1
<1>4. u \in Bijection(1 .. n - k, M)
  <2>1. u \in [1 .. n - k -> M]
    BY <1>3
  <2>2. \A a, b \in DOMAIN u : u[a] = u[b] => a = b
    BY <1>1, <1>3
  <2>3. ASSUME NEW r \in M PROVE \E i \in 1 .. n - k : u[i] = r
    <3>1. PICK j \in k + 1 .. n : t[j] = r
      OBVIOUS
    <3>2. j - k \in 1 .. n - k /\ k + (j - k) = j
      BY <1>1
    <3>3. QED BY <3>1, <3>2
  <2>4. QED BY <2>1, <2>2, <2>3 DEF Bijection, Injection, Surjection, IsInjective
<1>5. n - k \in Nat /\ Cardinality(M) = n - k
  <2>1. n - k \in Nat
    BY <1>1
  <2>2. QED BY <1>4, <2>1, FS_CountingElements DEF ExistsBijection
<1>6. Lists(u, M)
  BY <1>4, <1>5 DEF Lists, Bijection, Injection, IsInjective
<1>7. Ascends(u, K)
  <2>1. SUFFICES ASSUME NEW i \in 1 .. n - k, NEW j \in 1 .. n - k,
                        K[t[k + i]] < K[t[k + j]]
                 PROVE  i < j
    BY DEF Ascends
  <2>2. k + i \in DOMAIN t /\ k + j \in DOMAIN t
    BY <1>1, <1>3
  <2>3. k + i < k + j
    BY <2>1, <2>2 DEF Ascends
  <2>4. k \in Int /\ i \in Int /\ j \in Int
    BY <1>1
  <2>5. QED BY <2>3, <2>4
<1>8. (\A r \in M : K[r] \in Int) /\ ToldApart(M, K)
  BY <1>2 DEF ToldApart
<1> HIDE DEF u
<1>9. s = u
  BY <1>2, <1>6, <1>7, <1>8, ListingIsUnique
<1>10. QED
  <2>1. Len(s) = n - k
    BY <1>2, <1>5, ListsAll
  <2>2. QED BY <2>1, <1>9 DEF u

-----------------------------------------------------------------------------
(* What the pages, chunks and rows of a call are *)

\* The numbers by which a SELECT orders its rows.
Num == [r \in SelectRow |-> IF call.desc THEN 0 - SelectField[r] ELSE SelectField[r]]

\* s is the part of t that begins after its first o rows.
IsPart(s, t, o) ==
    /\ \A i \in 1 .. Len(s) : s[i] = t[o + i]
    /\ s = <<>> \/ o + Len(s) <= Len(t)

RawType == [order : BOOLEAN, chunkSize : Nat, limit : Nat, offset : Nat, chunk : Nat,
            dataOffset : Nat, dataLimit : Nat, rows : Seq(SelectRow)]

SelectTypes ==
    /\ stable \subseteq SelectRow /\ call \in Calls /\ raw \in RawType
    /\ spc \in {"exec", "loop", "query", "returned", "failed"}
    /\ result \in Seq(SelectRow) /\ slast \in Nat \cup {None}
    /\ steady \subseteq stable /\ (still => steady = stable)
    /\ spc = "exec" => result = <<>> /\ slast = None

\* A call as the builder makes it.
LEMMA BuilderFacts ==
    ASSUME call \in Calls
    PROVE  /\ call.keyset \in BOOLEAN /\ call.desc \in BOOLEAN /\ call.order \in BOOLEAN
           /\ call.fixed \in BOOLEAN /\ call.cond \in BOOLEAN
           /\ call.inVals \in Seq({Value[r] : r \in SelectRow})
           /\ call.inBatchSize \in Nat /\ call.limit \in Nat /\ call.offset \in Nat
           /\ Select!PageSize(call) \in Nat \ {0}
           /\ Len(call.inVals) \in Nat /\ Len(call.inVals) <= NoLimit
<1>1. call \in Select!SelectBuilder
  BY SelectCallsAreBuilders
<1>2. /\ call.keyset \in BOOLEAN /\ call.desc \in BOOLEAN /\ call.order \in BOOLEAN
      /\ call.fixed \in BOOLEAN /\ call.cond \in BOOLEAN
      /\ call.inVals \in Seq({Value[r] : r \in SelectRow})
      /\ call.inBatchSize \in Nat /\ call.limit \in Nat /\ call.offset \in Nat
      /\ call.batchSize \in Nat
  BY <1>1 DEF Select!SelectBuilder
<1>3. Select!PageSize(call) \in Nat \ {0}
  BY <1>2, SelectBatchIsPositive DEF Select!PageSize
<1>4. QED BY <1>2, <1>3, SelectNoLimitIsNone

LEMMA SameCardinality == \A S : Select!Cardinality(S) = Cardinality(S)
BY DEF Select!Cardinality, Cardinality

LEMMA SeqsAreListings == \A S, s : s \in Select!SetToSeqs(S) <=> Lists(s, S)
BY SameCardinality DEF Select!SetToSeqs, Lists

LEMMA NumIsInt == SelectTypes => Num \in [SelectRow -> Int]
BY SelectFieldsAreNumbers, BuilderFacts DEF SelectTypes, Num

\* Before another in the order is a smaller number.
LEMMA BeforeIsNum ==
    ASSUME SelectTypes, NEW r \in SelectRow, NEW q \in SelectRow
    PROVE  Select!Before(r, q) <=> Num[r] < Num[q]
BY SelectFieldsAreNumbers, BuilderFacts DEF SelectTypes, Num, Select!Before, Select!Precedes

\* What an engine may list of S.
LEMMA ListingFacts ==
    ASSUME SelectTypes, NEW S \in SUBSET SelectRow, NEW s \in Select!Listings(S)
    PROVE  Lists(s, S) /\ (raw.order => Ascends(s, Num))
<1>1. call.desc \in BOOLEAN
  BY BuilderFacts DEF SelectTypes
<1>2. s \in Select!AnyOrder[S]
  BY <1>1 DEF Select!Listings, Select!InOrder
<1>3. Lists(s, S)
  BY <1>2, SeqsAreListings DEF Select!AnyOrder
<1>4. ASSUME raw.order PROVE Ascends(s, Num)
  <2>1. SUFFICES ASSUME NEW i \in DOMAIN s, NEW j \in DOMAIN s, Num[s[i]] < Num[s[j]]
                 PROVE  i < j
    BY DEF Ascends
  <2>2. \A k, l \in DOMAIN s : Select!Precedes(call.desc, s[k], s[l]) => k < l
    BY <1>1, <1>4 DEF Select!Listings, Select!InOrder
  <2>3. s[i] \in SelectRow /\ s[j] \in SelectRow
    BY <1>3 DEF Lists
  <2>4. Select!Before(s[i], s[j])
    BY <2>1, <2>3, BeforeIsNum
  <2>5. QED BY <2>2, <2>4 DEF Select!Before
<1>5. QED BY <1>3, <1>4

\* p is LIMIT n OFFSET o of the listing s.
IsPage(p, s, o, n) ==
    /\ Len(p) \in Nat /\ Len(p) <= n
    /\ \A i \in 1 .. Len(p) : p[i] = s[o + i] /\ o + i \in 1 .. Len(s)
    /\ p = <<>> \/ o + Len(p) <= Len(s)
    /\ Len(p) = n \/ o + Len(p) >= Len(s)

LEMMA SliceFacts ==
    ASSUME NEW S, NEW s \in Seq(S), NEW o \in Nat, NEW n \in Nat
    PROVE  Select!Slice(s, o, n) \in Seq(S) /\ IsPage(Select!Slice(s, o, n), s, o, n)
<1> DEFINE p == Select!Slice(s, o, n)
<1> DEFINE e == IF o + n < Len(s) THEN o + n ELSE Len(s)
<1>1. Len(s) \in Nat /\ e \in Nat /\ e <= Len(s) /\ e <= o + n
  OBVIOUS
<1>2. p = SubSeq(s, o + 1, e)
  BY DEF Select!Slice, Select!Smaller
<1>3. \A i \in o + 1 .. e : s[i] \in S
  <2>1. \A i \in o + 1 .. e : i \in 1 .. Len(s)
    BY <1>1
  <2>2. QED BY <2>1
<1>4. o + 1 \in Int /\ e \in Int
  BY <1>1
<1> DEFINE m == o + 1
<1> HIDE DEF m
<1>5. /\ p \in Seq(S) /\ Len(p) = (IF m <= e THEN e - m + 1 ELSE 0)
      /\ \A i \in 1 .. e - m + 1 : p[i] = s[m + i - 1]
  <2> HIDE DEF e
  <2>1. m \in Int /\ \A i \in m .. e : s[i] \in S
    BY <1>3, <1>4 DEF m
  <2>2. p = SubSeq(s, m, e)
    BY <1>2 DEF m
  <2>3. QED BY <1>4, <2>1, <2>2, SubSeqProperties
<1>6. Len(p) = (IF o < e THEN e - o ELSE 0)
  BY <1>1, <1>5 DEF m
<1>7. ASSUME NEW i \in 1 .. Len(p) PROVE p[i] = s[o + i] /\ o + i \in 1 .. Len(s)
  <2>1. i \in 1 .. e - m + 1 /\ m + i - 1 = o + i /\ o + i \in 1 .. Len(s)
    BY <1>1, <1>6 DEF m
  <2>2. QED BY <1>5, <2>1
<1>8. p = <<>> \/ Len(p) > 0
  BY <1>5, <1>6, <1>1
<1> HIDE DEF p
<1>9. IsPage(p, s, o, n)
  BY <1>1, <1>5, <1>6, <1>7, <1>8 DEF IsPage
<1>10. QED BY <1>5, <1>9 DEF p

\* A part and what follows it are a part.
LEMMA PartGrows ==
    ASSUME NEW R, NEW a \in Seq(R), NEW p \in Seq(R), NEW t, Len(t) \in Nat, NEW o \in Nat,
           IsPart(a, t, o), \A i \in 1 .. Len(p) : p[i] = t[o + Len(a) + i],
           p = <<>> \/ o + Len(a) + Len(p) <= Len(t)
    PROVE  IsPart(a \o p, t, o) /\ a \o p \in Seq(R) /\ Len(a \o p) = Len(a) + Len(p)
<1>1. Len(a) \in Nat /\ Len(p) \in Nat /\ Len(a \o p) = Len(a) + Len(p) /\ a \o p \in Seq(R)
  OBVIOUS
<1>2. ASSUME NEW i \in 1 .. Len(a) + Len(p) PROVE (a \o p)[i] = t[o + i]
  <2>1. CASE i <= Len(a)
    <3>1. i \in 1 .. Len(a)
      BY <1>1, <2>1
    <3>2. (a \o p)[i] = a[i]
      BY <3>1
    <3>3. QED BY <3>1, <3>2 DEF IsPart
  <2>2. CASE i > Len(a)
    <3>1. i - Len(a) \in 1 .. Len(p) /\ o + Len(a) + (i - Len(a)) = o + i
      BY <1>1, <2>2
    <3>2. (a \o p)[i] = p[i - Len(a)]
      BY <1>1, <2>2
    <3>3. QED BY <3>1, <3>2
  <2>3. QED BY <1>1, <2>1, <2>2
<1>3. a \o p = <<>> \/ o + Len(a \o p) <= Len(t)
  BY <1>1 DEF IsPart
<1>4. QED BY <1>1, <1>2, <1>3 DEF IsPart

\* One chunk holds all IN values of a call that is ordered or counted.
LEMMA OneChunk ==
    ASSUME call \in Calls, raw.chunkSize = NoLimit
    PROVE  /\ Select!Chunks = 1
           /\ raw.chunk = 1 => Select!ToSet(Select!ChunkValues) = Select!ToSet(call.inVals)
<1> DEFINE v == call.inVals
           n == Len(v)
<1>1. v \in Seq({Value[r] : r \in SelectRow}) /\ n \in Nat /\ n <= NoLimit /\ NoLimit \in Nat \ {0}
  BY BuilderFacts, SelectBatchIsPositive
<1>2. Select!Chunks = 1
  <2>1. CASE v = <<>>
    BY <2>1 DEF Select!Chunks
  <2>2. CASE v # <<>>
    <3>1. n > 0
      BY <1>1, <2>2
    <3> HIDE DEF n
    <3>2. (n + NoLimit - 1) \div NoLimit = 1
      BY <1>1, <3>1
    <3>3. QED BY <2>2, <3>2 DEF Select!Chunks, n
  <2>3. QED BY <2>1, <2>2
<1>3. ASSUME raw.chunk = 1 PROVE Select!ToSet(Select!ChunkValues) = Select!ToSet(v)
  <2>1. (1 - 1) * NoLimit = 0
    BY <1>1
  <2>2. Select!ChunkValues = Select!Slice(v, 0, NoLimit)
    BY <1>3, <2>1 DEF Select!ChunkValues
  <2>3. Select!Slice(v, 0, NoLimit) = SubSeq(v, 1, n)
    BY <1>1 DEF Select!Slice, Select!Smaller
  <2>4. SubSeq(v, 1, n) = v
    BY <1>1, SubSeqFull
  <2>5. QED BY <2>2, <2>3, <2>4
<1>4. QED BY <1>2, <1>3

-----------------------------------------------------------------------------
(* The keyset *)

\* A query of a keyset is one page of one chunk.
KeysetAsks ==
    spc = "query" =>
        /\ raw.order /\ raw.chunkSize = NoLimit /\ raw.chunk = 1 /\ raw.rows = <<>>
        /\ Len(result) < call.limit
        /\ raw.dataLimit = Select!Smaller(call.limit - Len(result), Select!PageSize(call))
        /\ raw.dataOffset = IF result = <<>> THEN call.offset ELSE 0

\* What a keyset has so far, and where it goes on.
KeysetHas ==
    /\ \A i, j \in 1 .. Len(result) :
            i < j => result[i] # result[j] /\ Num[result[i]] <= Num[result[j]]
    /\ Len(result) <= call.limit
    /\ spc # "failed" =>
         slast = IF result = <<>> THEN None ELSE SelectField[result[Len(result)]]

Tied(r) == \E q \in SelectRow \ {r} : SelectField[q] = SelectField[r]
Skipped(r) == call.offset > 0 /\ result # <<>> /\ Num[r] < Num[result[1]]
ToCome(r) == result = <<>> \/ Num[result[Len(result)]] < Num[r]

\* A row that stays and was not returned ties, was skipped by the offset, or is
\* to come; at the end nothing is to come unless the offset is beyond all rows or
\* the limit is reached.
KeysetGoesOn ==
    spc # "failed" =>
        \A r \in Select!Wanted(steady) \ Select!ToSet(result) :
            \/ Tied(r) \/ Skipped(r)
            \/ ToCome(r) /\ (spc = "returned" =>
                   \/ Len(result) = call.limit
                   \/ result = <<>> /\ call.offset > 0)

LEMMA MinLimitFacts ==
    ASSUME SelectTypes
    PROVE  /\ Select!MinLimit \in Nat /\ Select!MinLimit <= raw.dataLimit
           /\ Select!MinLimit <= Select!PageSize(call)
           /\ raw.dataLimit \in Nat /\ raw.dataOffset \in Nat
           /\ Select!MinLimit \in {raw.dataLimit, Select!PageSize(call)}
<1>1. raw.dataLimit \in Nat /\ raw.dataOffset \in Nat
  BY DEF SelectTypes, RawType
<1>2. Select!PageSize(call) \in Nat
  BY BuilderFacts DEF SelectTypes
<1>3. QED BY <1>1, <1>2 DEF Select!MinLimit, Select!Smaller

\* What a query may return.
LEMMA PageFacts ==
    ASSUME SelectTypes, NEW page \in Select!Pages
    PROVE  \E s : /\ Lists(s, {r \in stable : Select!Matching(r)})
                  /\ raw.order => Ascends(s, Num)
                  /\ s \in Seq(SelectRow) /\ page \in Seq(SelectRow)
                  /\ IsPage(page, s, raw.dataOffset, Select!MinLimit)
<1> DEFINE M == {r \in stable : Select!Matching(r)}
<1>1. PICK s \in Select!Listings(M) : page = Select!Slice(s, raw.dataOffset, Select!MinLimit)
  BY DEF Select!Pages
<1>2. M \in SUBSET SelectRow
  BY DEF SelectTypes
<1>3. Lists(s, M) /\ (raw.order => Ascends(s, Num))
  <2> HIDE DEF M
  <2>1. QED BY <1>2, ListingFacts
<1>4. IsFiniteSet(M)
  BY <1>2, SelectNoLimitIsNone, FS_Subset
<1>5. s \in Seq(SelectRow)
  <2>1. s \in Seq(M)
    BY <1>3, <1>4, ListsAll
  <2>2. QED BY <1>2, <2>1
<1>6. page \in Seq(SelectRow) /\ IsPage(page, s, raw.dataOffset, Select!MinLimit)
  <2>1. Select!MinLimit \in Nat /\ raw.dataOffset \in Nat
    BY MinLimitFacts
  <2> DEFINE o == raw.dataOffset
             n == Select!MinLimit
  <2>2. o \in Nat /\ n \in Nat /\ page = Select!Slice(s, o, n)
    BY <1>1, <2>1
  <2> HIDE DEF o, n
  <2>3. page \in Seq(SelectRow) /\ IsPage(page, s, o, n)
    BY <1>5, <2>2, SliceFacts
  <2>4. QED BY <2>3 DEF o, n
<1>7. QED BY <1>3, <1>5, <1>6

\* The keyset's condition is that the row is to come.
LEMMA BeyondIsToCome ==
    ASSUME SelectTypes, KeysetHas, spc # "failed", NEW r \in SelectRow
    PROVE  Select!Beyond(r) <=> ToCome(r)
<1>1. CASE result = <<>>
  BY <1>1 DEF KeysetHas, Select!Beyond, ToCome
<1>2. CASE result # <<>>
  <2>1. Len(result) \in 1 .. Len(result)
    BY <1>2 DEF SelectTypes
  <2> DEFINE l == result[Len(result)]
  <2>2. l \in SelectRow
    BY <2>1 DEF SelectTypes
  <2>3. slast = SelectField[l] /\ slast # None
    BY <1>2, <2>2, SelectFieldsAreNumbers, FieldType DEF KeysetHas
  <2>4. Select!Beyond(r) <=>
            IF call.desc THEN SelectField[r] < SelectField[l] ELSE SelectField[r] > SelectField[l]
    BY <2>3 DEF Select!Beyond
  <2>5. ToCome(r) <=> Num[l] < Num[r]
    BY <1>2 DEF ToCome
  <2>6. SelectField[r] \in Nat /\ SelectField[l] \in Nat
    BY <2>2, SelectFieldsAreNumbers
  <2>7. call.desc \in BOOLEAN
    BY BuilderFacts DEF SelectTypes
  <2>8. QED BY <2>2, <2>4, <2>5, <2>6, <2>7 DEF Num
<1>3. QED BY <1>1, <1>2

\* A turn of the keyset's loop: a page of the rows to come.
LEMMA KeysetTurn ==
    ASSUME SelectTypes, KeysetHas, KeysetAsks, call.keyset, spc = "query",
           NEW page \in Select!Pages
    PROVE  /\ ~Select!Full(page)
           /\ \E s : /\ Lists(s, {r \in Select!Wanted(stable) : ToCome(r)})
                     /\ Ascends(s, Num) /\ s \in Seq(SelectRow)
                     /\ IsPage(page, s, IF result = <<>> THEN call.offset ELSE 0, raw.dataLimit)
           /\ page \in Seq(SelectRow)
           /\ raw.dataLimit \in Nat \ {0} /\ raw.dataLimit <= call.limit - Len(result)
<1>1. PICK s : /\ Lists(s, {r \in stable : Select!Matching(r)})
               /\ raw.order => Ascends(s, Num)
               /\ s \in Seq(SelectRow) /\ page \in Seq(SelectRow)
               /\ IsPage(page, s, raw.dataOffset, Select!MinLimit)
  BY PageFacts
<1>2. call.limit \in Nat /\ Len(result) \in Nat /\ Select!PageSize(call) \in Nat \ {0}
  BY BuilderFacts DEF SelectTypes
<1>3. /\ raw.dataLimit \in Nat \ {0} /\ raw.dataLimit <= call.limit - Len(result)
      /\ raw.dataLimit <= Select!PageSize(call)
  BY <1>2 DEF KeysetAsks, Select!Smaller
<1>4. Select!MinLimit = raw.dataLimit
  BY <1>3, MinLimitFacts
<1>5. ~Select!Full(page)
  BY <1>3, <1>4 DEF Select!Full
<1>6. {r \in stable : Select!Matching(r)} = {r \in Select!Wanted(stable) : ToCome(r)}
  <2>1. Select!ToSet(Select!ChunkValues) = Select!ToSet(call.inVals)
    BY OneChunk DEF KeysetAsks, SelectTypes
  <2>2. \A r \in stable : Select!Beyond(r) <=> ToCome(r)
    BY BeyondIsToCome DEF SelectTypes
  <2>3. QED BY <2>1, <2>2 DEF Select!Matching, Select!Wanted
<1>7. QED BY <1>1, <1>3, <1>4, <1>5, <1>6 DEF KeysetAsks

\* The page comes behind what the keyset has, in order.
LEMMA KeysetKeepsOrder ==
    ASSUME SelectTypes, KeysetHas, NEW s \in Seq(SelectRow), NEW S, IsFiniteSet(S),
           S \subseteq SelectRow, \A r \in S : ToCome(r),
           Lists(s, S), Ascends(s, Num), NEW page \in Seq(SelectRow), NEW o \in Nat, NEW n \in Nat,
           IsPage(page, s, o, n), n <= call.limit - Len(result)
    PROVE  /\ \A i, j \in 1 .. Len(result \o page) :
                 i < j => /\ (result \o page)[i] # (result \o page)[j]
                          /\ Num[(result \o page)[i]] <= Num[(result \o page)[j]]
           /\ Len(result \o page) <= call.limit
<1> DEFINE a == Len(result)
           b == Len(page)
           all == result \o page
<1>1. a \in Nat /\ b \in Nat /\ Len(all) = a + b /\ b <= n /\ call.limit \in Nat
  BY BuilderFacts DEF SelectTypes, IsPage
<1>2. Num \in [SelectRow -> Int]
  BY NumIsInt
<1>3. \A i \in 1 .. a : all[i] = result[i] /\ result[i] \in SelectRow
  BY DEF SelectTypes, IsPage
<1>4. \A i \in a + 1 .. a + b : all[i] = page[i - a] /\ i - a \in 1 .. b
  BY <1>1 DEF SelectTypes, IsPage
<1>5. \A i \in 1 .. b : page[i] = s[o + i] /\ o + i \in 1 .. Len(s)
  BY DEF IsPage
<1>6. /\ \A i \in 1 .. Len(s) : s[i] \in S
      /\ \A i, j \in 1 .. Len(s) : i # j => s[i] # s[j]
      /\ DOMAIN s = 1 .. Len(s)
  BY ListsAll DEF Lists
<1>7. ASSUME NEW i \in 1 .. a + b, NEW j \in 1 .. a + b, i < j
      PROVE  all[i] # all[j] /\ Num[all[i]] <= Num[all[j]]
  <2>1. CASE j <= a
    <3>1. i \in 1 .. a /\ j \in 1 .. a
      BY <1>1, <1>7, <2>1
    <3>2. QED BY <1>3, <1>7, <3>1 DEF KeysetHas
  <2>2. CASE i <= a /\ a < j
    <3>1. i \in 1 .. a /\ a \in 1 .. a /\ j \in a + 1 .. a + b /\ i <= a
      BY <1>1, <1>7, <2>2
    <3>2. all[j] \in S /\ all[j] \in SelectRow
      BY <1>4, <1>5, <1>6, <3>1
    <3>3. result # <<>>
      BY <1>1, <3>1
    <3>4. Num[result[a]] < Num[all[j]]
      BY <3>2, <3>3 DEF ToCome
    <3>5. Num[result[i]] <= Num[result[a]]
      <4>1. CASE i = a
        BY <1>2, <1>3, <3>1, <4>1
      <4>2. CASE i # a
        <5>1. i < a
          BY <1>1, <3>1, <4>2
        <5>2. QED BY <3>1, <5>1 DEF KeysetHas
      <4>3. QED BY <4>1, <4>2
    <3>6. /\ Num[result[i]] \in Int /\ Num[result[a]] \in Int /\ Num[all[j]] \in Int
          /\ all[i] = result[i]
      BY <1>2, <1>3, <3>1, <3>2
    <3>7. Num[all[i]] < Num[all[j]]
      BY <3>4, <3>5, <3>6
    <3>8. QED BY <3>6, <3>7
  <2>3. CASE a < i
    <3>1. i \in a + 1 .. a + b /\ j \in a + 1 .. a + b
      BY <1>1, <1>7, <2>3
    <3> DEFINE k == o + (i - a)
               l == o + (j - a)
    <3>2. all[i] = s[k] /\ all[j] = s[l] /\ k \in 1 .. Len(s) /\ l \in 1 .. Len(s)
      BY <1>4, <1>5, <3>1
    <3>3. k < l
      BY <1>1, <1>7, <3>1
    <3>4. s[k] # s[l]
      BY <1>6, <3>2, <3>3
    <3>5. ~(Num[s[l]] < Num[s[k]])
      <4>1. k \in DOMAIN s /\ l \in DOMAIN s /\ ~(l < k)
        BY <1>6, <3>2, <3>3
      <4> HIDE DEF k, l
      <4>2. QED BY <4>1 DEF Ascends
    <3>6. Num[s[l]] \in Int /\ Num[s[k]] \in Int
      BY <1>2, <1>6, <3>2
    <3>7. QED BY <3>2, <3>4, <3>5, <3>6
  <2>4. j <= a \/ (i <= a /\ a < j) \/ a < i
    BY <1>1
  <2>5. QED BY <2>1, <2>2, <2>3, <2>4
<1>8. QED BY <1>1, <1>7

\* Rows with one number tie.
LEMMA SameNumTies ==
    ASSUME SelectTypes, NEW r \in SelectRow, NEW q \in SelectRow, r # q, Num[r] = Num[q]
    PROVE  Tied(r)
<1>1. SelectField[r] = SelectField[q]
  BY SelectFieldsAreNumbers, BuilderFacts DEF SelectTypes, Num
<1>2. QED BY <1>1 DEF Tied

\* Of two places in an ascending listing the first has the smaller number, or the
\* rows tie.
LEMMA EarlierIsBefore ==
    ASSUME SelectTypes, NEW s \in Seq(SelectRow), NEW S, IsFiniteSet(S), Lists(s, S),
           Ascends(s, Num), NEW k \in 1 .. Len(s), NEW l \in 1 .. Len(s), k < l
    PROVE  /\ Num[s[k]] < Num[s[l]] \/ (Tied(s[k]) /\ Tied(s[l]))
<1>1. s[k] \in SelectRow /\ s[l] \in SelectRow
  OBVIOUS
<1>2. s[k] # s[l]
  <2>1. Len(s) = Cardinality(S)
    BY ListsAll
  <2>2. QED BY <2>1 DEF Lists
<1>3. ~(Num[s[l]] < Num[s[k]])
  BY DEF Ascends
<1>4. Num[s[k]] \in Int /\ Num[s[l]] \in Int
  BY <1>1, NumIsInt
<1>5. CASE Num[s[k]] = Num[s[l]]
  BY <1>1, <1>2, <1>5, SameNumTies
<1>6. QED BY <1>3, <1>4, <1>5

\* After the page, a row that stays ties, was skipped by the offset, or is to come.
LEMMA KeysetSkipsNone ==
    ASSUME SelectTypes, KeysetHas, KeysetGoesOn, spc # "failed",
           NEW S, \A q : q \in S <=> q \in Select!Wanted(stable) /\ ToCome(q),
           NEW s \in Seq(SelectRow), Lists(s, S), Ascends(s, Num),
           NEW page \in Seq(SelectRow), NEW n \in Nat \ {0}, NEW o \in Nat,
           o = (IF result = <<>> THEN call.offset ELSE 0), IsPage(page, s, o, n),
           NEW all, all = result \o page,
           NEW r \in Select!Wanted(steady), r \notin Select!ToSet(all)
    PROVE  \/ Tied(r)
           \/ call.offset > 0 /\ all # <<>> /\ Num[r] < Num[all[1]]
           \/ /\ all = <<>> \/ Num[all[Len(all)]] < Num[r]
              /\ page = <<>> => result = <<>> /\ call.offset > 0
<1> DEFINE a == Len(result)
           b == Len(page)
<1>1. /\ a \in Nat /\ b \in Nat /\ all \in Seq(SelectRow) /\ Len(all) = a + b
      /\ \A i \in 1 .. a : all[i] = result[i]
      /\ \A i \in 1 .. b : all[a + i] = page[i]
  BY DEF SelectTypes
<1>2. DOMAIN all = 1 .. a + b /\ DOMAIN result = 1 .. a
  BY <1>1 DEF SelectTypes
<1>3. r \notin Select!ToSet(result)
  <2>1. \A i \in 1 .. a : i \in 1 .. a + b
    BY <1>1
  <2>2. QED BY <1>1, <1>2, <2>1 DEF Select!ToSet
<1>4. r \in Select!Wanted(stable) /\ r \in SelectRow
  BY DEF SelectTypes, Select!Wanted
<1>5. Tied(r) \/ Skipped(r) \/ ToCome(r)
  BY <1>3 DEF KeysetGoesOn
<1>6. CASE Tied(r)
  BY <1>6
<1>7. CASE Skipped(r)
  <2>1. result # <<>> /\ call.offset > 0 /\ Num[r] < Num[result[1]]
    BY <1>7 DEF Skipped
  <2>2. 1 \in 1 .. a /\ all # <<>>
    BY <1>1, <2>1 DEF SelectTypes
  <2>3. QED BY <1>1, <2>1, <2>2
<1>8. CASE ToCome(r)
  <2>1. r \in S /\ IsFiniteSet(S)
    <3>1. S \subseteq SelectRow
      BY DEF Select!Wanted, SelectTypes
    <3>2. QED BY <1>4, <1>8, <3>1, SelectNoLimitIsNone, FS_Subset
  <2>2. PICK k \in 1 .. Len(s) : s[k] = r
    <3>1. \A q \in S : \E i \in 1 .. Len(s) : s[i] = q
      BY <2>1, ListsAll
    <3>2. QED BY <2>1, <3>1
  <2>3. Len(s) \in Nat /\ k \in Nat
    OBVIOUS
  <2>4. CASE k <= o
    <3>1. o > 0
      BY <2>3, <2>4
    <3>2. result = <<>> /\ call.offset > 0
      BY <3>1
    <3>3. CASE page = <<>>
      BY <3>2, <3>3, <1>1
    <3>4. CASE page # <<>>
      <4>1. 1 \in 1 .. b
        BY <3>4, <1>1
      <4>2. page[1] = s[o + 1] /\ o + 1 \in 1 .. Len(s)
        BY <4>1 DEF IsPage
      <4>3. all = page /\ all # <<>>
        BY <3>2, <3>4
      <4>4. Num[s[k]] < Num[s[o + 1]] \/ Tied(s[k])
        <5>1. k < o + 1
          BY <2>3, <2>4
        <5> DEFINE l == o + 1
        <5>2. l \in 1 .. Len(s) /\ k < l
          BY <4>2, <5>1
        <5> HIDE DEF l
        <5>3. Num[s[k]] < Num[s[l]] \/ Tied(s[k])
          BY <2>1, <5>2, EarlierIsBefore
        <5>4. QED BY <5>3 DEF l
      <4>5. QED BY <2>2, <3>2, <4>2, <4>3, <4>4
    <3>5. QED BY <3>3, <3>4
  <2>5. CASE k > o
    <3>1. k > o + b
      <4>1. SUFFICES ASSUME k <= o + b PROVE FALSE
        BY <1>1, <2>3
      <4>2. k - o \in 1 .. b /\ o + (k - o) = k
        <5>1. k \in Nat /\ o \in Nat /\ b \in Nat
          BY <1>1, <2>3
        <5> HIDE DEF b
        <5>2. QED BY <2>5, <4>1, <5>1
      <4>3. page[k - o] = r
        BY <2>2, <4>2 DEF IsPage
      <4> DEFINE j == k - o
      <4> HIDE DEF j
      <4>4. all[a + j] = r /\ a + j \in 1 .. a + b
        <5>1. j \in 1 .. b /\ page[j] = r
          BY <4>2, <4>3 DEF j
        <5>2. a \in Nat /\ b \in Nat /\ \A i \in 1 .. b : all[a + i] = page[i]
          BY <1>1
        <5> HIDE DEF a, b
        <5>3. a + j \in 1 .. a + b
          BY <5>1, <5>2
        <5>4. all[a + j] = r
          BY <5>1, <5>2
        <5>5. QED BY <5>3, <5>4
      <4>5. QED BY <1>2, <4>4 DEF Select!ToSet
    <3>2. b = n
      <4>1. b = n \/ o + b >= Len(s)
        BY DEF IsPage
      <4>2. QED BY <1>1, <2>3, <3>1, <4>1
    <3>3. page # <<>> /\ b \in 1 .. b /\ a + b = Len(all) /\ all # <<>>
      BY <1>1, <3>2
    <3>4. page[b] = s[o + b] /\ o + b \in 1 .. Len(s)
      BY <3>3 DEF IsPage
    <3>5. all[Len(all)] = s[o + b]
      BY <1>1, <3>3, <3>4
    <3>6. Num[s[o + b]] < Num[s[k]] \/ Tied(s[k])
      <4> DEFINE l == o + b
      <4>1. l \in 1 .. Len(s) /\ l < k
        BY <3>1, <3>4
      <4> HIDE DEF l
      <4>2. Num[s[l]] < Num[s[k]] \/ Tied(s[k])
        BY <2>1, <4>1, EarlierIsBefore
      <4>3. QED BY <4>2 DEF l
    <3>7. QED BY <2>2, <3>3, <3>5, <3>6
  <2>6. QED BY <2>3, <2>4, <2>5
<1>9. QED BY <1>5, <1>6, <1>7, <1>8

-----------------------------------------------------------------------------
(* A table at rest *)

\* t is the one answer to a query over the whole table.
Whole(t) == Lists(t, Select!Wanted(stable)) /\ Ascends(t, Num)

LEMMA WantedIsFinite ==
    ASSUME SelectTypes
    PROVE  IsFiniteSet(Select!Wanted(stable)) /\ Select!Wanted(stable) \subseteq SelectRow
<1>1. Select!Wanted(stable) \subseteq SelectRow
  BY DEF SelectTypes, Select!Wanted
<1>2. QED BY <1>1, SelectNoLimitIsNone, FS_Subset

LEMMA UntiedIsToldApart ==
    ASSUME SelectTypes, Select!Untied(Select!Wanted(stable))
    PROVE  /\ ToldApart(Select!Wanted(stable), Num)
           /\ \A r \in Select!Wanted(stable) : Num[r] \in Int
<1>1. \A r \in Select!Wanted(stable) : r \in SelectRow
  BY WantedIsFinite
<1>2. \A r \in SelectRow : Num[r] \in Int
  BY NumIsInt
<1>3. ASSUME NEW r \in Select!Wanted(stable), NEW q \in Select!Wanted(stable), Num[r] = Num[q]
      PROVE  r = q
  <2>1. SelectField[r] = SelectField[q]
    BY <1>1, <1>3, SelectFieldsAreNumbers, BuilderFacts DEF SelectTypes, Num
  <2>2. QED BY <2>1 DEF Select!Untied
<1>4. QED BY <1>1, <1>2, <1>3 DEF ToldApart

\* The page of a keyset is the next part of the whole.
LEMMA KeysetPart ==
    ASSUME SelectTypes, Select!Untied(Select!Wanted(stable)), NEW t, Whole(t),
           IsPart(result, t, call.offset),
           NEW S, \A q : q \in S <=> q \in Select!Wanted(stable) /\ ToCome(q),
           NEW s \in Seq(SelectRow), Lists(s, S), Ascends(s, Num),
           NEW page \in Seq(SelectRow), NEW n \in Nat \ {0}, NEW o \in Nat,
           o = (IF result = <<>> THEN call.offset ELSE 0), IsPage(page, s, o, n)
    PROVE  /\ IsPart(result \o page, t, call.offset)
           /\ Len(page) = n \/ call.offset + Len(result \o page) >= Len(t)
<1> DEFINE W == Select!Wanted(stable)
           a == Len(result)
           b == Len(page)
           k == IF result = <<>> THEN 0 ELSE call.offset + a
<1>1. IsFiniteSet(W) /\ W \subseteq SelectRow /\ ToldApart(W, Num) /\ \A r \in W : Num[r] \in Int
  BY WantedIsFinite, UntiedIsToldApart
<1>2. Lists(t, W) /\ Ascends(t, Num)
  BY DEF Whole
<1>3. /\ t \in Seq(W) /\ DOMAIN t = 1 .. Len(t) /\ Len(t) \in Nat /\ Len(t) = Cardinality(W)
      /\ \A r \in W : \E i \in 1 .. Len(t) : t[i] = r
  <2> HIDE DEF W
  <2>1. QED BY <1>1, <1>2, ListsAll
<1>4. a \in Nat /\ call.offset \in Nat /\ b \in Nat /\ k \in 0 .. Len(t)
  <2>1. a \in Nat /\ call.offset \in Nat /\ b \in Nat
    BY BuilderFacts DEF SelectTypes
  <2>2. QED BY <1>3, <2>1 DEF IsPart
<1>5. \A i, j \in 1 .. Len(t) : i < j <=> Num[t[i]] < Num[t[j]]
  <2> SUFFICES ASSUME NEW i \in 1 .. Len(t), NEW j \in 1 .. Len(t)
               PROVE  i < j <=> Num[t[i]] < Num[t[j]]
    OBVIOUS
  <2> HIDE DEF W
  <2>1. Num[t[i]] < Num[t[j]] => i < j
    BY <1>2, <1>3 DEF Ascends
  <2>2. Num[t[j]] < Num[t[i]] => j < i
    BY <1>2, <1>3 DEF Ascends
  <2>3. i # j => t[i] # t[j]
    BY <1>2, <1>3 DEF Lists
  <2>4. t[i] \in W /\ t[j] \in W
    BY <1>3
  <2>5. i # j => Num[t[i]] # Num[t[j]]
    BY <1>1, <2>3, <2>4 DEF ToldApart
  <2>6. Num[t[i]] \in Int /\ Num[t[j]] \in Int
    BY <1>1, <2>4
  <2>7. QED BY <2>1, <2>2, <2>5, <2>6
<1>6. S = {t[j] : j \in k + 1 .. Len(t)}
  <2>1. CASE result = <<>>
    <3>1. \A q : q \in S <=> q \in W
      BY <2>1 DEF ToCome
    <3>2. \A j \in 1 .. Len(t) : t[j] \in W
      BY <1>3
    <3>3. S = {t[j] : j \in 1 .. Len(t)}
      BY <1>3, <3>1, <3>2
    <3>4. k = 0
      BY <2>1
    <3>5. QED BY <3>3, <3>4
  <2>2. CASE result # <<>>
    <3>1. a \in 1 .. a /\ k = call.offset + a /\ k \in 1 .. Len(t)
      BY <1>4, <2>2 DEF SelectTypes
    <3>2. result[a] = t[k]
      BY <3>1 DEF IsPart
    <3>3. \A q : q \in S <=> q \in W /\ Num[t[k]] < Num[q]
      BY <2>2, <3>2 DEF ToCome
    <3>4. \A j \in 1 .. Len(t) : t[j] \in S <=> k < j
      BY <1>3, <1>5, <3>1, <3>3
    <3> HIDE DEF k
    <3>5. \A j \in 1 .. Len(t) : k < j <=> j \in k + 1 .. Len(t)
      BY <1>3, <3>1
    <3>6. \A j \in k + 1 .. Len(t) : j \in 1 .. Len(t)
      BY <1>3, <3>1
    <3>7. \A q \in S : \E j \in 1 .. Len(t) : t[j] = q
      BY <1>3, <3>3
    <3>8. QED BY <3>4, <3>5, <3>6, <3>7
  <2>3. QED BY <2>1, <2>2
<1>7. Len(s) = Len(t) - k /\ \A i \in 1 .. Len(s) : s[i] = t[k + i]
  <2> HIDE DEF W, k
  <2>1. QED BY <1>1, <1>2, <1>4, <1>6, RestIsListed
<1>8. k + o = call.offset + a
  BY <1>4
<1>9. ASSUME NEW i \in 1 .. b PROVE page[i] = t[call.offset + a + i]
  <2>1. page[i] = s[o + i] /\ o + i \in 1 .. Len(s)
    BY DEF IsPage
  <2>2. s[o + i] = t[k + (o + i)]
    BY <1>7, <2>1
  <2>3. k + (o + i) = call.offset + a + i
    BY <1>4, <1>8
  <2>4. QED BY <2>1, <2>2, <2>3
<1>10. page = <<>> \/ call.offset + a + b <= Len(t)
  <2>1. page = <<>> \/ o + b <= Len(s)
    BY DEF IsPage
  <2>2. QED BY <1>3, <1>4, <1>7, <1>8, <2>1
<1>11. b = n \/ call.offset + a + b >= Len(t)
  <2>1. b = n \/ o + b >= Len(s)
    BY DEF IsPage
  <2>2. QED BY <1>3, <1>4, <1>7, <1>8, <2>1
<1>12. IsPart(result \o page, t, call.offset) /\ Len(result \o page) = a + b
  <2>1. result \in Seq(SelectRow) /\ Len(t) \in Nat /\ call.offset \in Nat
    BY <1>3, <1>4 DEF SelectTypes
  <2>2. QED BY <1>9, <1>10, <2>1, PartGrows
<1>13. QED BY <1>4, <1>11, <1>12

-----------------------------------------------------------------------------
(* Pages by offset *)

\* The rows a call may return.
Limit == IF call.limit = 0 THEN NoLimit ELSE call.limit

\* The rows so far and those to come make up the limit.
PagesAsk ==
    spc = "query" =>
        /\ result = <<>> /\ slast = None /\ raw.order = call.order
        /\ raw.chunkSize = Select!ChunkSize(call.order, call.limit, call.offset)
        /\ raw.limit = Limit /\ raw.offset = call.offset
        /\ raw.dataOffset >= call.offset /\ raw.dataLimit > 0
        /\ raw.dataLimit + (raw.dataOffset - call.offset) = Limit
        /\ raw.chunk \in 1 .. Select!Chunks
        /\ call.order \/ call.limit > 0 \/ call.offset > 0 => call.inBatchSize = 0

LEMMA LimitIsNat == call \in Calls => Limit \in Nat \ {0}
BY BuilderFacts, SelectBatchIsPositive DEF Limit

\* An ordered call asks for the whole, a page at a time.
LEMMA OffsetTurn ==
    ASSUME SelectTypes, PagesAsk, spc = "query", call.order
    PROVE  /\ Select!Chunks = 1 /\ raw.chunk = 1 /\ raw.order
           /\ {r \in stable : Select!Matching(r)} = Select!Wanted(stable)
<1>1. raw.chunkSize = NoLimit
  BY BuilderFacts DEF PagesAsk, Select!ChunkSize, SelectTypes
<1>2. /\ Select!Chunks = 1
      /\ raw.chunk = 1 => Select!ToSet(Select!ChunkValues) = Select!ToSet(call.inVals)
  BY <1>1, OneChunk DEF SelectTypes
<1>3. raw.chunk = 1
  BY <1>2 DEF PagesAsk
<1>4. \A r : Select!Beyond(r)
  BY DEF PagesAsk, Select!Beyond
<1>5. {r \in stable : Select!Matching(r)} = Select!Wanted(stable)
  BY <1>2, <1>3, <1>4 DEF Select!Matching, Select!Wanted
<1>6. QED BY <1>2, <1>3, <1>5 DEF PagesAsk

\* The page is the next part of the whole.
LEMMA OffsetPart ==
    ASSUME SelectTypes, PagesAsk, spc = "query", call.order,
           Select!Untied(Select!Wanted(stable)), NEW t, Whole(t),
           IsPart(raw.rows, t, call.offset), Len(raw.rows) = raw.dataOffset - call.offset,
           NEW page \in Select!Pages
    PROVE  /\ IsPart(raw.rows \o page, t, call.offset)
           /\ Len(raw.rows \o page) = Len(raw.rows) + Len(page)
           /\ Len(page) \in Nat /\ Len(page) <= Select!MinLimit
           /\ Len(page) = Select!MinLimit \/ call.offset + Len(raw.rows \o page) >= Len(t)
<1> DEFINE W == Select!Wanted(stable)
           a == Len(raw.rows)
           b == Len(page)
           o == raw.dataOffset
           n == Select!MinLimit
<1>1. PICK s : /\ Lists(s, {r \in stable : Select!Matching(r)})
               /\ raw.order => Ascends(s, Num)
               /\ s \in Seq(SelectRow) /\ page \in Seq(SelectRow)
               /\ IsPage(page, s, o, n)
  BY PageFacts
<1>2. Lists(s, W) /\ Ascends(s, Num)
  BY <1>1, OffsetTurn
<1>3. s = t
  <2>1. IsFiniteSet(W) /\ ToldApart(W, Num) /\ \A r \in W : Num[r] \in Int
    BY WantedIsFinite, UntiedIsToldApart
  <2>2. Lists(t, W) /\ Ascends(t, Num)
    BY DEF Whole
  <2> HIDE DEF W
  <2>3. QED BY <1>2, <2>1, <2>2, ListingIsUnique
<1>4. /\ a \in Nat /\ b \in Nat /\ o \in Nat /\ call.offset \in Nat /\ Len(t) \in Nat
      /\ raw.rows \in Seq(SelectRow) /\ o = call.offset + a
  <2>1. /\ raw.rows \in Seq(SelectRow) /\ o \in Nat /\ call.offset \in Nat
        /\ page \in Seq(SelectRow) /\ t \in Seq(SelectRow)
    BY <1>1, <1>3, BuilderFacts DEF SelectTypes, RawType
  <2>2. a = o - call.offset /\ a \in Nat /\ b \in Nat /\ Len(t) \in Nat
    BY <2>1
  <2>3. QED BY <2>1, <2>2
<1>5. \A i \in 1 .. b : page[i] = t[call.offset + a + i]
  BY <1>1, <1>3, <1>4 DEF IsPage
<1>6. /\ page = <<>> \/ call.offset + a + b <= Len(t)
      /\ b = n \/ call.offset + a + b >= Len(t)
      /\ b <= n
  BY <1>1, <1>3, <1>4 DEF IsPage
<1>7. IsPart(raw.rows \o page, t, call.offset) /\ Len(raw.rows \o page) = a + b
  <2> DEFINE rows == raw.rows
             c == call.offset
  <2>1. /\ rows \in Seq(SelectRow) /\ page \in Seq(SelectRow) /\ Len(t) \in Nat /\ c \in Nat
        /\ IsPart(rows, t, c)
        /\ \A i \in 1 .. Len(page) : page[i] = t[c + Len(rows) + i]
        /\ page = <<>> \/ c + Len(rows) + Len(page) <= Len(t)
    BY <1>1, <1>4, <1>5, <1>6
  <2> HIDE DEF rows, c
  <2>2. IsPart(rows \o page, t, c) /\ Len(rows \o page) = Len(rows) + Len(page)
    BY <2>1, PartGrows
  <2>3. QED BY <2>2 DEF rows, c
<1>8. Len(raw.rows \o page) = Len(raw.rows) + Len(page)
  BY <1>7
<1>9. Len(page) \in Nat /\ Len(page) <= Select!MinLimit
  BY <1>4, <1>6
<1>10. Len(page) = Select!MinLimit \/ call.offset + Len(raw.rows \o page) >= Len(t)
  <2>1. call.offset + (a + b) = call.offset + a + b
    <3>1. a \in Nat /\ b \in Nat /\ call.offset \in Nat
      BY <1>4
    <3> HIDE DEF a, b
    <3>2. QED BY <3>1
  <2>2. QED BY <1>6, <1>7, <2>1
<1>11. QED BY <1>7, <1>8, <1>9, <1>10

\* A part that has as many rows as there may be is the answer.
LEMMA PartIsSlice ==
    ASSUME NEW R, NEW s \in Seq(R), NEW t \in Seq(R), NEW o \in Nat, NEW n \in Nat,
           IsPart(s, t, o), Len(s) <= n, Len(s) = n \/ o + Len(s) >= Len(t)
    PROVE  s = Select!Slice(t, o, n)
<1> DEFINE p == Select!Slice(t, o, n)
<1>1. p \in Seq(R) /\ IsPage(p, t, o, n)
  BY SliceFacts
<1> HIDE DEF p
<1>2. /\ Len(p) \in Nat /\ Len(s) \in Nat /\ Len(t) \in Nat
      /\ s = <<>> => Len(s) = 0
      /\ p = <<>> => Len(p) = 0
  BY <1>1
<1>3. Len(p) = Len(s)
  BY <1>1, <1>2 DEF IsPage, IsPart
<1>4. \A i \in 1 .. Len(s) : s[i] = p[i]
  BY <1>1, <1>3 DEF IsPage, IsPart
<1>5. s = p
  BY <1>1, <1>3, <1>4, SeqEqual
<1>6. QED BY <1>5 DEF p

-----------------------------------------------------------------------------
(* Chunks of IN values *)

\* The IN values up to place n.
Named(n) == {call.inVals[i] : i \in {j \in 1 .. Len(call.inVals) : j <= n}}

\* A call whose chunks fit a page each.
PlainCall ==
    /\ ~Select!Ordered /\ call.limit = 0 /\ call.offset = 0
    /\ Select!IsInjective(call.inVals) /\ Cardinality(SelectRow) < Select!PageSize(call)

\* The values before this chunk are dealt with: no row twice, none that stays missed.
ChunksHave ==
    /\ raw.dataOffset = 0
    /\ Select!IsInjective(raw.rows)
    /\ raw.chunk = 1 => raw.rows = <<>>
    /\ call.inVals # <<>> =>
         /\ \A i \in 1 .. Len(raw.rows) :
                Value[raw.rows[i]] \in Named((raw.chunk - 1) * raw.chunkSize)
         /\ \A r \in steady :
                Value[r] \in Named((raw.chunk - 1) * raw.chunkSize) => r \in Select!ToSet(raw.rows)

ChunksAddUp ==
    PlainCall =>
        /\ spc = "query" => ChunksHave
        /\ spc = "returned" =>
             Select!IsInjective(result) /\ Select!Wanted(steady) \subseteq Select!ToSet(result)

\* The values of a chunk are those up to its end and not before its start.
LEMMA ChunkNames ==
    ASSUME NEW S, call.inVals \in Seq(S), Select!IsInjective(call.inVals),
           NEW m \in Nat, NEW c \in Nat, NEW v
    PROVE  /\ v \in Select!ToSet(Select!Slice(call.inVals, m, c))
                <=> v \in Named(m + c) /\ v \notin Named(m)
           /\ v \in Named(m) => v \in Named(m + c)
<1> DEFINE w == call.inVals
           p == Select!Slice(w, m, c)
<1>0. w \in Seq(S) /\ Len(w) \in Nat
  OBVIOUS
<1>1. p \in Seq(S) /\ IsPage(p, w, m, c) /\ w \in Seq(S) /\ Len(w) \in Nat
  <2> HIDE DEF w
  <2>1. QED BY <1>0, SliceFacts
<1> HIDE DEF p
<1>2. DOMAIN p = 1 .. Len(p) /\ DOMAIN w = 1 .. Len(w) /\ Len(p) \in Nat
  BY <1>1
<1>3. \A n \in Nat : v \in Named(n) <=> \E j \in 1 .. Len(w) : j <= n /\ w[j] = v
  BY DEF Named
<1>4. m + c \in Nat
  OBVIOUS
<1>5. ASSUME v \in Select!ToSet(p) PROVE v \in Named(m + c) /\ v \notin Named(m)
  <2>1. PICK i \in 1 .. Len(p) : p[i] = v
    BY <1>2, <1>5 DEF Select!ToSet
  <2>2. w[m + i] = v /\ m + i \in 1 .. Len(w) /\ m + i <= m + c
    <3>1. p[i] = w[m + i] /\ m + i \in 1 .. Len(w) /\ Len(p) <= c
      BY <1>1, <2>1 DEF IsPage
    <3> HIDE DEF w
    <3>2. QED BY <1>2, <2>1, <3>1
  <2>3. v \in Named(m + c)
    BY <1>3, <1>4, <2>2
  <2>4. ASSUME NEW j \in 1 .. Len(w), j <= m, w[j] = v PROVE FALSE
    <3>1. j = m + i
      BY <1>2, <2>2, <2>4 DEF Select!IsInjective
    <3>2. QED BY <2>4, <3>1
  <2>5. QED BY <1>3, <2>3, <2>4
<1>6. ASSUME v \in Named(m + c), v \notin Named(m) PROVE v \in Select!ToSet(p)
  <2>1. PICK j \in 1 .. Len(w) : j <= m + c /\ w[j] = v
    BY <1>3, <1>4, <1>6
  <2>2. m < j
    BY <1>3, <1>6, <2>1
  <2>3. j - m \in 1 .. Len(p) /\ m + (j - m) = j
    <3>1. Len(p) = c \/ m + Len(p) >= Len(w)
      BY <1>1 DEF IsPage
    <3>2. Len(w) \in Nat /\ Len(p) \in Nat
      BY <1>1, <1>2
    <3> HIDE DEF w
    <3>3. QED BY <2>1, <2>2, <3>1, <3>2
  <2>4. p[j - m] = v
    BY <1>1, <2>1, <2>3 DEF IsPage
  <2>5. QED BY <1>2, <2>3, <2>4 DEF Select!ToSet
<1>7. v \in Named(m) => v \in Named(m + c)
  BY <1>3, <1>4
<1>8. QED BY <1>5, <1>6, <1>7 DEF p

\* The last chunk ends at the last value.
LEMMA ChunksCover ==
    ASSUME NEW n \in Nat, NEW c \in Nat \ {0}
    PROVE  n <= ((n + c - 1) \div c) * c
<1> DEFINE q == (n + c - 1) \div c
<1>1. q \in Int /\ n + c - 1 < (q + 1) * c
  OBVIOUS
<1> HIDE DEF q
<1>2. (q + 1) * c = q * c + c
  BY <1>1
<1>3. q * c \in Int
  BY <1>1
<1>4. n + c - 1 < q * c + c
  BY <1>1, <1>2
<1>5. n <= q * c
  BY <1>3, <1>4
<1>6. QED BY <1>5 DEF q

LEMMA AllNamed ==
    ASSUME call \in Calls, raw.chunkSize \in Nat \ {0}, raw.chunk = Select!Chunks,
           call.inVals # <<>>
    PROVE  Select!ToSet(call.inVals) \subseteq Named(raw.chunk * raw.chunkSize)
<1> DEFINE n == Len(call.inVals)
           c == raw.chunkSize
<1>1. n \in Nat /\ DOMAIN call.inVals = 1 .. n
  BY BuilderFacts
<1>2. raw.chunk = (n + c - 1) \div c
  BY DEF Select!Chunks
<1>3. n <= raw.chunk * c
  <2> HIDE DEF n, c
  <2>1. c \in Nat \ {0}
    BY DEF c
  <2>2. QED BY <1>1, <1>2, <2>1, ChunksCover
<1>4. raw.chunk * c \in Int
  <2> HIDE DEF n, c
  <2>1. c \in Nat \ {0}
    BY DEF c
  <2>2. raw.chunk \in Int
    BY <1>1, <1>2, <2>1
  <2>3. QED BY <2>1, <2>2
<1>5. \A j \in 1 .. n : j <= raw.chunk * c
  <2> DEFINE k == raw.chunk * c
  <2>1. k \in Int /\ n <= k
    BY <1>3, <1>4
  <2> HIDE DEF k, n
  <2>2. \A j \in 1 .. n : j <= k
    BY <1>1, <2>1
  <2>3. QED BY <2>2 DEF k
<1>6. QED BY <1>1, <1>5 DEF Named, Select!ToSet

\* The page of a chunk has all the rows of the chunk.
LEMMA PlainPage ==
    ASSUME SelectTypes, PagesAsk, PlainCall, ChunksHave, spc = "query", NEW page \in Select!Pages
    PROVE  /\ ~Select!Full(page) /\ page \in Seq(SelectRow)
           /\ Lists(page, {r \in stable : Select!Matching(r)})
<1> DEFINE M == {r \in stable : Select!Matching(r)}
           n == Select!MinLimit
           z == Select!PageSize(call)
           N == Cardinality(SelectRow)
<1>1. PICK s : /\ Lists(s, M) /\ s \in Seq(SelectRow) /\ page \in Seq(SelectRow)
               /\ IsPage(page, s, 0, n)
  BY PageFacts DEF ChunksHave
<1>2. M \subseteq SelectRow /\ IsFiniteSet(M) /\ N \in Nat
  <2>1. M \subseteq SelectRow
    BY DEF SelectTypes
  <2>2. QED BY <2>1, SelectNoLimitIsNone, FS_Subset, FS_CardinalityType
<1>3. Len(s) \in Nat /\ Len(s) <= N /\ Len(page) \in Nat
  <2>1. Len(s) = Cardinality(M) /\ Len(s) \in Nat
    <3> HIDE DEF M
    <3>1. QED BY <1>1, <1>2, ListsAll
  <2>2. Cardinality(M) <= N
    BY <1>2, SelectNoLimitIsNone, FS_Subset
  <2>3. QED BY <1>1, <2>1, <2>2
<1>4. raw.dataLimit = NoLimit /\ NoLimit \in Nat /\ N <= NoLimit
  <2>1. raw.dataLimit + (raw.dataOffset - call.offset) = NoLimit
    BY DEF PagesAsk, PlainCall, Limit
  <2>2. raw.dataOffset = 0 /\ call.offset = 0 /\ raw.dataLimit \in Nat
    BY MinLimitFacts DEF ChunksHave, PlainCall
  <2>3. QED BY <2>1, <2>2, SelectBatchIsPositive, SelectNoLimitIsNone
<1>5. z \in Nat /\ N < z
  BY BuilderFacts DEF PlainCall, SelectTypes
<1>6. n = IF NoLimit < z THEN NoLimit ELSE z
  BY <1>4 DEF Select!MinLimit, Select!Smaller
<1>7. N <= n /\ n \in Nat
  <2> HIDE DEF n, z, N
  <2>1. QED BY <1>2, <1>4, <1>5, <1>6
<1>8. Len(page) <= Len(s)
  <2>1. page = <<>> \/ 0 + Len(page) <= Len(s)
    BY <1>1 DEF IsPage
  <2>2. page = <<>> => Len(page) = 0
    OBVIOUS
  <2>3. QED BY <1>3, <2>1, <2>2
<1>9. Len(page) = Len(s)
  <2>1. Len(page) = n \/ 0 + Len(page) >= Len(s)
    BY <1>1 DEF IsPage
  <2> HIDE DEF n, N
  <2>2. QED BY <1>2, <1>3, <1>7, <1>8, <2>1
<1>10. page = s
  <2>1. \A i \in 1 .. Len(page) : page[i] = s[i]
    <3>1. \A i \in 1 .. Len(page) : page[i] = s[0 + i] /\ 0 + i = i
      BY <1>1 DEF IsPage
    <3>2. QED BY <3>1
  <2>2. QED BY <1>1, <1>9, <2>1, SeqEqual
<1>11. ~Select!Full(page)
  <2>1. SUFFICES ASSUME Len(page) = n, NoLimit > n PROVE FALSE
    BY <1>4 DEF Select!Full
  <2>2. n = z
    BY <1>6, <2>1, <1>4, <1>5
  <2> HIDE DEF n, z, N
  <2>3. QED BY <1>2, <1>3, <1>5, <1>9, <2>1, <2>2
<1>12. QED BY <1>1, <1>10, <1>11

\* After the page, the values up to the end of this chunk are dealt with.
LEMMA PlainTurn ==
    ASSUME SelectTypes, PagesAsk, PlainCall, ChunksHave, spc = "query", NEW page \in Select!Pages,
           NEW all, all = raw.rows \o page
    PROVE  /\ ~Select!Full(page) /\ page \in Seq(SelectRow) /\ Select!IsInjective(all)
           /\ raw.chunkSize \in Nat \ {0}
           /\ call.inVals # <<>> =>
                \A i \in 1 .. Len(all) : Value[all[i]] \in Named(raw.chunk * raw.chunkSize)
           /\ \A r \in steady :
                (call.inVals # <<>> => Value[r] \in Named(raw.chunk * raw.chunkSize))
                    => r \in Select!ToSet(all)
<1> DEFINE M == {r \in stable : Select!Matching(r)}
           c == raw.chunkSize
           m == (raw.chunk - 1) * c
           e == raw.chunk * c
           a == Len(raw.rows)
           b == Len(page)
<1>1. /\ ~Select!Full(page) /\ page \in Seq(SelectRow) /\ Lists(page, M)
      /\ raw.rows \in Seq(SelectRow)
  BY PlainPage DEF SelectTypes, RawType
<1>2. M \subseteq SelectRow /\ IsFiniteSet(M)
  <2>1. M \subseteq SelectRow
    BY DEF SelectTypes
  <2>2. QED BY <2>1, SelectNoLimitIsNone, FS_Subset
<1>3. /\ \A r \in M : \E i \in 1 .. b : page[i] = r
      /\ \A i \in 1 .. b : page[i] \in M
      /\ \A i, j \in 1 .. b : i # j => page[i] # page[j]
  <2> HIDE DEF M
  <2>1. b = Cardinality(M) /\ \A r \in M : \E i \in 1 .. b : page[i] = r
    BY <1>1, <1>2, ListsAll
  <2>2. QED BY <1>1, <2>1 DEF Lists
<1>4. /\ a \in Nat /\ b \in Nat /\ Len(all) = a + b /\ DOMAIN all = 1 .. a + b
      /\ \A i \in 1 .. a : all[i] = raw.rows[i]
      /\ \A i \in 1 .. b : all[a + i] = page[i]
      /\ \A i \in a + 1 .. a + b : i - a \in 1 .. b /\ all[i] = page[i - a]
      /\ \A i \in 1 .. a : i \in 1 .. a + b
      /\ \A i \in 1 .. b : a + i \in 1 .. a + b
      /\ DOMAIN raw.rows = 1 .. a
  BY <1>1
<1>5. \A q : (\E i \in 1 .. a : raw.rows[i] = q) \/ (\E i \in 1 .. b : page[i] = q)
                => q \in Select!ToSet(all)
  BY <1>4 DEF Select!ToSet
<1>6. c \in Nat \ {0}
  BY BuilderFacts, SelectBatchIsPositive DEF PagesAsk, PlainCall, Select!ChunkSize, SelectTypes
<1>7. raw.chunk \in Nat \ {0}
  BY DEF PagesAsk, SelectTypes, RawType
<1>8. \A r : Select!Beyond(r)
  BY DEF PagesAsk, Select!Beyond, PlainCall, Select!Ordered
<1>9. m \in Nat /\ e = m + c
  <2> DEFINE k == raw.chunk
  <2>1. k \in Nat \ {0} /\ c \in Nat \ {0}
    BY <1>6, <1>7
  <2> HIDE DEF k, c
  <2>2. (k - 1) * c \in Nat /\ k * c = (k - 1) * c + c
    BY <2>1
  <2>3. QED BY <2>2 DEF k
<1>10. CASE call.inVals = <<>>
  <2>1. raw.rows = <<>> /\ all = page
    <3>1. raw.chunk = 1
      BY <1>7, <1>10 DEF PagesAsk, Select!Chunks
    <3>2. raw.rows = <<>>
      BY <3>1 DEF ChunksHave
    <3>3. QED BY <1>1, <3>2
  <2>2. Select!IsInjective(all)
    BY <1>1, <1>3, <2>1 DEF Select!IsInjective
  <2>3. \A r \in steady : r \in M
    BY <1>8, <1>10 DEF SelectTypes, Select!Matching
  <2>4. \A r \in steady : r \in Select!ToSet(all)
    BY <1>3, <1>5, <2>3
  <2>5. QED BY <1>1, <1>6, <1>10, <2>2, <2>4
<1>11. CASE call.inVals # <<>>
  <2>1. \A v : /\ v \in Select!ToSet(Select!ChunkValues) <=> v \in Named(e) /\ v \notin Named(m)
               /\ v \in Named(m) => v \in Named(e)
    <3>1. call.inVals \in Seq({Value[r] : r \in SelectRow})
      BY BuilderFacts DEF SelectTypes
    <3>2. Select!IsInjective(call.inVals)
      BY DEF PlainCall
    <3>3. /\ Select!ChunkValues = Select!Slice(call.inVals, m, c)
          /\ m \in Nat /\ c \in Nat /\ e = m + c
      BY <1>6, <1>9 DEF Select!ChunkValues
    <3> HIDE DEF m, c, e
    <3>4. QED BY <3>1, <3>2, <3>3, ChunkNames
  <2>2. \A r : r \in M <=> r \in stable /\ Value[r] \in Select!ToSet(Select!ChunkValues)
    BY <1>8, <1>11 DEF Select!Matching
  <2>3. \A i \in 1 .. a : Value[raw.rows[i]] \in Named(m)
    BY <1>11 DEF ChunksHave
  <2>4. \A i \in 1 .. b : Value[page[i]] \in Named(e) /\ Value[page[i]] \notin Named(m)
    BY <1>3, <2>1, <2>2
  <2>5. \A i \in 1 .. a : \A j \in 1 .. b : raw.rows[i] # page[j]
    BY <2>3, <2>4
  <2>6. \A i, j \in 1 .. a : raw.rows[i] = raw.rows[j] => i = j
    BY <1>4 DEF ChunksHave, Select!IsInjective
  <2>7. ASSUME NEW i \in 1 .. a + b, NEW j \in 1 .. a + b, all[i] = all[j] PROVE i = j
    <3> HIDE DEF a, b
    <3>1. i \in 1 .. a \/ i \in a + 1 .. a + b
      BY <1>4
    <3>2. j \in 1 .. a \/ j \in a + 1 .. a + b
      BY <1>4
    <3>3. CASE i \in 1 .. a /\ j \in 1 .. a
      BY <1>4, <2>6, <2>7, <3>3
    <3>4. CASE i \in 1 .. a /\ j \in a + 1 .. a + b
      BY <1>4, <2>5, <2>7, <3>4
    <3>5. CASE i \in a + 1 .. a + b /\ j \in 1 .. a
      BY <1>4, <2>5, <2>7, <3>5
    <3>6. CASE i \in a + 1 .. a + b /\ j \in a + 1 .. a + b
      <4>1. i - a \in 1 .. b /\ j - a \in 1 .. b /\ page[i - a] = page[j - a]
        BY <1>4, <2>7, <3>6
      <4>2. i - a = j - a
        BY <1>3, <4>1
      <4>3. QED BY <1>4, <4>2
    <3>7. QED BY <3>1, <3>2, <3>3, <3>4, <3>5, <3>6
  <2>8. Select!IsInjective(all)
    BY <1>4, <2>7 DEF Select!IsInjective
  <2>9. ASSUME NEW i \in 1 .. a + b PROVE Value[all[i]] \in Named(e)
    <3> HIDE DEF a, b, e, m
    <3>1. i \in 1 .. a \/ i \in a + 1 .. a + b
      BY <1>4
    <3>2. QED BY <1>4, <2>1, <2>3, <2>4, <3>1
  <2>10. ASSUME NEW r \in steady, Value[r] \in Named(e) PROVE r \in Select!ToSet(all)
    <3>1. CASE Value[r] \in Named(m)
      <4>1. r \in Select!ToSet(raw.rows)
        BY <1>11, <3>1 DEF ChunksHave
      <4>2. QED BY <1>4, <1>5, <4>1 DEF Select!ToSet
    <3>2. CASE Value[r] \notin Named(m)
      <4>1. r \in M
        BY <2>1, <2>2, <2>10, <3>2 DEF SelectTypes
      <4>2. QED BY <1>3, <1>5, <4>1
    <3>3. QED BY <3>1, <3>2
  <2>11. QED BY <1>1, <1>4, <1>6, <1>11, <2>8, <2>9, <2>10
<1>12. QED BY <1>10, <1>11

-----------------------------------------------------------------------------
(* The invariant of SELECT, step by step *)

\* The rows a call may return at most.
Most == IF call.keyset THEN call.limit ELSE Limit

\* In a table at rest, whose rows the order tells apart, what there is so far is
\* the part of the whole that begins at the offset; the answer is as much of it as
\* there may be.
OrderedParts ==
    Select!Ordered /\ still /\ Select!Untied(Select!Wanted(stable)) =>
        \A t : Whole(t) =>
            /\ call.keyset /\ spc # "failed" => IsPart(result, t, call.offset)
            /\ ~call.keyset /\ spc = "query" =>
                 /\ IsPart(raw.rows, t, call.offset)
                 /\ Len(raw.rows) = raw.dataOffset - call.offset
            /\ spc = "returned" =>
                 /\ IsPart(result, t, call.offset) /\ Len(result) <= Most
                 /\ Len(result) = Most \/ call.offset + Len(result) >= Len(t)

SelectInv ==
    /\ SelectTypes
    /\ ~call.keyset => spc # "loop" /\ PagesAsk
    /\ call.keyset => KeysetAsks /\ KeysetHas /\ KeysetGoesOn
    /\ OrderedParts /\ ChunksAddUp

\* What depends on the call and the table alone.
LEMMA SameTable ==
    ASSUME stable' = stable, call' = call
    PROVE  /\ Num' = Num /\ Limit' = Limit /\ Most' = Most
           /\ Select!Ordered' <=> Select!Ordered
           /\ Select!Wanted(stable)' = Select!Wanted(stable)
           /\ Select!Untied(Select!Wanted(stable))' <=> Select!Untied(Select!Wanted(stable))
           /\ \A t : Whole(t)' <=> Whole(t)
           /\ PlainCall' <=> PlainCall
<1>1. Num' = Num /\ Limit' = Limit /\ Most' = Most /\ (Select!Ordered' <=> Select!Ordered)
  BY DEF Num, Limit, Most, Select!Ordered
<1>2. Select!Wanted(stable)' = Select!Wanted(stable)
  BY DEF Select!Wanted
<1>3. Select!Untied(Select!Wanted(stable))' <=> Select!Untied(Select!Wanted(stable))
  BY <1>2 DEF Select!Untied
<1>4. \A t : Whole(t)' <=> Whole(t)
  BY <1>1, <1>2 DEF Whole, Lists, Ascends
<1>5. PlainCall' <=> PlainCall
  BY <1>1 DEF PlainCall, Select!PageSize
<1>6. QED BY <1>1, <1>2, <1>3, <1>4, <1>5

LEMMA NothingIsPart == \A t, o : IsPart(<<>>, t, o)
BY DEF IsPart

\* The rows of a keyset, when nothing of it changes but where it stands.
LEMMA KeysetStays ==
    ASSUME call' = call, result' = result, steady' \subseteq steady, KeysetHas, KeysetGoesOn,
           spc' \in {"loop", "query"}, slast' = slast, spc \in {"exec", "loop", "query"}
    PROVE  KeysetHas' /\ KeysetGoesOn'
<1>1. Num' = Num
  BY DEF Num
<1>2. KeysetHas'
  BY <1>1 DEF KeysetHas
<1>3. \A r : (Tied(r)' <=> Tied(r)) /\ (Skipped(r)' <=> Skipped(r)) /\ (ToCome(r)' <=> ToCome(r))
  BY <1>1 DEF Tied, Skipped, ToCome
<1>4. \A r : r \in Select!Wanted(steady)' => r \in Select!Wanted(steady)
  BY DEF Select!Wanted
<1>5. Select!ToSet(result)' = Select!ToSet(result)
  BY DEF Select!ToSet
<1>6. KeysetGoesOn'
  BY <1>3, <1>4, <1>5 DEF KeysetGoesOn
<1>7. QED BY <1>2, <1>6

LEMMA SelectStarts == Select!Init => SelectInv
<1> SUFFICES ASSUME Select!Init PROVE SelectInv
  OBVIOUS
<1>1. /\ stable \in SUBSET SelectRow /\ call \in Calls /\ spc = "exec" /\ slast = None
      /\ result = <<>> /\ steady = stable /\ still = TRUE
      /\ raw = [order |-> FALSE, chunkSize |-> 1, limit |-> 0, offset |-> 0,
                chunk |-> 1, dataOffset |-> 0, dataLimit |-> 0, rows |-> <<>>]
  BY DEF Select!Init
<1>2. raw \in RawType
  BY <1>1 DEF RawType
<1>3. SelectTypes
  BY <1>1, <1>2 DEF SelectTypes
<1>4. PagesAsk /\ KeysetAsks /\ ChunksAddUp
  BY <1>1 DEF PagesAsk, KeysetAsks, ChunksAddUp
<1>5. KeysetHas /\ KeysetGoesOn
  BY <1>1, BuilderFacts DEF KeysetHas, KeysetGoesOn, ToCome
<1>6. OrderedParts
  BY <1>1, NothingIsPart DEF OrderedParts
<1>7. QED BY <1>1, <1>3, <1>4, <1>5, <1>6 DEF SelectInv

\* Others change the table.
LEMMA ChangeKeeps ==
    ASSUME SelectInv, NEW x \in SelectRow, Select!Change(x)
    PROVE  SelectInv'
<1>1. /\ spc = "query" /\ spc' = spc /\ call' = call /\ raw' = raw /\ slast' = slast
      /\ result' = result /\ still' = FALSE /\ steady' = steady \ {x}
      /\ stable' = IF x \in stable THEN stable \ {x} ELSE stable \cup {x}
  BY DEF Select!Change
<1>2. SelectTypes'
  BY <1>1 DEF SelectInv, SelectTypes
<1>3. ~call.keyset => PagesAsk'
  <2>1. Limit' = Limit /\ Select!Chunks' = Select!Chunks
    BY <1>1 DEF Limit, Select!Chunks
  <2>2. Select!ChunkSize(call.order, call.limit, call.offset)'
            = Select!ChunkSize(call.order, call.limit, call.offset)
    BY <1>1 DEF Select!ChunkSize
  <2>3. ~call.keyset => PagesAsk
    BY DEF SelectInv
  <2>4. QED BY <1>1, <2>1, <2>2, <2>3 DEF PagesAsk
<1>4. call.keyset => KeysetAsks' /\ KeysetHas' /\ KeysetGoesOn'
  <2>1. SUFFICES ASSUME call.keyset PROVE KeysetAsks' /\ KeysetHas' /\ KeysetGoesOn'
    OBVIOUS
  <2>2. KeysetAsks'
    BY <1>1, <2>1 DEF SelectInv, KeysetAsks, Select!Smaller, Select!PageSize
  <2>3. QED BY <1>1, <2>1, <2>2, KeysetStays DEF SelectInv
<1>5. OrderedParts'
  BY <1>1 DEF OrderedParts
<1>6. ChunksAddUp'
  <2>1. PlainCall' <=> PlainCall
    BY <1>1 DEF PlainCall, Select!Ordered, Select!PageSize
  <2>2. SUFFICES ASSUME PlainCall, ChunksHave PROVE ChunksHave'
    BY <1>1, <2>1 DEF SelectInv, ChunksAddUp
  <2>3. \A n : Named(n)' = Named(n)
    BY <1>1 DEF Named
  <2>4. QED BY <1>1, <2>2, <2>3 DEF ChunksHave
<1>7. QED BY <1>1, <1>2, <1>3, <1>4, <1>5, <1>6 DEF SelectInv

LEMMA QueryFailsKeeps ==
    ASSUME SelectInv, Select!QueryFails
    PROVE  SelectInv'
<1>1. /\ spc' = "failed" /\ call' = call /\ raw' = raw /\ slast' = slast /\ result' = <<>>
      /\ still' = still /\ steady' = steady /\ stable' = stable
  BY DEF Select!QueryFails, Select!history
<1>2. SelectTypes'
  BY <1>1 DEF SelectInv, SelectTypes
<1>3. PagesAsk' /\ KeysetAsks' /\ KeysetGoesOn' /\ ChunksAddUp' /\ OrderedParts'
  BY <1>1 DEF PagesAsk, KeysetAsks, KeysetGoesOn, ChunksAddUp, OrderedParts
<1>4. KeysetHas'
  <2>1. call.limit \in Nat
    BY BuilderFacts DEF SelectInv, SelectTypes
  <2>2. QED BY <1>1, <2>1 DEF KeysetHas
<1>5. QED BY <1>1, <1>2, <1>3, <1>4 DEF SelectInv

-----------------------------------------------------------------------------

LEMMA ChunksPositive ==
    ASSUME NEW n \in Nat \ {0}, NEW c \in Nat \ {0}
    PROVE  (n + c - 1) \div c \in Nat \ {0}
<1> DEFINE q == (n + c - 1) \div c
<1>1. q \in Int /\ n + c - 1 < (q + 1) * c
  OBVIOUS
<1> HIDE DEF q
<1>2. (q + 1) * c > 0
  BY <1>1
<1>3. (q + 1) * c >= c + 0
  BY <1>1
<1>4. ASSUME q <= 0 PROVE FALSE
  <2>1. (q + 1) * c <= c
    BY <1>1, <1>4
  <2>2. n + c - 1 < c
    BY <1>1, <2>1
  <2>3. QED BY <2>2
<1>5. QED BY <1>1, <1>4 DEF q

\* What SelectRaw begins with.
LEMMA AskFacts ==
    ASSUME SelectTypes, NEW order \in BOOLEAN, NEW limit \in Nat, NEW offset \in Nat,
           Select!Call(order, limit, offset), call' = call
    PROVE  /\ spc' \in {"failed", "query"} /\ raw' \in RawType
           /\ spc' = "query" => ~Select!Refused(order, limit, offset)
           /\ raw'.order = order /\ raw'.chunkSize = Select!ChunkSize(order, limit, offset)
           /\ raw'.chunkSize \in Nat \ {0}
           /\ raw'.limit = (IF limit = 0 THEN NoLimit ELSE limit) /\ raw'.offset = offset
           /\ raw'.chunk = 1 /\ raw'.dataOffset = offset /\ raw'.rows = <<>>
           /\ raw'.dataLimit = (IF limit = 0 THEN NoLimit ELSE limit)
           /\ Select!Chunks' \in Nat \ {0}
<1>1. /\ spc' = IF Select!Refused(order, limit, offset) THEN "failed" ELSE "query"
      /\ raw' = [order |-> order, chunkSize |-> Select!ChunkSize(order, limit, offset),
                 limit |-> IF limit = 0 THEN NoLimit ELSE limit, offset |-> offset,
                 chunk |-> 1, dataOffset |-> offset,
                 dataLimit |-> IF limit = 0 THEN NoLimit ELSE limit, rows |-> <<>>]
  BY DEF Select!Call
<1>2. Select!ChunkSize(order, limit, offset) \in Nat \ {0}
  BY BuilderFacts, SelectBatchIsPositive DEF Select!ChunkSize, SelectTypes
<1>3. raw' \in RawType
  BY <1>1, <1>2, SelectBatchIsPositive DEF RawType
<1>4. Select!Chunks' \in Nat \ {0}
  <2>1. CASE call.inVals = <<>>
    BY <2>1 DEF Select!Chunks
  <2>2. CASE call.inVals # <<>>
    <3> DEFINE n == Len(call.inVals)
               c == raw'.chunkSize
    <3>1. n \in Nat \ {0}
      BY <2>2, BuilderFacts DEF SelectTypes
    <3>2. c \in Nat \ {0}
      BY <1>1, <1>2
    <3>3. Select!Chunks' = (n + c - 1) \div c
      BY <2>2 DEF Select!Chunks
    <3> HIDE DEF n, c
    <3>4. QED BY <3>1, <3>2, <3>3, ChunksPositive
  <2>3. QED BY <2>1, <2>2
<1>5. QED BY <1>1, <1>2, <1>3, <1>4

LEMMA ExecKeeps ==
    ASSUME SelectInv, Select!Exec
    PROVE  SelectInv'
<1>1. /\ spc = "exec" /\ stable' = stable /\ call' = call /\ slast' = slast /\ result' = result
      /\ steady' = steady /\ still' = still
      /\ result = <<>> /\ slast = None
  BY DEF Select!Exec, Select!history, SelectInv, SelectTypes
<1>2. SelectTypes
  BY DEF SelectInv
<1>3. /\ call.keyset \in BOOLEAN /\ call.order \in BOOLEAN /\ call.limit \in Nat
      /\ call.offset \in Nat
  BY <1>2, BuilderFacts DEF SelectTypes
<1>4. CASE call.keyset
  <2>1. spc' \in {"failed", "loop"} /\ raw' = raw
    BY <1>4 DEF Select!Exec
  <2>2. SelectTypes'
    BY <1>1, <1>2, <2>1 DEF SelectTypes
  <2>3. KeysetAsks' /\ KeysetHas' /\ KeysetGoesOn'
    BY <1>1, <1>3, <2>1 DEF KeysetAsks, KeysetHas, KeysetGoesOn, ToCome
  <2>4. OrderedParts'
    BY <1>1, <2>1, NothingIsPart DEF OrderedParts
  <2>5. ChunksAddUp'
    BY <2>1 DEF ChunksAddUp
  <2>6. QED BY <1>1, <1>4, <2>2, <2>3, <2>4, <2>5 DEF SelectInv
<1>5. CASE ~call.keyset
  <2>1. Select!Call(call.order, call.limit, call.offset)
    BY <1>5 DEF Select!Exec
  <2>2. /\ spc' \in {"failed", "query"} /\ raw' \in RawType
        /\ spc' = "query" => ~Select!Refused(call.order, call.limit, call.offset)
        /\ raw'.order = call.order
        /\ raw'.chunkSize = Select!ChunkSize(call.order, call.limit, call.offset)
        /\ raw'.limit = Limit /\ raw'.offset = call.offset
        /\ raw'.chunk = 1 /\ raw'.dataOffset = call.offset /\ raw'.rows = <<>>
        /\ raw'.dataLimit = Limit
        /\ Select!Chunks' \in Nat \ {0}
    BY <1>1, <1>2, <1>3, <2>1, AskFacts DEF Limit
  <2>3. SelectTypes'
    BY <1>1, <1>2, <2>2 DEF SelectTypes
  <2>4. PagesAsk'
    <3> SUFFICES ASSUME spc' = "query" PROVE PagesAsk'
      BY DEF PagesAsk
    <3>1. Limit' = Limit /\ Limit \in Nat \ {0}
      BY <1>1, <1>2, LimitIsNat DEF Limit, SelectTypes
    <3>2. Select!ChunkSize(call.order, call.limit, call.offset)'
            = Select!ChunkSize(call.order, call.limit, call.offset)
      BY <1>1 DEF Select!ChunkSize
    <3>3. call.inBatchSize \in Nat
      BY <1>2, BuilderFacts DEF SelectTypes
    <3>4. call.order \/ call.limit > 0 \/ call.offset > 0 => call.inBatchSize = 0
      BY <2>2, <3>3 DEF Select!Refused
    <3>5. raw'.chunk \in 1 .. Select!Chunks'
      BY <2>2
    <3>6. Limit + (call.offset - call.offset) = Limit /\ Limit > 0 /\ call.offset >= call.offset
      BY <1>3, <3>1
    <3>7. QED BY <1>1, <2>2, <3>1, <3>2, <3>4, <3>5, <3>6 DEF PagesAsk
  <2>5. OrderedParts'
    <3>1. Len(<<>>) = 0 /\ call.offset - call.offset = 0
      BY <1>3
    <3>2. QED BY <1>1, <1>5, <2>2, <3>1, NothingIsPart DEF OrderedParts
  <2>6. ChunksAddUp'
    <3> SUFFICES ASSUME PlainCall', spc' = "query" PROVE ChunksHave'
      BY <2>2 DEF ChunksAddUp
    <3>1. raw'.dataOffset = 0 /\ raw'.rows = <<>>
      BY <1>1, <2>2 DEF PlainCall
    <3>2. Select!IsInjective(<<>>)
      BY DEF Select!IsInjective
    <3>3. \A v : v \notin Named((raw.chunk - 1) * raw.chunkSize)'
      <4>1. (raw'.chunk - 1) * raw'.chunkSize = 0
        <5>1. raw'.chunk - 1 = 0 /\ raw'.chunkSize \in Nat
          BY <2>2 DEF RawType
        <5>2. QED BY <5>1
      <4>2. QED BY <4>1 DEF Named
    <3>4. QED BY <3>1, <3>2, <3>3 DEF ChunksHave
  <2>7. QED BY <1>1, <1>5, <2>2, <2>3, <2>4, <2>5, <2>6 DEF SelectInv
<1>6. QED BY <1>3, <1>4, <1>5

LEMMA LoopKeeps ==
    ASSUME SelectInv, Select!Loop
    PROVE  SelectInv'
<1>1. /\ spc = "loop" /\ stable' = stable /\ call' = call /\ slast' = slast /\ result' = result
      /\ steady' = steady /\ still' = still
  BY DEF Select!Loop, Select!history
<1>2. SelectTypes /\ call.keyset /\ KeysetHas /\ KeysetGoesOn /\ OrderedParts
  BY <1>1 DEF SelectInv
<1>3. call.limit \in Nat /\ call.offset \in Nat /\ Select!PageSize(call) \in Nat \ {0}
      /\ Len(result) \in Nat /\ Len(result) <= call.limit /\ call.inBatchSize \in Nat
  BY <1>2, BuilderFacts DEF SelectTypes, KeysetHas
<1>4. CASE Select!Remaining = 0
  <2>1. spc' = "returned" /\ raw' = raw
    BY <1>4 DEF Select!Loop
  <2>2. Len(result) = call.limit
    BY <1>3, <1>4 DEF Select!Remaining
  <2>3. SelectTypes'
    BY <1>1, <1>2, <2>1 DEF SelectTypes
  <2>4. Num' = Num /\ Most' = call.limit
    BY <1>1, <1>2 DEF Num, Most
  <2>5. KeysetAsks' /\ KeysetHas'
    BY <1>1, <1>2, <2>1, <2>4 DEF KeysetAsks, KeysetHas
  <2>6. KeysetGoesOn'
    <3>1. \A r : /\ Tied(r)' <=> Tied(r)
                 /\ Skipped(r)' <=> Skipped(r)
                 /\ ToCome(r)' <=> ToCome(r)
      BY <1>1, <2>4 DEF Tied, Skipped, ToCome
    <3>2. /\ Select!Wanted(steady)' = Select!Wanted(steady)
          /\ Select!ToSet(result)' = Select!ToSet(result)
      BY <1>1 DEF Select!Wanted, Select!ToSet
    <3>3. QED BY <1>1, <1>2, <2>1, <2>2, <3>1, <3>2 DEF KeysetGoesOn
  <2>7. OrderedParts'
    <3>1. \A t : IsPart(result, t, call.offset)' <=> IsPart(result, t, call.offset)
      BY <1>1
    <3>2. QED BY <1>1, <1>2, <1>3, <2>1, <2>2, <2>4, <3>1, SameTable DEF OrderedParts
  <2>8. ChunksAddUp'
    BY <1>1, <1>2 DEF ChunksAddUp, PlainCall, Select!Ordered
  <2>9. QED BY <1>1, <1>2, <2>3, <2>5, <2>6, <2>7, <2>8 DEF SelectInv
<1>5. CASE Select!Remaining # 0
  <2> DEFINE n == Select!Smaller(Select!Remaining, Select!PageSize(call))
             o == Select!FirstOffset
  <2>1. Select!Call(TRUE, n, o)
    BY <1>5 DEF Select!Loop
  <2>2. Select!Remaining = call.limit - Len(result) /\ Len(result) < call.limit
    BY <1>3, <1>5 DEF Select!Remaining
  <2>3. n \in Nat \ {0} /\ o \in Nat
    BY <1>3, <2>2 DEF Select!Smaller, Select!FirstOffset
  <2>4. o = IF result = <<>> THEN call.offset ELSE 0
    <3>1. slast = None <=> result = <<>>
      <4>1. CASE result = <<>>
        BY <1>1, <1>2, <4>1 DEF KeysetHas
      <4>2. CASE result # <<>>
        <5>1. Len(result) \in 1 .. Len(result)
          BY <1>2, <4>2 DEF SelectTypes
        <5>2. result[Len(result)] \in SelectRow
          BY <1>2, <5>1 DEF SelectTypes
        <5>3. SelectField[result[Len(result)]] # None
          BY <5>2, SelectFieldsAreNumbers, FieldType
        <5>4. slast # None
          BY <1>1, <1>2, <4>2, <5>3 DEF KeysetHas
        <5>5. QED BY <4>2, <5>4
      <4>3. QED BY <4>1, <4>2
    <3>2. QED BY <3>1 DEF Select!FirstOffset
  <2> HIDE DEF n, o
  <2>5. /\ spc' \in {"failed", "query"} /\ raw' \in RawType
        /\ spc' = "query" => ~Select!Refused(TRUE, n, o)
        /\ raw'.order = TRUE /\ raw'.chunkSize = Select!ChunkSize(TRUE, n, o)
        /\ raw'.chunk = 1 /\ raw'.dataOffset = o /\ raw'.rows = <<>>
        /\ raw'.dataLimit = n
    <3>1. TRUE \in BOOLEAN /\ n # 0 /\ n \in Nat
      BY <2>3
    <3>2. QED BY <1>1, <1>2, <2>1, <2>3, <3>1, AskFacts
  <2>6. SelectTypes'
    BY <1>1, <1>2, <2>5 DEF SelectTypes
  <2>7. KeysetAsks'
    <3> SUFFICES ASSUME spc' = "query" PROVE KeysetAsks'
      BY DEF KeysetAsks
    <3>1. call.inBatchSize = 0
      BY <1>3, <2>5 DEF Select!Refused
    <3>2. raw'.chunkSize = NoLimit
      BY <2>5, <3>1 DEF Select!ChunkSize
    <3>3. n = Select!Smaller(call.limit - Len(result), Select!PageSize(call))
      BY <2>2 DEF n
    <3>4. Select!PageSize(call)' = Select!PageSize(call)
      BY <1>1 DEF Select!PageSize
    <3>5. raw'.dataLimit = Select!Smaller(call.limit - Len(result), Select!PageSize(call))'
      BY <1>1, <2>5, <3>3, <3>4 DEF Select!Smaller
    <3>6. QED BY <1>1, <2>2, <2>4, <2>5, <3>2, <3>5 DEF KeysetAsks
  <2>8. KeysetHas' /\ KeysetGoesOn'
    <3>1. CASE spc' = "query"
      BY <1>1, <1>2, <3>1, KeysetStays
    <3>2. CASE spc' = "failed"
      <4>1. Num' = Num
        BY <1>1 DEF Num
      <4>2. QED BY <1>1, <1>2, <3>2, <4>1 DEF KeysetHas, KeysetGoesOn
    <3>3. QED BY <2>5, <3>1, <3>2
  <2>9. OrderedParts'
    <3>1. \A t : IsPart(result, t, call.offset)' <=> IsPart(result, t, call.offset)
      BY <1>1
    <3>2. QED BY <1>1, <1>2, <2>5, <3>1, SameTable DEF OrderedParts
  <2>10. ChunksAddUp'
    BY <1>1, <1>2 DEF ChunksAddUp, PlainCall, Select!Ordered
  <2>11. QED BY <1>1, <1>2, <2>6, <2>7, <2>8, <2>9, <2>10 DEF SelectInv
<1>6. QED BY <1>4, <1>5

\* A page that is not the last of a query by offset.
LEMMA NextPageKeeps ==
    ASSUME SelectInv, Select!NextPage
    PROVE  SelectInv'
<1>1. /\ spc = "query" /\ spc' = spc /\ stable' = stable /\ call' = call /\ slast' = slast
      /\ result' = result /\ steady' = steady /\ still' = still
  BY DEF Select!NextPage, Select!history
<1>2. PICK page \in Select!Pages :
        /\ Select!Full(page)
        /\ raw' = [raw EXCEPT !.dataOffset = @ + Select!MinLimit,
                              !.dataLimit = @ - Select!MinLimit, !.rows = @ \o page]
  BY DEF Select!NextPage
<1>3. SelectTypes /\ ~call.keyset /\ PagesAsk
  <2>1. SelectTypes
    BY DEF SelectInv
  <2>2. ~call.keyset
    BY <1>1, <1>2, KeysetTurn DEF SelectInv
  <2>3. QED BY <2>1, <2>2 DEF SelectInv
<1>4. page \in Seq(SelectRow)
  BY <1>3, PageFacts
<1>5. raw \in RawType
  BY <1>3 DEF SelectTypes
<1>6. /\ raw'.order = raw.order /\ raw'.chunkSize = raw.chunkSize /\ raw'.limit = raw.limit
      /\ raw'.offset = raw.offset /\ raw'.chunk = raw.chunk
      /\ raw'.dataOffset = raw.dataOffset + Select!MinLimit
      /\ raw'.dataLimit = raw.dataLimit - Select!MinLimit
      /\ raw'.rows = raw.rows \o page
  BY <1>2, <1>5 DEF RawType
<1>7. /\ Select!MinLimit \in Nat /\ raw.dataLimit \in Nat /\ raw.dataOffset \in Nat
      /\ raw.dataLimit > Select!MinLimit /\ Len(page) = Select!MinLimit
  BY <1>2, <1>3, MinLimitFacts DEF Select!Full
<1>8. raw' \in RawType
  <2>1. raw.rows \o page \in Seq(SelectRow)
    BY <1>4, <1>5 DEF RawType
  <2>2. raw.dataOffset + Select!MinLimit \in Nat /\ raw.dataLimit - Select!MinLimit \in Nat
    BY <1>7
  <2>3. QED BY <1>2, <1>5, <2>1, <2>2 DEF RawType
<1>9. SelectTypes'
  BY <1>1, <1>3, <1>8 DEF SelectTypes
<1>10. PagesAsk'
  <2>1. Limit' = Limit /\ Select!Chunks' = Select!Chunks
    BY <1>1, <1>6 DEF Limit, Select!Chunks
  <2>2. Select!ChunkSize(call.order, call.limit, call.offset)'
          = Select!ChunkSize(call.order, call.limit, call.offset)
    BY <1>1 DEF Select!ChunkSize
  <2>3. /\ raw.dataOffset >= call.offset
        /\ raw.dataLimit + (raw.dataOffset - call.offset) = Limit
    BY <1>1, <1>3 DEF PagesAsk
  <2>4. call.offset \in Nat /\ Limit \in Nat
    BY <1>3, BuilderFacts, LimitIsNat DEF SelectTypes
  <2>5. /\ raw'.dataOffset >= call.offset /\ raw'.dataLimit > 0
        /\ raw'.dataLimit + (raw'.dataOffset - call.offset) = Limit
    <3> DEFINE o == raw.dataOffset
               l == raw.dataLimit
               m == Select!MinLimit
               c == call.offset
               n == Limit
    <3>1. /\ o \in Nat /\ l \in Nat /\ m \in Nat /\ c \in Nat /\ n \in Nat
          /\ o >= c /\ l > m /\ l + (o - c) = n
      BY <1>7, <2>3, <2>4
    <3>2. raw'.dataOffset = o + m /\ raw'.dataLimit = l - m
      BY <1>6
    <3> HIDE DEF o, l, m, c, n
    <3>3. o + m >= c /\ l - m > 0 /\ (l - m) + ((o + m) - c) = n
      BY <3>1
    <3>4. QED BY <3>2, <3>3 DEF c, n
  <2>6. QED BY <1>1, <1>3, <1>6, <2>1, <2>2, <2>5 DEF PagesAsk
<1>11. OrderedParts'
  <2> SUFFICES ASSUME Select!Ordered, still, Select!Untied(Select!Wanted(stable)), NEW t, Whole(t)
               PROVE  /\ IsPart(raw'.rows, t, call.offset)
                      /\ Len(raw'.rows) = raw'.dataOffset - call.offset
    <3>1. \A t : IsPart(raw.rows, t, call.offset)' <=> IsPart(raw'.rows, t, call.offset)
      BY <1>1 DEF IsPart
    <3>2. QED BY <1>1, <1>3, <3>1, SameTable DEF OrderedParts
  <2>1. call.order
    BY <1>3 DEF Select!Ordered
  <2>2. IsPart(raw.rows, t, call.offset) /\ Len(raw.rows) = raw.dataOffset - call.offset
    BY <1>1, <1>3 DEF SelectInv, OrderedParts
  <2>3. /\ IsPart(raw.rows \o page, t, call.offset)
        /\ Len(raw.rows \o page) = Len(raw.rows) + Len(page)
    BY <1>1, <1>3, <2>1, <2>2, OffsetPart
  <2>4. call.offset \in Nat
    BY <1>3, BuilderFacts DEF SelectTypes
  <2>5. QED BY <1>6, <1>7, <2>2, <2>3, <2>4
<1>12. ChunksAddUp'
  <2>1. ~PlainCall
    BY <1>1, <1>2, <1>3, PlainTurn DEF SelectInv, ChunksAddUp
  <2>2. QED BY <1>1, <2>1, SameTable DEF ChunksAddUp
<1>13. QED BY <1>1, <1>3, <1>9, <1>10, <1>11, <1>12 DEF SelectInv

\* The last page of a chunk that is not the last.
LEMMA NextChunkKeeps ==
    ASSUME SelectInv, Select!NextChunk
    PROVE  SelectInv'
<1>1. /\ spc = "query" /\ spc' = spc /\ stable' = stable /\ call' = call /\ slast' = slast
      /\ result' = result /\ steady' = steady /\ still' = still /\ raw.chunk < Select!Chunks
  BY DEF Select!NextChunk, Select!history
<1>2. PICK page \in Select!Pages :
        /\ ~Select!Full(page)
        /\ raw' = [raw EXCEPT !.chunk = @ + 1, !.dataOffset = raw.offset,
                              !.dataLimit = raw.limit, !.rows = @ \o page]
  BY DEF Select!NextChunk
<1>3. SelectTypes /\ ~call.keyset /\ PagesAsk
  <2>1. SelectTypes
    BY DEF SelectInv
  <2>2. ASSUME call.keyset PROVE FALSE
    <3>1. raw.chunkSize = NoLimit /\ raw.chunk = 1
      BY <1>1, <2>2 DEF SelectInv, KeysetAsks
    <3>2. Select!Chunks = 1
      BY <2>1, <3>1, OneChunk DEF SelectTypes
    <3>3. QED BY <1>1, <3>1, <3>2
  <2>3. QED BY <2>1, <2>2 DEF SelectInv
<1>4. page \in Seq(SelectRow) /\ raw \in RawType
  BY <1>3, PageFacts DEF SelectTypes
<1>5. /\ raw'.order = raw.order /\ raw'.chunkSize = raw.chunkSize /\ raw'.limit = raw.limit
      /\ raw'.offset = raw.offset /\ raw'.chunk = raw.chunk + 1
      /\ raw'.dataOffset = raw.offset /\ raw'.dataLimit = raw.limit
      /\ raw'.rows = raw.rows \o page
  BY <1>2, <1>4 DEF RawType
<1>6. raw' \in RawType
  <2>1. raw.rows \o page \in Seq(SelectRow) /\ raw.chunk + 1 \in Nat
    BY <1>4 DEF RawType
  <2>2. QED BY <1>2, <1>4, <2>1 DEF RawType
<1>7. SelectTypes'
  BY <1>1, <1>3, <1>6 DEF SelectTypes
<1>8. call.offset \in Nat /\ Limit \in Nat \ {0} /\ raw.chunk \in Nat \ {0}
      /\ raw.limit = Limit /\ raw.offset = call.offset
  BY <1>1, <1>3, <1>4, BuilderFacts, LimitIsNat DEF SelectTypes, PagesAsk, RawType
<1>9. PagesAsk'
  <2>1. Limit' = Limit /\ Select!Chunks' = Select!Chunks
    BY <1>1, <1>5 DEF Limit, Select!Chunks
  <2>2. Select!ChunkSize(call.order, call.limit, call.offset)'
          = Select!ChunkSize(call.order, call.limit, call.offset)
    BY <1>1 DEF Select!ChunkSize
  <2>3. /\ raw'.dataOffset >= call.offset /\ raw'.dataLimit > 0
        /\ raw'.dataLimit + (raw'.dataOffset - call.offset) = Limit
    BY <1>5, <1>8
  <2>4. raw'.chunk \in 1 .. Select!Chunks
    <3>1. raw.chunk \in 1 .. Select!Chunks
      BY <1>1, <1>3 DEF PagesAsk
    <3>2. Select!Chunks \in Int
      <4>1. raw.chunkSize \in Nat \ {0} /\ Len(call.inVals) \in Nat
        BY <1>1, <1>3, BuilderFacts, SelectBatchIsPositive
           DEF PagesAsk, Select!ChunkSize, SelectTypes
      <4>2. QED BY <4>1 DEF Select!Chunks
    <3>3. QED BY <1>1, <1>5, <1>8, <3>1, <3>2
  <2>5. QED BY <1>1, <1>3, <1>5, <1>8, <2>1, <2>2, <2>3, <2>4 DEF PagesAsk
<1>10. OrderedParts'
  <2>1. ~call.order
    BY <1>1, <1>3, <1>8, OffsetTurn
  <2>2. QED BY <1>1, <1>3, <2>1 DEF OrderedParts, Select!Ordered
<1>11. ChunksAddUp'
  <2> SUFFICES ASSUME PlainCall PROVE ChunksHave'
    BY <1>1, SameTable DEF ChunksAddUp
  <2> DEFINE all == raw.rows \o page
  <2>1. ChunksHave
    BY <1>1 DEF SelectInv, ChunksAddUp
  <2>2. /\ Select!IsInjective(all)
        /\ call.inVals # <<>> =>
             \A i \in 1 .. Len(all) : Value[all[i]] \in Named(raw.chunk * raw.chunkSize)
        /\ \A r \in steady :
             (call.inVals # <<>> => Value[r] \in Named(raw.chunk * raw.chunkSize))
                 => r \in Select!ToSet(all)
    BY <1>1, <1>3, <2>1, PlainTurn
  <2>3. (raw.chunk + 1) - 1 = raw.chunk /\ raw.chunk + 1 # 1
    BY <1>8
  <2>4. \A n : Named(n)' = Named(n)
    BY <1>1 DEF Named
  <2>5. Named((raw.chunk - 1) * raw.chunkSize)' = Named(raw.chunk * raw.chunkSize)
    BY <1>1, <1>5, <2>3 DEF Named
  <2>6. call.offset = 0
    BY DEF PlainCall
  <2> HIDE DEF all
  <2>7. raw'.rows = all
    BY <1>5 DEF all
  <2>8. Select!IsInjective(raw.rows)' /\ Select!ToSet(raw.rows)' = Select!ToSet(all)
    BY <2>2, <2>7 DEF Select!IsInjective, Select!ToSet
  <2>9. QED BY <1>1, <1>5, <1>8, <2>2, <2>3, <2>5, <2>6, <2>7, <2>8 DEF ChunksHave
<1>12. QED BY <1>1, <1>3, <1>7, <1>9, <1>10, <1>11 DEF SelectInv

\* The last page of a turn of the keyset.
LEMMA KeysetLastPageKeeps ==
    ASSUME SelectInv, Select!LastPage, call.keyset
    PROVE  SelectInv'
<1>1. /\ spc = "query" /\ stable' = stable /\ call' = call /\ raw' = raw
      /\ steady' = steady /\ still' = still
  BY DEF Select!LastPage, Select!history
<1>2. SelectTypes /\ KeysetAsks /\ KeysetHas /\ KeysetGoesOn /\ OrderedParts
  BY DEF SelectInv
<1>3. PICK page \in Select!Pages :
        /\ result' = result \o page
        /\ slast' = IF page # <<>> THEN SelectField[Select!Last(page)] ELSE slast
        /\ spc' = IF page # <<>> THEN "loop" ELSE "returned"
  <2>1. PICK page \in Select!Pages :
          /\ result' = result \o (raw.rows \o page)
          /\ slast' = IF call.keyset /\ raw.rows \o page # <<>>
                        THEN SelectField[Select!Last(raw.rows \o page)] ELSE slast
          /\ spc' = IF call.keyset /\ raw.rows \o page # <<>> THEN "loop" ELSE "returned"
    BY DEF Select!LastPage
  <2>2. raw.rows = <<>> /\ page \in Seq(SelectRow)
    BY <1>1, <1>2, PageFacts DEF KeysetAsks
  <2>3. raw.rows \o page = page
    BY <2>2
  <2>4. QED BY <2>1, <2>3
<1> DEFINE S == {r \in Select!Wanted(stable) : ToCome(r)}
           o == IF result = <<>> THEN call.offset ELSE 0
           n == raw.dataLimit
           all == result \o page
<1>4. /\ page \in Seq(SelectRow) /\ n \in Nat \ {0} /\ n <= call.limit - Len(result)
  BY <1>1, <1>2, KeysetTurn
<1>5. PICK s : /\ Lists(s, S) /\ Ascends(s, Num) /\ s \in Seq(SelectRow) /\ IsPage(page, s, o, n)
  BY <1>1, <1>2, KeysetTurn
<1>6. /\ result \in Seq(SelectRow) /\ call.offset \in Nat /\ call.limit \in Nat /\ o \in Nat
  BY <1>2, BuilderFacts DEF SelectTypes
<1>7. /\ all \in Seq(SelectRow) /\ Len(all) = Len(result) + Len(page)
      /\ Len(result) \in Nat /\ Len(page) \in Nat
      /\ page # <<>> => /\ all # <<>> /\ Len(page) \in 1 .. Len(page)
                        /\ all[Len(all)] = page[Len(page)]
      /\ page = <<>> => all = result
  BY <1>4, <1>6
<1>8. S \subseteq SelectRow /\ IsFiniteSet(S) /\ (\A r \in S : ToCome(r))
      /\ \A q : q \in S <=> q \in Select!Wanted(stable) /\ ToCome(q)
  <2>1. S \subseteq SelectRow
    BY <1>2, WantedIsFinite
  <2>2. QED BY <2>1, SelectNoLimitIsNone, FS_Subset
<1>9. result' = all
  BY <1>3
<1> HIDE DEF S, all
<1>10. Num' = Num
  BY <1>1 DEF Num
<1>11. SelectTypes'
  <2>1. page # <<>> => SelectField[Select!Last(page)] \in Nat
    <3>1. page # <<>> => page[Len(page)] \in SelectRow
      BY <1>4, <1>7
    <3>2. QED BY <3>1, SelectFieldsAreNumbers DEF Select!Last
  <2>2. slast' \in Nat \cup {None}
    BY <1>2, <1>3, <2>1 DEF SelectTypes
  <2>3. spc' \in {"loop", "returned"}
    BY <1>3
  <2>4. QED BY <1>1, <1>2, <1>7, <1>9, <2>2, <2>3 DEF SelectTypes
<1>12. KeysetAsks'
  BY <1>3 DEF KeysetAsks
<1>13. KeysetHas'
  <2>1. /\ \A i, j \in 1 .. Len(all) : i < j => all[i] # all[j] /\ Num[all[i]] <= Num[all[j]]
        /\ Len(all) <= call.limit
    <3> HIDE DEF n, o
    <3>1. n \in Nat
      BY <1>4
    <3>2. QED BY <1>2, <1>4, <1>5, <1>6, <1>8, <3>1, KeysetKeepsOrder DEF all
  <2>2. slast' = IF all = <<>> THEN None ELSE SelectField[all[Len(all)]]
    <3>1. slast = IF result = <<>> THEN None ELSE SelectField[result[Len(result)]]
      BY <1>1, <1>2 DEF KeysetHas
    <3>2. CASE page = <<>>
      BY <1>3, <1>7, <3>1, <3>2
    <3>3. CASE page # <<>>
      BY <1>3, <1>7, <3>3 DEF Select!Last
    <3>4. QED BY <3>2, <3>3
  <2>3. QED BY <1>1, <1>9, <1>10, <2>1, <2>2 DEF KeysetHas
<1>14. KeysetGoesOn'
  <2> SUFFICES ASSUME NEW r \in Select!Wanted(steady), r \notin Select!ToSet(all)
               PROVE  \/ Tied(r) \/ Skipped(r)'
                      \/ ToCome(r)' /\ (spc' = "returned" =>
                             \/ Len(all) = call.limit
                             \/ all = <<>> /\ call.offset > 0)
    <3>1. /\ Select!Wanted(steady)' = Select!Wanted(steady)
          /\ Select!ToSet(result)' = Select!ToSet(all)
      BY <1>1, <1>9 DEF Select!Wanted, Select!ToSet
    <3>2. \A r : Tied(r)' <=> Tied(r)
      BY DEF Tied
    <3>3. QED BY <1>1, <1>9, <3>1, <3>2 DEF KeysetGoesOn
  <2>1. \/ Tied(r)
        \/ call.offset > 0 /\ all # <<>> /\ Num[r] < Num[all[1]]
        \/ /\ all = <<>> \/ Num[all[Len(all)]] < Num[r]
           /\ page = <<>> => result = <<>> /\ call.offset > 0
    <3>1. spc # "failed"
      BY <1>1
    <3>2. o = (IF result = <<>> THEN call.offset ELSE 0)
      OBVIOUS
    <3>3. all = result \o page
      BY DEF all
    <3> HIDE DEF n, o
    <3>4. QED BY <1>2, <1>4, <1>5, <1>6, <1>8, <3>1, <3>2, <3>3, KeysetSkipsNone
  <2>2. Skipped(r)' <=> call.offset > 0 /\ all # <<>> /\ Num[r] < Num[all[1]]
    BY <1>1, <1>9, <1>10 DEF Skipped
  <2>3. ToCome(r)' <=> all = <<>> \/ Num[all[Len(all)]] < Num[r]
    BY <1>9, <1>10 DEF ToCome
  <2>4. spc' = "returned" => page = <<>>
    BY <1>3
  <2>5. QED BY <1>7, <2>1, <2>2, <2>3, <2>4
<1>15. OrderedParts'
  <2> SUFFICES ASSUME Select!Ordered, still, Select!Untied(Select!Wanted(stable)), NEW t, Whole(t)
               PROVE  /\ IsPart(all, t, call.offset)
                      /\ spc' = "returned" =>
                           /\ Len(all) <= Most
                           /\ Len(all) = Most \/ call.offset + Len(all) >= Len(t)
    <3>1. \A t : IsPart(result, t, call.offset)' <=> IsPart(all, t, call.offset)
      BY <1>1, <1>9 DEF IsPart
    <3>2. QED BY <1>1, <1>9, <3>1, SameTable DEF OrderedParts
  <2>1. IsPart(result, t, call.offset)
    BY <1>1, <1>2 DEF OrderedParts
  <2>2. /\ IsPart(all, t, call.offset)
        /\ Len(page) = n \/ call.offset + Len(all) >= Len(t)
    <3>1. o = (IF result = <<>> THEN call.offset ELSE 0)
      OBVIOUS
    <3> HIDE DEF n, o
    <3>2. QED BY <1>2, <1>4, <1>5, <1>6, <1>8, <2>1, <3>1, KeysetPart DEF all
  <2>3. Len(all) <= Most
    BY <1>1, <1>9, <1>13 DEF KeysetHas, Most
  <2>4. spc' = "returned" => Len(page) # n
    BY <1>3, <1>4
  <2>5. QED BY <2>2, <2>3, <2>4
<1>16. ChunksAddUp'
  BY <1>1 DEF ChunksAddUp, PlainCall, Select!Ordered
<1>17. QED BY <1>1, <1>11, <1>12, <1>13, <1>14, <1>15, <1>16 DEF SelectInv

\* The last page of the last chunk of a call that is no keyset.
LEMMA LastPageKeeps ==
    ASSUME SelectInv, Select!LastPage, ~call.keyset
    PROVE  SelectInv'
<1>1. /\ spc = "query" /\ stable' = stable /\ call' = call /\ raw' = raw
      /\ steady' = steady /\ still' = still /\ raw.chunk = Select!Chunks
  BY DEF Select!LastPage, Select!history
<1>2. SelectTypes /\ PagesAsk /\ OrderedParts /\ ChunksAddUp
  BY DEF SelectInv
<1>3. PICK page \in Select!Pages :
        /\ ~Select!Full(page) /\ result' = result \o (raw.rows \o page)
        /\ slast' = slast /\ spc' = "returned"
  BY DEF Select!LastPage
<1> DEFINE all == raw.rows \o page
<1>4. page \in Seq(SelectRow) /\ raw.rows \in Seq(SelectRow) /\ all \in Seq(SelectRow)
  <2>1. page \in Seq(SelectRow)
    BY <1>2, PageFacts
  <2>2. raw.rows \in Seq(SelectRow)
    BY <1>2 DEF SelectTypes, RawType
  <2>3. QED BY <2>1, <2>2
<1>5. result' = all
  <2>1. result = <<>>
    BY <1>1, <1>2 DEF PagesAsk
  <2>2. QED BY <1>3, <1>4, <2>1
<1> HIDE DEF all
<1>6. SelectTypes'
  BY <1>1, <1>2, <1>3, <1>4, <1>5 DEF SelectTypes
<1>7. PagesAsk'
  BY <1>3 DEF PagesAsk
<1>8. OrderedParts'
  <2> SUFFICES ASSUME Select!Ordered, still, Select!Untied(Select!Wanted(stable)), NEW t, Whole(t)
               PROVE  /\ IsPart(all, t, call.offset) /\ Len(all) <= Most
                      /\ Len(all) = Most \/ call.offset + Len(all) >= Len(t)
    <3>1. \A t : IsPart(result, t, call.offset)' <=> IsPart(all, t, call.offset)
      BY <1>1, <1>5 DEF IsPart
    <3>2. QED BY <1>1, <1>3, <1>5, <3>1, SameTable DEF OrderedParts
  <2>1. call.order /\ Most = Limit
    BY DEF Select!Ordered, Most
  <2>2. IsPart(raw.rows, t, call.offset) /\ Len(raw.rows) = raw.dataOffset - call.offset
    BY <1>1, <1>2 DEF OrderedParts
  <2>3. /\ IsPart(all, t, call.offset) /\ Len(all) = Len(raw.rows) + Len(page)
        /\ Len(page) \in Nat /\ Len(page) <= Select!MinLimit
        /\ Len(page) = Select!MinLimit \/ call.offset + Len(all) >= Len(t)
    BY <1>1, <1>2, <2>1, <2>2, OffsetPart DEF all
  <2>4. raw.dataLimit + (raw.dataOffset - call.offset) = Limit
    BY <1>1, <1>2 DEF PagesAsk
  <2>5. /\ Select!MinLimit \in Nat /\ Select!MinLimit <= raw.dataLimit
        /\ raw.dataLimit \in Nat /\ raw.dataOffset \in Nat
    BY <1>2, MinLimitFacts
  <2>6. call.offset \in Nat /\ Limit \in Nat
    BY <1>2, BuilderFacts, LimitIsNat DEF SelectTypes
  <2>7. Len(all) <= Limit
    BY <2>2, <2>3, <2>4, <2>5, <2>6
  <2>8. ASSUME Len(page) = Select!MinLimit PROVE Len(all) = Limit
    <3>1. raw.dataLimit = Select!MinLimit
      BY <1>3, <2>5, <2>8 DEF Select!Full
    <3>2. QED BY <2>2, <2>3, <2>4, <2>5, <2>6, <2>8, <3>1
  <2>9. QED BY <2>1, <2>3, <2>7, <2>8
<1>9. ChunksAddUp'
  <2> SUFFICES ASSUME PlainCall
               PROVE  Select!IsInjective(all) /\ Select!Wanted(steady) \subseteq Select!ToSet(all)
    <3>1. /\ Select!Wanted(steady)' = Select!Wanted(steady)
          /\ Select!ToSet(result)' = Select!ToSet(all)
      BY <1>1, <1>5 DEF Select!Wanted, Select!ToSet
    <3>2. Select!IsInjective(result)' <=> Select!IsInjective(all)
      BY <1>5 DEF Select!IsInjective
    <3>3. QED BY <1>1, <1>3, <3>1, <3>2, SameTable DEF ChunksAddUp
  <2>1. ChunksHave
    BY <1>1, <1>2 DEF ChunksAddUp
  <2>2. /\ Select!IsInjective(all) /\ raw.chunkSize \in Nat \ {0}
        /\ \A r \in steady :
             (call.inVals # <<>> => Value[r] \in Named(raw.chunk * raw.chunkSize))
                 => r \in Select!ToSet(all)
    BY <1>1, <1>2, <2>1, PlainTurn DEF all
  <2>3. call.inVals # <<>> => Select!ToSet(call.inVals) \subseteq Named(raw.chunk * raw.chunkSize)
    BY <1>1, <1>2, <2>2, AllNamed DEF SelectTypes
  <2>4. QED BY <2>2, <2>3 DEF Select!Wanted
<1>10. QED BY <1>1, <1>3, <1>6, <1>7, <1>8, <1>9 DEF SelectInv

LEMMA SelectStutters ==
    ASSUME SelectInv, UNCHANGED Select!vars
    PROVE  SelectInv'
<1>1. /\ spc' = spc /\ stable' = stable /\ call' = call /\ raw' = raw /\ slast' = slast
      /\ result' = result /\ steady' = steady /\ still' = still
  BY DEF Select!vars, Select!history
<1>2. SelectTypes'
  BY <1>1 DEF SelectInv, SelectTypes
<1>3. Num' = Num /\ Limit' = Limit /\ Select!Chunks' = Select!Chunks
  BY <1>1 DEF Num, Limit, Select!Chunks
<1>4. ~call.keyset => PagesAsk'
  BY <1>1, <1>3 DEF SelectInv, PagesAsk, Select!ChunkSize
<1>5. call.keyset => KeysetAsks' /\ KeysetHas' /\ KeysetGoesOn'
  <2>1. \A r : (Tied(r)' <=> Tied(r)) /\ (Skipped(r)' <=> Skipped(r)) /\ (ToCome(r)' <=> ToCome(r))
    BY <1>1, <1>3 DEF Tied, Skipped, ToCome
  <2>2. /\ Select!Wanted(steady)' = Select!Wanted(steady)
        /\ Select!ToSet(result)' = Select!ToSet(result)
    BY <1>1 DEF Select!Wanted, Select!ToSet
  <2>3. KeysetGoesOn => KeysetGoesOn'
    BY <1>1, <2>1, <2>2 DEF KeysetGoesOn
  <2>4. KeysetAsks => KeysetAsks'
    BY <1>1 DEF KeysetAsks, Select!Smaller, Select!PageSize
  <2>5. KeysetHas => KeysetHas'
    BY <1>1, <1>3 DEF KeysetHas
  <2>6. QED BY <2>3, <2>4, <2>5 DEF SelectInv
<1>6. OrderedParts'
  <2>1. \A t : /\ IsPart(result, t, call.offset)' <=> IsPart(result, t, call.offset)
               /\ IsPart(raw.rows, t, call.offset)' <=> IsPart(raw.rows, t, call.offset)
    BY <1>1 DEF IsPart
  <2>2. QED BY <1>1, <2>1, SameTable DEF SelectInv, OrderedParts
<1>7. ChunksAddUp'
  <2>1. \A n : Named(n)' = Named(n)
    BY <1>1 DEF Named
  <2>2. ChunksHave' <=> ChunksHave
    BY <1>1, <2>1 DEF ChunksHave, Select!IsInjective, Select!ToSet
  <2>3. /\ Select!Wanted(steady)' = Select!Wanted(steady)
        /\ Select!ToSet(result)' = Select!ToSet(result)
        /\ Select!IsInjective(result)' <=> Select!IsInjective(result)
    BY <1>1 DEF Select!Wanted, Select!ToSet, Select!IsInjective
  <2>4. QED BY <1>1, <2>2, <2>3, SameTable DEF SelectInv, ChunksAddUp
<1>8. QED BY <1>1, <1>2, <1>4, <1>5, <1>6, <1>7 DEF SelectInv

LEMMA SelectSteps ==
    ASSUME SelectInv, [Select!Next]_(Select!vars)
    PROVE  SelectInv'
<1>1. CASE UNCHANGED Select!vars
  BY <1>1, SelectStutters
<1>2. CASE Select!Exec
  BY <1>2, ExecKeeps
<1>3. CASE Select!Loop
  BY <1>3, LoopKeeps
<1>4. CASE Select!NextPage
  BY <1>4, NextPageKeeps
<1>5. CASE Select!NextChunk
  BY <1>5, NextChunkKeeps
<1>6. CASE Select!LastPage
  BY <1>6, KeysetLastPageKeeps, LastPageKeeps
<1>7. CASE Select!QueryFails
  BY <1>7, QueryFailsKeeps
<1>8. CASE \E x \in SelectRow : Select!Change(x)
  BY <1>8, ChangeKeeps
<1>9. QED BY <1>1, <1>2, <1>3, <1>4, <1>5, <1>6, <1>7, <1>8
          DEF Select!Next, Select!Select, Select!Page

LEMMA InvGivesKeyset == SelectInv => KeysetIsExact
<1> SUFFICES ASSUME SelectInv, call.keyset PROVE KeysetIsExact
  BY DEF KeysetIsExact, Select!KeysetIsExact
<1>1. SelectTypes /\ KeysetHas /\ KeysetGoesOn
  BY DEF SelectInv
<1>2. /\ DOMAIN result = 1 .. Len(result) /\ \A i \in 1 .. Len(result) : result[i] \in SelectRow
      /\ result # <<>> => 1 \in 1 .. Len(result) /\ Len(result) \in 1 .. Len(result)
  BY <1>1 DEF SelectTypes
<1>3. Num \in [SelectRow -> Int]
  BY <1>1, NumIsInt
<1>4. ASSUME NEW i \in DOMAIN result, NEW j \in DOMAIN result, i < j
      PROVE  result[i] # result[j] /\ ~Select!Before(result[j], result[i])
  <2>1. result[i] # result[j] /\ Num[result[i]] <= Num[result[j]]
    BY <1>1, <1>2, <1>4 DEF KeysetHas
  <2>2. /\ result[i] \in SelectRow /\ result[j] \in SelectRow
        /\ Num[result[i]] \in Int /\ Num[result[j]] \in Int
    BY <1>2, <1>3
  <2>3. ~(Num[result[j]] < Num[result[i]])
    BY <2>1, <2>2
  <2>4. QED BY <1>1, <2>1, <2>2, <2>3, BeforeIsNum
<1>5. Len(result) <= call.limit
  BY <1>1 DEF KeysetHas
<1>6. ASSUME spc = "returned", NEW r \in Select!Wanted(steady) \ Select!ToSet(result)
      PROVE  \/ \E s \in SelectRow \ {r} : SelectField[s] = SelectField[r]
             \/ call.offset > 0 /\ (result = <<>> \/ Select!Before(r, result[1]))
             \/ Len(result) = call.limit /\ (result = <<>> \/ Select!Before(Select!Last(result), r))
  <2>1. \/ Tied(r) \/ Skipped(r)
        \/ ToCome(r) /\ (Len(result) = call.limit \/ (result = <<>> /\ call.offset > 0))
    <3>1. \/ Tied(r) \/ Skipped(r)
          \/ ToCome(r) /\ (spc = "returned" =>
                 \/ Len(result) = call.limit
                 \/ result = <<>> /\ call.offset > 0)
      <4>1. spc # "failed"
        BY <1>6
      <4>2. QED BY <1>1, <4>1 DEF KeysetGoesOn
    <3>2. QED BY <1>6, <3>1
  <2>2. r \in SelectRow
    BY <1>1 DEF SelectTypes, Select!Wanted
  <2>3. Skipped(r) => call.offset > 0 /\ Select!Before(r, result[1])
    BY <1>1, <1>2, <2>2, BeforeIsNum DEF Skipped
  <2>4. ToCome(r) => result = <<>> \/ Select!Before(Select!Last(result), r)
    BY <1>1, <1>2, <2>2, BeforeIsNum DEF ToCome, Select!Last
  <2>5. QED BY <2>1, <2>3, <2>4 DEF Tied
<1>7. QED BY <1>4, <1>5, <1>6 DEF KeysetIsExact, Select!KeysetIsExact

\* The whole, cut to the limit.
LEMMA AnswerIsPart ==
    ASSUME SelectTypes, NEW t \in Seq(SelectRow), Len(t) <= NoLimit, IsPart(result, t, call.offset),
           Len(result) <= Most, Len(result) = Most \/ call.offset + Len(result) >= Len(t)
    PROVE  result = Select!OneQuery(t)
<1> DEFINE o == call.offset
<1>1. /\ result \in Seq(SelectRow) /\ o \in Nat /\ call.limit \in Nat /\ NoLimit \in Nat
      /\ Most \in Nat /\ Len(t) \in Nat
  BY BuilderFacts, LimitIsNat, SelectBatchIsPositive DEF SelectTypes, Most
<1>2. result = Select!Slice(t, o, Most)
  <2> DEFINE n == Most
  <2>1. /\ n \in Nat /\ IsPart(result, t, o) /\ Len(result) <= n
        /\ Len(result) = n \/ o + Len(result) >= Len(t)
    BY <1>1
  <2> HIDE DEF o, n
  <2>2. result = Select!Slice(t, o, n)
    BY <1>1, <2>1, PartIsSlice
  <2>3. QED BY <2>2 DEF n
<1>3. CASE call.limit = 0 /\ ~call.keyset
  <2>1. Most = NoLimit
    BY <1>3 DEF Most, Limit
  <2>2. Select!Slice(t, o, NoLimit) = SubSeq(t, o + 1, Len(t))
    <3>1. (IF o + NoLimit < Len(t) THEN o + NoLimit ELSE Len(t)) = Len(t)
      BY <1>1
    <3>2. QED BY <3>1 DEF Select!Slice, Select!Smaller
  <2>3. QED BY <1>2, <1>3, <2>1, <2>2 DEF Select!OneQuery
<1>4. CASE ~(call.limit = 0 /\ ~call.keyset)
  <2>1. Most = call.limit
    BY <1>4 DEF Most, Limit
  <2>2. QED BY <1>2, <1>4, <2>1 DEF Select!OneQuery
<1>5. QED BY <1>3, <1>4

LEMMA InvGivesResult == SelectInv => ResultAddsUp
<1> SUFFICES ASSUME SelectInv, spc = "returned" PROVE ResultAddsUp
  BY DEF ResultAddsUp, Select!ResultAddsUp
<1> DEFINE W == Select!Wanted(stable)
<1>1. SelectTypes
  BY DEF SelectInv
<1>2. ASSUME Select!Ordered, still, Select!Untied(W)
      PROVE  \E s \in Select!SetToSeqs(W) :
                /\ \A i, j \in DOMAIN s : i < j => Select!Before(s[i], s[j])
                /\ result = Select!OneQuery(s)
  <2>1. /\ IsFiniteSet(W) /\ W \subseteq SelectRow /\ ToldApart(W, Num)
        /\ \A r \in W : Num[r] \in Int
    BY <1>1, <1>2, WantedIsFinite, UntiedIsToldApart
  <2>2. PICK t : Lists(t, W) /\ Ascends(t, Num)
    <3> HIDE DEF W
    <3>1. QED BY <2>1, ListingExists
  <2>3. Whole(t)
    BY <2>2 DEF Whole
  <2>4. /\ IsPart(result, t, call.offset) /\ Len(result) <= Most
        /\ Len(result) = Most \/ call.offset + Len(result) >= Len(t)
    BY <1>2, <2>3 DEF SelectInv, OrderedParts
  <2>5. /\ t \in Seq(W) /\ Len(t) = Cardinality(W) /\ Len(t) \in Nat /\ DOMAIN t = 1 .. Len(t)
        /\ \A i, j \in 1 .. Len(t) : i # j => t[i] # t[j]
    <3> HIDE DEF W
    <3>1. QED BY <2>1, <2>2, ListsAll DEF Lists
  <2>6. Len(t) <= NoLimit
    <3>1. Cardinality(W) <= Cardinality(SelectRow)
      BY <2>1, SelectNoLimitIsNone, FS_Subset
    <3>2. Cardinality(SelectRow) \in Nat /\ Cardinality(SelectRow) <= NoLimit /\ NoLimit \in Nat
      BY SelectNoLimitIsNone, SelectBatchIsPositive, FS_CardinalityType
    <3>3. QED BY <2>5, <3>1, <3>2
  <2>7. t \in Seq(SelectRow)
    <3> HIDE DEF W
    <3>1. QED BY <2>1, <2>5
  <2>8. result = Select!OneQuery(t)
    BY <1>1, <2>4, <2>6, <2>7, AnswerIsPart
  <2>9. ASSUME NEW i \in DOMAIN t, NEW j \in DOMAIN t, i < j PROVE Select!Before(t[i], t[j])
    <3> HIDE DEF W
    <3>1. t[i] \in W /\ t[j] \in W /\ t[i] # t[j]
      BY <2>5, <2>9
    <3>2. Num[t[i]] # Num[t[j]]
      BY <2>1, <3>1 DEF ToldApart
    <3>3. ~(Num[t[j]] < Num[t[i]])
      BY <2>2, <2>5, <2>9 DEF Ascends
    <3>4. Num[t[i]] < Num[t[j]] /\ t[i] \in SelectRow /\ t[j] \in SelectRow
      BY <2>1, <3>1, <3>2, <3>3
    <3>5. QED BY <1>1, <3>4, BeforeIsNum
  <2>10. t \in Select!SetToSeqs(W)
    BY <2>2, SeqsAreListings
  <2>11. QED BY <2>8, <2>9, <2>10
<1>3. (/\ ~Select!Ordered /\ call.limit = 0 /\ call.offset = 0
       /\ Select!IsInjective(call.inVals) /\ Select!Cardinality(SelectRow) < Select!PageSize(call))
        => Select!IsInjective(result) /\ Select!Wanted(steady) \subseteq Select!ToSet(result)
  BY SameCardinality DEF SelectInv, ChunksAddUp, PlainCall
<1>4. QED BY <1>2, <1>3 DEF ResultAddsUp, Select!ResultAddsUp

(* A keyset returns its rows in the order of the field, none twice, no more *)
(* than its limit, and skips no row that stays and ties with no other,      *)
(* whatever the others insert and delete between its pages; for any table   *)
(* and calls, batch sizes and limits.                                       *)
THEOREM KeysetIsAlwaysExact == Select!Spec => []KeysetIsExact
<1>1. SelectInv /\ [Select!Next]_(Select!vars) => SelectInv'
  BY SelectSteps
<1>2. QED BY <1>1, SelectStarts, InvGivesKeyset, PTL DEF Select!Spec

(* The pages and chunks of a SELECT add up to the answer of the one query   *)
(* they stand for: over a table at rest whose rows the order tells apart,   *)
(* exactly its rows in its order; with chunks that fit a page, no row twice *)
(* and every row that stays.                                                *)
THEOREM ResultAlwaysAddsUp == Select!Spec => []ResultAddsUp
<1>1. SelectInv /\ [Select!Next]_(Select!vars) => SelectInv'
  BY SelectSteps
<1>2. QED BY <1>1, SelectStarts, InvGivesResult, PTL DEF Select!Spec
=============================================================================
