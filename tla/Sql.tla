-------------------------------- MODULE Sql --------------------------------
(* The statements of rivetxsql, those that change a table and the paged      *)
(* SELECT, each alone: which says whose turn this behavior is.  (They meet   *)
(* in the table, which each lets others change.)                             *)
EXTENDS Statements

CONSTANTS
    Parts,                          \* whose turn it may be
    SelectRow, SelectField, Value,  \* the table of the SELECT
    Calls, SelectBatch, NoLimit     \* its calls and their bounds

VARIABLES which, stable, call, spc, raw, slast, result, steady, still

select == <<stable, call, spc, raw, slast, result, steady, still>>
benchVars == <<which, vars, select>>

Select == INSTANCE PagedSelect WITH
    Row <- SelectRow, Field <- SelectField, BatchSize <- SelectBatch,
    table <- stable, pc <- spc, lastID <- slast

\* A field to order by, pages of some size, and calls as the builder makes them.
ASSUME SelectFieldsAreNumbers == SelectField \in [SelectRow -> Nat]
ASSUME SelectBatchIsPositive == SelectBatch \in Nat \ {0} /\ NoLimit \in Nat \ {0}
ASSUME SelectCallsAreBuilders == Calls \subseteq Select!SelectBuilder
\* math.MaxInt32 is beyond what a table holds and a call names.
ASSUME SelectNoLimitIsNone ==
    /\ IsFiniteSet(SelectRow) /\ Cardinality(SelectRow) <= NoLimit
    /\ \A b \in Calls : Len(b.inVals) <= NoLimit

BenchInit ==
    /\ which \in Parts
    /\ Init /\ Select!Init
    /\ which # "select" =>
          stable = {} /\ call = CHOOSE b \in Calls : TRUE
    /\ which # "statements" =>
          job = CHOOSE j \in [Caller -> UNION {Jobs[c] : c \in Caller}] :
                    \A c \in Caller : j[c] \in Jobs[c]

Does(c) == which = "statements" /\ Step(c) /\ UNCHANGED <<which, select>>
Selects(step) == which = "select" /\ step /\ UNCHANGED <<which, vars>>

BenchNext == (\E c \in Caller : Does(c)) \/ Selects(Select!Next)

\* Every caller goes on.
BenchSpec ==
    /\ BenchInit /\ [][BenchNext]_benchVars
    /\ \A c \in Caller : WF_benchVars(Does(c))
    /\ WF_benchVars(Selects(Select!Select))

\* SELECT: the pages and chunks add up to what was asked for.
ResultAddsUp == Select!ResultAddsUp
\* SELECT: a keyset returns its rows in order and skips none that stays.
KeysetIsExact == Select!KeysetIsExact
\* SELECT: the loops over pages and chunks end.
SelectReturns == Select!SelectReturns
=============================================================================
