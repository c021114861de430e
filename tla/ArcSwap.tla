------------------------------ MODULE ArcSwap ------------------------------
(* ArcSwap (rivetxcore/arcswap/arc_swap.go): an atomic pointer, with a      *)
(* LoadOrStore made of a Load and a CompareAndSwap in a loop, against which *)
(* other callers store, swap and clear the pointer.                         *)
EXTENDS Naturals, FiniteSets

CONSTANTS
    Calls,      \* calls of LoadOrStore, each with a value of its own
    Others,     \* values that Store and Swap are called with
    Nil,
    MaxClears   \* how often the pointer is cleared (bound)

VARIABLES
    ptr,        \* as.ptr
    pc,         \* where each call is
    answer,     \* what it returned
    clears      \* how often the pointer became nil (history)

vars == <<ptr, pc, answer, clears>>

NoAnswer == [value |-> Nil, stored |-> FALSE]

Init ==
    /\ ptr \in {Nil} \cup Others
    /\ pc = [c \in Calls |-> "idle"]
    /\ answer = [c \in Calls |-> NoAnswer]
    /\ clears = IF ptr = Nil THEN 1 ELSE 0

Return(c, v, stored) ==
    /\ pc' = [pc EXCEPT ![c] = "returned"]
    /\ answer' = [answer EXCEPT ![c] = [value |-> v, stored |-> stored]]

\* as.Load of the loop, the first time and after a CompareAndSwap that failed
Load(c) ==
    /\ pc[c] \in {"idle", "load"}
    /\ IF ptr # Nil THEN Return(c, ptr, FALSE)
                    ELSE pc' = [pc EXCEPT ![c] = "swap"] /\ UNCHANGED answer
    /\ UNCHANGED <<ptr, clears>>

\* a mutant: the pointer is not compared with nil again
StoreAnyway(c) ==
    /\ pc[c] = "swap"
    /\ ptr' = c /\ Return(c, c, TRUE)
    /\ UNCHANGED clears

\* as.CompareAndSwap(nil, newVal)
CompareAndSwap(c) ==
    /\ pc[c] = "swap"
    /\ IF ptr = Nil THEN ptr' = c /\ Return(c, c, TRUE)
                    ELSE pc' = [pc EXCEPT ![c] = "load"] /\ UNCHANGED <<ptr, answer>>
    /\ UNCHANGED clears

\* Store, Swap, or a CompareAndSwap that succeeds, of another caller
Store(v) ==
    /\ v # ptr /\ ptr' = v
    /\ IF v = Nil THEN clears < MaxClears /\ clears' = clears + 1 ELSE UNCHANGED clears
    /\ UNCHANGED <<pc, answer>>

Next ==
    \/ \E c \in Calls : Load(c) \/ CompareAndSwap(c)
    \/ \E v \in Others \cup {Nil} : Store(v)

Spec == Init /\ [][Next]_vars

-----------------------------------------------------------------------------
\* LoadOrStore stores once for each time the pointer is nil, whoever races for
\* it, and no call returns nil, even when the pointer is set and cleared between
\* its Load and its CompareAndSwap.
StoresOnce ==
    /\ Cardinality({c \in Calls : answer[c].stored}) <= clears
    /\ \A c \in Calls : pc[c] = "returned" =>
            answer[c].value # Nil /\ (answer[c].stored <=> answer[c].value = c)
=============================================================================
