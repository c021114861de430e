--------------------------- MODULE ConcurrentSet ----------------------------
(* What a concurrent set promises its callers: each call of Load,           *)
(* LoadOrStore or LoadAndDelete takes effect, with its answer, at one       *)
(* instant between the call and the return.                                 *)
CONSTANTS Callers, Key, Ops

VARIABLES
    set,    \* the keys present
    call    \* what each caller is doing

Idle == [at |-> "idle"]

vars == <<set, call>>

Init ==
    /\ set = {}
    /\ call = [c \in Callers |-> Idle]

Call(c) ==
    /\ call[c].at = "idle"
    /\ \E op \in Ops, k \in Key :
           call' = [call EXCEPT ![c] = [at |-> "called", op |-> op, key |-> k]]
    /\ UNCHANGED set

\* every operation answers whether the key was there
TakeEffect(c) ==
    LET k == call[c].key
    IN /\ call[c].at = "called"
       /\ set' = CASE call[c].op = "Load"          -> set
                   [] call[c].op = "LoadOrStore"   -> set \cup {k}
                   [] call[c].op = "LoadAndDelete" -> set \ {k}
       /\ call' = [call EXCEPT ![c] = [at |-> "done", ok |-> k \in set]]

Return(c) ==
    /\ call[c].at = "done"
    /\ call' = [call EXCEPT ![c] = Idle]
    /\ UNCHANGED set

Next == \E c \in Callers : Call(c) \/ TakeEffect(c) \/ Return(c)

Spec == Init /\ [][Next]_vars
=============================================================================
