------------------------------ MODULE Helpers ------------------------------
(* The small components beside a connection, each alone: which says whose   *)
(* turn this behavior is.                                                   *)
EXTENDS CheckTimeout, FiniteSets

CONSTANTS
    GroupTasks, GroupCalls, Outside,      \* of the TaskGroup
    ArcCalls, ArcOthers, Nil, MaxClears,  \* of the ArcSwap
    Requests, Stops, Codes, None,         \* of the HttpServer
    Vectors, Arrays, Val, Zero, MaxLen    \* of the Vector

VARIABLES
    which,
    task, ctxDone, once, gpc, op, by, early,
    ptr, apc, answer, clears,
    lpc, httpServer, shut, spc, rpc, readBody, done, reply,
    array, datas, shared, ideal

group == <<task, ctxDone, once, gpc, op, by, early>>
swap == <<ptr, apc, answer, clears>>
http == <<lpc, httpServer, shut, spc, rpc, readBody, done, reply>>
vector == <<array, datas, shared, ideal>>
benchVars == <<which, vars, group, swap, http, vector>>

Group == INSTANCE TaskGroup WITH Tasks <- GroupTasks, Calls <- GroupCalls, pc <- gpc
Arc == INSTANCE ArcSwap WITH Calls <- ArcCalls, Others <- ArcOthers, pc <- apc
Http == INSTANCE HttpServer
Vec == INSTANCE Vector

\* Every call of LoadOrStore has a value of its own, and nil is no value.
ASSUME ArcAssumption ==
    /\ IsFiniteSet(ArcCalls) /\ ArcCalls \cap ArcOthers = {}
    /\ Nil \notin ArcCalls \cup ArcOthers
\* There are arrays enough: one for each vector, and one to spare.
ASSUME VectorAssumption ==
    /\ IsFiniteSet(Vectors)
    /\ \E some \in SUBSET Arrays :
          IsFiniteSet(some) /\ Cardinality(Vectors) < Cardinality(some)
ASSUME CodesAreInt == Codes \subseteq Int

BenchInit ==
    /\ which \in {"timeout", "group", "swap", "http", "vector"}
    /\ Init /\ Group!Init /\ Arc!Init /\ Http!Init /\ Vec!Init
    /\ which # "timeout" => ~Unidirectional
    /\ which # "swap" => ptr = Nil
    /\ which # "http" => readBody = [q \in Requests |-> TRUE]

GroupDoes(step) ==
    which = "group" /\ step /\ UNCHANGED <<which, vars, swap, http, vector>>

BenchNext ==
    \/ which = "timeout" /\ Next /\ UNCHANGED <<which, group, swap, http, vector>>
    \/ GroupDoes(Group!Next)
    \/ which = "swap" /\ Arc!Next /\ UNCHANGED <<which, vars, group, http, vector>>
    \/ which = "http" /\ Http!Next /\ UNCHANGED <<which, vars, group, swap, vector>>
    \/ which = "vector" /\ Vec!Next /\ UNCHANGED <<which, vars, group, swap, http>>

\* Calls of the task group go on, and its tasks heed the context.
BenchSpec ==
    /\ BenchInit /\ [][BenchNext]_benchVars
    /\ \A c \in GroupCalls : WF_benchVars(GroupDoes(Group!GoesOn(c)))
    /\ \A t \in GroupTasks : WF_benchVars(GroupDoes(Group!Ends(t)))

\* TaskGroup: a Quit returns, unless a task quits while another waits for it.
QuitReturns == Group!QuitReturns
\* ArcSwap: LoadOrStore stores once for each time the pointer is nil.
StoresOnce == Arc!StoresOnce
\* HttpServer: success is told only for a callback that did not fail, or chose so.
SuccessIsHonest == Http!SuccessIsHonest
\* HttpServer: after a Stop that returned in time no request is running.
StopIsFinal == Http!StopIsFinal
\* Vector: no method of a vector writes into the array of another.
HoldsItsOwn == Vec!HoldsItsOwn
=============================================================================
