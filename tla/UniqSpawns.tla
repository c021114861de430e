----------------------------- MODULE UniqSpawns -----------------------------
(***************************************************************************)
(* gox.UniqSpawn for one name (src/rivetxcore/gox/go.go): callers hand     *)
(* functions to the one goroutine of that name, which runs them one after  *)
(* the other; a caller with isWait waits on a pooled channel for its own   *)
(* function to end.  The name is registered with sync.Map's Load and       *)
(* LoadOrStore, and the caller that stored it starts the goroutine.        *)
(***************************************************************************)
EXTENDS Naturals, Sequences, SequencesExt, FiniteSets

CONSTANTS
  Calls,     \* calls of UniqSpawn, each with a function of its own
  Waits,     \* those with isWait
  Panics,    \* those whose function panics
  WaitChans, \* channels of capacity 1 that GetChan(1) hands out
  Size,      \* the capacity of DataChan
  HasCtx     \* SetUniqSpawnCtx was called

ASSUME CallsAssumption == Waits \subseteq Calls /\ Panics \subseteq Calls
ASSUME NoneAssumption == "none" \notin Calls /\ "none" \notin WaitChans
ASSUME SizeAssumption == Size \in Nat \ {0} /\ HasCtx \in BOOLEAN

None == "none"

VARIABLES
  cpc,      \* where each call is
  uniq,     \* the UniqSpawns registered under the name, named for the call that made it
  mine,     \* the UniqSpawns a call uses
  wait,     \* the WaitChan of its UniqData
  token,    \* whether a wait channel holds a value
  free,     \* the wait channels in their pool
  DataChan, \* of each UniqSpawns
  wpc,      \* where the goroutine of each UniqSpawns is
  cur,      \* the call whose function it runs
  ctxDone,
  sent,     \* the calls in the order their functions were accepted (history)
  started,  \* the calls in the order their functions were started (history)
  ended     \* the calls whose function returned or panicked (history)

callVars == <<uniq, mine>>
waitVars == <<wait, token, free>>
workVars == <<wpc, cur>>
hist == <<sent, started, ended>>
vars == <<cpc, callVars, waitVars, DataChan, workVars, ctxDone, hist>>

Init ==
  /\ cpc = [c \in Calls |-> "load"]
  /\ uniq = None /\ mine = [c \in Calls |-> None]
  /\ wait = [c \in Calls |-> None]
  /\ token = [w \in WaitChans |-> FALSE] /\ free = {}
  /\ DataChan = [o \in Calls |-> <<>>]
  /\ wpc = [o \in Calls |-> "off"] /\ cur = [o \in Calls |-> None]
  /\ ctxDone = FALSE
  /\ sent = <<>> /\ started = <<>> /\ ended = {}

Step(c, from, to) == cpc[c] = from /\ cpc' = [cpc EXCEPT ![c] = to]

\* uniqMap.Load
Load(c) ==
  /\ Step(c, "load", IF uniq = None THEN "store" ELSE "add")
  /\ mine' = [mine EXCEPT ![c] = uniq]
  /\ UNCHANGED <<uniq, waitVars, DataChan, workVars, ctxDone, hist>>

\* Mutation: Store instead of LoadOrStore.
StoreAlways(c) ==
  /\ Step(c, "store", "run")
  /\ uniq' = c
  /\ mine' = [mine EXCEPT ![c] = c]
  /\ UNCHANGED <<waitVars, DataChan, workVars, ctxDone, hist>>

\* uniqMap.LoadOrStore: the first call stores the UniqSpawns it made.
LoadOrStore(c) ==
  /\ Step(c, "store", IF uniq = None THEN "run" ELSE "add")
  /\ uniq' = IF uniq = None THEN c ELSE uniq
  /\ mine' = [mine EXCEPT ![c] = uniq']
  /\ UNCHANGED <<waitVars, DataChan, workVars, ctxDone, hist>>

\* UniqSpawns.Run
Run(c) ==
  /\ Step(c, "run", "add")
  /\ wpc' = [wpc EXCEPT ![mine[c]] = "receive"]
  /\ UNCHANGED <<callVars, waitVars, DataChan, cur, ctxDone, hist>>

\* The channels GetChan(1) may return: a pooled one, or a new one.
Available == free \cup {w \in WaitChans : \A d \in Calls : wait[d] # w}

\* Add gets a wait channel, emptied of whatever is left in it.
GetChan(c) ==
  /\ IF c \in Waits
     THEN \E w \in Available :
            /\ wait' = [wait EXCEPT ![c] = w]
            /\ free' = free \ {w}
            /\ token' = [token EXCEPT ![w] = FALSE]
     ELSE UNCHANGED waitVars
  /\ Step(c, "add", "send")
  /\ UNCHANGED <<callVars, DataChan, workVars, ctxDone, hist>>

\* uniqChan <- UniqData
Send(c) ==
  /\ Step(c, "send", IF c \in Waits THEN "wait" ELSE "returned")
  /\ Len(DataChan[mine[c]]) < Size
  /\ DataChan' = [DataChan EXCEPT ![mine[c]] = Append(@, c)]
  /\ sent' = Append(sent, c)
  /\ UNCHANGED <<callVars, waitVars, workVars, ctxDone, started, ended>>

\* <-WaitChan.Ch
Wait(c) ==
  /\ cpc[c] = "wait" /\ token[wait[c]]
  /\ token' = [token EXCEPT ![wait[c]] = FALSE]
  /\ Step(c, "wait", "put")
  /\ UNCHANGED <<callVars, wait, free, DataChan, workVars, ctxDone, hist>>

\* WaitChan.Put
Put(c) ==
  /\ Step(c, "put", "returned")
  /\ free' = free \cup {wait[c]}
  /\ UNCHANGED <<callVars, wait, token, DataChan, workVars, ctxDone, hist>>

WorkStep(o, from, to) == wpc[o] = from /\ wpc' = [wpc EXCEPT ![o] = to]

Receive(o) ==
  /\ DataChan[o] # <<>>
  /\ WorkStep(o, "receive", "func")
  /\ DataChan' = [DataChan EXCEPT ![o] = Tail(@)]
  /\ cur' = [cur EXCEPT ![o] = Head(DataChan[o])]
  /\ started' = Append(started, Head(DataChan[o]))
  /\ UNCHANGED <<cpc, callVars, waitVars, ctxDone, sent, ended>>

\* Mutation: the waiter is told before the function is run.
FuncEndsEarly(o) ==
  /\ WorkStep(o, "func", IF cur[o] \in Waits THEN "reply" ELSE "receive")
  /\ UNCHANGED <<cpc, callVars, waitVars, DataChan, cur, ctxDone, hist>>

\* The function returns, with or without an error.
FuncEnds(o) ==
  /\ cur[o] \notin Panics
  /\ WorkStep(o, "func", IF cur[o] \in Waits THEN "reply" ELSE "receive")
  /\ ended' = ended \cup {cur[o]}
  /\ UNCHANGED <<cpc, callVars, waitVars, DataChan, cur, ctxDone, sent, started>>

\* Mutation: the panic is not recovered inside the loop.
FuncPanicsOut(o) ==
  /\ cur[o] \in Panics
  /\ WorkStep(o, "func", "exit")
  /\ ended' = ended \cup {cur[o]}
  /\ UNCHANGED <<cpc, callVars, waitVars, DataChan, cur, ctxDone, sent, started>>

\* The function panics: the loop is entered again, the waiter is not told.
FuncPanics(o) ==
  /\ cur[o] \in Panics
  /\ WorkStep(o, "func", "receive")
  /\ ended' = ended \cup {cur[o]}
  /\ UNCHANGED <<cpc, callVars, waitVars, DataChan, cur, ctxDone, sent, started>>

\* WaitChan.Ch <- true
Reply(o) ==
  /\ WorkStep(o, "reply", "receive")
  /\ ~token[wait[cur[o]]]
  /\ token' = [token EXCEPT ![wait[cur[o]]] = TRUE]
  /\ UNCHANGED <<cpc, callVars, wait, free, DataChan, cur, ctxDone, hist>>

\* The select sees the context cancelled, even with functions in the channel.
Quit(o) ==
  /\ HasCtx /\ ctxDone
  /\ WorkStep(o, "receive", "exit")
  /\ UNCHANGED <<cpc, callVars, waitVars, DataChan, cur, ctxDone, hist>>

CancelCtx ==
  /\ HasCtx /\ ~ctxDone /\ ctxDone' = TRUE
  /\ UNCHANGED <<cpc, callVars, waitVars, DataChan, workVars, hist>>

Caller(c) ==
  \/ Load(c) \/ LoadOrStore(c) \/ Run(c)
  \/ GetChan(c) \/ Send(c) \/ Wait(c) \/ Put(c)

Worker(o) ==
  \/ Receive(o) \/ FuncEnds(o) \/ FuncPanics(o) \/ Reply(o) \/ Quit(o)

Next ==
  \/ \E c \in Calls : Caller(c) \/ Worker(c)
  \/ CancelCtx

Spec == Init /\ [][Next]_vars

\* Goroutines run and functions end.  There are finitely many steps, so that to be
\* fair to all of them together is to be fair to each.
GoesOn == \E c \in Calls : Caller(c) \/ Worker(c)
FairSpec == Spec /\ WF_vars(GoesOn)

-----------------------------------------------------------------------------
(* Properties *)

\* Every variable has its type.
TypeOK ==
  /\ cpc \in [Calls -> {"load", "store", "run", "add", "send", "wait", "put", "returned"}]
  /\ uniq \in Calls \cup {None} /\ mine \in [Calls -> Calls \cup {None}]
  /\ wait \in [Calls -> WaitChans \cup {None}]
  /\ token \in [WaitChans -> BOOLEAN] /\ free \subseteq WaitChans
  /\ DataChan \in [Calls -> Seq(Calls)]
  /\ wpc \in [Calls -> {"off", "receive", "func", "reply", "exit"}]
  /\ cur \in [Calls -> Calls \cup {None}] /\ ctxDone \in BOOLEAN
  /\ sent \in Seq(Calls) /\ started \in Seq(Calls) /\ ended \subseteq Calls

\* The functions of a name run one at a time and in the order the calls were
\* accepted, even when the first calls of that name race to register it.
OneAtATime ==
  /\ \A o, p \in Calls : wpc[o] \in {"func", "reply"} /\ wpc[p] \in {"func", "reply"} => o = p
  /\ IsPrefix(started, sent)

\* A call with isWait returns only after its own function has ended, and
\* never by a value another call left in the pooled channel.
WaitsForItsOwn ==
  \A c \in Waits : cpc[c] \in {"put", "returned"} => c \in ended /\ c \notin Panics

\* Every call that has begun returns, unless it waits for a function that panics, and a
\* function that was accepted is run, a panic of an earlier one notwithstanding;
\* both unless the context is cancelled.
Outstanding(c) ==
  \/ cpc[c] \notin {"load", "returned"} /\ c \notin Waits \cap Panics
  \/ c \in ToSet(sent) /\ c \notin ended

CallsReturn == <>[](ctxDone \/ \A c \in Calls : ~Outstanding(c))
=============================================================================
