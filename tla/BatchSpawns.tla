---------------------------- MODULE BatchSpawns ----------------------------
(***************************************************************************)
(* gox.BatchSpawn for one name (src/rivetxcore/gox/go.go): callers append  *)
(* data to a slice under a mutex, and signal the goroutine of the name     *)
(* over a small channel when the slice reaches BatchSize, on Flush and on  *)
(* Close; the goroutine, woken by a signal or its ticker, takes the whole  *)
(* slice and hands it to Func.  Of the signals it finds it obeys the last. *)
(* A signal carries the call that sent it, so that its effect can be told. *)
(***************************************************************************)
EXTENDS Naturals, Sequences, SequencesExt, FiniteSets

CONSTANTS
  Items,      \* calls of BatchAdd, each with its own datum
  Flushes,    \* calls of BatchFlush
  Closes,     \* calls of BatchClose
  BatchSize,
  ChanSize,   \* the capacity of Chan, 10
  MayPanic    \* Func may panic

Signals == Flushes \cup Closes

VARIABLES
  ipc,      \* where each BatchAdd is
  spc,      \* where each BatchFlush and BatchClose is
  named,    \* the name is in BatchMap
  Datas,
  Chan,     \* the senders of the signals in the channel
  wpc,      \* where the goroutine is
  flag,     \* the sender of the last signal it received, "tick" if the ticker woke it
  batch,    \* the data it took
  handled,  \* the data Func was given, in order (history)
  added,    \* the data that were appended, in order (history)
  before,   \* the data appended when a Flush or Close was called (history)
  got,      \* the signals the goroutine received (history)
  lastSent  \* the last signal put into the channel (history)

dataVars == <<Datas, added>>
chanVars == <<Chan, lastSent>>
workVars == <<wpc, flag, batch, handled, got>>
vars == <<ipc, spc, named, dataVars, chanVars, workVars, before>>

Init ==
  /\ ipc = [d \in Items |-> "idle"] /\ spc = [s \in Signals |-> "idle"]
  /\ named = FALSE
  /\ Datas = <<>> /\ Chan = <<>> /\ added = <<>>
  /\ wpc = "off" /\ flag = "tick" /\ batch = <<>> /\ handled = <<>>
  /\ before = [s \in Signals |-> {}] /\ got = {} /\ lastSent = "tick"

\* BatchSpawn registers the name ...
Register ==
  /\ ~named /\ named' = TRUE
  /\ UNCHANGED <<ipc, spc, dataVars, chanVars, workVars, before>>

\* ... and then starts the goroutine.
Run ==
  /\ named /\ wpc = "off" /\ wpc' = "select"
  /\ UNCHANGED <<ipc, spc, named, dataVars, chanVars, flag, batch, handled, got, before>>

-----------------------------------------------------------------------------
(* Callers *)

Add(d, from, to) == ipc[d] = from /\ ipc' = [ipc EXCEPT ![d] = to]
Sig(s, from, to) == spc[s] = from /\ spc' = [spc EXCEPT ![s] = to]

HasRoom == Len(Chan) < ChanSize
Put(s) == Chan' = Append(Chan, s) /\ lastSent' = s

\* Every call on a name that is not registered yet is logged and dropped.
NotFound ==
  /\ ~named
  /\ \/ (\E d \in Items : Add(d, "idle", "dropped")) /\ UNCHANGED spc
     \/ (\E s \in Signals : Sig(s, "idle", "dropped")) /\ UNCHANGED ipc
  /\ UNCHANGED <<named, dataVars, chanVars, workVars, before>>

\* Under the mutex: append, and learn the length.
AppendData(d) ==
  /\ named
  /\ Add(d, "idle", IF Len(Datas) + 1 = BatchSize THEN "full" ELSE "added")
  /\ Datas' = Append(Datas, d) /\ added' = Append(added, d)
  /\ UNCHANGED <<spc, named, chanVars, workVars, before>>

\* The signal of a full batch, dropped when the channel is full.
SignalFull(d) ==
  /\ Add(d, "full", "added")
  /\ IF HasRoom THEN Put(d) ELSE UNCHANGED chanVars
  /\ UNCHANGED <<spc, named, dataVars, workVars, before>>

CallSignal(s) ==
  /\ named
  /\ Sig(s, "idle", "sending")
  /\ before' = [before EXCEPT ![s] = ToSet(added)]
  /\ UNCHANGED <<ipc, named, dataVars, chanVars, workVars>>

\* Flush and Close send, or give up after five seconds.
SendSignal(s) ==
  /\ HasRoom /\ Sig(s, "sending", "sent") /\ Put(s)
  /\ UNCHANGED <<ipc, named, dataVars, workVars, before>>

SendTimeout(s) ==
  /\ Sig(s, "sending", "gaveup")
  /\ UNCHANGED <<ipc, named, dataVars, chanVars, workVars, before>>

-----------------------------------------------------------------------------
(* The goroutine *)

Work(from, to) == wpc = from /\ wpc' = to

\* Mutation: the signal that woke the goroutine is the one it obeys.
ReceiveFirst ==
  /\ Chan # <<>>
  /\ Work("select", "drain") \/ Work("drain", "drain")
  /\ flag' = IF wpc = "drain" THEN flag ELSE Head(Chan)
  /\ Chan' = Tail(Chan) /\ got' = got \cup {Head(Chan)}
  /\ UNCHANGED <<ipc, spc, named, dataVars, lastSent, batch, handled, before>>

\* A signal wakes the goroutine, and it receives all there are.
Receive ==
  /\ Chan # <<>>
  /\ Work("select", "drain") \/ Work("drain", "drain")
  /\ flag' = Head(Chan) /\ Chan' = Tail(Chan) /\ got' = got \cup {Head(Chan)}
  /\ UNCHANGED <<ipc, spc, named, dataVars, lastSent, batch, handled, before>>

Drained ==
  /\ Chan = <<>> /\ Work("drain", "take")
  /\ UNCHANGED <<ipc, spc, named, dataVars, chanVars, flag, batch, handled, got, before>>

\* Mutation: the ticker does not lead to the slice.
TickOnly ==
  /\ Work("select", "select") /\ flag' = "tick"
  /\ UNCHANGED <<ipc, spc, named, dataVars, chanVars, batch, handled, got, before>>

Tick ==
  /\ Work("select", "take") /\ flag' = "tick"
  /\ UNCHANGED <<ipc, spc, named, dataVars, chanVars, batch, handled, got, before>>

\* Mutation: no more than a batch is taken, the rest is thrown away.
TakeBatch ==
  /\ Work("take", "func")
  /\ batch' = SubSeq(Datas, 1, IF Len(Datas) > BatchSize THEN BatchSize ELSE Len(Datas))
  /\ Datas' = <<>>
  /\ UNCHANGED <<ipc, spc, named, added, chanVars, flag, handled, got, before>>

\* Mutation: no more than a batch is taken, the rest is left.
TakeSome ==
  /\ Work("take", "func")
  /\ batch' = SubSeq(Datas, 1, IF Len(Datas) > BatchSize THEN BatchSize ELSE Len(Datas))
  /\ Datas' = SubSeq(Datas, Len(batch') + 1, Len(Datas))
  /\ UNCHANGED <<ipc, spc, named, added, chanVars, flag, handled, got, before>>

\* Under the mutex: take the whole slice.
Take ==
  /\ Work("take", "func")
  /\ batch' = Datas /\ Datas' = <<>>
  /\ UNCHANGED <<ipc, spc, named, added, chanVars, flag, handled, got, before>>

\* Func returns, with or without an error, and Close ends the goroutine; or
\* Func panics, and Spawn's recover ends it.
CallFunc ==
  /\ wpc = "func"
  /\ handled' = handled \o batch /\ batch' = <<>>
  /\ \/ wpc' = IF flag \in Closes THEN "closed" ELSE "select"
     \/ MayPanic /\ wpc' = "panicked"
  /\ UNCHANGED <<ipc, spc, named, dataVars, chanVars, flag, got, before>>

Gone == wpc \in {"closed", "panicked"}

Caller ==
  \/ \E d \in Items : AppendData(d) \/ SignalFull(d)
  \/ \E s \in Signals : CallSignal(s) \/ SendSignal(s) \/ SendTimeout(s)

Worker == Receive \/ Drained \/ Tick \/ Take \/ CallFunc

Next == Register \/ Run \/ NotFound \/ Caller \/ Worker

Spec == Init /\ [][Next]_vars

\* Callers finish what they began; that is finitely many steps, so that to be
\* fair to all of them together is to be fair to each.
CallersGoOn ==
  \/ Run
  \/ \E d \in Items : SignalFull(d)
  \/ \E s \in Signals : SendSignal(s) \/ SendTimeout(s)

\* The goroutine runs and Func ends.
WorkerGoesOn == Tick \/ Drained \/ Take \/ CallFunc

\* When signals and ticks are both ready the select takes each of them sometimes.
FairSpec == Spec /\ WF_vars(CallersGoOn) /\ WF_vars(WorkerGoesOn) /\ SF_vars(Receive)

-----------------------------------------------------------------------------
(* Properties *)

\* Every variable has its type.
TypeOK ==
  /\ ipc \in [Items -> {"idle", "full", "added", "dropped"}]
  /\ spc \in [Signals -> {"idle", "sending", "sent", "gaveup", "dropped"}]
  /\ named \in BOOLEAN
  /\ Datas \in Seq(Items) /\ batch \in Seq(Items)
  /\ handled \in Seq(Items) /\ added \in Seq(Items)
  /\ Chan \in Seq(Items \cup Signals) /\ Len(Chan) <= ChanSize
  /\ wpc \in {"off", "select", "drain", "take", "func", "closed", "panicked"}
  /\ flag \in Items \cup Signals \cup {"tick"} /\ lastSent \in Items \cup Signals \cup {"tick"}
  /\ before \in [Signals -> SUBSET Items] /\ got \subseteq Items \cup Signals

\* No datum is lost, handed over twice or overtaken by a later one: what was
\* handed to Func, what the goroutine has in hand and what waits are together
\* what was appended, in that order.
InOrderOnce == handled \o batch \o Datas = added

\* When the goroutine has dealt with a Flush or Close, or is gone after it,
\* everything appended before that call was handed to Func, even if the signal
\* was overtaken by others in the channel.
FlushCovers ==
  \A s \in Signals \cap got :
    wpc \in {"select", "closed", "panicked"} => before[s] \subseteq ToSet(handled)

\* Whatever is appended is handed to Func, unless the goroutine ends first.
AddedIsHandled == <>[](Gone \/ ToSet(added) \subseteq ToSet(handled))

\* If no signal follows a Close that was sent, the goroutine ends.
LastCloseEnds == (<>[](lastSent \in Closes)) => <>Gone
=============================================================================
