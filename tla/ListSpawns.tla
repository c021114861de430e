----------------------------- MODULE ListSpawns -----------------------------
(***************************************************************************)
(* gox.ListSpawn for one name (src/rivetxcore/gox/go.go): producers send   *)
(* data over a channel, which blocks them when it is full, to the one      *)
(* goroutine of the name; it hands each datum to Func.  Close sends a nil, *)
(* which Func is given too, and which ends the goroutine.  The channel is  *)
(* never closed, and may have no buffer.                                   *)
(***************************************************************************)
EXTENDS Naturals, Sequences, SequencesExt, FiniteSets

CONSTANTS
  Items,      \* calls of ListAdd, each with its own datum
  Closes,     \* calls of ListClose, each of which sends a nil
  Sizes,      \* the capacities Chan may be made with, 0 for no buffer
  MayPanic    \* Func may panic

Senders == Items \cup Closes
None == "none"

VARIABLES
  cpc,      \* where each call is
  named,    \* the name is in ListMap
  Size,     \* the capacity of Chan
  Chan,
  wpc,      \* where the goroutine is
  data,     \* what it received
  handled,  \* what Func was given, in order (history)
  accepted, \* what was sent, in order (history)
  earlier   \* what had been accepted when a call was made (history)

vars == <<cpc, named, Size, Chan, wpc, data, handled, accepted, earlier>>

Init ==
  /\ cpc = [c \in Senders |-> "idle"]
  /\ named = FALSE
  /\ Size \in Sizes
  /\ Chan = <<>>
  /\ wpc = "off" /\ data = None
  /\ handled = <<>> /\ accepted = <<>>
  /\ earlier = [c \in Senders |-> {}]

Goto(c, from, to) == cpc[c] = from /\ cpc' = [cpc EXCEPT ![c] = to]

\* ListSpawn registers the name, with the Chan its caller made ...
Register ==
  /\ ~named /\ named' = TRUE
  /\ UNCHANGED <<cpc, Size, Chan, wpc, data, handled, accepted, earlier>>

\* ... and starts the goroutine.
Run ==
  /\ named /\ wpc = "off" /\ wpc' = "receive"
  /\ UNCHANGED <<cpc, named, Size, Chan, data, handled, accepted, earlier>>

\* A call on a name that is not registered is logged and dropped.
Call(c) ==
  /\ Goto(c, "idle", IF named THEN "sending" ELSE "dropped")
  /\ earlier' = [earlier EXCEPT ![c] = ToSet(accepted)]
  /\ UNCHANGED <<named, Size, Chan, wpc, data, handled, accepted>>

\* Mutation: Add gives up when the channel is full.
SendOrDrop(c) ==
  /\ Goto(c, "sending", "sent")
  /\ accepted' = Append(accepted, c)
  /\ Chan' = IF Len(Chan) < Size THEN Append(Chan, c) ELSE Chan
  /\ UNCHANGED <<named, Size, wpc, data, handled, earlier>>

\* ListData.Chan <- data
Send(c) ==
  /\ Len(Chan) < Size
  /\ Goto(c, "sending", "sent")
  /\ Chan' = Append(Chan, c) /\ accepted' = Append(accepted, c)
  /\ UNCHANGED <<named, Size, wpc, data, handled, earlier>>

Work(from, to) == wpc = from /\ wpc' = to

Receive ==
  /\ Chan # <<>>
  /\ Work("receive", "func")
  /\ data' = Head(Chan) /\ Chan' = Tail(Chan)
  /\ UNCHANGED <<cpc, named, Size, handled, accepted, earlier>>

\* Without a buffer the goroutine receives from a sender that is waiting.
Meet(c) ==
  /\ Size = 0
  /\ Work("receive", "func")
  /\ Goto(c, "sending", "sent")
  /\ data' = c /\ accepted' = Append(accepted, c)
  /\ UNCHANGED <<named, Size, Chan, handled, earlier>>

\* Mutation: an error of Func ends the goroutine.
CallFuncReturns ==
  /\ wpc = "func"
  /\ handled' = Append(handled, data) /\ data' = None
  /\ wpc' \in (IF data \in Closes THEN {"closed"} ELSE {"receive", "closed"})
  /\ UNCHANGED <<cpc, named, Size, Chan, accepted, earlier>>

\* Func returns, with or without an error, and a nil ends the goroutine; or
\* Func panics, and Spawn's recover ends it.
CallFunc ==
  /\ wpc = "func"
  /\ handled' = Append(handled, data) /\ data' = None
  /\ \/ wpc' = IF data \in Closes THEN "closed" ELSE "receive"
     \/ MayPanic /\ wpc' = "panicked"
  /\ UNCHANGED <<cpc, named, Size, Chan, accepted, earlier>>

Caller(c) == Call(c) \/ Send(c) \/ Meet(c)

Next == Register \/ Run \/ (\E c \in Senders : Caller(c)) \/ Receive \/ CallFunc

Spec == Init /\ [][Next]_vars

\* The goroutine runs and Func ends; a send that can go on does, and as there are
\* finitely many, to be fair to all of them together is to be fair to each.
WorkerGoesOn == Run \/ Receive \/ CallFunc
SendersGoOn == \E c \in Senders : Send(c) \/ Meet(c)

FairSpec == Spec /\ WF_vars(WorkerGoesOn) /\ SF_vars(SendersGoOn)

-----------------------------------------------------------------------------
(* Properties *)

\* Every variable has its type.
TypeOK ==
  /\ cpc \in [Senders -> {"idle", "sending", "sent", "dropped"}]
  /\ named \in BOOLEAN /\ Size \in Sizes
  /\ Chan \in Seq(Senders) /\ Len(Chan) <= Size
  /\ wpc \in {"off", "receive", "func", "closed", "panicked"}
  /\ data \in Senders \cup {None} /\ (data # None <=> wpc = "func")
  /\ handled \in Seq(Senders) /\ accepted \in Seq(Senders)
  /\ earlier \in [Senders -> SUBSET Senders]

Held == IF data = None THEN <<>> ELSE <<data>>

\* When a Close has ended the goroutine, everything accepted before that Close
\* was called has been handed to Func, and nothing accepted after it.
CloseIsACut ==
  wpc = "closed" =>
    /\ Last(handled) \in Closes
    /\ earlier[Last(handled)] \subseteq ToSet(handled)
    /\ \A i \in 1 .. Len(handled) - 1 : handled[i] \in Items

Gone == wpc \in {"closed", "panicked"}

\* A call on a registered name gets its datum accepted and handed to Func, and
\* its sender on, unless the goroutine ends first.
SentIsHandled ==
  <>[](Gone \/ \A c \in Senders :
         /\ cpc[c] # "sending"
         /\ cpc[c] = "sent" => c \in ToSet(handled))
=============================================================================
