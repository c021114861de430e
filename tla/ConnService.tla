---------------------------- MODULE ConnService ----------------------------
(***************************************************************************)
(* One TCP connection of tcpx (src/rivetxcore/tcpx/tcp.go, ConnService):   *)
(* the goroutines Run starts (Write, Read, checkTimeout and, optionally,   *)
(* ReadChan), the two message channels between them and any number of      *)
(* callers of WriteChan(Ref) / WriteToReadChan, and the shutdown protocol: *)
(* QuitFunc (a sync.Once that cancels the context and spawns the goroutine *)
(* that closes the channels), the wait for the workers and Run's drain.    *)
(*                                                                         *)
(* A message is identified with the call that offers it.  Byte counts, the *)
(* content of messages and wall-clock time are abstracted: a timer may     *)
(* fire whenever it is armed, and each callback of the servicer may        *)
(* succeed, fail or panic.                                                 *)
(***************************************************************************)
EXTENDS Naturals, Sequences, Functions

CONSTANTS
  WriteCalls,   \* calls of (Try)WriteChanRef, each with its own message
  ReadCalls,    \* calls of (Try)WriteToReadChan, each with its own message
  TryCalls,     \* those of them that use the non-blocking Try form
  Cap,          \* SocketWriteChanMsgSize, the capacity of both channels
  RunReadChan,  \* Run's isRunReadChan
  HasMain,      \* Config.Ctx # nil: the connection belongs to a Service
  Timeouts,     \* the configured ones among SocketReadTimeout, SocketWriteTimeout,
                \* each written as the close type it leads to
  HasServicer,  \* FALSE: the service's callFunc returned a nil Servicer
  HasFlushTime, \* SocketWriteFlushTime2 > 0
  SlowSenders,  \* TRUE: a call may be descheduled between its IsQuit check
                \* and its send for longer than the closer sleeps
  ReadErrs,     \* what SocketErr may make of a failed read ...
  WriteErrs     \* ... and of a failed write

Calls == WriteCalls \cup ReadCalls
CloseTypes == {"TypClose", "TypCloseQuit", "TypCloseErr",
               "TypCloseReadReset", "TypCloseReadTimeout", "TypCloseReadErr",
               "TypCloseWriteReset", "TypCloseWriteTimeout", "TypCloseWriteErr"}

Reasons == CloseTypes \ {"TypClose"}

ASSUME CallsAssumption == WriteCalls \cap ReadCalls = {} /\ TryCalls \subseteq Calls
ASSUME NoneAssumption == "none" \notin WriteCalls \cup ReadCalls
ASSUME CapAssumption == Cap \in Nat \ {0}
ASSUME FlagAssumption ==
  {RunReadChan, HasMain, HasServicer, HasFlushTime, SlowSenders} \subseteq BOOLEAN
ASSUME TypeAssumption ==
  /\ Timeouts \subseteq {"TypCloseReadTimeout", "TypCloseWriteTimeout"}
  /\ ReadErrs \subseteq {"TypCloseReadReset", "TypCloseReadTimeout", "TypCloseReadErr"}
  /\ WriteErrs \subseteq {"TypCloseWriteReset", "TypCloseWriteTimeout", "TypCloseWriteErr"}

Workers == {"write", "read", "timeout", "readchan"}   \* ConnService.WaitGroup
Procs == Workers \cup {"run", "once", "closer"}
Kinds == {"write", "readchan"}      \* a channel is named for the worker it feeds
None == "none"                      \* no message in hand
Kind(c) == IF c \in WriteCalls THEN "write" ELSE "readchan"

VARIABLES
  cpc,        \* where each call is
  pc,         \* where each goroutine is ("once": the body of QuitFunc's Once)
  chan,       \* writeChan and readChan, first in first out
  closed,     \* whether each of them is closed
  cur,        \* the message each channel's worker is handling
  puts,       \* how often the reference a call passed on was Put
  IsQuit,
  ctxDone,    \* service.Ctx is cancelled: writeDone is closed
  mainDone,   \* Config.Ctx is cancelled: writeMainDone is closed
  TypeClose,
  want,       \* the close type a goroutine is about to set
  told,       \* what servicer.Close was told (history)
  connClosed, \* Run has called Conn.Close
  buffered,   \* writer.Buffered() > 0
  writerErr,  \* the bufio writer keeps an error
  flushArmed  \* timeoutChan # nil

callVars == <<cpc, puts>>
chanVars == <<chan, closed, cur>>
quitVars == <<IsQuit, ctxDone, mainDone>>
typeVars == <<TypeClose, want, told>>
ioVars == <<connClosed, buffered, writerErr, flushArmed>>
vars == <<callVars, pc, chanVars, quitVars, typeVars, ioVars>>

Init ==
  /\ cpc = [c \in Calls |-> "idle"]
  /\ puts = [c \in Calls |-> 0]
  /\ pc = [p \in Procs |-> IF p = "run" THEN "init" ELSE "off"]
  /\ chan = [k \in Kinds |-> <<>>]
  /\ closed = [k \in Kinds |-> FALSE]
  /\ cur = [k \in Kinds |-> None]
  /\ IsQuit = FALSE /\ ctxDone = FALSE /\ mainDone = FALSE
  /\ TypeClose = "TypClose" /\ want = [p \in Procs |-> "TypCloseQuit"] /\ told = None
  /\ connClosed = FALSE /\ buffered = FALSE /\ writerErr = FALSE /\ flushArmed = FALSE

Goto(p, l) == pc[p] # l /\ pc' = [pc EXCEPT ![p] = l]

-----------------------------------------------------------------------------
(* Callers: WriteChanRef, TryWriteChanRef, WriteToReadChan, TryWriteToReadChan. *)

CallStep(c, from, to) == cpc[c] = from /\ cpc' = [cpc EXCEPT ![c] = to]

\* Mutation: the test of IsQuit is dropped.
EnterUnchecked(c) ==
  /\ CallStep(c, "idle", IF c \in TryCalls THEN "trysend" ELSE "entered")
  /\ UNCHANGED <<puts, pc, chanVars, quitVars, typeVars, ioVars>>

\* The first test of IsQuit and of the caller's own session.
Enter(c) ==
  /\ \/ CallStep(c, "idle", "refused")          \* IsQuit, or the caller's own session
     \/ ~IsQuit /\ CallStep(c, "idle", IF c \in TryCalls THEN "trysend" ELSE "entered")
  /\ UNCHANGED <<puts, pc, chanVars, quitVars, typeVars, ioVars>>

\* WriteChan calls TryWriteChan, which tests IsQuit again.
TryCheck(c) ==
  /\ CallStep(c, "entered", IF IsQuit THEN "select" ELSE "trysend")
  /\ UNCHANGED <<puts, pc, chanVars, quitVars, typeVars, ioVars>>

HasRoom(k) == ~closed[k] /\ Len(chan[k]) < Cap

Send(c) ==
  /\ HasRoom(Kind(c))
  /\ chan' = [chan EXCEPT ![Kind(c)] = Append(@, c)]
  /\ UNCHANGED <<puts, pc, closed, cur, quitVars, typeVars, ioVars>>

\* TryWriteChan's select with a default.
TrySend(c) ==
  \/ CallStep(c, "trysend", "ok") /\ Send(c)
  \/ /\ \/ closed[Kind(c)] /\ CallStep(c, "trysend", "panicked")
        \/ /\ ~closed[Kind(c)] /\ ~HasRoom(Kind(c))
           /\ CallStep(c, "trysend", IF c \in TryCalls THEN "refused" ELSE "select")
     /\ UNCHANGED <<puts, pc, chanVars, quitVars, typeVars, ioVars>>

\* WriteChan's select.  A ready case is chosen at random: a send may win
\* against a cancelled context, and loses by a panic once the channel is closed.
SelectSend(c) == CallStep(c, "select", "ok") /\ Send(c)

SelectOther(c) ==
  /\ \/ (ctxDone \/ mainDone) /\ CallStep(c, "select", "refused")
     \/ closed[Kind(c)] /\ CallStep(c, "select", "panicked")
     \/ /\ ~HasRoom(Kind(c)) /\ ~closed[Kind(c)] /\ ~ctxDone /\ ~mainDone
        /\ CallStep(c, "select", "parked")
  /\ UNCHANGED <<puts, pc, chanVars, quitVars, typeVars, ioVars>>

\* The SocketWriteTimeout timer of the select.
SendTimeout(c) ==
  /\ \/ CallStep(c, "select", "refused")
     \/ CallStep(c, "parked", "refused")
  /\ UNCHANGED <<puts, pc, chanVars, quitVars, typeVars, ioVars>>

\* Mutation: the clone is put back whatever the send returned.
RefPutAlways(c) ==
  /\ c \in WriteCalls
  /\ \/ CallStep(c, "refused", "returned")
     \/ CallStep(c, "ok", "returned")
  /\ puts' = [puts EXCEPT ![c] = @ + 1]
  /\ UNCHANGED <<pc, chanVars, quitVars, typeVars, ioVars>>

\* The Ref forms put back the clone they made when the send is refused.
RefPut(c) ==
  /\ c \in WriteCalls
  /\ CallStep(c, "refused", "returned")
  /\ puts' = [puts EXCEPT ![c] = @ + 1]
  /\ UNCHANGED <<pc, chanVars, quitVars, typeVars, ioVars>>

Caller(c) ==
  \/ Enter(c) \/ TryCheck(c) \/ TrySend(c)
  \/ SelectSend(c) \/ SelectOther(c) \/ SendTimeout(c) \/ RefPut(c)

\* Mutation: QuitFunc does not cancel the context the senders wait on.
StayParked == cpc

\* Cancelling a context wakes every select that is parked on it.
Unparked == [c \in Calls |-> IF cpc[c] = "parked" THEN "refused" ELSE cpc[c]]

ParkedOn(k) == {c \in Calls : Kind(c) = k /\ cpc[c] = "parked"}

\* A receive from channel k; a parked sender takes the slot it frees.
Receive(k) ==
  /\ chan[k] # <<>>
  /\ \/ /\ ParkedOn(k) = {}
        /\ chan' = [chan EXCEPT ![k] = Tail(@)]
        /\ cpc' = cpc
     \/ \E c \in ParkedOn(k) :
          /\ chan' = [chan EXCEPT ![k] = Append(Tail(@), c)]
          /\ cpc' = [cpc EXCEPT ![c] = "ok"]

\* msg.Put, deferred by the function that handles the message.
PutCur(k) ==
  /\ puts' = IF cur[k] = None THEN puts ELSE [puts EXCEPT ![cur[k]] = @ + 1]
  /\ cur' = [cur EXCEPT ![k] = None]

-----------------------------------------------------------------------------
(* if TypeClose == TypClose { TypeClose = want }: a test and a set, with no *)
(* lock, done by five goroutines.                                           *)

\* What p does after it.  A servicer may ignore the error and read again, and
\* its ReadTimeout or WriteTimeout may panic before checkTimeout calls QuitFunc.
After(p) ==
  IF p = "write" THEN {"finish"}
  ELSE IF p = "run" THEN {"close"}
  ELSE IF p = "once" THEN {"cancel"}
  ELSE {"quit"} \cup (IF p = "read" THEN {"top"} ELSE IF p = "timeout" THEN {"exit"} ELSE {})

TestType(p) ==
  /\ pc[p] = "test"
  /\ \/ TypeClose = "TypClose" /\ Goto(p, "set") /\ UNCHANGED want
     \/ /\ TypeClose # "TypClose" /\ \E to \in After(p) : Goto(p, to)
        /\ want' = [want EXCEPT ![p] = "TypCloseQuit"]
  /\ UNCHANGED <<callVars, chanVars, quitVars, TypeClose, told, ioVars>>

SetType(p) ==
  /\ pc[p] = "set"
  /\ TypeClose' = want[p]
  /\ want' = [want EXCEPT ![p] = "TypCloseQuit"]
  /\ \E to \in After(p) : Goto(p, to)
  /\ UNCHANGED <<callVars, chanVars, quitVars, told, ioVars>>

\* Goroutine p is about to record reason t.
Blame(p, t) ==
  /\ pc' = [pc EXCEPT ![p] = "test"]
  /\ want' = [want EXCEPT ![p] = t]
  /\ UNCHANGED <<TypeClose, told>>

-----------------------------------------------------------------------------
(* QuitFunc.  The first caller runs the body of the Once, the others wait. *)

\* Called by Run or a worker, or by anyone holding the service (it is exported).
StartQuit ==
  /\ pc["once"] = "off"
  /\ IsQuit' = TRUE
  /\ Goto("once", "test")
  /\ UNCHANGED <<callVars, chanVars, ctxDone, mainDone, typeVars, ioVars>>

MemberQuit == (\E p \in Procs : pc[p] = "quit") /\ StartQuit

\* cancel(), then the goroutine that will close the channels is spawned.
Cancel ==
  /\ pc["once"] = "cancel"
  /\ ctxDone' = TRUE
  /\ cpc' = Unparked
  /\ pc' = [pc EXCEPT !["once"] = "done", !["closer"] = "write"]
  /\ UNCHANGED <<puts, chanVars, IsQuit, mainDone, typeVars, ioVars>>

\* QuitFunc returns to the worker that called it, which then ends.
WorkerEnd(p) ==
  /\ pc[p] = "quit" /\ pc["once"] = "done"
  /\ Goto(p, "exit")
  /\ UNCHANGED <<callVars, chanVars, quitVars, typeVars, ioVars>>

\* A call that passed its IsQuit check and has not parked or returned.
InFlight(c) == cpc[c] \in {"entered", "trysend", "select"}

\* After its sleep the closer closes writeChan, then readChan.
CloseChan(k) ==
  /\ pc["closer"] = k
  /\ SlowSenders \/ \A c \in Calls : ~InFlight(c)
  /\ closed' = [closed EXCEPT ![k] = TRUE]
  /\ cpc' = [c \in Calls |-> IF c \in ParkedOn(k) THEN "panicked" ELSE cpc[c]]
  /\ Goto("closer", IF k = "write" THEN "readchan" ELSE "exit")
  /\ UNCHANGED <<puts, chan, cur, quitVars, typeVars, ioVars>>

\* The Service that accepted the connection quits (Service.QuitFunc).
ServiceQuit ==
  /\ HasMain /\ ~mainDone
  /\ mainDone' = TRUE
  /\ cpc' = Unparked
  /\ UNCHANGED <<puts, pc, chanVars, IsQuit, ctxDone, typeVars, ioVars>>

-----------------------------------------------------------------------------
(* Write: the goroutine that moves messages from writeChan to the socket. *)

WriteStep(from, to) == pc["write"] = from /\ Goto("write", to)

\* A message is received by the outer select (which disarms the flush
\* timer) or by the inner drain loop.
WriteTake ==
  /\ \/ WriteStep("select", "handle") /\ flushArmed' = FALSE
     \/ WriteStep("drain", "handle") /\ UNCHANGED flushArmed
  /\ Receive("write")
  /\ cur' = [cur EXCEPT !["write"] = Head(chan["write"])]
  /\ UNCHANGED <<puts, closed, quitVars, typeVars, connClosed, buffered, writerErr>>

\* servicer.Write discards the message, or the message carries no data.
WriteDiscard ==
  /\ WriteStep("handle", "drain")
  /\ PutCur("write")
  /\ UNCHANGED <<cpc, chan, closed, quitVars, typeVars, ioVars>>

\* writer.Write succeeds; a large message goes past the buffer to the socket.
WriteOk ==
  /\ WriteStep("handle", "drain")
  /\ ~writerErr
  /\ buffered' \in (IF connClosed THEN {TRUE} ELSE BOOLEAN)
  /\ PutCur("write")
  /\ UNCHANGED <<cpc, chan, closed, quitVars, typeVars, connClosed, writerErr, flushArmed>>

\* servicer.Write fails or panics; or writer.Write fails: ResetErr, SocketErr.
WriteFail ==
  /\ pc["write"] = "handle"
  /\ \/ Blame("write", "TypCloseErr") /\ UNCHANGED ioVars
     \/ WriteStep("handle", "finish") /\ UNCHANGED <<typeVars, ioVars>>
     \/ /\ \E t \in WriteErrs : Blame("write", t)
        /\ writerErr' = FALSE
        /\ buffered' \in BOOLEAN
        /\ UNCHANGED <<connClosed, flushArmed>>
  /\ UNCHANGED <<callVars, chanVars, quitVars>>

\* bufio's Flush: nothing after an error, else all or an error that is kept.
Flush ==
  \/ (writerErr \/ ~buffered) /\ UNCHANGED <<buffered, writerErr>>
  \/ ~writerErr /\ buffered /\ ~connClosed /\ buffered' = FALSE /\ UNCHANGED writerErr
  \/ ~writerErr /\ buffered /\ writerErr' = TRUE /\ UNCHANGED buffered

\* Mutation: after IsQuit the bytes are neither flushed nor given a timer.
WriteDrainedQuit ==
  /\ chan["write"] = <<>> /\ ~closed["write"]
  /\ WriteStep("drain", "select")
  /\ IF buffered /\ HasFlushTime /\ ~IsQuit
     THEN flushArmed' = TRUE /\ UNCHANGED <<buffered, writerErr>>
     ELSE UNCHANGED <<buffered, writerErr, flushArmed>>
  /\ UNCHANGED <<callVars, chanVars, quitVars, typeVars, connClosed>>

\* The drain loop finds the channel empty and the loop turns to the buffer.
WriteDrained ==
  /\ chan["write"] = <<>> /\ ~closed["write"]
  /\ WriteStep("drain", "select")
  /\ IF buffered /\ HasFlushTime /\ ~IsQuit
     THEN flushArmed' = TRUE /\ UNCHANGED <<buffered, writerErr>>
     ELSE Flush /\ UNCHANGED flushArmed
  /\ UNCHANGED <<callVars, chanVars, quitVars, typeVars, connClosed>>

FlushTimeout ==
  /\ pc["write"] = "select" /\ flushArmed
  /\ flushArmed' = FALSE
  /\ Flush
  /\ UNCHANGED <<callVars, pc, chanVars, quitVars, typeVars, connClosed>>

\* The select sees a context cancelled, or a receive sees the channel closed.
WriteStop ==
  /\ \/ WriteStep("select", "finish") /\ (ctxDone \/ mainDone)
     \/ /\ WriteStep("select", "finish") \/ WriteStep("drain", "finish")
        /\ closed["write"] /\ chan["write"] = <<>>
  /\ UNCHANGED <<callVars, chanVars, quitVars, typeVars, ioVars>>

\* The deferred msg.Put and writer.Flush, then QuitFunc.
WriteFinish ==
  /\ WriteStep("finish", "quit")
  /\ PutCur("write")
  /\ Flush
  /\ UNCHANGED <<cpc, chan, closed, quitVars, typeVars, connClosed, flushArmed>>

Write ==
  \/ WriteTake \/ WriteDiscard \/ WriteOk \/ WriteFail
  \/ WriteDrained \/ FlushTimeout \/ WriteStop \/ WriteFinish

-----------------------------------------------------------------------------
(* ReadChan: the optional goroutine that hands readChan to the servicer. *)

ReadChanStep(from, to) == pc["readchan"] = from /\ Goto("readchan", to)

ReadChanTop ==
  /\ ReadChanStep("top", IF IsQuit THEN "quit" ELSE "select")
  /\ UNCHANGED <<callVars, chanVars, quitVars, typeVars, ioVars>>

ReadChanTake ==
  /\ ReadChanStep("select", "handle") \/ ReadChanStep("drain", "handle")
  /\ Receive("readchan")
  /\ cur' = [cur EXCEPT !["readchan"] = Head(chan["readchan"])]
  /\ UNCHANGED <<puts, closed, quitVars, typeVars, ioVars>>

\* servicer.ReadChan returns (drain), or fails or panics (quit).
ReadChanHandle ==
  /\ ReadChanStep("handle", "drain") \/ ReadChanStep("handle", "quit")
  /\ PutCur("readchan")
  /\ UNCHANGED <<cpc, chan, closed, quitVars, typeVars, ioVars>>

ReadChanStop ==
  /\ chan["readchan"] = <<>>
  /\ \/ closed["readchan"] /\ (ReadChanStep("select", "quit") \/ ReadChanStep("drain", "quit"))
     \/ ~closed["readchan"] /\ ReadChanStep("drain", "top")
  /\ UNCHANGED <<callVars, chanVars, quitVars, typeVars, ioVars>>

ReadChanDone ==
  /\ ctxDone \/ mainDone
  /\ ReadChanStep("select", "quit")
  /\ UNCHANGED <<callVars, chanVars, quitVars, typeVars, ioVars>>

ReadChan == ReadChanTop \/ ReadChanTake \/ ReadChanHandle \/ ReadChanStop \/ ReadChanDone

-----------------------------------------------------------------------------
(* Read: the servicer's loop over ReadBytes, and checkTimeout. *)

\* ReadBytes tests IsQuit, then reads; the servicer may also end by itself.
ReadTop ==
  /\ pc["read"] = "top"
  /\ \/ Goto("read", "quit")
     \/ ~IsQuit /\ Goto("read", "blocked")
  /\ UNCHANGED <<callVars, chanVars, quitVars, typeVars, ioVars>>

ReadData ==
  /\ pc["read"] = "blocked" /\ Goto("read", "top")
  /\ UNCHANGED <<callVars, chanVars, quitVars, typeVars, ioVars>>

\* The read fails: SocketErr, or ReadBytes itself, names the reason.
ReadFail ==
  /\ pc["read"] = "blocked"
  /\ \E t \in ReadErrs : Blame("read", t)
  /\ UNCHANGED <<callVars, chanVars, quitVars, ioVars>>

\* Mutation: the loop does not look at IsQuit.
TimeoutTopForever ==
  /\ pc["timeout"] = "top"
  /\ Goto("timeout", "sample")
  /\ UNCHANGED <<callVars, chanVars, quitVars, typeVars, ioVars>>

TimeoutTop ==
  /\ pc["timeout"] = "top"
  /\ Goto("timeout", IF IsQuit THEN "exit" ELSE "sample")
  /\ UNCHANGED <<callVars, chanVars, quitVars, typeVars, ioVars>>

\* After the sleep: no timeout yet, or one is decided, or the first callback
\* panics, which ends the goroutine without a QuitFunc.
TimeoutSample ==
  /\ pc["timeout"] = "sample"
  /\ \/ \E l \in {"top", "exit"} : Goto("timeout", l) /\ UNCHANGED typeVars
     \/ \E t \in Timeouts : Blame("timeout", t)
  /\ UNCHANGED <<callVars, chanVars, quitVars, ioVars>>

-----------------------------------------------------------------------------
(* Run *)

RunStep(from, to) == pc["run"] = from /\ Goto("run", to)

\* servicer.Init succeeds and the workers are started.
RunInit ==
  /\ HasServicer /\ pc["run"] = "init"
  /\ pc' = [pc EXCEPT !["run"] = "start", !["write"] = "select", !["read"] = "top",
                      !["timeout"] = "top",
                      !["readchan"] = IF RunReadChan THEN "top" ELSE "off"]
  /\ UNCHANGED <<callVars, chanVars, quitVars, typeVars, ioVars>>

\* Init fails or there is no servicer; Start returns or fails; a context is done.
RunGoes ==
  /\ \/ RunStep("init", "test") \/ RunStep("start", "wait") \/ RunStep("start", "test")
     \/ (ctxDone \/ mainDone) /\ RunStep("wait", "test")
  /\ UNCHANGED <<callVars, chanVars, quitVars, typeVars, ioVars>>

\* servicer.Close is told the close type.
RunClose ==
  /\ RunStep("close", "quit")
  /\ told' = IF HasServicer THEN TypeClose ELSE None
  /\ UNCHANGED <<callVars, chanVars, quitVars, TypeClose, want, ioVars>>

\* QuitFunc has returned, the delay has passed, Conn.Close.
RunCloseConn ==
  /\ pc["once"] = "done"
  /\ RunStep("quit", "join")
  /\ connClosed' = TRUE
  /\ UNCHANGED <<callVars, chanVars, quitVars, typeVars, buffered, writerErr, flushArmed>>

\* Mutation: Run does not wait for its workers.
RunJoinAtOnce ==
  /\ RunStep("join", "write")
  /\ UNCHANGED <<callVars, chanVars, quitVars, typeVars, ioVars>>

\* WaitGroup.Wait
RunJoin ==
  /\ \A p \in Workers : pc[p] \in {"off", "exit"}
  /\ RunStep("join", "write")
  /\ UNCHANGED <<callVars, chanVars, quitVars, typeVars, ioVars>>

\* for msg := range writeChan { msg.Put() }, then the same for readChan.
RunDrain(k) ==
  /\ pc["run"] = k
  /\ \/ /\ Receive(k)
        /\ puts' = [puts EXCEPT ![Head(chan[k])] = @ + 1]
        /\ UNCHANGED pc
     \/ /\ chan[k] = <<>> /\ closed[k]
        /\ Goto("run", IF k = "write" THEN "readchan" ELSE "returned")
        /\ UNCHANGED <<callVars, chan>>
  /\ UNCHANGED <<closed, cur, quitVars, typeVars, ioVars>>

Run == RunInit \/ RunGoes \/ RunClose \/ RunCloseConn \/ RunJoin \/ \E k \in Kinds : RunDrain(k)

CallEnds == {"ok", "refused", "returned", "panicked"}

Terminated ==
  /\ pc["run"] = "returned" /\ \A c \in Calls : cpc[c] \in CallEnds
  /\ UNCHANGED vars

Next ==
  \/ \E c \in Calls : Caller(c)
  \/ \E p \in Procs : TestType(p) \/ SetType(p)
  \/ StartQuit \/ Cancel \/ (\E p \in Workers : WorkerEnd(p)) \/ ServiceQuit
  \/ \E k \in Kinds : CloseChan(k)
  \/ Write \/ ReadChan
  \/ ReadTop \/ ReadData \/ ReadFail \/ TimeoutTop \/ TimeoutSample
  \/ Run
  \/ Terminated

Spec == Init /\ [][Next]_vars

-----------------------------------------------------------------------------
(* Fairness.  Goroutines run and callbacks return; a read or write of the   *)
(* socket is sure to return only after Conn.Close.                          *)

CallGoesOn(c) == cpc[c] # "idle" /\ Caller(c)
SocketWrite == connClosed /\ Write
SocketRead == connClosed /\ (ReadData \/ ReadFail)

Fairness ==
  /\ \A c \in Calls : WF_vars(CallGoesOn(c))
  /\ \A p \in Procs : WF_vars(TestType(p) \/ SetType(p))
  /\ WF_vars(MemberQuit) /\ WF_vars(Cancel)
  /\ \A p \in Workers : WF_vars(WorkerEnd(p))
  /\ \A k \in Kinds : WF_vars(CloseChan(k))
  /\ WF_vars(WriteTake \/ WriteStop) /\ WF_vars(SocketWrite) /\ WF_vars(ReadChan)
  /\ WF_vars(ReadTop) /\ WF_vars(SocketRead) /\ WF_vars(TimeoutTop \/ TimeoutSample)
  /\ WF_vars(Run)

FairSpec == Spec /\ Fairness

-----------------------------------------------------------------------------
(* Properties *)

CallPcs == {"idle", "entered", "trysend", "select", "parked"} \cup CallEnds
ProcPcs == {"off", "init", "start", "top", "select", "handle", "drain", "blocked", "sample",
            "wait", "test", "set", "close", "cancel", "done", "finish", "quit", "exit",
            "join", "write", "readchan", "returned"}

CallType == cpc \in [Calls -> CallPcs] /\ puts \in [Calls -> Nat]
PcType == pc \in [Procs -> ProcPcs]
ChanType ==
  /\ chan \in [Kinds -> Seq(Calls)]
  /\ closed \in [Kinds -> BOOLEAN]
  /\ cur \in [Kinds -> Calls \cup {None}]
QuitType == IsQuit \in BOOLEAN /\ ctxDone \in BOOLEAN /\ mainDone \in BOOLEAN
ReasonType ==
  /\ TypeClose \in CloseTypes
  /\ want \in [Procs -> Reasons]
  /\ told \in CloseTypes \cup {None}
IoType ==
  /\ connClosed \in BOOLEAN /\ buffered \in BOOLEAN
  /\ writerErr \in BOOLEAN /\ flushArmed \in BOOLEAN

\* Every variable has its type.
TypeOK == CallType /\ PcType /\ ChanType /\ QuitType /\ ReasonType /\ IoType

Queued(c) == c \in Range(chan[Kind(c)])
Held(c) == cur[Kind(c)] = c

\* The reference a call passed on is never lost and never Put twice: a message
\* that was accepted is in the channel, or in its worker's hand, or was Put,
\* exactly one of the three; one that was not accepted is in neither place.
OneOwner ==
  \A c \in Calls :
    /\ puts[c] \in {0, 1}
    /\ cpc[c] = "ok" => (Queued(c) \/ Held(c)) = (puts[c] = 0) /\ ~(Queued(c) /\ Held(c))
    /\ cpc[c] # "ok" => ~Queued(c) /\ ~Held(c) /\ puts[c] = (IF cpc[c] = "returned" THEN 1 ELSE 0)

\* When Run returns no worker is left, both channels are closed and empty and
\* every message that was accepted has been given back to its pool.
NothingLeft ==
  pc["run"] = "returned" =>
    /\ \A p \in Workers : pc[p] \in {"off", "exit"}
    /\ \A k \in Kinds : closed[k] /\ chan[k] = <<>>
    /\ \A c \in Calls : cpc[c] = "ok" => puts[c] = 1

\* A sender is parked only on a full channel of a connection nobody has quit.
ParkedOnLive ==
  \A c \in Calls : cpc[c] = "parked" =>
    ~ctxDone /\ ~mainDone /\ ~closed[Kind(c)] /\ Len(chan[Kind(c)]) = Cap

\* Closing a channel never panics a call that was already waiting in its select.
ParkedNeverPanics == [][\A c \in Calls : cpc[c] = "parked" => cpc'[c] # "panicked"]_vars

\* No call panics by sending on a closed channel, when calls are not
\* descheduled for longer than the closer's sleep.
NoSendOnClosed == \A c \in Calls : cpc[c] # "panicked"

\* Bytes the pump leaves in the writer when it blocks have a timer armed that
\* will flush them, unless the writer keeps an error.
NoStuckBytes ==
  pc["write"] = "select" /\ buffered /\ ~writerErr => flushArmed

\* The pump does not end with bytes it did not try to flush.
PumpFlushes ==
  pc["write"] \in {"quit", "exit"} => ~buffered \/ writerErr

\* servicer.Close is never told TypClose, "not closing".
CloseTold == told # "TypClose"

\* Once a reason to close is recorded the connection never looks alive again.
NeverAlive == [][TypeClose # "TypClose" => TypeClose' # "TypClose"]_vars

\* After QuitFunc, or when its Service quits, the connection's Run returns,
\* whatever the workers and the callers do.
QuitReturns == IsQuit \/ mainDone ~> pc["run"] = "returned"
=============================================================================
