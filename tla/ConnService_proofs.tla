------------------------- MODULE ConnService_proofs -------------------------
(***************************************************************************)
(* Safety of the connection for every set of calls and every capacity: the *)
(* inductive invariant, and the theorems that follow from it.              *)
(***************************************************************************)
EXTENDS ConnService, TLAPS

\* The workers start only when Run leaves "init".
WorkersWait == pc["run"] = "init" => \A p \in Workers : pc[p] = "off"

\* A worker has a message in hand only while it handles one.
HandsEmpty ==
  /\ pc["write"] \notin {"handle", "test", "set", "finish"} => cur["write"] = None
  /\ pc["readchan"] # "handle" => cur["readchan"] = None

\* A channel holds at most Cap accepted messages of its own kind, none twice,
\* none of them Put.
QueueOK ==
  \A k \in Kinds :
    /\ Len(chan[k]) <= Cap
    /\ IsInjective(chan[k])
    /\ \A c \in Range(chan[k]) : Kind(c) = k /\ cpc[c] = "ok" /\ puts[c] = 0

\* So is a message in hand, and it is no longer in the channel.
HandOK ==
  \A k \in Kinds : cur[k] # None =>
    /\ Kind(cur[k]) = k
    /\ cpc[cur[k]] = "ok"
    /\ puts[cur[k]] = 0
    /\ cur[k] \notin Range(chan[k])

\* An accepted message that was not Put is in one of the two places.
NoneLost ==
  \A c \in Calls :
    /\ cpc[c] = "ok" => puts[c] \in {0, 1} /\ (puts[c] = 0 => Queued(c) \/ Held(c))
    /\ cpc[c] # "ok" => puts[c] = (IF cpc[c] = "returned" THEN 1 ELSE 0)

\* The channels are closed only after the context was cancelled.
CancelFirst == pc["closer"] \in Kinds => ctxDone

\* What Run has established after the Wait and after each drain.
RunOrder ==
  /\ pc["run"] \in Kinds \cup {"returned"} => \A p \in Workers : pc[p] \in {"off", "exit"}
  /\ pc["run"] \in {"readchan", "returned"} => closed["write"] /\ chan["write"] = <<>>
  /\ pc["run"] = "returned" => closed["readchan"] /\ chan["readchan"] = <<>>

\* Run records a reason before it tells the servicer.
ReasonFirst == pc["run"] = "close" => TypeClose # "TypClose"

Custody == HandsEmpty /\ QueueOK /\ HandOK /\ NoneLost

IInv ==
  /\ TypeOK /\ WorkersWait /\ Custody
  /\ ParkedOnLive /\ CancelFirst /\ RunOrder /\ ReasonFirst /\ CloseTold

-----------------------------------------------------------------------------
(* Type correctness *)

\* The literals that occur in the actions, so that the sets stay unexpanded.
LEMMA Literals ==
  /\ "idle" \in CallPcs /\ "entered" \in CallPcs /\ "trysend" \in CallPcs
  /\ "select" \in CallPcs /\ "parked" \in CallPcs /\ "ok" \in CallPcs
  /\ "refused" \in CallPcs /\ "returned" \in CallPcs /\ "panicked" \in CallPcs
  /\ "off" \in ProcPcs /\ "init" \in ProcPcs /\ "start" \in ProcPcs /\ "top" \in ProcPcs
  /\ "select" \in ProcPcs /\ "handle" \in ProcPcs /\ "drain" \in ProcPcs
  /\ "blocked" \in ProcPcs /\ "sample" \in ProcPcs /\ "wait" \in ProcPcs
  /\ "test" \in ProcPcs /\ "set" \in ProcPcs /\ "close" \in ProcPcs /\ "cancel" \in ProcPcs
  /\ "done" \in ProcPcs /\ "finish" \in ProcPcs /\ "quit" \in ProcPcs /\ "exit" \in ProcPcs
  /\ "join" \in ProcPcs /\ "write" \in ProcPcs /\ "readchan" \in ProcPcs
  /\ "returned" \in ProcPcs
  /\ "run" \in Procs /\ "once" \in Procs /\ "closer" \in Procs /\ Workers \subseteq Procs
  /\ "write" \in Workers /\ "read" \in Workers /\ "timeout" \in Workers
  /\ "readchan" \in Workers
  /\ "write" \in Kinds /\ "readchan" \in Kinds /\ Kinds \subseteq Workers
  BY DEF CallPcs, CallEnds, ProcPcs, Procs, Workers, Kinds

LEMMA TypeLiterals ==
  /\ "TypClose" \in CloseTypes /\ "TypCloseQuit" \in Reasons /\ "TypCloseErr" \in Reasons
  /\ Reasons \subseteq CloseTypes
  /\ Timeouts \subseteq Reasons /\ ReadErrs \subseteq Reasons /\ WriteErrs \subseteq Reasons
  BY TypeAssumption DEF CloseTypes, Reasons

LEMMA KindType == \A c \in Calls : Kind(c) \in Kinds
  BY DEF Kind, Kinds

LEMMA Frames ==
  /\ CallType /\ UNCHANGED callVars => CallType'
  /\ PcType /\ UNCHANGED pc => PcType'
  /\ ChanType /\ UNCHANGED chanVars => ChanType'
  /\ QuitType /\ UNCHANGED quitVars => QuitType'
  /\ ReasonType /\ UNCHANGED typeVars => ReasonType'
  /\ IoType /\ UNCHANGED ioVars => IoType'
  BY DEF CallType, PcType, ChanType, QuitType, ReasonType, IoType,
         callVars, chanVars, quitVars, typeVars, ioVars

LEMMA GotoType ==
  ASSUME PcType, NEW p \in Procs, NEW l \in ProcPcs, Goto(p, l)
  PROVE  PcType'
  BY DEF PcType, Goto

LEMMA CallStepType ==
  ASSUME CallType, NEW c \in Calls, NEW from, NEW to \in CallPcs, CallStep(c, from, to)
  PROVE  cpc' \in [Calls -> CallPcs]
  BY DEF CallType, CallStep

LEMMA BlameType ==
  ASSUME PcType, ReasonType, NEW p \in Procs, NEW t \in Reasons, Blame(p, t)
  PROVE  PcType' /\ ReasonType'
  BY Literals DEF PcType, ReasonType, Blame

LEMMA PutCurType ==
  ASSUME CallType, ChanType, NEW k \in Kinds, PutCur(k)
  PROVE  /\ puts' \in [Calls -> Nat]
         /\ cur' \in [Kinds -> Calls \cup {None}]
  BY DEF CallType, ChanType, PutCur

LEMMA FlushType ==
  ASSUME IoType, Flush, UNCHANGED <<connClosed>>
  PROVE  buffered' \in BOOLEAN /\ writerErr' \in BOOLEAN
  BY DEF IoType, Flush

LEMMA ReceiveType ==
  ASSUME CallType, ChanType, NEW k \in Kinds, Receive(k)
  PROVE  /\ chan' \in [Kinds -> Seq(Calls)]
         /\ cpc' \in [Calls -> CallPcs]
         /\ Head(chan[k]) \in Calls
<1>1. chan[k] \in Seq(Calls) /\ chan[k] # <<>>
  BY DEF ChanType, Receive
<1>2. Head(chan[k]) \in Calls /\ Tail(chan[k]) \in Seq(Calls)
  BY <1>1
<1>3. \A c \in Calls : Append(Tail(chan[k]), c) \in Seq(Calls)
  BY <1>2
<1>4. chan' \in [Kinds -> Seq(Calls)]
  BY <1>2, <1>3 DEF ChanType, Receive, ParkedOn
<1>5. cpc' \in [Calls -> CallPcs]
  BY Literals DEF CallType, Receive, ParkedOn
<1> QED  BY <1>2, <1>4, <1>5

LEMMA SendType ==
  ASSUME ChanType, NEW c \in Calls, Send(c)
  PROVE  ChanType'
<1>1. Kind(c) \in Kinds /\ chan[Kind(c)] \in Seq(Calls)
  BY KindType DEF ChanType
<1>2. Append(chan[Kind(c)], c) \in Seq(Calls)
  BY <1>1
<1> QED  BY <1>1, <1>2 DEF ChanType, Send

LEMMA InitType == Init => TypeOK
<1> SUFFICES ASSUME Init PROVE TypeOK
  OBVIOUS
<1>1. CallType
  BY Literals DEF Init, CallType
<1>2. PcType
  BY Literals DEF Init, PcType
<1>3. ChanType
  BY DEF Init, ChanType
<1>4. ReasonType
  BY TypeLiterals DEF Init, ReasonType
<1>5. QuitType /\ IoType
  BY DEF Init, QuitType, IoType
<1> QED  BY <1>1, <1>2, <1>3, <1>4, <1>5 DEF TypeOK

LEMMA TypeStep == TypeOK /\ [Next]_vars => TypeOK'
<1> SUFFICES ASSUME CallType, PcType, ChanType, QuitType, ReasonType, IoType, [Next]_vars
             PROVE  CallType' /\ PcType' /\ ChanType' /\ QuitType' /\ ReasonType' /\ IoType'
  BY DEF TypeOK
<1> DEFINE TypeOKNext == CallType' /\ PcType' /\ ChanType' /\ QuitType' /\ ReasonType' /\ IoType'
<1>1. ASSUME NEW c \in Calls, Caller(c) PROVE TypeOKNext
  <2>1. cpc' \in [Calls -> CallPcs]
    BY <1>1, Literals, CallStepType
    DEF Caller, Enter, TryCheck, TrySend, SelectSend, SelectOther, SendTimeout, RefPut
  <2>2. CASE Send(c) /\ UNCHANGED <<puts, pc, quitVars, typeVars, ioVars>>
    <3>1. CallType'
      BY <2>1, <2>2 DEF CallType
    <3> QED  BY <2>2, <3>1, SendType, Frames
  <2>3. CASE UNCHANGED <<puts, pc, chanVars, quitVars, typeVars, ioVars>>
    <3>1. CallType'
      BY <2>1, <2>3 DEF CallType
    <3> QED  BY <2>3, <3>1, Frames
  <2>4. CASE RefPut(c)
    <3>1. CallType'
      BY <2>1, <2>4 DEF CallType, RefPut
    <3> QED  BY <2>4, <3>1, Frames DEF RefPut
  <2> QED
    BY <1>1, <2>2, <2>3, <2>4
    DEF Caller, Enter, TryCheck, TrySend, SelectSend, Send, SelectOther, SendTimeout
<1>2. ASSUME NEW p \in Procs, TestType(p) \/ SetType(p) PROVE TypeOKNext
  <2>1. After(p) \subseteq ProcPcs /\ "set" \in ProcPcs
    BY Literals DEF After
  <2>2. PcType'
    BY <1>2, <2>1, GotoType DEF TestType, SetType
  <2>3. ReasonType'
    BY <1>2, TypeLiterals DEF TestType, SetType, ReasonType
  <2> QED  BY <1>2, <2>2, <2>3, Frames DEF TestType, SetType
<1>3. CASE StartQuit
  <2>1. PcType' /\ QuitType'
    BY <1>3, Literals, GotoType DEF StartQuit, QuitType
  <2> QED  BY <1>3, <2>1, Frames DEF StartQuit

<1>4. CASE Cancel
  <2>1. PcType'
    BY <1>4, Literals DEF Cancel, PcType
  <2>2. CallType' /\ QuitType'
    BY <1>4, Literals DEF Cancel, CallType, QuitType, Unparked
  <2> QED  BY <1>4, <2>1, <2>2, Frames DEF Cancel
<1>5. CASE ServiceQuit
  <2>1. CallType' /\ QuitType'
    BY <1>5, Literals DEF ServiceQuit, CallType, QuitType, Unparked
  <2> QED  BY <1>5, <2>1, Frames DEF ServiceQuit
<1>6. ASSUME NEW p \in Workers, WorkerEnd(p) PROVE TypeOKNext
  BY <1>6, Literals, GotoType, Frames DEF WorkerEnd
<1>7. ASSUME NEW k \in Kinds, CloseChan(k) PROVE TypeOKNext
  <2>1. PcType'
    BY <1>7, Literals, GotoType DEF CloseChan
  <2>2. CallType' /\ ChanType'
    BY <1>7, Literals DEF CloseChan, CallType, ChanType, ParkedOn
  <2> QED  BY <1>7, <2>1, <2>2, Frames DEF CloseChan
<1>8. CASE Write
  <2>1. CASE WriteTake
    <3>1. PcType'
      BY <2>1, Literals, GotoType DEF WriteTake, WriteStep
    <3>2. CallType' /\ ChanType' /\ IoType'
      BY <2>1, Literals, ReceiveType DEF WriteTake, CallType, ChanType, IoType
    <3> QED  BY <2>1, <3>1, <3>2, Frames DEF WriteTake
  <2>2. CASE WriteDiscard
    <3>1. PcType'
      BY <2>2, Literals, GotoType DEF WriteDiscard, WriteStep
    <3>2. CallType' /\ ChanType'
      BY <2>2, Literals, PutCurType DEF WriteDiscard, CallType, ChanType
    <3> QED  BY <2>2, <3>1, <3>2, Frames DEF WriteDiscard
  <2>3. CASE WriteOk
    <3>1. PcType'
      BY <2>3, Literals, GotoType DEF WriteOk, WriteStep
    <3>2. CallType' /\ ChanType' /\ IoType'
      BY <2>3, Literals, PutCurType DEF WriteOk, CallType, ChanType, IoType
    <3> QED  BY <2>3, <3>1, <3>2, Frames DEF WriteOk
  <2>4. CASE WriteFail
    <3>1. PcType' /\ ReasonType'
      BY <2>4, Literals, TypeLiterals, GotoType, BlameType, Frames DEF WriteFail, WriteStep
    <3>2. IoType'
      BY <2>4, Frames DEF WriteFail, IoType
    <3> QED  BY <2>4, <3>1, <3>2, Frames DEF WriteFail
  <2>5. CASE WriteDrained \/ FlushTimeout
    <3>1. PcType'
      BY <2>5, Literals, GotoType, Frames DEF WriteDrained, FlushTimeout, WriteStep
    <3>2. IoType'
      BY <2>5, FlushType DEF WriteDrained, FlushTimeout, IoType
    <3> QED  BY <2>5, <3>1, <3>2, Frames DEF WriteDrained, FlushTimeout
  <2>6. CASE WriteStop
    BY <2>6, Literals, GotoType, Frames DEF WriteStop, WriteStep
  <2>7. CASE WriteFinish
    <3>1. PcType'
      BY <2>7, Literals, GotoType DEF WriteFinish, WriteStep
    <3>2. CallType' /\ ChanType' /\ IoType'
      BY <2>7, Literals, PutCurType, FlushType DEF WriteFinish, CallType, ChanType, IoType
    <3> QED  BY <2>7, <3>1, <3>2, Frames DEF WriteFinish
  <2> QED  BY <1>8, <2>1, <2>2, <2>3, <2>4, <2>5, <2>6, <2>7 DEF Write
<1>9. CASE ReadChan
  <2>1. CASE ReadChanTake
    <3>1. PcType'
      BY <2>1, Literals, GotoType DEF ReadChanTake, ReadChanStep
    <3>2. CallType' /\ ChanType'
      BY <2>1, Literals, ReceiveType DEF ReadChanTake, CallType, ChanType
    <3> QED  BY <2>1, <3>1, <3>2, Frames DEF ReadChanTake
  <2>2. CASE ReadChanHandle
    <3>1. PcType'
      BY <2>2, Literals, GotoType DEF ReadChanHandle, ReadChanStep
    <3>2. CallType' /\ ChanType'
      BY <2>2, Literals, PutCurType DEF ReadChanHandle, CallType, ChanType
    <3> QED  BY <2>2, <3>1, <3>2, Frames DEF ReadChanHandle
  <2>3. CASE ReadChanTop \/ ReadChanStop \/ ReadChanDone
    BY <2>3, Literals, GotoType, Frames DEF ReadChanTop, ReadChanStop, ReadChanDone, ReadChanStep
  <2> QED  BY <1>9, <2>1, <2>2, <2>3 DEF ReadChan
<1>10. CASE ReadTop \/ ReadData \/ TimeoutTop
  BY <1>10, Literals, GotoType, Frames DEF ReadTop, ReadData, TimeoutTop
<1>11. CASE ReadFail \/ TimeoutSample
  BY <1>11, Literals, TypeLiterals, GotoType, BlameType, Frames DEF ReadFail, TimeoutSample
<1>12. CASE Run
  <2>1. CASE RunInit
    <3>1. PcType'
      BY <2>1, Literals DEF RunInit, PcType
    <3> QED  BY <2>1, <3>1, Frames DEF RunInit
  <2>2. CASE RunGoes \/ RunJoin
    BY <2>2, Literals, GotoType, Frames DEF RunGoes, RunJoin, RunStep
  <2>3. CASE RunClose
    <3>1. PcType' /\ ReasonType'
      BY <2>3, Literals, GotoType DEF RunClose, RunStep, ReasonType
    <3> QED  BY <2>3, <3>1, Frames DEF RunClose
  <2>4. CASE RunCloseConn
    <3>1. PcType' /\ IoType'
      BY <2>4, Literals, GotoType DEF RunCloseConn, RunStep, IoType
    <3> QED  BY <2>4, <3>1, Frames DEF RunCloseConn
  <2>5. ASSUME NEW k \in Kinds, RunDrain(k) PROVE TypeOKNext
    <3>1. CASE Receive(k) /\ puts' = [puts EXCEPT ![Head(chan[k])] = @ + 1] /\ UNCHANGED pc
      <4>1. CallType' /\ ChanType'
        BY <2>5, <3>1, ReceiveType DEF RunDrain, CallType, ChanType
      <4> QED  BY <2>5, <3>1, <4>1, Frames DEF RunDrain
    <3>2. CASE UNCHANGED <<callVars, chan>>
                /\ Goto("run", IF k = "write" THEN "readchan" ELSE "returned")
      <4>1. PcType'
        BY <3>2, Literals, GotoType
      <4>2. ChanType'
        BY <2>5, <3>2 DEF RunDrain, ChanType
      <4> QED  BY <2>5, <3>2, <4>1, <4>2, Frames DEF RunDrain
    <3> QED  BY <2>5, <3>1, <3>2 DEF RunDrain
  <2> QED  BY <1>12, <2>1, <2>2, <2>3, <2>4, <2>5 DEF Run
<1>13. CASE UNCHANGED vars
  BY <1>13, Frames DEF vars
<1> QED
  BY <1>1, <1>2, <1>3, <1>4, <1>5, <1>6, <1>7, <1>8, <1>9, <1>10, <1>11, <1>12, <1>13
  DEF Next, Terminated

\* The variables keep their types, whatever the calls and the capacity.
THEOREM TypeCorrect == Spec => []TypeOK
BY InitType, TypeStep, PTL DEF Spec

-----------------------------------------------------------------------------
(* Custody of messages *)

LEMMA AppendRange ==
  ASSUME NEW S, NEW s \in Seq(S), NEW e \in S
  PROVE  /\ Append(s, e) \in Seq(S) /\ Len(Append(s, e)) = Len(s) + 1
         /\ Range(Append(s, e)) = Range(s) \cup {e}
         /\ IsInjective(s) /\ e \notin Range(s) => IsInjective(Append(s, e))
<1>1. /\ Append(s, e) \in Seq(S) /\ Len(Append(s, e)) = Len(s) + 1 /\ Len(s) \in Nat
      /\ DOMAIN s = 1 .. Len(s) /\ DOMAIN Append(s, e) = 1 .. Len(s) + 1
      /\ \A i \in 1 .. Len(s) : Append(s, e)[i] = s[i]
      /\ Append(s, e)[Len(s) + 1] = e
  OBVIOUS
<1>2. 1 .. Len(s) + 1 = (1 .. Len(s)) \cup {Len(s) + 1}
  BY <1>1
<1>3. Range(Append(s, e)) = Range(s) \cup {e}
  <2>1. \A x \in Range(Append(s, e)) : x \in Range(s) \cup {e}
    <3> SUFFICES ASSUME NEW i \in 1 .. Len(s) + 1
                 PROVE  Append(s, e)[i] \in Range(s) \cup {e}
      BY <1>1, Zenon DEF Range
    <3>1. CASE i \in 1 .. Len(s)
      BY <1>1, <3>1, Zenon DEF Range
    <3>2. CASE i = Len(s) + 1
      BY <1>1, <3>2, Zenon
    <3>3. QED BY <1>2, <3>1, <3>2
  <2>2. \A i \in 1 .. Len(s) : s[i] \in Range(Append(s, e))
    BY <1>1, <1>2, Zenon DEF Range
  <2>3. Range(s) \subseteq Range(Append(s, e))
    BY <1>1, <2>2, Zenon DEF Range
  <2>4. e \in Range(Append(s, e))
    <3>1. Len(s) + 1 \in 1 .. Len(s) + 1
      BY <1>1
    <3>2. QED BY <1>1, <3>1, Zenon DEF Range
  <2>5. QED BY <2>1, <2>3, <2>4
<1>4. IsInjective(s) /\ e \notin Range(s) => IsInjective(Append(s, e))
  <2> SUFFICES ASSUME IsInjective(s), e \notin Range(s),
                      NEW i \in 1 .. Len(s) + 1, NEW j \in 1 .. Len(s) + 1,
                      Append(s, e)[i] = Append(s, e)[j]
               PROVE  i = j
    BY <1>1, Zenon DEF IsInjective
  <2>1. \A n \in 1 .. Len(s) : s[n] # e
    BY <1>1, Zenon DEF Range
  <2>2. CASE i = Len(s) + 1 \/ j = Len(s) + 1
    BY <1>1, <2>1, <2>2
  <2>3. CASE i \in 1 .. Len(s) /\ j \in 1 .. Len(s)
    BY <1>1, <2>3, Zenon DEF IsInjective
  <2> QED  BY <1>2, <2>2, <2>3
<1> QED  BY <1>1, <1>3, <1>4

LEMMA TailRange ==
  ASSUME NEW S, NEW s \in Seq(S), s # <<>>
  PROVE  /\ Tail(s) \in Seq(S) /\ Len(Tail(s)) = Len(s) - 1
         /\ Head(s) \in Range(s)
         /\ IsInjective(s) => /\ Range(Tail(s)) = Range(s) \ {Head(s)}
                              /\ IsInjective(Tail(s))
<1>1. /\ Tail(s) \in Seq(S) /\ Len(Tail(s)) = Len(s) - 1 /\ Len(s) \in Nat \ {0}
      /\ DOMAIN s = 1 .. Len(s) /\ DOMAIN Tail(s) = 1 .. Len(s) - 1
      /\ \A i \in 1 .. Len(s) - 1 : Tail(s)[i] = s[i + 1]
      /\ Head(s) = s[1]
  OBVIOUS
<1>2. Head(s) \in Range(s)
  BY <1>1 DEF Range
<1>3. ASSUME IsInjective(s)
      PROVE  Range(Tail(s)) = Range(s) \ {Head(s)} /\ IsInjective(Tail(s))
  <2>1. Range(Tail(s)) \subseteq Range(s) \ {Head(s)}
    BY <1>1, <1>3 DEF Range, IsInjective
  <2>2. ASSUME NEW x \in Range(s) \ {Head(s)} PROVE x \in Range(Tail(s))
    <3>1. PICK i \in 1 .. Len(s) : x = s[i]
      BY <1>1 DEF Range
    <3>2. i # 1 /\ i - 1 \in 1 .. Len(s) - 1 /\ (i - 1) + 1 = i
      BY <1>1, <3>1
    <3>3. Tail(s)[i - 1] = x
      BY <1>1, <3>1, <3>2
    <3> QED  BY <1>1, <3>2, <3>3 DEF Range
  <2>3. IsInjective(Tail(s))
    <3> SUFFICES ASSUME NEW i \in 1 .. Len(s) - 1, NEW j \in 1 .. Len(s) - 1,
                        Tail(s)[i] = Tail(s)[j]
                 PROVE  i = j
      BY <1>1 DEF IsInjective
    <3>1. i + 1 \in DOMAIN s /\ j + 1 \in DOMAIN s /\ s[i + 1] = s[j + 1]
      BY <1>1
    <3>2. i + 1 = j + 1
      BY <3>1, <1>3 DEF IsInjective
    <3> QED  BY <3>2
  <2> QED  BY <2>1, <2>2, <2>3
<1> QED  BY <1>1, <1>2, <1>3

\* Steps that neither accept nor release a message.
LEMMA MoveCustody ==
  ASSUME QueueOK, HandOK, NoneLost, CallType, ChanType,
         UNCHANGED <<puts, chan, cur>>,
         \A c \in Calls :
           \/ cpc'[c] = cpc[c]
           \/ cpc[c] \notin {"ok", "returned"} /\ cpc'[c] \notin {"ok", "returned"}
  PROVE  QueueOK' /\ HandOK' /\ NoneLost'
<1>1. \A k \in Kinds : Range(chan[k]) \subseteq Calls
  BY DEF ChanType, Range
<1>2. \A c \in Calls : cpc[c] = "ok" <=> cpc'[c] = "ok"
  OBVIOUS
<1>3. QueueOK'
  BY <1>1, <1>2 DEF QueueOK
<1>4. HandOK'
  BY <1>2 DEF HandOK, ChanType
<1>5. NoneLost'
  BY <1>2 DEF NoneLost, Queued, Held
<1> QED  BY <1>3, <1>4, <1>5

LEMMA SendCustody ==
  ASSUME QueueOK, HandOK, NoneLost, CallType, ChanType,
         NEW c \in Calls, Send(c), cpc[c] \in {"trysend", "select"},
         cpc' = [cpc EXCEPT ![c] = "ok"]
  PROVE  QueueOK' /\ HandOK' /\ NoneLost'
<1> DEFINE k == Kind(c)
<1>1. /\ k \in Kinds /\ chan[k] \in Seq(Calls) /\ puts[c] = 0
      /\ UNCHANGED <<puts, cur>>
      /\ \A j \in Kinds : chan'[j] = IF j = k THEN Append(chan[k], c) ELSE chan[j]
      /\ \A d \in Calls : cpc'[d] = IF d = c THEN "ok" ELSE cpc[d]
  BY KindType DEF ChanType, CallType, NoneLost, Send
<1>2. \A j \in Kinds : Range(chan[j]) \subseteq Calls \ {c}
  BY DEF ChanType, QueueOK, Range
<1>3. /\ Len(Append(chan[k], c)) = Len(chan[k]) + 1
      /\ Range(Append(chan[k], c)) = Range(chan[k]) \cup {c}
      /\ IsInjective(Append(chan[k], c))
  BY <1>1, <1>2, AppendRange DEF QueueOK
<1>4. Len(chan[k]) + 1 <= Cap
  BY <1>1, CapAssumption DEF Send, HasRoom
<1>5. QueueOK'
  <2> SUFFICES ASSUME NEW j \in Kinds
               PROVE  /\ Len(chan'[j]) <= Cap /\ IsInjective(chan'[j])
                      /\ \A d \in Range(chan'[j]) :
                           Kind(d) = j /\ cpc'[d] = "ok" /\ puts[d] = 0
    BY <1>1 DEF QueueOK
  <2>1. CASE j = k
    <3>1. chan'[j] = Append(chan[k], c)
      BY <1>1, <2>1
    <3>2. ASSUME NEW d \in Range(chan[k])
          PROVE  Kind(d) = j /\ cpc'[d] = "ok" /\ puts[d] = 0
      BY <1>1, <1>2, <2>1 DEF QueueOK
    <3>3. Kind(c) = j /\ cpc'[c] = "ok" /\ puts[c] = 0
      BY <1>1, <2>1
    <3>4. QED BY <1>3, <1>4, <3>1, <3>2, <3>3
  <2>2. CASE j # k
    BY <1>1, <1>2, <2>2 DEF QueueOK
  <2> QED  BY <2>1, <2>2
<1>6. HandOK'
  <2> SUFFICES ASSUME NEW j \in Kinds, cur[j] # None
               PROVE  /\ Kind(cur[j]) = j /\ cpc'[cur[j]] = "ok" /\ puts[cur[j]] = 0
                      /\ cur[j] \notin Range(chan'[j])
    BY <1>1 DEF HandOK
  <2>1. cur[j] \in Calls \ {c}
    BY DEF HandOK, ChanType
  <2> QED  BY <1>1, <1>3, <2>1 DEF HandOK
<1>7. NoneLost'
  <2> SUFFICES ASSUME NEW d \in Calls
               PROVE  /\ cpc'[d] = "ok" => puts[d] \in {0, 1} /\ (puts[d] = 0 => Queued(d)' \/ Held(d)')
                      /\ cpc'[d] # "ok" => puts[d] = (IF cpc'[d] = "returned" THEN 1 ELSE 0)
    BY <1>1 DEF NoneLost
  <2>1. Kind(d) \in Kinds /\ Range(chan[Kind(d)]) \subseteq Range(chan'[Kind(d)])
    BY <1>1, <1>3, KindType
  <2>2. CASE d = c
    BY <1>1, <1>3, <2>2 DEF Queued
  <2>3. CASE d # c
    BY <1>1, <2>1, <2>3 DEF NoneLost, Queued, Held
  <2> QED  BY <2>2, <2>3
<1> QED  BY <1>5, <1>6, <1>7

\* A receive takes the head m out of its channel; a parked sender may come in.
LEMMA ReceiveCustody ==
  ASSUME QueueOK, NoneLost, CallType, ChanType,
         NEW k \in Kinds, Receive(k), NEW m, m = Head(chan[k])
  PROVE  /\ m \in Calls /\ Kind(m) = k /\ puts[m] = 0 /\ cpc[m] = "ok"
         /\ \A j \in Kinds :
              /\ Len(chan'[j]) <= Cap /\ IsInjective(chan'[j])
              /\ \A c \in Range(chan'[j]) :
                   /\ Kind(c) = j /\ cpc'[c] = "ok" /\ puts[c] = 0 /\ c # m
                   /\ c \in Range(chan[j]) \/ cpc[c] = "parked"
         /\ \A c \in Calls :
              /\ cpc[c] = "ok" => cpc'[c] = "ok"
              /\ cpc'[c] = "ok" => puts[c] \in {0, 1}
              /\ cpc'[c] = "ok" /\ puts[c] = 0 /\ c # m => Queued(c)' \/ Held(c)
              /\ cpc'[c] # "ok" => cpc'[c] = cpc[c]
<1> DEFINE t == Tail(chan[k])
<1>1. chan[k] \in Seq(Calls) /\ chan[k] # <<>> /\ IsInjective(chan[k])
  BY DEF ChanType, Receive, QueueOK
<1>2. /\ t \in Seq(Calls) /\ Len(t) = Len(chan[k]) - 1 /\ Len(chan[k]) \in Nat
      /\ m \in Range(chan[k]) /\ Range(t) = Range(chan[k]) \ {m} /\ IsInjective(t)
  BY <1>1, TailRange
<1>3. /\ Len(chan[k]) <= Cap /\ Cap \in Nat
      /\ \A j \in Kinds : Range(chan[j]) \subseteq Calls
      /\ \A j \in Kinds : \A c \in Range(chan[j]) : Kind(c) = j /\ cpc[c] = "ok" /\ puts[c] = 0
  BY CapAssumption DEF QueueOK, ChanType, Range
<1>4. m \in Calls /\ Kind(m) = k /\ puts[m] = 0 /\ cpc[m] = "ok"
  BY <1>2, <1>3
<1>5. CASE chan' = [chan EXCEPT ![k] = t] /\ cpc' = cpc
  <2>1. \A j \in Kinds : chan'[j] = IF j = k THEN t ELSE chan[j]
    BY <1>5 DEF ChanType
  <2>2. ASSUME NEW j \in Kinds
        PROVE  /\ Len(chan'[j]) <= Cap /\ IsInjective(chan'[j])
               /\ \A c \in Range(chan'[j]) :
                    /\ Kind(c) = j /\ cpc'[c] = "ok" /\ puts[c] = 0 /\ c # m
                    /\ c \in Range(chan[j])
    <3>1. CASE j = k
      BY <1>2, <1>3, <1>5, <2>1, <3>1
    <3>2. CASE j # k
      BY <1>3, <1>4, <1>5, <2>1, <3>2 DEF QueueOK
    <3> QED  BY <3>1, <3>2
  <2>3. ASSUME NEW c \in Calls
        PROVE  /\ cpc'[c] = "ok" => puts[c] \in {0, 1}
               /\ cpc'[c] = "ok" /\ puts[c] = 0 /\ c # m => Queued(c)' \/ Held(c)
    BY <1>2, <1>5, <2>1, KindType DEF NoneLost, Queued
  <2> QED  BY <1>4, <1>5, <2>2, <2>3
<1>6. ASSUME NEW p \in ParkedOn(k),
             chan' = [chan EXCEPT ![k] = Append(t, p)], cpc' = [cpc EXCEPT ![p] = "ok"]
      PROVE  /\ \A j \in Kinds :
                  /\ Len(chan'[j]) <= Cap /\ IsInjective(chan'[j])
                  /\ \A c \in Range(chan'[j]) :
                       /\ Kind(c) = j /\ cpc'[c] = "ok" /\ puts[c] = 0 /\ c # m
                       /\ c \in Range(chan[j]) \/ cpc[c] = "parked"
             /\ \A c \in Calls :
                  /\ cpc[c] = "ok" => cpc'[c] = "ok"
                  /\ cpc'[c] = "ok" => puts[c] \in {0, 1}
                  /\ cpc'[c] = "ok" /\ puts[c] = 0 /\ c # m => Queued(c)' \/ Held(c)
                  /\ cpc'[c] # "ok" => cpc'[c] = cpc[c]
  <2>1. /\ p \in Calls /\ Kind(p) = k /\ cpc[p] = "parked" /\ puts[p] = 0
        /\ \A c \in Calls : cpc'[c] = IF c = p THEN "ok" ELSE cpc[c]
        /\ \A j \in Kinds : chan'[j] = IF j = k THEN Append(t, p) ELSE chan[j]
    BY <1>6 DEF ParkedOn, ChanType, CallType, NoneLost
  <2>2. \A j \in Kinds : p \notin Range(chan[j])
    BY <1>3, <2>1
  <2>3. /\ Len(Append(t, p)) = Len(chan[k]) /\ IsInjective(Append(t, p))
        /\ Range(Append(t, p)) = (Range(chan[k]) \ {m}) \cup {p}
    <3> HIDE DEF t
    <3>1. p \notin Range(t)
      BY <1>2, <2>2
    <3>2. /\ Len(Append(t, p)) = Len(t) + 1 /\ Range(Append(t, p)) = Range(t) \cup {p}
          /\ IsInjective(Append(t, p))
      BY <1>2, <2>1, <3>1, AppendRange
    <3> QED  BY <1>2, <3>2
  <2>4. ASSUME NEW j \in Kinds
        PROVE  /\ Len(chan'[j]) <= Cap /\ IsInjective(chan'[j])
               /\ \A c \in Range(chan'[j]) :
                    /\ Kind(c) = j /\ cpc'[c] = "ok" /\ puts[c] = 0 /\ c # m
                    /\ c \in Range(chan[j]) \/ cpc[c] = "parked"
    <3>1. CASE j = k
      <4>1. chan'[j] = Append(t, p)
        BY <2>1, <3>1
      <4>2. \A c \in Range(chan'[j]) : c = p \/ c \in Range(chan[j]) \ {m}
        BY <2>3, <3>1, <4>1
      <4>3. p # m
        BY <1>2, <2>2
      <4> QED  BY <1>3, <2>1, <2>3, <3>1, <4>1, <4>2, <4>3
    <3>2. CASE j # k
      <4>1. chan'[j] = chan[j] /\ Len(chan[j]) <= Cap /\ IsInjective(chan[j])
        BY <2>1, <3>2 DEF QueueOK
      <4>2. \A c \in Range(chan[j]) : c \in Calls /\ c # p /\ c # m
        BY <1>3, <1>4, <2>2, <3>2
      <4> QED  BY <1>3, <2>1, <4>1, <4>2
    <3> QED  BY <3>1, <3>2
  <2>5. ASSUME NEW c \in Calls
        PROVE  /\ cpc'[c] = "ok" => puts[c] \in {0, 1}
               /\ cpc'[c] = "ok" /\ puts[c] = 0 /\ c # m => Queued(c)' \/ Held(c)
    <3>1. CASE c = p
      BY <2>1, <2>3, <3>1 DEF Queued
    <3>2. CASE c # p
      BY <2>1, <2>3, <3>2, KindType DEF NoneLost, Queued
    <3> QED  BY <3>1, <3>2
  <2> QED  BY <2>1, <2>4, <2>5
<1> QED  BY <1>4, <1>5, <1>6 DEF Receive

LEMMA TakeCustody ==
  ASSUME QueueOK, HandOK, NoneLost, CallType, ChanType,
         NEW k \in Kinds, Receive(k), cur[k] = None, UNCHANGED puts,
         cur' = [cur EXCEPT ![k] = Head(chan[k])]
  PROVE  QueueOK' /\ HandOK' /\ NoneLost'
<1> DEFINE m == Head(chan[k])
<1>0. \A j \in Kinds : cur'[j] = IF j = k THEN m ELSE cur[j]
  BY DEF ChanType
<1>1. QueueOK'
  BY ReceiveCustody DEF QueueOK
<1>2. HandOK'
  <2> SUFFICES ASSUME NEW j \in Kinds, cur'[j] # None
               PROVE  /\ Kind(cur'[j]) = j /\ cpc'[cur'[j]] = "ok" /\ puts[cur'[j]] = 0
                      /\ cur'[j] \notin Range(chan'[j])
    BY DEF HandOK
  <2>1. CASE j = k
    BY <1>0, <2>1, ReceiveCustody
  <2>2. CASE j # k
    <3>1. /\ cur'[j] = cur[j] /\ cur[j] \in Calls /\ Kind(cur[j]) = j
          /\ cpc[cur[j]] = "ok" /\ puts[cur[j]] = 0 /\ cur[j] \notin Range(chan[j])
      BY <1>0, <2>2 DEF HandOK, ChanType
    <3> QED  BY <3>1, ReceiveCustody
  <2> QED  BY <2>1, <2>2
<1>3. NoneLost'
  <2> SUFFICES ASSUME NEW c \in Calls
               PROVE  /\ cpc'[c] = "ok" => puts[c] \in {0, 1} /\ (puts[c] = 0 => Queued(c)' \/ Held(c)')
                      /\ cpc'[c] # "ok" => puts[c] = (IF cpc'[c] = "returned" THEN 1 ELSE 0)
    BY DEF NoneLost
  <2>1. CASE c = m
    BY <1>0, <2>1, ReceiveCustody DEF Held
  <2>2. CASE c # m
    <3>1. Held(c) => Held(c)'
      BY <1>0, KindType, NoneAssumption DEF Held, None, Calls
    <3> QED  BY <2>2, <3>1, ReceiveCustody DEF NoneLost
  <2> QED  BY <2>1, <2>2
<1> QED  BY <1>1, <1>2, <1>3

\* Run's drain puts the message it receives.
LEMMA DrainCustody ==
  ASSUME QueueOK, HandOK, NoneLost, CallType, ChanType,
         NEW k \in Kinds, Receive(k), UNCHANGED cur,
         puts' = [puts EXCEPT ![Head(chan[k])] = @ + 1]
  PROVE  QueueOK' /\ HandOK' /\ NoneLost'
<1> DEFINE m == Head(chan[k])
<1>0. m \in Range(chan[k]) /\ \A c \in Calls : puts'[c] = IF c = m THEN 1 ELSE puts[c]
  <2>1. m \in Range(chan[k])
    BY TailRange DEF ChanType, Receive
  <2> QED  BY <2>1, ReceiveCustody DEF CallType
<1>1. QueueOK'
  <2> SUFFICES ASSUME NEW j \in Kinds
               PROVE  /\ Len(chan'[j]) <= Cap /\ IsInjective(chan'[j])
                      /\ \A c \in Range(chan'[j]) :
                           Kind(c) = j /\ cpc'[c] = "ok" /\ puts'[c] = 0
    BY DEF QueueOK
  <2>1. Range(chan'[j]) \subseteq Calls
    BY ReceiveType DEF Range
  <2> QED  BY <1>0, <2>1, ReceiveCustody
<1>2. HandOK'
  <2> SUFFICES ASSUME NEW j \in Kinds, cur[j] # None
               PROVE  /\ Kind(cur[j]) = j /\ cpc'[cur[j]] = "ok" /\ puts'[cur[j]] = 0
                      /\ cur[j] \notin Range(chan'[j])
    BY DEF HandOK
  <2>1. /\ cur[j] \in Calls /\ Kind(cur[j]) = j
        /\ cpc[cur[j]] = "ok" /\ puts[cur[j]] = 0 /\ cur[j] \notin Range(chan[j])
    BY DEF HandOK, ChanType
  <2>2. cur[j] # m
    BY <1>0, <2>1, ReceiveCustody
  <2> QED  BY <1>0, <2>1, <2>2, ReceiveCustody
<1>3. NoneLost'
  <2> SUFFICES ASSUME NEW c \in Calls
               PROVE  /\ cpc'[c] = "ok" =>
                           puts'[c] \in {0, 1} /\ (puts'[c] = 0 => Queued(c)' \/ Held(c)')
                      /\ cpc'[c] # "ok" => puts'[c] = (IF cpc'[c] = "returned" THEN 1 ELSE 0)
    BY DEF NoneLost
  <2>1. CASE c = m
    BY <1>0, <2>1, ReceiveCustody
  <2>2. CASE c # m
    BY <1>0, <2>2, ReceiveCustody DEF NoneLost, Held
  <2> QED  BY <2>1, <2>2
<1> QED  BY <1>1, <1>2, <1>3

LEMMA PutCustody ==
  ASSUME QueueOK, HandOK, NoneLost, CallType, ChanType,
         NEW k \in Kinds, PutCur(k), UNCHANGED <<cpc, chan>>
  PROVE  QueueOK' /\ HandOK' /\ NoneLost'
<1>1. CASE cur[k] = None
  <2>1. UNCHANGED <<puts, cpc, chan>> /\ \A j \in Kinds : cur'[j] = cur[j]
    BY <1>1 DEF PutCur, ChanType
  <2>2. NoneLost'
    BY <2>1, KindType DEF NoneLost, Queued, Held
  <2> QED  BY <2>1, <2>2 DEF QueueOK, HandOK
<1>2. CASE cur[k] # None
  <2>1. /\ cur[k] \in Calls /\ Kind(cur[k]) = k /\ cpc[cur[k]] = "ok"
        /\ puts[cur[k]] = 0 /\ cur[k] \notin Range(chan[k])
    BY <1>2 DEF HandOK, ChanType
  <2>2. /\ \A c \in Calls : puts'[c] = IF c = cur[k] THEN 1 ELSE puts[c]
        /\ \A j \in Kinds : cur'[j] = IF j = k THEN None ELSE cur[j]
    BY <1>2, <2>1 DEF PutCur, CallType, ChanType
  <2>3. QueueOK'
    <3>1. \A j \in Kinds : \A c \in Range(chan[j]) : c \in Calls /\ c # cur[k]
      BY <2>1 DEF QueueOK, ChanType, Range
    <3> QED  BY <2>2, <3>1 DEF QueueOK
  <2>4. HandOK'
    <3>1. \A j \in Kinds \ {k} : cur[j] # None => cur[j] \in Calls /\ cur[j] # cur[k]
      BY <2>1 DEF HandOK, ChanType
    <3> QED  BY <2>2, <3>1 DEF HandOK
  <2>5. NoneLost'
    <3>1. \A c \in Calls : c # cur[k] /\ Held(c) => Held(c)'
      BY <2>2, KindType DEF Held
    <3> QED  BY <2>1, <2>2, <3>1 DEF NoneLost, Queued
  <2> QED  BY <2>3, <2>4, <2>5
<1> QED  BY <1>1, <1>2

Busy == {"handle", "test", "set", "finish"}   \* where Write may hold a message

LEMMA HandsKept ==
  ASSUME HandsEmpty, UNCHANGED cur,
         pc'["write"] = pc["write"] \/ pc'["write"] \in Busy \/ cur["write"] = None,
         pc'["readchan"] = pc["readchan"] \/ cur["readchan"] = None
  PROVE  HandsEmpty'
  BY DEF HandsEmpty, Busy

\* A goroutine other than the two pumps moves.
LEMMA OtherMoves ==
  ASSUME PcType, HandsEmpty, UNCHANGED cur,
         NEW p \in Procs \ Kinds, NEW l, Goto(p, l)
  PROVE  HandsEmpty'
  BY DEF PcType, HandsEmpty, Goto, Kinds

LEMMA HandsStep == TypeOK /\ WorkersWait /\ HandsEmpty /\ [Next]_vars => HandsEmpty'
<1> SUFFICES ASSUME PcType, ChanType, WorkersWait, HandsEmpty, [Next]_vars
             PROVE  HandsEmpty'
  BY DEF TypeOK
<1> USE Literals DEF chanVars
<1>0. "run" \in Procs \ Kinds /\ "once" \in Procs \ Kinds /\ "closer" \in Procs \ Kinds
      /\ "read" \in Procs \ Kinds /\ "timeout" \in Procs \ Kinds
  BY DEF Kinds
<1>1. ASSUME NEW c \in Calls, Caller(c) PROVE HandsEmpty'
  BY <1>1, HandsKept
  DEF Caller, Enter, TryCheck, TrySend, SelectSend, Send, SelectOther, SendTimeout, RefPut
<1>2. ASSUME NEW p \in Procs, TestType(p) \/ SetType(p) PROVE HandsEmpty'
  <2>1. CASE p = "write"
    BY <1>2, <2>1, HandsKept DEF TestType, SetType, Goto, After, Busy, PcType
  <2>2. CASE p # "write"
    BY <1>2, <2>2, HandsKept DEF TestType, SetType, Goto, PcType, HandsEmpty
  <2> QED  BY <2>1, <2>2
<1>3. CASE StartQuit
  BY <1>0, <1>3, OtherMoves DEF StartQuit
<1>4. CASE Cancel \/ ServiceQuit
  BY <1>4, HandsKept DEF Cancel, ServiceQuit, PcType
<1>5. ASSUME NEW p \in Workers, WorkerEnd(p) PROVE HandsEmpty'
  BY <1>5, HandsKept DEF WorkerEnd, Goto, PcType, HandsEmpty
<1>6. ASSUME NEW k \in Kinds, CloseChan(k) PROVE HandsEmpty'
  BY <1>0, <1>6, OtherMoves DEF CloseChan
<1>7. CASE Write
  <2>1. CASE WriteTake
    BY <2>1 DEF WriteTake, WriteStep, Goto, PcType, ChanType, HandsEmpty
  <2>2. CASE WriteDiscard \/ WriteOk \/ WriteFinish
    BY <2>2 DEF WriteDiscard, WriteOk, WriteFinish, WriteStep, Goto, PutCur, PcType, ChanType, HandsEmpty
  <2>3. CASE WriteFail
    BY <2>3, HandsKept DEF WriteFail, WriteStep, Goto, Blame, Busy, PcType
  <2>4. CASE WriteDrained \/ FlushTimeout \/ WriteStop
    BY <2>4, HandsKept
    DEF WriteDrained, FlushTimeout, WriteStop, WriteStep, Goto, PcType, HandsEmpty
  <2> QED  BY <1>7, <2>1, <2>2, <2>3, <2>4 DEF Write
<1>8. CASE ReadChan
  <2>1. CASE ReadChanTake
    BY <2>1 DEF ReadChanTake, ReadChanStep, Goto, PcType, ChanType, HandsEmpty
  <2>2. CASE ReadChanHandle
    BY <2>2 DEF ReadChanHandle, ReadChanStep, Goto, PutCur, PcType, ChanType, HandsEmpty
  <2>3. CASE ReadChanTop \/ ReadChanStop \/ ReadChanDone
    BY <2>3, HandsKept
    DEF ReadChanTop, ReadChanStop, ReadChanDone, ReadChanStep, Goto, PcType, HandsEmpty
  <2> QED  BY <1>8, <2>1, <2>2, <2>3 DEF ReadChan
<1>9. CASE ReadTop \/ ReadData \/ TimeoutTop
  BY <1>0, <1>9, OtherMoves DEF ReadTop, ReadData, TimeoutTop
<1>10. CASE ReadFail \/ TimeoutSample
  BY <1>0, <1>10, OtherMoves, HandsKept DEF ReadFail, TimeoutSample, Blame, PcType
<1>11. CASE Run
  <2>1. CASE RunInit
    BY <2>1, HandsKept DEF RunInit, WorkersWait, HandsEmpty
  <2>2. CASE RunGoes \/ RunJoin \/ RunClose \/ RunCloseConn
    BY <1>0, <2>2, OtherMoves DEF RunGoes, RunJoin, RunClose, RunCloseConn, RunStep
  <2>3. ASSUME NEW k \in Kinds, RunDrain(k) PROVE HandsEmpty'
    BY <1>0, <2>3, OtherMoves, HandsKept DEF RunDrain
  <2> QED  BY <1>11, <2>1, <2>2, <2>3 DEF Run
<1>12. CASE UNCHANGED vars
  BY <1>12, HandsKept DEF vars
<1> QED
  BY <1>1, <1>2, <1>3, <1>4, <1>5, <1>6, <1>7, <1>8, <1>9, <1>10, <1>11, <1>12
  DEF Next, Terminated

LEMMA CustodyStep ==
  TypeOK /\ WorkersWait /\ Custody /\ [Next]_vars => Custody'
<1> SUFFICES ASSUME CallType, PcType, ChanType, WorkersWait, HandsEmpty,
                    QueueOK, HandOK, NoneLost, [Next]_vars
             PROVE  QueueOK' /\ HandOK' /\ NoneLost'
  BY HandsStep DEF TypeOK, Custody
<1> USE Literals DEF callVars, chanVars
<1>1. ASSUME NEW c \in Calls, Caller(c) PROVE QueueOK' /\ HandOK' /\ NoneLost'
  <2>1. CASE TrySend(c) \/ SelectSend(c)
    BY <2>1, SendCustody, MoveCustody DEF TrySend, SelectSend, CallStep, CallType
  <2>2. CASE Enter(c) \/ TryCheck(c) \/ SelectOther(c) \/ SendTimeout(c)
    BY <2>2, MoveCustody DEF Enter, TryCheck, SelectOther, SendTimeout, CallStep, CallType
  <2>3. CASE RefPut(c)
    <3>1. /\ cpc[c] = "refused" /\ puts[c] = 0 /\ UNCHANGED <<chan, cur>>
          /\ \A d \in Calls : /\ cpc'[d] = (IF d = c THEN "returned" ELSE cpc[d])
                              /\ puts'[d] = (IF d = c THEN 1 ELSE puts[d])
      BY <2>3 DEF RefPut, CallStep, CallType, NoneLost
    <3>2. \A k \in Kinds : Range(chan[k]) \subseteq Calls \ {c}
      BY <3>1 DEF ChanType, QueueOK, Range
    <3>3. QueueOK'
      BY <3>1, <3>2 DEF QueueOK
    <3>4. HandOK'
      BY <3>1 DEF HandOK, ChanType
    <3>5. NoneLost'
      BY <3>1 DEF NoneLost, Queued, Held
    <3> QED  BY <3>3, <3>4, <3>5
  <2> QED  BY <1>1, <2>1, <2>2, <2>3 DEF Caller
<1>2. ASSUME UNCHANGED <<callVars, chan, cur>> PROVE QueueOK' /\ HandOK' /\ NoneLost'
  BY <1>2, MoveCustody
<1>3. CASE Cancel \/ ServiceQuit
  BY <1>3, MoveCustody DEF Cancel, ServiceQuit, Unparked, CallType
<1>4. ASSUME NEW k \in Kinds, CloseChan(k) PROVE QueueOK' /\ HandOK' /\ NoneLost'
  BY <1>4, MoveCustody DEF CloseChan, ParkedOn, CallType
<1>5. CASE Write
  <2>1. CASE WriteTake
    <3>1. cur["write"] = None
      BY <2>1 DEF WriteTake, WriteStep, HandsEmpty
    <3> QED  BY <2>1, <3>1, TakeCustody DEF WriteTake
  <2>2. CASE WriteDiscard \/ WriteOk \/ WriteFinish
    BY <2>2, PutCustody DEF WriteDiscard, WriteOk, WriteFinish
  <2>3. CASE WriteFail \/ WriteDrained \/ FlushTimeout \/ WriteStop
    BY <1>2, <2>3 DEF WriteFail, WriteDrained, FlushTimeout, WriteStop
  <2> QED  BY <1>5, <2>1, <2>2, <2>3 DEF Write
<1>6. CASE ReadChan
  <2>1. CASE ReadChanTake
    <3>1. cur["readchan"] = None
      BY <2>1 DEF ReadChanTake, ReadChanStep, HandsEmpty
    <3> QED  BY <2>1, <3>1, TakeCustody DEF ReadChanTake
  <2>2. CASE ReadChanHandle
    BY <2>2, PutCustody DEF ReadChanHandle
  <2>3. CASE ReadChanTop \/ ReadChanStop \/ ReadChanDone
    BY <1>2, <2>3 DEF ReadChanTop, ReadChanStop, ReadChanDone
  <2> QED  BY <1>6, <2>1, <2>2, <2>3 DEF ReadChan
<1>7. CASE Run
  <2>1. CASE RunInit \/ RunGoes \/ RunClose \/ RunCloseConn \/ RunJoin
    BY <1>2, <2>1 DEF RunInit, RunGoes, RunClose, RunCloseConn, RunJoin
  <2>2. ASSUME NEW k \in Kinds, RunDrain(k) PROVE QueueOK' /\ HandOK' /\ NoneLost'
    BY <1>2, <2>2, DrainCustody DEF RunDrain
  <2> QED  BY <1>7, <2>1, <2>2 DEF Run
<1>8. ASSUME NEW p \in Procs, TestType(p) \/ SetType(p) PROVE QueueOK' /\ HandOK' /\ NoneLost'
  BY <1>2, <1>8 DEF TestType, SetType
<1>9. ASSUME NEW p \in Workers, WorkerEnd(p) PROVE QueueOK' /\ HandOK' /\ NoneLost'
  BY <1>2, <1>9 DEF WorkerEnd
<1>10. CASE StartQuit \/ ReadTop \/ ReadData \/ ReadFail \/ TimeoutTop \/ TimeoutSample
  BY <1>2, <1>10 DEF StartQuit, ReadTop, ReadData, ReadFail, TimeoutTop, TimeoutSample
<1>11. CASE UNCHANGED vars
  BY <1>2, <1>11 DEF vars
<1> QED
  BY <1>1, <1>3, <1>4, <1>5, <1>6, <1>7, <1>8, <1>9, <1>10, <1>11 DEF Next, Terminated

-----------------------------------------------------------------------------
(* Parked senders, and the order of the shutdown *)

LEMMA ParkedKept ==
  ASSUME ParkedOnLive, UNCHANGED <<chan, closed, ctxDone, mainDone>>,
         \A c \in Calls : cpc'[c] = "parked" => cpc[c] = "parked"
  PROVE  ParkedOnLive'
  BY DEF ParkedOnLive

LEMMA ReceiveParked ==
  ASSUME CallType, ChanType, QueueOK, ParkedOnLive, NEW k \in Kinds, Receive(k),
         UNCHANGED <<closed, ctxDone, mainDone>>
  PROVE  ParkedOnLive'
<1> SUFFICES ASSUME NEW c \in Calls, cpc'[c] = "parked"
             PROVE  Len(chan'[Kind(c)]) = Cap /\ cpc[c] = "parked"
  BY DEF ParkedOnLive
<1>1. cpc[c] = "parked" /\ Kind(c) \in Kinds /\ Len(chan[Kind(c)]) = Cap
  BY KindType DEF Receive, ParkedOn, CallType, ParkedOnLive
<1>2. CASE Kind(c) = k
  <2>1. c \in ParkedOn(k)
    BY <1>1, <1>2 DEF ParkedOn
  <2>2. PICK p \in ParkedOn(k) : chan' = [chan EXCEPT ![k] = Append(Tail(@), p)]
    BY <2>1 DEF Receive
  <2>3. p \in Calls /\ chan[k] \in Seq(Calls) /\ chan[k] # <<>>
    BY <2>2 DEF ParkedOn, ChanType, Receive
  <2>4. Len(Append(Tail(chan[k]), p)) = Len(chan[k])
    BY <2>3
  <2> QED  BY <1>1, <1>2, <2>2, <2>4 DEF ChanType
<1>3. CASE Kind(c) # k
  BY <1>1, <1>3 DEF Receive, ChanType
<1> QED  BY <1>1, <1>2, <1>3

LEMMA ParkedStep ==
  TypeOK /\ QueueOK /\ ParkedOnLive /\ [Next]_vars => ParkedOnLive'
<1> SUFFICES ASSUME CallType, ChanType, QueueOK, ParkedOnLive, [Next]_vars
             PROVE  ParkedOnLive'
  BY DEF TypeOK
<1> USE Literals DEF callVars, chanVars, quitVars
<1>1. ASSUME NEW c \in Calls, Caller(c) PROVE ParkedOnLive'
  <2>1. CASE Send(c) /\ (CallStep(c, "trysend", "ok") \/ CallStep(c, "select", "ok"))
    <3>1. Kind(c) \in Kinds /\ Len(chan[Kind(c)]) < Cap
      BY <2>1, KindType DEF Send, HasRoom
    <3>2. \A d \in Calls : cpc'[d] = "parked" => cpc[d] = "parked"
      BY <2>1 DEF CallStep, CallType
    <3>3. \A d \in Calls : cpc[d] = "parked" => Kind(d) # Kind(c)
      BY <3>1, CapAssumption DEF ParkedOnLive
    <3> QED  BY <2>1, <3>1, <3>2, <3>3, KindType DEF ParkedOnLive, Send, ChanType
  <2>2. CASE CallStep(c, "select", "parked") /\ SelectOther(c)
    <3>1. /\ ~HasRoom(Kind(c)) /\ ~closed[Kind(c)] /\ ~ctxDone /\ ~mainDone
          /\ UNCHANGED <<chan, closed, ctxDone, mainDone>>
      BY <2>2 DEF SelectOther, CallStep, CallType
    <3>2. Len(chan[Kind(c)]) = Cap
      <4>1. Kind(c) \in Kinds /\ chan[Kind(c)] \in Seq(Calls)
        BY KindType DEF ChanType
      <4>2. Len(chan[Kind(c)]) \in Nat /\ Len(chan[Kind(c)]) <= Cap
        BY <4>1 DEF QueueOK
      <4> QED  BY <3>1, <4>2, CapAssumption DEF HasRoom
    <3> QED  BY <2>2, <3>1, <3>2 DEF ParkedOnLive, CallStep, CallType
  <2>3. CASE Enter(c) \/ TryCheck(c) \/ SendTimeout(c) \/ RefPut(c)
    BY <2>3, ParkedKept DEF Enter, TryCheck, SendTimeout, RefPut, CallStep, CallType
  <2>4. CASE UNCHANGED <<chan, closed, ctxDone, mainDone>> /\ ~CallStep(c, "select", "parked")
    BY <1>1, <2>4, ParkedKept
    DEF Caller, Enter, TryCheck, TrySend, SelectSend, SelectOther, SendTimeout, RefPut,
        CallStep, CallType
  <2>5. CASE TrySend(c) \/ SelectSend(c)
    BY <2>1, <2>4, <2>5 DEF TrySend, SelectSend, CallStep, CallType
  <2>6. CASE SelectOther(c)
    BY <2>2, <2>4, <2>6 DEF SelectOther
  <2> QED  BY <1>1, <2>3, <2>5, <2>6 DEF Caller
<1>2. ASSUME UNCHANGED <<cpc, chan, closed, ctxDone, mainDone>> PROVE ParkedOnLive'
  BY <1>2, ParkedKept
<1>3. CASE Cancel \/ ServiceQuit
  BY <1>3 DEF Cancel, ServiceQuit, Unparked, CallType, ParkedOnLive
<1>4. ASSUME NEW k \in Kinds, CloseChan(k) PROVE ParkedOnLive'
  BY <1>4, KindType DEF CloseChan, ParkedOn, CallType, ChanType, ParkedOnLive
<1>5. CASE Write
  <2>1. CASE WriteTake
    BY <2>1, ReceiveParked DEF WriteTake
  <2>2. CASE ~WriteTake
    BY <1>2, <1>5, <2>2
    DEF Write, WriteDiscard, WriteOk, WriteFinish, WriteFail, WriteDrained, FlushTimeout, WriteStop
  <2> QED  BY <2>1, <2>2
<1>6. CASE ReadChan
  <2>1. CASE ReadChanTake
    BY <2>1, ReceiveParked DEF ReadChanTake
  <2>2. CASE ~ReadChanTake
    BY <1>2, <1>6, <2>2 DEF ReadChan, ReadChanHandle, ReadChanTop, ReadChanStop, ReadChanDone
  <2> QED  BY <2>1, <2>2
<1>7. CASE Run
  <2>1. CASE RunInit \/ RunGoes \/ RunClose \/ RunCloseConn \/ RunJoin
    BY <1>2, <2>1 DEF RunInit, RunGoes, RunClose, RunCloseConn, RunJoin
  <2>2. ASSUME NEW k \in Kinds, RunDrain(k) PROVE ParkedOnLive'
    BY <1>2, <2>2, ReceiveParked DEF RunDrain
  <2> QED  BY <1>7, <2>1, <2>2 DEF Run
<1>8. ASSUME NEW p \in Procs, TestType(p) \/ SetType(p) PROVE ParkedOnLive'
  BY <1>2, <1>8 DEF TestType, SetType
<1>9. ASSUME NEW p \in Workers, WorkerEnd(p) PROVE ParkedOnLive'
  BY <1>2, <1>9 DEF WorkerEnd
<1>10. CASE StartQuit \/ ReadTop \/ ReadData \/ ReadFail \/ TimeoutTop \/ TimeoutSample
  BY <1>2, <1>10 DEF StartQuit, ReadTop, ReadData, ReadFail, TimeoutTop, TimeoutSample
<1>11. CASE UNCHANGED vars
  BY <1>2, <1>11 DEF vars
<1> QED
  BY <1>1, <1>3, <1>4, <1>5, <1>6, <1>7, <1>8, <1>9, <1>10, <1>11 DEF Next, Terminated

Shutdown == WorkersWait /\ CancelFirst /\ RunOrder /\ ReasonFirst /\ CloseTold

\* A worker that is running makes a step of its own.
LEMMA WorkerMoves ==
  ASSUME PcType, Shutdown, NEW p \in Workers, pc[p] \notin {"off", "exit"},
         \E l : pc' = [pc EXCEPT ![p] = l],
         UNCHANGED <<closed, ctxDone, told>>,
         TypeClose' = TypeClose \/ TypeClose' # "TypClose"
  PROVE  Shutdown'
<1>1. p # "run" /\ p # "closer" /\ "run" \in Procs /\ "closer" \in Procs
  BY DEF Workers, Procs
<1>2. pc'["run"] = pc["run"] /\ pc'["closer"] = pc["closer"]
  BY <1>1 DEF PcType
<1>3. WorkersWait' /\ CancelFirst'
  BY <1>2 DEF Shutdown, WorkersWait, CancelFirst
<1>4. RunOrder'
  BY <1>2, Literals DEF Shutdown, RunOrder
<1>5. ReasonFirst' /\ CloseTold'
  BY <1>2 DEF Shutdown, ReasonFirst, CloseTold
<1> QED  BY <1>3, <1>4, <1>5 DEF Shutdown

\* No goroutine but perhaps the Once moves; calls move and may send.
LEMMA CallsMove ==
  ASSUME Shutdown, UNCHANGED <<ctxDone, closed, TypeClose, told>>,
         \A p \in Procs \ {"once"} : pc'[p] = pc[p],
         \A k \in Kinds : chan'[k] = chan[k] \/ ~closed[k]
  PROVE  Shutdown'
<1>1. /\ "run" \in Procs \ {"once"} /\ "closer" \in Procs \ {"once"}
      /\ Workers \subseteq Procs \ {"once"} /\ "write" \in Kinds /\ "readchan" \in Kinds
  BY DEF Procs, Workers, Kinds
<1>2. WorkersWait' /\ CancelFirst'
  BY <1>1 DEF Shutdown, WorkersWait, CancelFirst
<1>3. RunOrder'
  BY <1>1 DEF Shutdown, RunOrder
<1>4. ReasonFirst' /\ CloseTold'
  BY <1>1 DEF Shutdown, ReasonFirst, CloseTold
<1> QED  BY <1>2, <1>3, <1>4 DEF Shutdown

\* Run moves.
LEMMA RunMoves ==
  ASSUME PcType, Shutdown, NEW l, RunStep(pc["run"], l) \/ (pc["run"] # l /\ Goto("run", l)),
         l # "init", UNCHANGED <<chan, closed, ctxDone, TypeClose>>,
         l \in Kinds \cup {"returned"} => \A p \in Workers : pc[p] \in {"off", "exit"},
         l \in {"readchan", "returned"} => closed["write"] /\ chan["write"] = <<>>,
         l = "returned" => closed["readchan"] /\ chan["readchan"] = <<>>,
         l = "close" => TypeClose # "TypClose",
         told' = told \/ told' # "TypClose"
  PROVE  Shutdown'
<1>1. "run" \in Procs /\ "closer" \in Procs /\ "run" \notin Workers /\ "closer" # "run"
      /\ Workers \subseteq Procs
  BY DEF Procs, Workers
<1>2. pc'["run"] = l /\ \A p \in Procs : p # "run" => pc'[p] = pc[p]
  BY <1>1 DEF PcType, RunStep, Goto
<1>3. WorkersWait' /\ CancelFirst'
  BY <1>1, <1>2 DEF Shutdown, WorkersWait, CancelFirst
<1>4. RunOrder'
  BY <1>1, <1>2 DEF Shutdown, RunOrder
<1>5. ReasonFirst' /\ CloseTold'
  BY <1>2 DEF Shutdown, ReasonFirst, CloseTold
<1> QED  BY <1>3, <1>4, <1>5 DEF Shutdown

\* Only the goroutines that quit move: the closer reaches its loop with the
\* context cancelled, and channels stay closed.
LEMMA QuitMoves ==
  ASSUME Shutdown, \A q \in Procs \ {"once", "closer"} : pc'[q] = pc[q],
         UNCHANGED <<chan, told>>, ctxDone => ctxDone', pc'["closer"] \in Kinds => ctxDone',
         \A k \in Kinds : closed[k] => closed'[k],
         TypeClose' = TypeClose \/ TypeClose' # "TypClose"
  PROVE  Shutdown'
<1>1. /\ "run" \in Procs \ {"once", "closer"} /\ Workers \subseteq Procs \ {"once", "closer"}
      /\ "write" \in Kinds /\ "readchan" \in Kinds
  BY DEF Procs, Workers, Kinds
<1>2. pc'["run"] = pc["run"] /\ \A p \in Workers : pc'[p] = pc[p]
  BY <1>1
<1>3. WorkersWait'
  BY <1>2 DEF Shutdown, WorkersWait
<1>4. CancelFirst'
  BY DEF CancelFirst
<1>5. RunOrder'
  BY <1>1, <1>2 DEF Shutdown, RunOrder
<1>6. ReasonFirst'
  BY <1>2 DEF Shutdown, ReasonFirst
<1>7. CloseTold'
  BY DEF Shutdown, CloseTold
<1> QED  BY <1>3, <1>4, <1>5, <1>6, <1>7 DEF Shutdown

LEMMA ShutdownStep == TypeOK /\ Shutdown /\ [Next]_vars => Shutdown'
<1> SUFFICES ASSUME CallType, PcType, ChanType, ReasonType, Shutdown, [Next]_vars
             PROVE  Shutdown'
  BY DEF TypeOK
<1> USE Literals DEF chanVars, quitVars, typeVars
<1>0. /\ "once" \notin Workers /\ "run" \notin Workers /\ "closer" \notin Workers
      /\ Procs = Workers \cup {"run", "once", "closer"} /\ "closer" # "once" /\ "run" # "once"
  BY DEF Procs, Workers
<1>1. ASSUME NEW c \in Calls, Caller(c) PROVE Shutdown'
  <2>1. CASE Send(c)
    BY <2>1, CallsMove DEF Send, HasRoom, ChanType
  <2>2. CASE UNCHANGED <<pc, chanVars, quitVars, typeVars>>
    BY <2>2, CallsMove
  <2> QED
    BY <1>1, <2>1, <2>2
    DEF Caller, Enter, TryCheck, TrySend, SelectSend, SelectOther, SendTimeout, RefPut
<1>2. ASSUME NEW p \in Procs, TestType(p) \/ SetType(p) PROVE Shutdown'
  <2>1. CASE p \in Workers
    BY <1>2, <2>1, WorkerMoves, TypeLiterals DEF TestType, SetType, Goto, ReasonType, Reasons
  <2>2. CASE p = "run"
    <3>1. pc["run"] \in {"test", "set"} /\ pc["run"] # "close"
      BY <1>2, <2>2 DEF TestType, SetType
    <3>2. CASE TestType("run")
      BY <2>2, <3>2, RunMoves DEF TestType, After, Kinds
    <3>3. CASE SetType("run")
      <4>1. TypeClose' # "TypClose" /\ pc' = [pc EXCEPT !["run"] = "close"]
        BY <3>3 DEF SetType, Goto, After, ReasonType, Reasons
      <4>2. /\ pc'["run"] = "close" /\ pc'["closer"] = pc["closer"]
        BY <1>0, <4>1 DEF PcType
      <4> QED
        BY <3>3, <4>1, <4>2
        DEF SetType, Shutdown, WorkersWait, CancelFirst, RunOrder, ReasonFirst, CloseTold, Kinds
    <3> QED  BY <1>2, <2>2, <3>2, <3>3
  <2>3. CASE p = "once"
    <3>1. \A q \in Procs \ {"once", "closer"} : pc'[q] = pc[q]
      BY <1>2, <2>3 DEF TestType, SetType, Goto, PcType
    <3>2. TypeClose' = TypeClose \/ TypeClose' # "TypClose"
      BY <1>2 DEF TestType, SetType, ReasonType, Reasons
    <3>3. pc'["closer"] = pc["closer"] /\ UNCHANGED <<chan, told, ctxDone, closed>>
      BY <1>0, <1>2, <2>3 DEF TestType, SetType, Goto, PcType
    <3>4. pc'["closer"] \in Kinds => ctxDone'
      BY <3>3 DEF Shutdown, CancelFirst
    <3> QED  BY <3>1, <3>2, <3>3, <3>4, QuitMoves
  <2>4. CASE p = "closer"
    <3>1. pc' = [pc EXCEPT !["closer"] = pc'["closer"]] /\ pc'["closer"] \notin Kinds
      BY <1>2, <2>4 DEF TestType, SetType, Goto, After, PcType, Kinds
    <3>2. TypeClose' = TypeClose \/ TypeClose' # "TypClose"
      BY <1>2 DEF TestType, SetType, ReasonType, Reasons
    <3>3. \A q \in Procs \ {"once", "closer"} : pc'[q] = pc[q]
      BY <3>1 DEF PcType
    <3>4. UNCHANGED <<chan, told, ctxDone, closed>>
      BY <1>2 DEF TestType, SetType
    <3> QED  BY <3>1, <3>2, <3>3, <3>4, QuitMoves
  <2> QED  BY <1>0, <2>1, <2>2, <2>3, <2>4
<1>3. CASE StartQuit
  BY <1>3, CallsMove DEF StartQuit, Goto, PcType
<1>4. CASE ServiceQuit
  BY <1>4, CallsMove DEF ServiceQuit
<1>5. CASE Cancel
  <2>1. \A q \in Procs \ {"once", "closer"} : pc'[q] = pc[q]
    BY <1>5 DEF Cancel, PcType
  <2>2. ctxDone' /\ UNCHANGED <<chan, closed, told, TypeClose>>
    BY <1>5 DEF Cancel
  <2> QED  BY <2>1, <2>2, QuitMoves
<1>6. ASSUME NEW p \in Workers, WorkerEnd(p) PROVE Shutdown'
  BY <1>6, WorkerMoves DEF WorkerEnd, Goto
<1>7. ASSUME NEW k \in Kinds, CloseChan(k) PROVE Shutdown'
  <2>1. \A q \in Procs \ {"once", "closer"} : pc'[q] = pc[q]
    BY <1>7 DEF CloseChan, Goto, PcType
  <2>2. \A j \in Kinds : closed[j] => closed'[j]
    BY <1>7 DEF CloseChan, ChanType
  <2>3. ctxDone
    BY <1>7 DEF CloseChan, Shutdown, CancelFirst
  <2>4. UNCHANGED <<chan, told, ctxDone, TypeClose>>
    BY <1>7 DEF CloseChan
  <2> QED  BY <2>1, <2>2, <2>3, <2>4, QuitMoves
<1>8. CASE Write
  <2>1. CASE FlushTimeout
    BY <2>1, CallsMove DEF FlushTimeout
  <2>2. CASE WriteTake \/ WriteDiscard \/ WriteOk \/ WriteDrained \/ WriteStop \/ WriteFinish
    BY <2>2, WorkerMoves
    DEF WriteTake, WriteDiscard, WriteOk, WriteDrained, WriteStop, WriteFinish, WriteStep, Goto
  <2>3. CASE WriteFail
    BY <2>3, WorkerMoves DEF WriteFail, WriteStep, Goto, Blame
  <2> QED  BY <1>8, <2>1, <2>2, <2>3 DEF Write
<1>9. CASE ReadChan
  BY <1>9, WorkerMoves
  DEF ReadChan, ReadChanTop, ReadChanTake, ReadChanHandle, ReadChanStop, ReadChanDone,
      ReadChanStep, Goto
<1>10. CASE ReadTop \/ ReadData \/ ReadFail \/ TimeoutTop \/ TimeoutSample
  BY <1>10, WorkerMoves
  DEF ReadTop, ReadData, ReadFail, TimeoutTop, TimeoutSample, Goto, Blame
<1>11. CASE Run
  <2>1. CASE RunInit
    <3>1. pc'["run"] = "start" /\ pc'["closer"] = pc["closer"]
      BY <1>0, <2>1 DEF RunInit, PcType
    <3> QED
      BY <2>1, <3>1
      DEF RunInit, Shutdown, WorkersWait, CancelFirst, RunOrder, ReasonFirst, CloseTold, Kinds
  <2>2. CASE RunGoes
    BY <2>2, RunMoves DEF RunGoes, RunStep, Kinds
  <2>3. CASE RunClose
    <3>1. TypeClose # "TypClose"
      BY <2>3 DEF RunClose, RunStep, Shutdown, ReasonFirst
    <3>2. told' # "TypClose"
      BY <2>3, <3>1 DEF RunClose, None
    <3> QED  BY <2>3, <3>2, RunMoves DEF RunClose, RunStep, Kinds
  <2>4. CASE RunCloseConn
    BY <2>4, RunMoves DEF RunCloseConn, RunStep, Kinds
  <2>5. CASE RunJoin
    BY <2>5, RunMoves DEF RunJoin, RunStep, Kinds
  <2>6. ASSUME NEW k \in Kinds, RunDrain(k) PROVE Shutdown'
    <3>1. CASE UNCHANGED pc /\ Receive(k)
      <4>1. \A j \in Kinds : j # k => chan'[j] = chan[j]
        BY <3>1 DEF Receive, ChanType
      <4>2. k \notin {"readchan"} \/ "write" # k
        BY DEF Kinds
      <4> QED
        BY <2>6, <3>1, <4>1
        DEF RunDrain, Shutdown, WorkersWait, CancelFirst, RunOrder, ReasonFirst, CloseTold, Kinds
    <3>2. CASE chan[k] = <<>> /\ closed[k] /\ UNCHANGED chan
                /\ Goto("run", IF k = "write" THEN "readchan" ELSE "returned")
      <4>1. pc["run"] = k /\ \A p \in Workers : pc[p] \in {"off", "exit"}
        BY <2>6 DEF RunDrain, Shutdown, RunOrder
      <4>2. CASE k = "write"
        BY <2>6, <3>2, <4>1, <4>2, RunMoves DEF RunDrain
      <4>3. CASE k = "readchan"
        BY <2>6, <3>2, <4>1, <4>3, RunMoves DEF RunDrain, Shutdown, RunOrder
      <4> QED  BY <4>2, <4>3 DEF Kinds
    <3> QED  BY <2>6, <3>1, <3>2 DEF RunDrain
  <2> QED  BY <1>11, <2>1, <2>2, <2>3, <2>4, <2>5, <2>6 DEF Run
<1>12. CASE UNCHANGED vars
  BY <1>12, CallsMove DEF vars
<1> QED
  BY <1>1, <1>2, <1>3, <1>4, <1>5, <1>6, <1>7, <1>8, <1>9, <1>10, <1>11, <1>12
  DEF Next, Terminated

-----------------------------------------------------------------------------
(* The inductive invariant and what follows from it *)

LEMMA InitIInv == Init => IInv
<1> SUFFICES ASSUME Init PROVE IInv
  OBVIOUS
<1> USE Literals
<1>1. WorkersWait
  BY DEF Init, WorkersWait, Workers, Procs
<1>2. \A k \in Kinds : chan[k] = <<>> /\ cur[k] = None
  BY DEF Init
<1>3. \A c \in Calls : cpc[c] = "idle" /\ puts[c] = 0
  BY DEF Init
<1>4. Len(<<>>) = 0 /\ Range(<<>>) = {} /\ IsInjective(<<>>)
  BY DEF Range, IsInjective
<1>5. Custody
  BY <1>2, <1>3, <1>4, CapAssumption DEF Custody, HandsEmpty, QueueOK, HandOK, NoneLost
<1>6. ParkedOnLive
  BY <1>3 DEF ParkedOnLive
<1>7. pc["run"] = "init" /\ pc["closer"] = "off" /\ told # "TypClose"
  BY DEF Init, None, Procs
<1>8. CancelFirst /\ RunOrder /\ ReasonFirst /\ CloseTold
  BY <1>7 DEF CancelFirst, RunOrder, ReasonFirst, CloseTold, Kinds
<1> QED  BY <1>1, <1>5, <1>6, <1>8, InitType DEF IInv

LEMMA StepIInv == IInv /\ [Next]_vars => IInv'
BY TypeStep, CustodyStep, ParkedStep, ShutdownStep DEF IInv, Shutdown, Custody

THEOREM Inductive == Spec => []IInv
BY InitIInv, StepIInv, PTL DEF Spec

LEMMA IInvOneOwner == IInv => OneOwner
<1> SUFFICES ASSUME TypeOK, QueueOK, HandOK, NoneLost, NEW c \in Calls
             PROVE  /\ puts[c] \in {0, 1}
                    /\ cpc[c] = "ok" => /\ (Queued(c) \/ Held(c)) = (puts[c] = 0)
                                        /\ ~(Queued(c) /\ Held(c))
                    /\ cpc[c] # "ok" => /\ ~Queued(c) /\ ~Held(c)
                                        /\ puts[c] = (IF cpc[c] = "returned" THEN 1 ELSE 0)
  BY DEF IInv, Custody, OneOwner
<1>1. Kind(c) \in Kinds /\ c # None
  BY KindType, NoneAssumption DEF None, Calls
<1>2. Queued(c) => cpc[c] = "ok" /\ puts[c] = 0 /\ ~Held(c)
  BY <1>1 DEF Queued, Held, QueueOK, HandOK
<1>3. Held(c) => cpc[c] = "ok" /\ puts[c] = 0
  BY <1>1 DEF Held, HandOK
<1> QED  BY <1>2, <1>3 DEF NoneLost

\* A message that was accepted has one owner until it is Put, and is Put once.
THEOREM MessagesHaveOneOwner == Spec => []OneOwner
BY Inductive, IInvOneOwner, PTL

LEMMA IInvNothingLeft == IInv => NothingLeft
<1> SUFFICES ASSUME IInv, pc["run"] = "returned"
             PROVE  /\ \A p \in Workers : pc[p] \in {"off", "exit"}
                    /\ \A k \in Kinds : closed[k] /\ chan[k] = <<>>
                    /\ \A c \in Calls : cpc[c] = "ok" => puts[c] = 1
  BY DEF NothingLeft
<1>1. \A p \in Workers : pc[p] \in {"off", "exit"}
  BY DEF IInv, RunOrder
<1>2. \A k \in Kinds : closed[k] /\ chan[k] = <<>>
  BY DEF IInv, RunOrder, Kinds
<1>3. \A k \in Kinds : cur[k] = None
  BY <1>1, Literals DEF IInv, Custody, HandsEmpty, Kinds
<1>4. ASSUME NEW c \in Calls, cpc[c] = "ok" PROVE puts[c] = 1
  <2>1. Range(<<>>) = {} /\ Kind(c) \in Kinds /\ c # None
    BY KindType, NoneAssumption DEF Range, None, Calls
  <2>2. ~Queued(c) /\ ~Held(c)
    BY <1>2, <1>3, <2>1 DEF Queued, Held
  <2> QED  BY <1>4, <2>2 DEF IInv, Custody, NoneLost
<1> QED  BY <1>1, <1>2, <1>4

\* When Run returns the workers are gone, the channels closed and empty, and
\* every accepted message was Put.
THEOREM RunLeavesNothing == Spec => []NothingLeft
BY Inductive, IInvNothingLeft, PTL

\* Senders park only on a full channel of a connection that nobody has quit.
THEOREM ParkedSendersAreLive == Spec => []ParkedOnLive
<1>1. IInv => ParkedOnLive
  BY DEF IInv
<1> QED  BY <1>1, Inductive, PTL

\* The servicer is never told that the connection is not closing.
THEOREM CloseHasReason == Spec => []CloseTold
<1>1. IInv => CloseTold
  BY DEF IInv
<1> QED  BY <1>1, Inductive, PTL

\* Closing a channel never finds a parked sender: the context was cancelled first.
THEOREM ParkedNeverPanic == Spec => ParkedNeverPanics
<1>1. IInv /\ [Next]_vars => [\A c \in Calls : cpc[c] = "parked" => cpc'[c] # "panicked"]_vars
  <2> SUFFICES ASSUME IInv, [Next]_vars, NEW c \in Calls, cpc[c] = "parked"
               PROVE  cpc'[c] # "panicked"
    OBVIOUS
  <2> USE DEF callVars
  <2>1. CallType /\ ChanType
    BY DEF IInv, TypeOK
  <2>2. ~ctxDone
    BY DEF IInv, ParkedOnLive
  <2>3. ~\E k \in Kinds : CloseChan(k)
    BY <2>2 DEF CloseChan, IInv, CancelFirst
  <2>4. ASSUME NEW d \in Calls, Caller(d) PROVE cpc'[c] # "panicked"
    BY <2>1, <2>4
    DEF Caller, Enter, TryCheck, TrySend, SelectSend, Send, SelectOther, SendTimeout, RefPut,
        CallStep, CallType
  <2>5. ASSUME NEW k \in Kinds, Receive(k) PROVE cpc'[c] # "panicked"
    BY <2>1, <2>5 DEF Receive, ParkedOn, CallType
  <2>6. CASE Cancel \/ ServiceQuit
    BY <2>6 DEF Cancel, ServiceQuit, Unparked
  <2>7. CASE UNCHANGED cpc
    BY <2>7
  <2>8. CASE Write \/ ReadChan
    BY <2>5, <2>7, <2>8, Literals
    DEF Write, WriteTake, WriteDiscard, WriteOk, WriteFail, WriteDrained, FlushTimeout,
        WriteStop, WriteFinish, ReadChan, ReadChanTop, ReadChanTake, ReadChanHandle,
        ReadChanStop, ReadChanDone
  <2>9. CASE Run
    BY <2>5, <2>7, <2>9
    DEF Run, RunInit, RunGoes, RunClose, RunCloseConn, RunJoin, RunDrain
  <2>10. CASE ReadTop \/ ReadData \/ ReadFail \/ TimeoutTop \/ TimeoutSample \/ StartQuit
    BY <2>7, <2>10 DEF ReadTop, ReadData, ReadFail, TimeoutTop, TimeoutSample, StartQuit
  <2>11. ASSUME NEW p \in Procs, TestType(p) \/ SetType(p) PROVE cpc'[c] # "panicked"
    BY <2>7, <2>11 DEF TestType, SetType
  <2>12. ASSUME NEW p \in Workers, WorkerEnd(p) PROVE cpc'[c] # "panicked"
    BY <2>7, <2>12 DEF WorkerEnd
  <2>13. CASE UNCHANGED vars
    BY <2>7, <2>13 DEF vars
  <2> QED
    BY <2>3, <2>4, <2>6, <2>8, <2>9, <2>10, <2>11, <2>12, <2>13 DEF Next, Terminated
<1> QED  BY <1>1, Inductive, PTL DEF Spec, ParkedNeverPanics

\* A recorded reason to close may be overwritten, never erased.
THEOREM ReasonStays == Spec => NeverAlive
<1>1. TypeOK /\ [Next]_vars => [TypeClose # "TypClose" => TypeClose' # "TypClose"]_vars
  <2> SUFFICES ASSUME ReasonType, [Next]_vars, TypeClose # "TypClose"
               PROVE  TypeClose' # "TypClose"
    BY DEF TypeOK
  <2>1. ASSUME NEW p \in Procs, TestType(p) \/ SetType(p) PROVE TypeClose' # "TypClose"
    BY <2>1 DEF TestType, SetType, ReasonType, Reasons
  <2> USE DEF typeVars
  <2>2. CASE Write \/ ReadChan
    BY <2>2
    DEF Write, WriteTake, WriteDiscard, WriteOk, WriteFail, WriteDrained, FlushTimeout,
        WriteStop, WriteFinish, ReadChan, ReadChanTop, ReadChanTake, ReadChanHandle,
        ReadChanStop, ReadChanDone, Blame
  <2>3. CASE Run
    BY <2>3 DEF Run, RunInit, RunGoes, RunClose, RunCloseConn, RunJoin, RunDrain
  <2>4. CASE ReadTop \/ ReadData \/ ReadFail \/ TimeoutTop \/ TimeoutSample
    BY <2>4 DEF ReadTop, ReadData, ReadFail, TimeoutTop, TimeoutSample, Blame
  <2>5. CASE StartQuit \/ Cancel \/ ServiceQuit \/ UNCHANGED vars
    BY <2>5 DEF StartQuit, Cancel, ServiceQuit, vars
  <2>6. ASSUME NEW c \in Calls, Caller(c) PROVE TypeClose' # "TypClose"
    BY <2>6
    DEF Caller, Enter, TryCheck, TrySend, SelectSend, Send, SelectOther, SendTimeout, RefPut
  <2>7. ASSUME NEW p \in Workers, WorkerEnd(p) PROVE TypeClose' # "TypClose"
    BY <2>7 DEF WorkerEnd
  <2>8. ASSUME NEW k \in Kinds, CloseChan(k) PROVE TypeClose' # "TypClose"
    BY <2>8 DEF CloseChan
  <2> QED
    BY <2>1, <2>2, <2>3, <2>4, <2>5, <2>6, <2>7, <2>8 DEF Next, Terminated
<1> QED  BY <1>1, TypeCorrect, PTL DEF Spec, NeverAlive

-----------------------------------------------------------------------------
(* Prompt senders *)

\* Once a channel is closed no call of its kind is on its way to it.
Prompt ==
  \A k \in Kinds : closed[k] =>
    IsQuit /\ \A c \in Calls : Kind(c) = k => ~InFlight(c)

QuitFirst == (pc["once"] \notin {"off"} \/ ctxDone \/ pc["closer"] \in Kinds) => IsQuit

LEMMA QuitFirstStep == TypeOK /\ QuitFirst /\ [Next]_vars => QuitFirst'
<1> SUFFICES ASSUME PcType, QuitFirst, [Next]_vars PROVE QuitFirst'
  BY DEF TypeOK
<1> USE DEF quitVars
<1>0. /\ "once" \in Procs /\ "closer" \in Procs /\ "once" \notin Workers
      /\ "closer" \notin Workers /\ "run" \notin {"once", "closer"} /\ Workers \subseteq Procs
  BY DEF Procs, Workers
<1>1. ASSUME UNCHANGED <<quitVars>>,
             pc'["once"] = pc["once"] \/ pc["once"] # "off",
             pc'["closer"] = pc["closer"] \/ pc'["closer"] \notin Kinds
      PROVE  QuitFirst'
  BY <1>1 DEF QuitFirst
<1>2. ASSUME NEW c \in Calls, Caller(c) PROVE QuitFirst'
  BY <1>1, <1>2
  DEF Caller, Enter, TryCheck, TrySend, SelectSend, Send, SelectOther, SendTimeout, RefPut
<1>3. ASSUME NEW p \in Procs, TestType(p) \/ SetType(p) PROVE QuitFirst'
  BY <1>0, <1>1, <1>3 DEF TestType, SetType, Goto, After, PcType, Kinds
<1>4. CASE StartQuit
  BY <1>4 DEF StartQuit, QuitFirst
<1>5. CASE Cancel
  BY <1>5 DEF Cancel, QuitFirst
<1>6. CASE ServiceQuit
  BY <1>6 DEF ServiceQuit, QuitFirst
<1>7. ASSUME NEW p \in Workers, WorkerEnd(p) PROVE QuitFirst'
  BY <1>0, <1>1, <1>7 DEF WorkerEnd, Goto, PcType
<1>8. ASSUME NEW k \in Kinds, CloseChan(k) PROVE QuitFirst'
  BY <1>0, <1>8 DEF CloseChan, Goto, PcType, QuitFirst, Kinds
<1>9. CASE Write \/ ReadChan
  <2>1. UNCHANGED quitVars
    BY <1>9
    DEF Write, WriteTake, WriteDiscard, WriteOk, WriteFail, WriteDrained, FlushTimeout,
        WriteStop, WriteFinish, ReadChan, ReadChanTop, ReadChanTake, ReadChanHandle,
        ReadChanStop, ReadChanDone
  <2>2. pc'["once"] = pc["once"] /\ pc'["closer"] = pc["closer"]
    BY <1>0, <1>9
    DEF Write, WriteTake, WriteDiscard, WriteOk, WriteFail, WriteDrained, FlushTimeout,
        WriteStop, WriteFinish, ReadChan, ReadChanTop, ReadChanTake, ReadChanHandle,
        ReadChanStop, ReadChanDone, WriteStep, ReadChanStep, Goto, Blame, PcType
  <2> QED  BY <1>1, <2>1, <2>2
<1>10. CASE ReadTop \/ ReadData \/ ReadFail \/ TimeoutTop \/ TimeoutSample
  BY <1>0, <1>1, <1>10
  DEF ReadTop, ReadData, ReadFail, TimeoutTop, TimeoutSample, Goto, Blame, PcType
<1>11. CASE Run
  <2>1. UNCHANGED quitVars
    BY <1>11 DEF Run, RunInit, RunGoes, RunClose, RunCloseConn, RunJoin, RunDrain
  <2>2. pc'["once"] = pc["once"] /\ pc'["closer"] = pc["closer"]
    BY <1>0, <1>11
    DEF Run, RunInit, RunGoes, RunClose, RunCloseConn, RunJoin, RunDrain, RunStep, Goto, PcType
  <2> QED  BY <1>1, <2>1, <2>2
<1>12. CASE UNCHANGED vars
  BY <1>1, <1>12 DEF vars
<1> QED
  BY <1>2, <1>3, <1>4, <1>5, <1>6, <1>7, <1>8, <1>9, <1>10, <1>11, <1>12
  DEF Next, Terminated

LEMMA PromptStep ==
  ASSUME ~SlowSenders, CallType, PcType, ChanType, QuitFirst, ParkedOnLive, CancelFirst,
         Prompt, NoSendOnClosed, [Next]_vars
  PROVE  Prompt' /\ NoSendOnClosed'
<1> USE DEF callVars, chanVars, quitVars
<1>1. ASSUME NEW c \in Calls, Caller(c) PROVE Prompt' /\ NoSendOnClosed'
  <2>0. UNCHANGED <<closed, IsQuit>>
    BY <1>1
    DEF Caller, Enter, TryCheck, TrySend, SelectSend, Send, SelectOther, SendTimeout, RefPut
  <2>1. ASSUME NEW from, NEW to, CallStep(c, from, to), to # "panicked",
               IsQuit => ~(to \in {"entered", "trysend", "select"})
                         \/ from \in {"entered", "trysend", "select"}
        PROVE  Prompt' /\ NoSendOnClosed'
    BY <2>0, <2>1 DEF CallStep, CallType, Prompt, InFlight, NoSendOnClosed
  <2>2. cpc[c] \in {"trysend", "select"} => ~closed[Kind(c)]
    BY KindType DEF Prompt, InFlight
  <2>3. CASE Enter(c)
    BY <2>1, <2>3 DEF Enter
  <2>4. CASE TryCheck(c) \/ SendTimeout(c) \/ RefPut(c) \/ SelectSend(c)
    BY <2>1, <2>4 DEF TryCheck, SendTimeout, RefPut, SelectSend
  <2>5. CASE TrySend(c) \/ SelectOther(c)
    BY <2>1, <2>2, <2>5 DEF TrySend, SelectOther, CallStep
  <2> QED  BY <1>1, <2>3, <2>4, <2>5 DEF Caller
<1>2. ASSUME UNCHANGED <<closed, IsQuit>> \/ (UNCHANGED closed /\ IsQuit'),
             \A c \in Calls : cpc'[c] = cpc[c] \/ cpc'[c] \in {"ok", "refused"}
      PROVE  Prompt' /\ NoSendOnClosed'
  BY <1>2 DEF Prompt, InFlight, NoSendOnClosed
<1>3. CASE StartQuit \/ Cancel \/ ServiceQuit
  BY <1>2, <1>3 DEF StartQuit, Cancel, ServiceQuit, Unparked
<1>4. ASSUME NEW k \in Kinds, CloseChan(k) PROVE Prompt' /\ NoSendOnClosed'
  <2>1. ParkedOn(k) = {}
    BY <1>4 DEF CloseChan, CancelFirst, ParkedOn, ParkedOnLive
  <2>2. \A c \in Calls : cpc'[c] = cpc[c] /\ ~InFlight(c)
    BY <1>4, <2>1 DEF CloseChan
  <2>3. IsQuit /\ IsQuit'
    BY <1>4 DEF CloseChan, QuitFirst
  <2> QED  BY <2>2, <2>3 DEF Prompt, InFlight, NoSendOnClosed
<1>5. ASSUME NEW k \in Kinds, Receive(k)
      PROVE  \A c \in Calls : cpc'[c] = cpc[c] \/ cpc'[c] = "ok"
  BY <1>5 DEF Receive, ParkedOn, CallType
<1>6. CASE Write \/ ReadChan
  BY <1>2, <1>5, <1>6, Literals
  DEF Write, WriteTake, WriteDiscard, WriteOk, WriteFail, WriteDrained, FlushTimeout,
      WriteStop, WriteFinish, ReadChan, ReadChanTop, ReadChanTake, ReadChanHandle,
      ReadChanStop, ReadChanDone
<1>7. CASE Run
  BY <1>2, <1>5, <1>7 DEF Run, RunInit, RunGoes, RunClose, RunCloseConn, RunJoin, RunDrain
<1>8. CASE ReadTop \/ ReadData \/ ReadFail \/ TimeoutTop \/ TimeoutSample
  BY <1>2, <1>8 DEF ReadTop, ReadData, ReadFail, TimeoutTop, TimeoutSample
<1>9. ASSUME NEW p \in Procs, TestType(p) \/ SetType(p) PROVE Prompt' /\ NoSendOnClosed'
  BY <1>2, <1>9 DEF TestType, SetType
<1>10. ASSUME NEW p \in Workers, WorkerEnd(p) PROVE Prompt' /\ NoSendOnClosed'
  BY <1>2, <1>10 DEF WorkerEnd
<1>11. CASE UNCHANGED vars
  BY <1>2, <1>11 DEF vars
<1> QED
  BY <1>1, <1>3, <1>4, <1>6, <1>7, <1>8, <1>9, <1>10, <1>11 DEF Next, Terminated

\* A call that is not delayed past the closer's sleep never sends on a closed channel.
THEOREM PromptSendersNeverPanic == ASSUME ~SlowSenders PROVE Spec => []NoSendOnClosed
<1>1. Init => QuitFirst /\ Prompt /\ NoSendOnClosed
  BY Literals DEF Init, QuitFirst, Prompt, NoSendOnClosed, Procs, Kinds
<1>2. QuitFirst /\ Prompt /\ NoSendOnClosed /\ IInv /\ [Next]_vars
      => QuitFirst' /\ Prompt' /\ NoSendOnClosed'
  BY PromptStep, QuitFirstStep DEF IInv, TypeOK
<1> QED  BY <1>1, <1>2, Inductive, PTL DEF Spec

-----------------------------------------------------------------------------
(* The bytes in the writer *)

PumpBytes == (pc["write"] = "off" => ~buffered) /\ NoStuckBytes /\ PumpFlushes

LEMMA PumpBytesStep == TypeOK /\ WorkersWait /\ PumpBytes /\ [Next]_vars => PumpBytes'
<1> SUFFICES ASSUME PcType, IoType, WorkersWait, PumpBytes, [Next]_vars PROVE PumpBytes'
  BY DEF TypeOK
<1> USE DEF ioVars
<1>0. /\ "write" \in Procs /\ "write" \in Workers
      /\ "run" # "write" /\ "once" # "write" /\ "closer" # "write"
  BY DEF Procs, Workers
<1>1. ASSUME UNCHANGED <<buffered, writerErr, flushArmed>>,
             \/ pc'["write"] = pc["write"]
             \/ pc["write"] # "off" /\ pc'["write"] \notin {"off", "select", "quit", "exit"}
             \/ pc["write"] = "quit" /\ pc'["write"] = "exit"
      PROVE  PumpBytes'
  BY <1>1 DEF PumpBytes, NoStuckBytes, PumpFlushes
<1>2. ASSUME NEW c \in Calls, Caller(c) PROVE PumpBytes'
  BY <1>1, <1>2
  DEF Caller, Enter, TryCheck, TrySend, SelectSend, Send, SelectOther, SendTimeout, RefPut
<1>3. ASSUME NEW p \in Procs, TestType(p) \/ SetType(p) PROVE PumpBytes'
  BY <1>0, <1>1, <1>3 DEF TestType, SetType, Goto, After, PcType
<1>4. CASE StartQuit \/ Cancel \/ ServiceQuit
  BY <1>0, <1>1, <1>4 DEF StartQuit, Cancel, ServiceQuit, Goto, PcType
<1>5. ASSUME NEW p \in Workers, WorkerEnd(p) PROVE PumpBytes'
  BY <1>0, <1>1, <1>5 DEF WorkerEnd, Goto, PcType
<1>6. ASSUME NEW k \in Kinds, CloseChan(k) PROVE PumpBytes'
  BY <1>0, <1>1, <1>6 DEF CloseChan, Goto, PcType
<1>7. CASE Write
  <2>1. CASE WriteTake \/ WriteDiscard \/ WriteOk \/ WriteFail
    <3>1. pc["write"] # "off" /\ pc'["write"] \notin {"off", "select", "quit", "exit"}
      BY <1>0, <2>1
      DEF WriteTake, WriteDiscard, WriteOk, WriteFail, WriteStep, Goto, Blame, PcType
    <3> QED  BY <3>1 DEF PumpBytes, NoStuckBytes, PumpFlushes
  <2>2. CASE WriteDrained
    <3>1. pc'["write"] = "select"
      BY <1>0, <2>2 DEF WriteDrained, WriteStep, Goto, PcType
    <3> QED
      BY <2>2, <3>1 DEF WriteDrained, Flush, PumpBytes, NoStuckBytes, PumpFlushes, IoType
  <2>3. CASE FlushTimeout
    BY <2>3 DEF FlushTimeout, Flush, PumpBytes, NoStuckBytes, PumpFlushes, IoType
  <2>4. CASE WriteStop
    BY <1>0, <1>1, <2>4 DEF WriteStop, WriteStep, Goto, PcType
  <2>5. CASE WriteFinish
    <3>1. pc'["write"] = "quit"
      BY <1>0, <2>5 DEF WriteFinish, WriteStep, Goto, PcType
    <3> QED
      BY <2>5, <3>1 DEF WriteFinish, Flush, PumpBytes, NoStuckBytes, PumpFlushes, IoType
  <2> QED  BY <1>7, <2>1, <2>2, <2>3, <2>4, <2>5 DEF Write
<1>8. CASE ReadChan
  BY <1>0, <1>1, <1>8
  DEF ReadChan, ReadChanTop, ReadChanTake, ReadChanHandle, ReadChanStop, ReadChanDone,
      ReadChanStep, Goto, PcType
<1>9. CASE ReadTop \/ ReadData \/ ReadFail \/ TimeoutTop \/ TimeoutSample
  BY <1>0, <1>1, <1>9
  DEF ReadTop, ReadData, ReadFail, TimeoutTop, TimeoutSample, Goto, Blame, PcType
<1>10. CASE Run
  <2>1. CASE RunInit
    <3>1. pc["write"] = "off" /\ pc'["write"] = "select"
      BY <1>0, <2>1 DEF RunInit, WorkersWait, PcType
    <3> QED  BY <2>1, <3>1 DEF RunInit, PumpBytes, NoStuckBytes, PumpFlushes
  <2>2. CASE ~RunInit
    BY <1>0, <1>1, <1>10, <2>2
    DEF Run, RunGoes, RunClose, RunCloseConn, RunJoin, RunDrain, RunStep, Goto, PcType
  <2> QED  BY <2>1, <2>2
<1>11. CASE UNCHANGED vars
  BY <1>1, <1>11 DEF vars
<1> QED
  BY <1>2, <1>3, <1>4, <1>5, <1>6, <1>7, <1>8, <1>9, <1>10, <1>11 DEF Next, Terminated

\* Bytes are never left in the writer without a timer, nor by a pump that ends
\* without trying to flush them.
THEOREM BytesGoOut == Spec => [](NoStuckBytes /\ PumpFlushes)
<1>1. Init => PumpBytes
  BY DEF Init, PumpBytes, NoStuckBytes, PumpFlushes, Procs, Workers
<1>2. IInv /\ PumpBytes /\ [Next]_vars => PumpBytes'
  BY PumpBytesStep DEF IInv
<1>3. PumpBytes => NoStuckBytes /\ PumpFlushes
  BY DEF PumpBytes
<1> QED  BY <1>1, <1>2, <1>3, Inductive, PTL DEF Spec
=============================================================================
