--------------------------- MODULE Spawns_proofs ---------------------------
(* For any calls, wait channels and channel size: the functions of a name   *)
(* run one at a time and in order, and a call that waits waits for its own. *)
EXTENDS Spawns, SequenceTheorems, TLAPS

\* A call beyond "store" uses the UniqSpawns that is registered.
Registered ==
  \A c \in Calls : cpc[c] \notin {"load", "store"} => uniq \in Calls /\ mine[c] = uniq

\* No other has a goroutine or anything in its channel.
OnlyRegistered ==
  \A o \in Calls : o # uniq => wpc[o] = "off" /\ DataChan[o] = <<>>

\* What was accepted is what was started, and behind it what is in the channel.
Splits(all, done, queue) ==
  /\ Len(all) = Len(done) + Len(queue)
  /\ \A i \in 1 .. Len(done) : done[i] = all[i]
  /\ \A i \in 1 .. Len(queue) : queue[i] = all[Len(done) + i]

InOrder ==
  IF uniq = None THEN sent = <<>> /\ started = <<>>
  ELSE Splits(sent, started, DataChan[uniq])

OrderInv == TypeOK /\ Registered /\ OnlyRegistered /\ InOrder

\* Each call is accepted once.
SentOnce ==
  /\ \A i \in 1 .. Len(sent) : cpc[sent[i]] \in {"wait", "put", "returned"}
  /\ \A i, j \in 1 .. Len(sent) : sent[i] = sent[j] => i = j

Busy(o) == wpc[o] \in {"func", "reply"}

\* The goroutine is at the last function that was started; the one it answers
\* for has ended and not panicked.
AtLastStarted ==
  \A o \in Calls :
    /\ Busy(o) => started # <<>> /\ cur[o] = started[Len(started)]
    /\ wpc[o] = "reply" => cur[o] \in Waits /\ cur[o] \in ended /\ cur[o] \notin Panics

\* A call whose function is in the channel or at the goroutine still waits.
Unanswered ==
  \A i \in 1 .. Len(sent) :
    /\ sent[i] \in Waits
    /\ i > Len(started) \/ (i = Len(started) /\ uniq \in Calls /\ Busy(uniq))
    => cpc[sent[i]] = "wait" /\ ~token[wait[sent[i]]]

\* No two calls hold one wait channel, and none holds a pooled one.
Holding(c) == c \in Waits /\ cpc[c] \in {"send", "wait", "put"}
OwnChannel ==
  /\ \A c \in Calls : Holding(c) => wait[c] \in WaitChans /\ wait[c] \notin free
  /\ \A c, d \in Calls : Holding(c) /\ Holding(d) /\ wait[c] = wait[d] => c = d

\* The value in a wait channel is the answer to the call that holds it.
Answered ==
  \A c \in Waits : cpc[c] = "wait" /\ token[wait[c]] => c \in ended /\ c \notin Panics

\* A call sends with its wait channel empty.
SendsEmpty == \A c \in Waits : cpc[c] = "send" => ~token[wait[c]]

\* Only a call with isWait waits.
PutIsWaiting == \A c \in Calls : cpc[c] \in {"wait", "put"} => c \in Waits

WaitInv ==
  PutIsWaiting /\ SentOnce /\ AtLastStarted /\ Unanswered /\ OwnChannel
  /\ SendsEmpty /\ Answered /\ WaitsForItsOwn

-----------------------------------------------------------------------------
(* What is sent goes behind the channel, what is received is started next. *)

LEMMA SplitsAppend ==
  ASSUME NEW all \in Seq(Calls), NEW done \in Seq(Calls), NEW queue \in Seq(Calls),
         NEW c \in Calls, Splits(all, done, queue)
  PROVE  Splits(Append(all, c), done, Append(queue, c))
<1>1. Len(all) \in Nat /\ Len(queue) \in Nat /\ Len(done) \in Nat
  BY LenProperties
<1>2. /\ Len(Append(all, c)) = Len(all) + 1 /\ Append(all, c)[Len(all) + 1] = c
      /\ \A i \in 1 .. Len(all) : Append(all, c)[i] = all[i]
  BY AppendProperties
<1>3. /\ Len(Append(queue, c)) = Len(queue) + 1 /\ Append(queue, c)[Len(queue) + 1] = c
      /\ \A i \in 1 .. Len(queue) : Append(queue, c)[i] = queue[i]
  BY AppendProperties
<1>4. ASSUME NEW i \in 1 .. Len(queue) + 1
      PROVE  Append(queue, c)[i] = Append(all, c)[Len(done) + i]
  <2>1. CASE i = Len(queue) + 1
    BY <1>1, <1>2, <1>3, <2>1 DEF Splits
  <2>2. CASE i # Len(queue) + 1
    <3>1. i \in 1 .. Len(queue)
      BY <1>1, <2>2
    <3>2. Len(all) = Len(done) + Len(queue)
      BY DEF Splits
    <3>3. Len(done) + i \in 1 .. Len(all)
      <4>1. i \in Nat /\ 1 <= i /\ i <= Len(queue)
        BY <1>1, <3>1
      <4>2. QED BY <1>1, <3>2, <4>1
    <3>4. QED BY <1>2, <1>3, <3>1, <3>3 DEF Splits
  <2>3. QED BY <2>1, <2>2
<1>5. ASSUME NEW i \in 1 .. Len(done) PROVE done[i] = Append(all, c)[i]
  BY <1>1, <1>2 DEF Splits
<1>6. Len(Append(all, c)) = Len(done) + Len(Append(queue, c))
  BY <1>1, <1>2, <1>3 DEF Splits
<1>7. QED BY <1>3, <1>4, <1>5, <1>6 DEF Splits

LEMMA SplitsReceive ==
  ASSUME NEW all \in Seq(Calls), NEW done \in Seq(Calls), NEW queue \in Seq(Calls),
         queue # <<>>, Splits(all, done, queue)
  PROVE  /\ Splits(all, Append(done, Head(queue)), Tail(queue))
         /\ Head(queue) = all[Len(done) + 1] /\ Len(done) < Len(all)
<1>1. Len(all) \in Nat /\ Len(queue) \in Nat \ {0} /\ Len(done) \in Nat /\ Head(queue) \in Calls
  BY LenProperties, EmptySeq, HeadTailProperties
<1>2. /\ Len(Append(done, Head(queue))) = Len(done) + 1
      /\ Append(done, Head(queue))[Len(done) + 1] = Head(queue)
      /\ \A i \in 1 .. Len(done) : Append(done, Head(queue))[i] = done[i]
  BY <1>1, AppendProperties
<1>3. Len(Tail(queue)) = Len(queue) - 1 /\ \A i \in 1 .. Len(Tail(queue)) : Tail(queue)[i] = queue[i + 1]
  BY HeadTailProperties
<1>4. Head(queue) = queue[1]
  OBVIOUS
<1>5. Head(queue) = all[Len(done) + 1] /\ Len(done) < Len(all)
  BY <1>1, <1>4 DEF Splits
<1>6. ASSUME NEW i \in 1 .. Len(done) + 1 PROVE Append(done, Head(queue))[i] = all[i]
  <2>1. CASE i = Len(done) + 1
    BY <1>2, <1>5, <2>1
  <2>2. CASE i # Len(done) + 1
    <3>1. i \in 1 .. Len(done)
      BY <1>1, <2>2
    <3>2. QED BY <1>2, <3>1 DEF Splits
  <2>3. QED BY <2>1, <2>2
<1>7. ASSUME NEW i \in 1 .. Len(queue) - 1 PROVE Tail(queue)[i] = all[Len(done) + 1 + i]
  <2>1. i + 1 \in 1 .. Len(queue) /\ Len(done) + (i + 1) = Len(done) + 1 + i
    BY <1>1
  <2>2. queue[i + 1] = all[Len(done) + (i + 1)]
    BY <2>1 DEF Splits
  <2>3. QED BY <1>3, <2>1, <2>2
<1>8. Len(all) = Len(done) + 1 + (Len(queue) - 1)
  BY <1>1 DEF Splits
<1>9. QED BY <1>2, <1>3, <1>5, <1>6, <1>7, <1>8 DEF Splits

\* The invariant holds at first.
LEMMA InitHolds == Init => OrderInv /\ WaitInv
<1> SUFFICES ASSUME Init PROVE OrderInv /\ WaitInv
  OBVIOUS
<1> USE NoneAssumption, CallsAssumption DEF Init, None
<1>1. TypeOK
  <2>1. <<>> \in Seq(Calls)
    BY EmptySeq
  <2>2. QED BY <2>1 DEF TypeOK
<1>2. Registered /\ OnlyRegistered /\ InOrder
  BY DEF Registered, OnlyRegistered, InOrder
<1>3. Len(sent) = 0
  OBVIOUS
<1>4. SentOnce /\ Unanswered
  BY <1>3 DEF SentOnce, Unanswered
<1>5. PutIsWaiting /\ SendsEmpty /\ AtLastStarted /\ OwnChannel /\ Answered /\ WaitsForItsOwn
  BY DEF PutIsWaiting, SendsEmpty, AtLastStarted, Busy, OwnChannel, Holding, Answered, WaitsForItsOwn
<1>6. QED BY <1>1, <1>2, <1>4, <1>5 DEF OrderInv, WaitInv

-----------------------------------------------------------------------------
(* The order of the functions *)

\* A step that accepts and starts nothing and leaves the registry alone.
LEMMA OrderStays ==
  ASSUME OrderInv, TypeOK', UNCHANGED <<uniq, mine, DataChan, sent, started>>,
         \A c \in Calls : cpc'[c] \notin {"load", "store"} => cpc[c] \notin {"load", "store"},
         \A o \in Calls : wpc[o] = "off" => wpc'[o] = "off"
  PROVE  OrderInv'
BY DEF OrderInv, Registered, OnlyRegistered, InOrder

\* Every step keeps the types; which channel a call holds says where Put puts it.
LEMMA TypeStep == OrderInv /\ WaitInv /\ [Next]_vars => TypeOK'
<1> SUFFICES ASSUME OrderInv, WaitInv, [Next]_vars PROVE TypeOK'
  OBVIOUS
<1> USE CallsAssumption DEF TypeOK, callVars, waitVars, workVars, hist
<1>0. TypeOK
  BY DEF OrderInv
<1>1. ASSUME NEW c \in Calls, Load(c) PROVE TypeOK'
  BY <1>0, <1>1 DEF Load, Step
<1>2. ASSUME NEW c \in Calls, LoadOrStore(c) PROVE TypeOK'
  BY <1>0, <1>2 DEF LoadOrStore, Step
<1>3. ASSUME NEW c \in Calls, Run(c) PROVE TypeOK'
  <2>1. mine[c] \in Calls
    BY <1>3 DEF OrderInv, Registered, Run, Step
  <2>2. QED BY <1>0, <1>3, <2>1 DEF Run, Step
<1>4. ASSUME NEW c \in Calls, GetChan(c) PROVE TypeOK'
  <2>1. CASE c \in Waits
    BY <1>0, <1>4, <2>1 DEF GetChan, Available, Step
  <2>2. CASE c \notin Waits
    BY <1>0, <1>4, <2>2 DEF GetChan, Step
  <2>3. QED BY <2>1, <2>2
<1>5. ASSUME NEW c \in Calls, Send(c) PROVE TypeOK'
  <2>1. Append(sent, c) \in Seq(Calls) /\ \A o \in Calls : Append(DataChan[o], c) \in Seq(Calls)
    BY <1>0, AppendProperties
  <2>2. sent' \in Seq(Calls) /\ DataChan' \in [Calls -> Seq(Calls)]
    BY <1>0, <1>5, <2>1 DEF Send
  <2>3. cpc' \in [Calls -> {"load", "store", "run", "add", "send", "wait", "put", "returned"}]
    BY <1>0, <1>5 DEF Send, Step
  <2>4. QED BY <1>0, <1>5, <2>2, <2>3 DEF Send
<1>6. ASSUME NEW c \in Calls, Wait(c) PROVE TypeOK'
  BY <1>0, <1>6 DEF Wait, Step
<1>7. ASSUME NEW c \in Calls, Put(c) PROVE TypeOK'
  <2>1. c \in Waits => wait[c] \in WaitChans
    BY <1>7 DEF WaitInv, OwnChannel, Holding, Put, Step
  <2>2. c \in Waits
    BY <1>7 DEF WaitInv, PutIsWaiting, Put, Step
  <2>3. QED BY <1>0, <1>7, <2>1, <2>2 DEF Put, Step
<1>8. ASSUME NEW o \in Calls, Receive(o) PROVE TypeOK'
  <2>1. Head(DataChan[o]) \in Calls /\ Tail(DataChan[o]) \in Seq(Calls)
    BY <1>0, <1>8, HeadTailProperties DEF Receive
  <2>2. started' \in Seq(Calls)
    BY <1>0, <1>8, <2>1, AppendProperties DEF Receive
  <2>3. DataChan' \in [Calls -> Seq(Calls)]
    BY <1>0, <1>8, <2>1 DEF Receive
  <2>4. wpc' \in [Calls -> {"off", "receive", "func", "reply", "exit"}] /\ cur' \in [Calls -> Calls \cup {None}]
    BY <1>0, <1>8, <2>1 DEF Receive, WorkStep
  <2>5. QED BY <1>0, <1>8, <2>2, <2>3, <2>4 DEF Receive
<1>9. ASSUME NEW o \in Calls, FuncEnds(o) \/ FuncPanics(o) PROVE TypeOK'
  <2>1. wpc' \in [Calls -> {"off", "receive", "func", "reply", "exit"}]
    BY <1>0, <1>9 DEF FuncEnds, FuncPanics, WorkStep
  <2>2. started # <<>> /\ cur[o] = started[Len(started)]
    BY <1>9 DEF WaitInv, AtLastStarted, Busy, FuncEnds, FuncPanics, WorkStep
  <2>3. cur[o] \in Calls
    BY <1>0, <2>2, LenProperties, EmptySeq
  <2>4. ended' = ended \cup {cur[o]}
    BY <1>9 DEF FuncEnds, FuncPanics
  <2>5. QED BY <1>0, <1>9, <2>1, <2>3, <2>4 DEF FuncEnds, FuncPanics
<1>10. ASSUME NEW o \in Calls, Reply(o) \/ Quit(o) PROVE TypeOK'
  BY <1>0, <1>10 DEF Reply, Quit, WorkStep
<1>11. CASE CancelCtx
  BY <1>0, <1>11 DEF CancelCtx
<1>12. CASE UNCHANGED vars
  BY <1>0, <1>12 DEF vars
<1>13. QED
  BY <1>1, <1>2, <1>3, <1>4, <1>5, <1>6, <1>7, <1>8, <1>9, <1>10, <1>11, <1>12
     DEF Next, Caller, Worker

\* Every step keeps the order, action by action.
LEMMA OrderStep == OrderInv /\ WaitInv /\ [Next]_vars => OrderInv'
<1> SUFFICES ASSUME OrderInv, WaitInv, [Next]_vars PROVE OrderInv'
  OBVIOUS
<1>0. TypeOK /\ TypeOK'
  BY TypeStep DEF OrderInv
<1>1. ASSUME NEW c \in Calls, Load(c) PROVE OrderInv'
  <2>1. Registered'
    BY <1>0, <1>1 DEF OrderInv, TypeOK, Registered, Load, Step
  <2>2. OnlyRegistered' /\ InOrder'
    BY <1>1 DEF OrderInv, OnlyRegistered, InOrder, Load, workVars, hist
  <2>3. QED BY <1>0, <2>1, <2>2 DEF OrderInv
<1>2. ASSUME NEW c \in Calls, LoadOrStore(c) PROVE OrderInv'
  <2>1. Registered'
    BY <1>0, <1>2, NoneAssumption DEF OrderInv, TypeOK, Registered, LoadOrStore, Step, None
  <2>2. OnlyRegistered'
    BY <1>0, <1>2, NoneAssumption
       DEF OrderInv, TypeOK, OnlyRegistered, LoadOrStore, workVars, None
  <2>3. InOrder'
    <3>1. CASE uniq = None
      <4>1. uniq' = c /\ c # None /\ sent' = <<>> /\ started' = <<>> /\ DataChan'[c] = <<>>
        BY <1>0, <1>2, <3>1, NoneAssumption
           DEF OrderInv, TypeOK, OnlyRegistered, InOrder, LoadOrStore, hist, None
      <4>2. Splits(<<>>, <<>>, <<>>)
        BY DEF Splits
      <4>3. QED BY <4>1, <4>2 DEF InOrder
    <3>2. CASE uniq # None
      BY <1>2, <3>2 DEF OrderInv, InOrder, LoadOrStore, hist
    <3>3. QED BY <3>1, <3>2
  <2>4. QED BY <1>0, <2>1, <2>2, <2>3 DEF OrderInv
<1>3. ASSUME NEW c \in Calls, Run(c) PROVE OrderInv'
  <2>1. Registered' /\ OnlyRegistered'
    BY <1>0, <1>3 DEF OrderInv, TypeOK, Registered, OnlyRegistered, Run, Step, callVars
  <2>2. InOrder'
    BY <1>3 DEF OrderInv, InOrder, Run, callVars, hist
  <2>3. QED BY <1>0, <2>1, <2>2 DEF OrderInv
<1>4. ASSUME NEW c \in Calls, GetChan(c) \/ Wait(c) \/ Put(c) PROVE OrderInv'
  BY <1>0, <1>4, OrderStays
     DEF GetChan, Wait, Put, Step, callVars, workVars, hist, TypeOK
<1>5. ASSUME NEW c \in Calls, Send(c) PROVE OrderInv'
  <2>1. uniq \in Calls /\ mine[c] = uniq /\ uniq # None
    BY <1>0, <1>5, NoneAssumption DEF OrderInv, Registered, Send, Step, None
  <2>2. Registered' /\ OnlyRegistered'
    BY <1>0, <1>5, <2>1
       DEF OrderInv, TypeOK, Registered, OnlyRegistered, Send, Step, callVars, workVars
  <2>3. InOrder'
    <3>1. sent \in Seq(Calls) /\ started \in Seq(Calls) /\ DataChan[uniq] \in Seq(Calls)
      BY <1>0, <2>1 DEF TypeOK
    <3>2. /\ sent' = Append(sent, c) /\ DataChan'[uniq] = Append(DataChan[uniq], c)
          /\ uniq' = uniq /\ started' = started
      BY <1>0, <1>5, <2>1 DEF Send, callVars, TypeOK
    <3>3. Splits(sent, started, DataChan[uniq])
      BY <2>1 DEF OrderInv, InOrder
    <3>4. Splits(sent', started, DataChan'[uniq])
      BY <3>1, <3>2, <3>3, SplitsAppend
    <3>5. QED BY <2>1, <3>2, <3>4 DEF InOrder
  <2>4. QED BY <1>0, <2>2, <2>3 DEF OrderInv
<1>6. ASSUME NEW o \in Calls, Receive(o) PROVE OrderInv'
  <2>1. o = uniq /\ uniq # None
    BY <1>6, NoneAssumption DEF OrderInv, OnlyRegistered, Receive, WorkStep, None
  <2>2. Registered' /\ OnlyRegistered'
    BY <1>0, <1>6, <2>1
       DEF OrderInv, TypeOK, Registered, OnlyRegistered, Receive, WorkStep, callVars
  <2>3. InOrder'
    <3>1. /\ sent \in Seq(Calls) /\ started \in Seq(Calls)
          /\ DataChan[uniq] \in Seq(Calls) /\ DataChan[uniq] # <<>>
      BY <1>0, <1>6, <2>1 DEF TypeOK, Receive
    <3>2. /\ started' = Append(started, Head(DataChan[uniq]))
          /\ DataChan'[uniq] = Tail(DataChan[uniq]) /\ uniq' = uniq /\ sent' = sent
      BY <1>0, <1>6, <2>1 DEF Receive, callVars, TypeOK
    <3>3. Splits(sent, started, DataChan[uniq])
      BY <2>1 DEF OrderInv, InOrder
    <3>4. Splits(sent, started', DataChan'[uniq])
      BY <3>1, <3>2, <3>3, SplitsReceive
    <3>5. QED BY <2>1, <3>2, <3>4 DEF InOrder
  <2>4. QED BY <1>0, <2>2, <2>3 DEF OrderInv
<1>7. ASSUME NEW o \in Calls, FuncEnds(o) \/ FuncPanics(o) \/ Reply(o) \/ Quit(o) PROVE OrderInv'
  BY <1>0, <1>7, OrderStays
     DEF FuncEnds, FuncPanics, Reply, Quit, WorkStep, callVars, hist, TypeOK
<1>8. CASE CancelCtx
  BY <1>0, <1>8, OrderStays DEF CancelCtx, callVars, workVars, hist
<1>9. CASE UNCHANGED vars
  BY <1>0, <1>9, OrderStays DEF vars, callVars, workVars, hist
<1>10. QED
  BY <1>1, <1>2, <1>3, <1>4, <1>5, <1>6, <1>7, <1>8, <1>9 DEF Next, Caller, Worker

-----------------------------------------------------------------------------
(* The answers *)

\* What waiting rests on, when no call is accepted and no function started or
\* ended: it is enough that the calls that hold a channel keep it.
LEMMA WaitStays ==
  ASSUME OrderInv, WaitInv, UNCHANGED <<sent, started, cur, ended, wait, token, free>>,
         uniq' = uniq \/ sent = <<>>,
         UNCHANGED wpc \/ \A o \in Calls : wpc'[o] = wpc[o] \/ ~Busy(o)',
         \A c \in Calls : cpc'[c] = cpc[c] \/ {cpc[c], cpc'[c]} \subseteq {"load", "store", "run", "add"}
  PROVE  WaitInv'
<1> USE DEF WaitInv
<1>1. ASSUME NEW c \in Calls, cpc'[c] \in {"send", "wait", "put", "returned"} \/ cpc[c] \in {"send", "wait", "put", "returned"}
      PROVE  cpc'[c] = cpc[c]
  BY <1>1
<1>2. \A i \in 1 .. Len(sent) : sent[i] \in Calls
  BY LenProperties DEF OrderInv, TypeOK
<1>3. PutIsWaiting'
  BY <1>1 DEF PutIsWaiting
<1>4. SentOnce'
  BY <1>1, <1>2 DEF SentOnce
<1>5. AtLastStarted'
  BY DEF AtLastStarted, Busy
<1>6. Unanswered'
  <2>1. SUFFICES ASSUME NEW i \in 1 .. Len(sent), sent[i] \in Waits,
                        i > Len(started) \/ (i = Len(started) /\ uniq' \in Calls /\ Busy(uniq)')
                 PROVE  cpc'[sent[i]] = "wait" /\ ~token[wait[sent[i]]]
    BY DEF Unanswered
  <2>2. sent # <<>> /\ uniq' = uniq
    BY EmptySeq
  <2>3. i > Len(started) \/ (i = Len(started) /\ uniq \in Calls /\ Busy(uniq))
    BY <2>1, <2>2 DEF Busy
  <2>4. QED BY <1>1, <1>2, <2>1, <2>3 DEF Unanswered
<1>7. OwnChannel'
  BY <1>1 DEF OwnChannel, Holding
<1>8. SendsEmpty' /\ Answered' /\ WaitsForItsOwn'
  BY <1>1, CallsAssumption DEF SendsEmpty, Answered, WaitsForItsOwn
<1>9. QED BY <1>3, <1>4, <1>5, <1>6, <1>7, <1>8

\* Every step keeps what is known of the answers, action by action.
LEMMA WaitStep == OrderInv /\ WaitInv /\ [Next]_vars => WaitInv'
<1> SUFFICES ASSUME OrderInv, WaitInv, [Next]_vars PROVE WaitInv'
  OBVIOUS
<1> USE CallsAssumption DEF WaitInv, callVars, waitVars, workVars, hist
<1>0. TypeOK /\ \A i \in 1 .. Len(sent) : sent[i] \in Calls
  BY LenProperties DEF OrderInv, TypeOK
<1>1. ASSUME NEW c \in Calls, Load(c) PROVE WaitInv'
  BY <1>0, <1>1, WaitStays DEF Load, Step, TypeOK
<1>2. ASSUME NEW c \in Calls, LoadOrStore(c) PROVE WaitInv'
  BY <1>0, <1>2, WaitStays DEF LoadOrStore, Step, TypeOK, OrderInv, InOrder
<1>3. ASSUME NEW c \in Calls, Run(c) PROVE WaitInv'
  BY <1>0, <1>3, WaitStays DEF Run, Step, TypeOK, Busy
<1>4. ASSUME NEW c \in Calls, GetChan(c) PROVE WaitInv'
  <2>1. \A i \in 1 .. Len(sent) : sent[i] # c
    BY <1>4 DEF SentOnce, GetChan, Step
  <2>2. \A d \in Calls : d # c => cpc'[d] = cpc[d] /\ wait'[d] = wait[d]
    BY <1>0, <1>4 DEF GetChan, Step, TypeOK
  <2>3. cpc[c] = "add" /\ cpc'[c] = "send"
    BY <1>0, <1>4 DEF GetChan, Step, TypeOK
  <2>4. \A d \in Calls : Holding(d) => token'[wait[d]] = token[wait[d]] /\ (c \in Waits => wait'[c] # wait[d])
    BY <1>0, <1>4 DEF GetChan, Available, TypeOK, OwnChannel
  <2>5. c \in Waits => wait'[c] \in WaitChans /\ wait'[c] \notin free'
    BY <1>0, <1>4 DEF GetChan, Available, TypeOK
  <2>6. free' \subseteq free
    BY <1>4 DEF GetChan
  <2>7. UNCHANGED <<sent, started, ended, wpc, cur, uniq>>
    BY <1>4 DEF GetChan
  <2>8. PutIsWaiting' /\ SentOnce' /\ AtLastStarted'
    BY <1>0, <2>1, <2>2, <2>3, <2>7 DEF PutIsWaiting, SentOnce, AtLastStarted, Busy
  <2>9. Unanswered'
    BY <1>0, <2>1, <2>2, <2>4, <2>7 DEF Unanswered, Holding, Busy
  <2>10. OwnChannel'
    BY <2>2, <2>3, <2>4, <2>5, <2>6 DEF OwnChannel, Holding
  <2>11. c \in Waits => ~token'[wait'[c]]
    BY <1>0, <1>4 DEF GetChan, Available, TypeOK
  <2>12. SendsEmpty'
    BY <2>2, <2>3, <2>4, <2>11 DEF SendsEmpty, Holding
  <2>13. Answered' /\ WaitsForItsOwn'
    BY <2>2, <2>3, <2>4, <2>7 DEF Answered, WaitsForItsOwn, Holding
  <2>14. QED BY <2>8, <2>9, <2>10, <2>12, <2>13
<1>5. ASSUME NEW c \in Calls, Send(c) PROVE WaitInv'
  <2>1. \A i \in 1 .. Len(sent) : sent[i] # c
    BY <1>5 DEF SentOnce, Send, Step
  <2>2. /\ cpc[c] = "send" /\ cpc'[c] = IF c \in Waits THEN "wait" ELSE "returned"
        /\ \A d \in Calls : d # c => cpc'[d] = cpc[d]
    BY <1>0, <1>5 DEF Send, Step, TypeOK
  <2>3. /\ Len(sent') = Len(sent) + 1 /\ sent'[Len(sent) + 1] = c
        /\ \A i \in 1 .. Len(sent) : sent'[i] = sent[i]
    BY <1>0, <1>5, AppendProperties DEF Send, TypeOK
  <2>4. UNCHANGED <<wait, token, free, started, ended, wpc, cur, uniq>>
    BY <1>5 DEF Send
  <2>5. Len(sent) \in Nat
    BY <1>0, LenProperties DEF TypeOK
  <2>6. SentOnce'
    <3>1. ASSUME NEW i \in 1 .. Len(sent) + 1
          PROVE  cpc'[sent'[i]] \in {"wait", "put", "returned"}
      <4>1. CASE i = Len(sent) + 1
        BY <2>2, <2>3, <4>1
      <4>2. CASE i # Len(sent) + 1
        <5>1. i \in 1 .. Len(sent)
          BY <2>5, <4>2
        <5>2. QED BY <1>0, <2>1, <2>2, <2>3, <5>1 DEF SentOnce
      <4>3. QED BY <4>1, <4>2
    <3>2. ASSUME NEW i \in 1 .. Len(sent) + 1, NEW j \in 1 .. Len(sent) + 1, sent'[i] = sent'[j]
          PROVE  i = j
      BY <2>1, <2>3, <2>5, <3>2 DEF SentOnce
    <3>3. QED BY <2>3, <3>1, <3>2 DEF SentOnce
  <2>7. ~(c \in Waits /\ token[wait[c]])
    BY <1>5 DEF SendsEmpty, Send, Step
  <2>8. Unanswered'
    <3>1. SUFFICES ASSUME NEW i \in 1 .. Len(sent) + 1, sent'[i] \in Waits,
                          i > Len(started) \/ (i = Len(started) /\ uniq \in Calls /\ Busy(uniq))
                   PROVE  cpc'[sent'[i]] = "wait" /\ ~token[wait[sent'[i]]]
      BY <2>3, <2>4 DEF Unanswered, Busy
    <3>2. CASE i = Len(sent) + 1
      BY <2>2, <2>3, <2>7, <3>1, <3>2
    <3>3. CASE i # Len(sent) + 1
      <4>1. i \in 1 .. Len(sent)
        BY <2>5, <3>3
      <4>2. QED BY <1>0, <2>1, <2>2, <2>3, <3>1, <4>1 DEF Unanswered
    <3>4. QED BY <3>2, <3>3
  <2>9. PutIsWaiting' /\ AtLastStarted'
    BY <2>2, <2>4 DEF PutIsWaiting, AtLastStarted, Busy
  <2>10. OwnChannel' /\ SendsEmpty'
    BY <2>2, <2>4 DEF OwnChannel, Holding, SendsEmpty
  <2>11. Answered' /\ WaitsForItsOwn'
    BY <2>2, <2>4, <2>7 DEF Answered, WaitsForItsOwn
  <2>12. QED BY <2>6, <2>8, <2>9, <2>10, <2>11
<1>6. ASSUME NEW c \in Calls, Wait(c) PROVE WaitInv'
  <2>1. /\ cpc[c] = "wait" /\ cpc'[c] = "put" /\ c \in Waits /\ token[wait[c]]
        /\ \A d \in Calls : d # c => cpc'[d] = cpc[d]
    BY <1>0, <1>6 DEF Wait, Step, TypeOK, PutIsWaiting
  <2>2. UNCHANGED <<wait, free, started, sent, ended, wpc, cur, uniq>>
    BY <1>6 DEF Wait
  <2>3. c \in ended /\ c \notin Panics
    BY <2>1 DEF Answered
  <2>4. \A d \in Calls : Holding(d) /\ d # c => token'[wait[d]] = token[wait[d]]
    BY <1>0, <1>6, <2>1 DEF Wait, TypeOK, OwnChannel, Holding
  <2>5. PutIsWaiting' /\ SentOnce' /\ AtLastStarted'
    BY <1>0, <2>1, <2>2 DEF PutIsWaiting, SentOnce, AtLastStarted, Busy
  <2>6. Unanswered'
    BY <1>0, <2>1, <2>2, <2>4 DEF Unanswered, Holding, Busy
  <2>7. OwnChannel'
    BY <2>1, <2>2 DEF OwnChannel, Holding
  <2>8. SendsEmpty' /\ Answered' /\ WaitsForItsOwn'
    BY <2>1, <2>2, <2>3, <2>4 DEF SendsEmpty, Answered, WaitsForItsOwn, Holding
  <2>9. QED BY <2>5, <2>6, <2>7, <2>8
<1>7. ASSUME NEW c \in Calls, Put(c) PROVE WaitInv'
  <2>1. /\ cpc[c] = "put" /\ cpc'[c] = "returned" /\ c \in Waits
        /\ \A d \in Calls : d # c => cpc'[d] = cpc[d]
    BY <1>0, <1>7 DEF Put, Step, TypeOK, PutIsWaiting
  <2>2. UNCHANGED <<wait, token, started, sent, ended, wpc, cur, uniq>> /\ free' = free \cup {wait[c]}
    BY <1>7 DEF Put
  <2>3. PutIsWaiting' /\ SentOnce' /\ AtLastStarted' /\ Unanswered'
    BY <1>0, <2>1, <2>2 DEF PutIsWaiting, SentOnce, AtLastStarted, Busy, Unanswered
  <2>4. OwnChannel'
    BY <2>1, <2>2 DEF OwnChannel, Holding
  <2>5. SendsEmpty' /\ Answered' /\ WaitsForItsOwn'
    BY <2>1, <2>2 DEF SendsEmpty, Answered, WaitsForItsOwn
  <2>6. QED BY <2>3, <2>4, <2>5
<1>8. ASSUME NEW o \in Calls, Receive(o) PROVE WaitInv'
  <2>1. o = uniq /\ uniq # None
    BY <1>8, NoneAssumption DEF OrderInv, OnlyRegistered, Receive, WorkStep, None
  <2>2. Splits(sent, started, DataChan[uniq]) /\ DataChan[uniq] # <<>>
    BY <1>8, <2>1 DEF OrderInv, InOrder, Receive
  <2>3. /\ started' = Append(started, Head(DataChan[uniq])) /\ cur'[o] = Head(DataChan[uniq])
        /\ Head(DataChan[uniq]) \in Calls
    BY <1>0, <1>8, <2>1, <2>2, HeadTailProperties DEF Receive, TypeOK
  <2>4. Len(started) < Len(sent)
    BY <1>0, <2>1, <2>2, SplitsReceive DEF TypeOK
  <2>5. /\ Len(started') = Len(started) + 1 /\ started'[Len(started')] = cur'[o] /\ started' # <<>>
    BY <1>0, <2>3, AppendProperties DEF TypeOK
  <2>6. wpc'[o] = "func" /\ \A p \in Calls : p # o => wpc'[p] = "off"
    BY <1>0, <1>8, <2>1 DEF Receive, WorkStep, TypeOK, OrderInv, OnlyRegistered
  <2>7. UNCHANGED <<cpc, sent, wait, token, free, ended, uniq>>
    BY <1>8 DEF Receive
  <2>8. AtLastStarted'
    BY <2>5, <2>6 DEF AtLastStarted, Busy
  <2>9. Unanswered'
    <3>1. Len(started) \in Nat /\ Len(sent) \in Nat
      BY <1>0, LenProperties DEF TypeOK
    <3>2. SUFFICES ASSUME NEW i \in 1 .. Len(sent), sent[i] \in Waits, i >= Len(started')
                   PROVE  cpc[sent[i]] = "wait" /\ ~token[wait[sent[i]]]
      BY <2>5, <2>7, <3>1 DEF Unanswered
    <3>3. i > Len(started)
      BY <2>5, <3>1, <3>2
    <3>4. QED BY <3>2, <3>3 DEF Unanswered
  <2>10. PutIsWaiting' /\ SentOnce' /\ OwnChannel' /\ SendsEmpty' /\ Answered' /\ WaitsForItsOwn'
    BY <2>7 DEF PutIsWaiting, SentOnce, OwnChannel, Holding, SendsEmpty, Answered, WaitsForItsOwn
  <2>11. QED BY <2>8, <2>9, <2>10
<1>9. ASSUME NEW o \in Calls, FuncEnds(o) \/ FuncPanics(o) PROVE WaitInv'
  <2>1. wpc[o] = "func" /\ \A p \in Calls : p # o => wpc'[p] = wpc[p]
    BY <1>0, <1>9 DEF FuncEnds, FuncPanics, WorkStep, TypeOK
  <2>2. wpc'[o] = "receive" \/ (wpc'[o] = "reply" /\ cur[o] \in Waits /\ cur[o] \notin Panics)
    <3>1. CASE FuncEnds(o)
      BY <1>0, <3>1 DEF FuncEnds, WorkStep, TypeOK
    <3>2. CASE FuncPanics(o)
      BY <1>0, <3>2 DEF FuncPanics, WorkStep, TypeOK
    <3>3. QED BY <1>9, <3>1, <3>2
  <2>3. UNCHANGED <<cpc, sent, started, wait, token, free, cur, uniq>> /\ ended' = ended \cup {cur[o]}
    BY <1>9 DEF FuncEnds, FuncPanics
  <2>4. \A p \in Calls : Busy(p)' => Busy(p)
    BY <2>1, <2>2 DEF Busy
  <2>5. AtLastStarted'
    BY <2>1, <2>2, <2>3, <2>4 DEF AtLastStarted, Busy
  <2>6. Unanswered'
    BY <2>3, <2>4 DEF Unanswered
  <2>7. PutIsWaiting' /\ SentOnce' /\ OwnChannel' /\ SendsEmpty' /\ Answered' /\ WaitsForItsOwn'
    BY <2>3 DEF PutIsWaiting, SentOnce, OwnChannel, Holding, SendsEmpty, Answered, WaitsForItsOwn
  <2>8. QED BY <2>5, <2>6, <2>7
<1>10. ASSUME NEW o \in Calls, Reply(o) PROVE WaitInv'
  <2>1. /\ wpc[o] = "reply" /\ wpc'[o] = "receive" /\ \A p \in Calls : p # o => wpc'[p] = wpc[p]
    BY <1>0, <1>10 DEF Reply, WorkStep, TypeOK
  <2>2. UNCHANGED <<cpc, sent, started, wait, free, cur, ended, uniq>>
    BY <1>10 DEF Reply
  <2>3. started # <<>> /\ cur[o] = started[Len(started)] /\ cur[o] \in (Waits \cap ended) \ Panics
    BY <2>1 DEF AtLastStarted, Busy
  <2>4. o = uniq /\ uniq # None
    BY <2>1, NoneAssumption DEF OrderInv, OnlyRegistered, None
  <2>5. /\ Splits(sent, started, DataChan[uniq])
        /\ Len(started) \in Nat \ {0} /\ Len(sent) \in Nat /\ Len(DataChan[uniq]) \in Nat
    BY <1>0, <2>3, <2>4, LenProperties, EmptySeq DEF OrderInv, InOrder, TypeOK
  <2>6. Len(started) \in 1 .. Len(sent) /\ cur[o] = sent[Len(started)]
    BY <2>3, <2>5 DEF Splits
  <2>7. cpc[cur[o]] = "wait"
    BY <1>0, <2>1, <2>3, <2>4, <2>6 DEF Unanswered, Busy
  <2>8. \A d \in Calls : Holding(d) /\ d # cur[o] => token'[wait[d]] = token[wait[d]]
    BY <1>0, <1>10, <2>3, <2>7 DEF Reply, TypeOK, OwnChannel, Holding
  <2>9. AtLastStarted'
    BY <2>1, <2>2 DEF AtLastStarted, Busy
  <2>10. Unanswered'
    <3>1. SUFFICES ASSUME NEW i \in 1 .. Len(sent), sent[i] \in Waits, i > Len(started)
                   PROVE  cpc[sent[i]] = "wait" /\ ~token'[wait[sent[i]]]
      BY <2>1, <2>2, <2>4 DEF Unanswered, Busy
    <3>2. cpc[sent[i]] = "wait" /\ ~token[wait[sent[i]]]
      BY <3>1 DEF Unanswered
    <3>3. sent[i] # cur[o] /\ sent[i] \in Calls
      BY <1>0, <2>5, <2>6, <3>1 DEF SentOnce
    <3>4. QED BY <2>8, <3>1, <3>2, <3>3 DEF Holding
  <2>11. PutIsWaiting' /\ SentOnce' /\ OwnChannel'
    BY <2>2 DEF PutIsWaiting, SentOnce, OwnChannel, Holding
  <2>12. SendsEmpty' /\ Answered' /\ WaitsForItsOwn'
    BY <2>2, <2>3, <2>7, <2>8 DEF SendsEmpty, Answered, WaitsForItsOwn, Holding
  <2>13. QED BY <2>9, <2>10, <2>11, <2>12
<1>11. ASSUME NEW o \in Calls, Quit(o) PROVE WaitInv'
  BY <1>0, <1>11, WaitStays DEF Quit, WorkStep, TypeOK, Busy
<1>12. CASE CancelCtx
  BY <1>12, WaitStays DEF CancelCtx
<1>13. CASE UNCHANGED vars
  BY <1>13, WaitStays DEF vars
<1>14. QED
  BY <1>1, <1>2, <1>3, <1>4, <1>5, <1>6, <1>7, <1>8, <1>9, <1>10, <1>11, <1>12, <1>13
     DEF Next, Caller, Worker

-----------------------------------------------------------------------------
\* What the invariant says of the order, in the words of the property.
LEMMA OrderGivesOneAtATime == OrderInv => OneAtATime
<1> SUFFICES ASSUME OrderInv PROVE OneAtATime
  OBVIOUS
<1>1. \A o, p \in Calls : wpc[o] \in {"func", "reply"} /\ wpc[p] \in {"func", "reply"} => o = p
  BY DEF OrderInv, OnlyRegistered
<1>2. started \in Seq(Calls) /\ sent \in Seq(Calls)
  BY DEF OrderInv, TypeOK
<1>3. Len(started) \in Nat /\ Len(sent) \in Nat
  BY <1>2, LenProperties
<1>4. Len(started) <= Len(sent) /\ \A i \in 1 .. Len(started) : started[i] = sent[i]
  <2>1. CASE uniq = None
    BY <2>1, EmptySeq DEF OrderInv, InOrder
  <2>2. CASE uniq # None
    <3>1. DataChan[uniq] \in Seq(Calls)
      BY <2>2 DEF OrderInv, TypeOK
    <3>2. Len(DataChan[uniq]) \in Nat
      BY <3>1, LenProperties
    <3>3. QED BY <1>3, <2>2, <3>2 DEF OrderInv, InOrder, Splits
  <2>3. QED BY <2>1, <2>2
<1>5. SubSeq(started, 1, Len(started)) = SubSeq(sent, 1, Len(started))
  <2> DEFINE n == Len(started)
  <2>1. \A i \in 1 .. n : started[i] \in Calls /\ sent[i] \in Calls
    BY <1>2, <1>3, <1>4, LenProperties
  <2>2. /\ SubSeq(started, 1, n) \in Seq(Calls) /\ Len(SubSeq(started, 1, n)) = n
        /\ \A i \in 1 .. n : SubSeq(started, 1, n)[i] = started[i]
    BY <1>3, <2>1, SubSeqProperties
  <2>3. /\ SubSeq(sent, 1, n) \in Seq(Calls) /\ Len(SubSeq(sent, 1, n)) = n
        /\ \A i \in 1 .. n : SubSeq(sent, 1, n)[i] = sent[i]
    BY <1>3, <2>1, SubSeqProperties
  <2>4. QED BY <1>4, <2>2, <2>3, SeqEqual
<1>6. QED BY <1>1, <1>4, <1>5 DEF OneAtATime, IsPrefix

\* The order of the functions and what is known of the answers, in every state.
LEMMA Inductive == Spec => [](OrderInv /\ WaitInv)
<1>1. Init => OrderInv /\ WaitInv
  BY InitHolds
<1>2. OrderInv /\ WaitInv /\ [Next]_vars => OrderInv' /\ WaitInv'
  BY OrderStep, WaitStep
<1>3. QED BY <1>1, <1>2, PTL DEF Spec

\* The functions of a name run one at a time and in the order their calls were
\* accepted, however many calls race to register the name.
THEOREM AlwaysOneAtATime == Spec => []OneAtATime
BY Inductive, OrderGivesOneAtATime, PTL

\* A call with isWait returns only after its own function has ended, though wait
\* channels are pooled and functions may panic.
THEOREM AlwaysWaitsForItsOwn == Spec => []WaitsForItsOwn
<1>1. WaitInv => WaitsForItsOwn
  BY DEF WaitInv
<1>2. QED BY <1>1, Inductive, PTL

-----------------------------------------------------------------------------
(* What appending, concatenating and receiving do to the elements.          *)

LEMMA ElementsAppend ==
  ASSUME NEW S, NEW s \in Seq(S), NEW x \in S
  PROVE  Append(s, x) \in Seq(S) /\ ToSet(Append(s, x)) = ToSet(s) \cup {x}
<1>1. /\ Append(s, x) \in Seq(S) /\ Len(Append(s, x)) = Len(s) + 1 /\ Len(s) \in Nat
      /\ \A i \in 1 .. Len(s) : Append(s, x)[i] = s[i]
      /\ Append(s, x)[Len(s) + 1] = x
  BY AppendProperties, LenProperties
<1>2. DOMAIN Append(s, x) = 1 .. Len(s) + 1 /\ DOMAIN s = 1 .. Len(s)
  BY <1>1, LenProperties
<1>3. 1 .. Len(s) + 1 = (1 .. Len(s)) \cup {Len(s) + 1}
  BY <1>1
<1>4. QED BY <1>1, <1>2, <1>3 DEF ToSet

LEMMA ElementsConcat ==
  ASSUME NEW S, NEW s \in Seq(S), NEW t \in Seq(S)
  PROVE  s \o t \in Seq(S) /\ ToSet(s \o t) = ToSet(s) \cup ToSet(t)
<1>1. /\ s \o t \in Seq(S) /\ Len(s \o t) = Len(s) + Len(t)
      /\ Len(s) \in Nat /\ Len(t) \in Nat
      /\ \A i \in 1 .. Len(s) + Len(t) :
            (s \o t)[i] = IF i <= Len(s) THEN s[i] ELSE t[i - Len(s)]
  BY ConcatProperties, LenProperties
<1>2. /\ DOMAIN (s \o t) = 1 .. Len(s) + Len(t)
      /\ DOMAIN s = 1 .. Len(s) /\ DOMAIN t = 1 .. Len(t)
  BY <1>1, LenProperties
<1>3. ASSUME NEW i \in 1 .. Len(s) + Len(t) PROVE (s \o t)[i] \in ToSet(s) \cup ToSet(t)
  <2>1. CASE i <= Len(s)
    BY <1>1, <1>2, <2>1 DEF ToSet
  <2>2. CASE i > Len(s)
    <3>1. i - Len(s) \in 1 .. Len(t)
      BY <1>1, <2>2
    <3>2. QED BY <1>1, <1>2, <2>2, <3>1 DEF ToSet
  <2>3. QED BY <1>1, <2>1, <2>2
<1>4. ASSUME NEW i \in 1 .. Len(s) PROVE s[i] \in ToSet(s \o t)
  <2>1. i \in 1 .. Len(s) + Len(t) /\ (s \o t)[i] = s[i]
    BY <1>1
  <2>2. QED BY <1>2, <2>1 DEF ToSet
<1>5. ASSUME NEW i \in 1 .. Len(t) PROVE t[i] \in ToSet(s \o t)
  <2>1. Len(s) + i \in 1 .. Len(s) + Len(t) /\ (s \o t)[Len(s) + i] = t[i]
    BY <1>1
  <2>2. QED BY <1>2, <2>1 DEF ToSet
<1>6. QED BY <1>1, <1>2, <1>3, <1>4, <1>5 DEF ToSet

LEMMA ElementsReceive ==
  ASSUME NEW S, NEW s \in Seq(S), s # <<>>
  PROVE  /\ Head(s) \in S /\ Tail(s) \in Seq(S) /\ Len(Tail(s)) = Len(s) - 1
         /\ Head(s) \in ToSet(s) /\ ToSet(Tail(s)) \subseteq ToSet(s)
         /\ ToSet(s) = ToSet(Tail(s)) \cup {Head(s)}
<1>1. /\ Head(s) \in S /\ Tail(s) \in Seq(S) /\ Len(Tail(s)) = Len(s) - 1
      /\ \A i \in 1 .. Len(Tail(s)) : Tail(s)[i] = s[i + 1]
      /\ Len(s) \in Nat \ {0} /\ Head(s) = s[1]
  BY HeadTailProperties, LenProperties, EmptySeq
<1>2. DOMAIN Tail(s) = 1 .. Len(s) - 1 /\ DOMAIN s = 1 .. Len(s)
  BY <1>1, LenProperties
<1>3. Head(s) \in ToSet(s)
  BY <1>1, <1>2 DEF ToSet
<1>4. ASSUME NEW i \in 1 .. Len(s) - 1 PROVE Tail(s)[i] \in ToSet(s)
  <2>1. i + 1 \in 1 .. Len(s)
    BY <1>1
  <2>2. QED BY <1>1, <1>2, <2>1 DEF ToSet
<1>5. ASSUME NEW i \in 1 .. Len(s), i # 1 PROVE s[i] \in ToSet(Tail(s))
  <2>1. i - 1 \in 1 .. Len(s) - 1 /\ (i - 1) + 1 = i
    BY <1>1, <1>5
  <2>2. s[i] = Tail(s)[i - 1]
    BY <1>1, <2>1
  <2>3. QED BY <1>2, <2>1, <2>2 DEF ToSet
<1>6. ToSet(Tail(s)) \subseteq ToSet(s)
  BY <1>2, <1>4 DEF ToSet
<1>7. ToSet(s) \subseteq ToSet(Tail(s)) \cup {Head(s)}
  <2>1. ASSUME NEW i \in 1 .. Len(s) PROVE s[i] \in ToSet(Tail(s)) \cup {Head(s)}
    BY <1>1, <1>5
  <2>2. QED BY <1>2, <2>1 DEF ToSet
<1>8. QED BY <1>1, <1>3, <1>6, <1>7
-----------------------------------------------------------------------------
(* BatchSpawns.  What the goroutine takes it takes whole, and hands to Func *)
(* before it takes again.                                                   *)
EmptyHand == bwpc # "func" => batch = <<>>

\* A signal on its way, or received, is that of a call that has sent it.
SignalsWereSent == \A s \in Batch!Signals : s \in got \/ s \in ToSet(Chan) => spc[s] = "sent"

\* What a received signal covers is further with every step of the goroutine:
\* appended when it is received, in hand after the slice is taken, handled at last.
Behind == IF bwpc \in {"drain", "take"} THEN ToSet(added)
          ELSE IF bwpc = "func" THEN ToSet(handled) \cup ToSet(batch)
          ELSE ToSet(handled)
Covers ==
  /\ \A s \in Batch!Signals : before[s] \subseteq ToSet(added)
  /\ \A s \in Batch!Signals \cap got : before[s] \subseteq Behind
  /\ bwpc = "off" => got = {}

BatchIInv ==
  Batch!TypeOK /\ EmptyHand /\ InOrderOnce /\ SignalsWereSent /\ Covers

LEMMA BatchInit == Batch!Init => BatchIInv
<1>1. SUFFICES ASSUME Batch!Init PROVE BatchIInv
  OBVIOUS
<1>2. /\ <<>> \in Seq(BatchItems) /\ <<>> \in Seq(BatchItems \cup Batch!Signals)
      /\ Len(<<>>) = 0 /\ <<>> \o <<>> = <<>> /\ ToSet(<<>>) = {}
  BY EmptySeq DEF ToSet
<1>3. Batch!TypeOK
  <2>1. /\ ipc \in [BatchItems -> {"idle", "full", "added", "dropped"}]
        /\ spc \in [Batch!Signals -> {"idle", "sending", "sent", "gaveup", "dropped"}]
        /\ before \in [Batch!Signals -> SUBSET BatchItems]
        /\ named \in BOOLEAN /\ got \subseteq BatchItems \cup Batch!Signals
    BY <1>1 DEF Batch!Init
  <2>2. /\ Datas = <<>> /\ batch = <<>> /\ handled = <<>> /\ added = <<>> /\ Chan = <<>>
        /\ bwpc = "off" /\ flag = "tick" /\ lastSent = "tick"
    BY <1>1 DEF Batch!Init
  <2>3. Len(Chan) <= ChanSize
    BY <1>2, <2>2, BatchAssumption
  <2>4. QED BY <1>2, <2>1, <2>2, <2>3 DEF Batch!TypeOK
<1>4. EmptyHand /\ InOrderOnce
  <2>1. handled = <<>> /\ batch = <<>> /\ Datas = <<>> /\ added = <<>>
    BY <1>1 DEF Batch!Init
  <2>2. QED BY <2>1, <1>2 DEF EmptyHand, InOrderOnce, Batch!InOrderOnce
<1>5. SignalsWereSent /\ Covers
  <2>1. got = {} /\ ToSet(Chan) = {} /\ \A s \in Batch!Signals : before[s] = {}
    BY <1>1, <1>2 DEF Batch!Init
  <2>2. QED BY <2>1 DEF SignalsWereSent, Covers
<1>6. QED BY <1>3, <1>4, <1>5 DEF BatchIInv

\* The steps that leave the data alone.
LEMMA BatchOrderStays ==
  ASSUME BatchIInv, UNCHANGED <<Datas, added, handled, batch>>,
         bwpc' = bwpc \/ (bwpc # "func" /\ bwpc' # "func")
  PROVE  EmptyHand' /\ InOrderOnce'
BY DEF BatchIInv, EmptyHand, InOrderOnce, Batch!InOrderOnce

\* A call that moves, and no signal of another with it.
LEMMA BatchCoverStays ==
  ASSUME BatchIInv, UNCHANGED <<Datas, added, handled, batch, bwpc, got, Chan, before>>,
         \A s \in Batch!Signals : spc[s] = "sent" => spc'[s] = "sent"
  PROVE  SignalsWereSent' /\ Covers'
<1>1. SignalsWereSent'
  BY DEF BatchIInv, SignalsWereSent
<1>2. Covers' <=> Covers
  BY DEF Covers, Behind
<1>3. QED BY <1>1, <1>2 DEF BatchIInv

LEMMA BatchRegister ==
  ASSUME BatchIInv, Batch!Register \/ Batch!Run \/ Batch!NotFound PROVE BatchIInv'
<1>1. Batch!TypeOK
  BY DEF BatchIInv
<1>2. CASE Batch!Register
  <2>1. Batch!TypeOK'
    BY <1>1, <1>2 DEF Batch!TypeOK, Batch!Register, Batch!dataVars, Batch!chanVars, Batch!workVars
  <2>2. /\ UNCHANGED <<Datas, added, handled, batch, bwpc, got, Chan, before, spc>>
    BY <1>2 DEF Batch!Register, Batch!dataVars, Batch!chanVars, Batch!workVars
  <2>3. QED BY <2>1, <2>2, BatchOrderStays, BatchCoverStays DEF BatchIInv
<1>3. CASE Batch!Run
  <2>1. Batch!TypeOK'
    BY <1>1, <1>3 DEF Batch!TypeOK, Batch!Run, Batch!dataVars, Batch!chanVars, Batch!workVars
  <2>2. /\ UNCHANGED <<Datas, added, handled, batch, got, Chan, before, spc>>
        /\ bwpc = "off" /\ bwpc' = "select"
    BY <1>3 DEF Batch!Run, Batch!dataVars, Batch!chanVars, Batch!workVars
  <2>3. EmptyHand' /\ InOrderOnce'
    BY <2>2, BatchOrderStays
  <2>4. SignalsWereSent'
    BY <2>2 DEF BatchIInv, SignalsWereSent
  <2>5. Covers'
    BY <2>2 DEF BatchIInv, Covers, Behind
  <2>6. QED BY <2>1, <2>3, <2>4, <2>5 DEF BatchIInv
<1>4. CASE Batch!NotFound
  <2>1. Batch!TypeOK'
    BY <1>1, <1>4 DEF Batch!TypeOK, Batch!NotFound, Batch!Add, Batch!Sig,
                      Batch!dataVars, Batch!chanVars, Batch!workVars
  <2>2. /\ UNCHANGED <<Datas, added, handled, batch, bwpc, got, Chan, before>>
        /\ \A s \in Batch!Signals : spc[s] = "sent" => spc'[s] = "sent"
    BY <1>1, <1>4 DEF Batch!TypeOK, Batch!NotFound, Batch!Add, Batch!Sig,
                      Batch!dataVars, Batch!chanVars, Batch!workVars
  <2>3. QED BY <2>1, <2>2, BatchOrderStays, BatchCoverStays DEF BatchIInv
<1>5. QED BY <1>2, <1>3, <1>4

LEMMA BatchAppendData ==
  ASSUME BatchIInv, NEW d \in BatchItems, Batch!AppendData(d) PROVE BatchIInv'
<1>1. Batch!TypeOK
  BY DEF BatchIInv
<1>2. /\ Datas' = Append(Datas, d) /\ added' = Append(added, d)
      /\ UNCHANGED <<spc, named, Chan, lastSent, bwpc, flag, batch, handled, got, before>>
      /\ ipc' = [ipc EXCEPT ![d] = IF Len(Datas) + 1 = BatchSize THEN "full" ELSE "added"]
  BY DEF Batch!AppendData, Batch!Add, Batch!chanVars, Batch!workVars
<1>3. /\ Datas \in Seq(BatchItems) /\ added \in Seq(BatchItems)
      /\ batch \in Seq(BatchItems) /\ handled \in Seq(BatchItems)
  BY <1>1 DEF Batch!TypeOK
<1>4. /\ Datas' \in Seq(BatchItems) /\ added' \in Seq(BatchItems)
      /\ ToSet(added) \subseteq ToSet(added')
  BY <1>2, <1>3, ElementsAppend
<1>5. Batch!TypeOK'
  BY <1>1, <1>2, <1>4 DEF Batch!TypeOK
<1>6. EmptyHand'
  BY <1>2 DEF BatchIInv, EmptyHand
<1>7. InOrderOnce'
  <2>1. handled \o batch \in Seq(BatchItems)
    BY <1>3, ConcatProperties
  <2>2. (handled \o batch) \o Append(Datas, d) = Append((handled \o batch) \o Datas, d)
    BY <1>3, <2>1
  <2>3. QED BY <1>2, <2>2 DEF BatchIInv, InOrderOnce, Batch!InOrderOnce
<1>8. SignalsWereSent'
  BY <1>2 DEF BatchIInv, SignalsWereSent
<1>9. Covers'
  BY <1>2, <1>4 DEF BatchIInv, Covers, Behind
<1>10. QED BY <1>5, <1>6, <1>7, <1>8, <1>9 DEF BatchIInv

LEMMA BatchSignalFull ==
  ASSUME BatchIInv, NEW d \in BatchItems, Batch!SignalFull(d) PROVE BatchIInv'
<1>1. Batch!TypeOK
  BY DEF BatchIInv
<1>2. /\ ipc' = [ipc EXCEPT ![d] = "added"]
      /\ UNCHANGED <<spc, named, Datas, added, bwpc, flag, batch, handled, got, before>>
      /\ \/ Len(Chan) < ChanSize /\ Chan' = Append(Chan, d) /\ lastSent' = d
         \/ UNCHANGED <<Chan, lastSent>>
  BY DEF Batch!SignalFull, Batch!Add, Batch!HasRoom, Batch!Put, Batch!dataVars,
         Batch!chanVars, Batch!workVars
<1>3. d \in BatchItems \cup Batch!Signals /\ d \notin Batch!Signals
  BY BatchAssumption DEF Batch!Signals
<1>4. /\ Chan' \in Seq(BatchItems \cup Batch!Signals) /\ Len(Chan') <= ChanSize
      /\ ToSet(Chan') \subseteq ToSet(Chan) \cup {d}
  <2>1. Chan \in Seq(BatchItems \cup Batch!Signals) /\ Len(Chan) <= ChanSize
    BY <1>1 DEF Batch!TypeOK
  <2>2. Len(Append(Chan, d)) = Len(Chan) + 1 /\ Len(Chan) \in Nat
    BY <2>1, <1>3, AppendProperties, LenProperties
  <2>3. CASE Len(Chan) < ChanSize /\ Chan' = Append(Chan, d)
    <3>1. Append(Chan, d) \in Seq(BatchItems \cup Batch!Signals)
          /\ ToSet(Append(Chan, d)) = ToSet(Chan) \cup {d}
      BY <1>3, <2>1, ElementsAppend
    <3>2. Len(Chan) + 1 <= ChanSize
      BY <2>2, <2>3, BatchAssumption
    <3>3. QED BY <2>2, <2>3, <3>1, <3>2
  <2>4. CASE UNCHANGED Chan
    BY <2>1, <2>4
  <2>5. QED BY <1>2, <2>3, <2>4
<1>5. Batch!TypeOK'
  BY <1>1, <1>2, <1>3, <1>4 DEF Batch!TypeOK
<1>6. EmptyHand' /\ InOrderOnce'
  BY <1>2, BatchOrderStays
<1>7. SignalsWereSent'
  BY <1>2, <1>3, <1>4 DEF BatchIInv, SignalsWereSent
<1>8. Covers'
  BY <1>2 DEF BatchIInv, Covers, Behind
<1>9. QED BY <1>5, <1>6, <1>7, <1>8 DEF BatchIInv

LEMMA BatchSignal ==
  ASSUME BatchIInv, NEW s \in Batch!Signals,
         Batch!CallSignal(s) \/ Batch!SendSignal(s) \/ Batch!SendTimeout(s)
  PROVE  BatchIInv'
<1>1. Batch!TypeOK
  BY DEF BatchIInv
<1>2. CASE Batch!CallSignal(s)
  <2>1. /\ spc[s] = "idle" /\ spc' = [spc EXCEPT ![s] = "sending"]
        /\ before' = [before EXCEPT ![s] = ToSet(added)]
        /\ UNCHANGED <<ipc, named, Datas, added, Chan, lastSent, bwpc, flag, batch, handled, got>>
    BY <1>2 DEF Batch!CallSignal, Batch!Sig, Batch!dataVars, Batch!chanVars, Batch!workVars,
                Batch!ToSet, ToSet
  <2>2. ToSet(added) \subseteq BatchItems
    BY <1>1 DEF Batch!TypeOK, ToSet
  <2>3. Batch!TypeOK'
    BY <1>1, <2>1, <2>2 DEF Batch!TypeOK
  <2>4. EmptyHand' /\ InOrderOnce'
    BY <2>1, BatchOrderStays
  <2>5. SignalsWereSent'
    BY <1>1, <2>1 DEF BatchIInv, SignalsWereSent, Batch!TypeOK
  <2>6. s \notin got
    BY <2>1 DEF BatchIInv, SignalsWereSent
  <2>7. Covers'
    BY <1>1, <2>1, <2>6 DEF BatchIInv, Covers, Behind, Batch!TypeOK
  <2>8. QED BY <2>3, <2>4, <2>5, <2>7 DEF BatchIInv
<1>3. CASE Batch!SendSignal(s)
  <2>1. /\ spc' = [spc EXCEPT ![s] = "sent"]
        /\ Len(Chan) < ChanSize /\ Chan' = Append(Chan, s) /\ lastSent' = s
        /\ UNCHANGED <<ipc, named, Datas, added, bwpc, flag, batch, handled, got, before>>
    BY <1>3 DEF Batch!SendSignal, Batch!Sig, Batch!HasRoom, Batch!Put,
                Batch!dataVars, Batch!workVars
  <2>2. Chan \in Seq(BatchItems \cup Batch!Signals) /\ s \in BatchItems \cup Batch!Signals
    BY <1>1 DEF Batch!TypeOK
  <2>3. /\ Chan' \in Seq(BatchItems \cup Batch!Signals) /\ ToSet(Chan') = ToSet(Chan) \cup {s}
        /\ Len(Chan') <= ChanSize
    <3>1. Len(Append(Chan, s)) = Len(Chan) + 1 /\ Len(Chan) \in Nat
      BY <2>2, AppendProperties, LenProperties
    <3>2. QED BY <2>1, <2>2, <3>1, ElementsAppend, BatchAssumption
  <2>4. Batch!TypeOK'
    BY <1>1, <2>1, <2>2, <2>3 DEF Batch!TypeOK
  <2>5. EmptyHand' /\ InOrderOnce'
    BY <2>1, BatchOrderStays
  <2>6. SignalsWereSent'
    BY <1>1, <2>1, <2>3 DEF BatchIInv, SignalsWereSent, Batch!TypeOK
  <2>7. Covers'
    BY <2>1 DEF BatchIInv, Covers, Behind
  <2>8. QED BY <2>4, <2>5, <2>6, <2>7 DEF BatchIInv
<1>4. CASE Batch!SendTimeout(s)
  <2>1. /\ spc[s] = "sending" /\ spc' = [spc EXCEPT ![s] = "gaveup"]
        /\ UNCHANGED <<ipc, named, Datas, added, Chan, lastSent, bwpc, flag, batch, handled,
                       got, before>>
    BY <1>4 DEF Batch!SendTimeout, Batch!Sig, Batch!dataVars, Batch!chanVars, Batch!workVars
  <2>2. Batch!TypeOK'
    BY <1>1, <2>1 DEF Batch!TypeOK
  <2>3. \A q \in Batch!Signals : spc[q] = "sent" => spc'[q] = "sent"
    BY <1>1, <2>1 DEF Batch!TypeOK
  <2>4. QED BY <2>1, <2>2, <2>3, BatchOrderStays, BatchCoverStays DEF BatchIInv
<1>5. QED BY <1>2, <1>3, <1>4

LEMMA BatchReceive == ASSUME BatchIInv, Batch!Receive PROVE BatchIInv'
<1>1. Batch!TypeOK
  BY DEF BatchIInv
<1>2. /\ Chan # <<>> /\ bwpc \in {"select", "drain"} /\ bwpc' = "drain"
      /\ flag' = Head(Chan) /\ Chan' = Tail(Chan) /\ got' = got \cup {Head(Chan)}
      /\ UNCHANGED <<ipc, spc, named, Datas, added, lastSent, batch, handled, before>>
  BY DEF Batch!Receive, Batch!Work, Batch!dataVars
<1>3. /\ Head(Chan) \in BatchItems \cup Batch!Signals
      /\ Chan' \in Seq(BatchItems \cup Batch!Signals) /\ Len(Chan') = Len(Chan) - 1
      /\ Head(Chan) \in ToSet(Chan) /\ ToSet(Chan') \subseteq ToSet(Chan)
  BY <1>1, <1>2, ElementsReceive DEF Batch!TypeOK
<1>4. Len(Chan') <= ChanSize
  BY <1>1, <1>2, <1>3, LenProperties, BatchAssumption DEF Batch!TypeOK
<1>5. Batch!TypeOK'
  BY <1>1, <1>2, <1>3, <1>4 DEF Batch!TypeOK
<1>6. EmptyHand' /\ InOrderOnce'
  BY <1>2, BatchOrderStays
<1>7. SignalsWereSent'
  BY <1>2, <1>3 DEF BatchIInv, SignalsWereSent
<1>8. Covers'
  BY <1>2 DEF BatchIInv, Covers, Behind
<1>9. QED BY <1>5, <1>6, <1>7, <1>8 DEF BatchIInv

LEMMA BatchWake == ASSUME BatchIInv, Batch!Drained \/ Batch!Tick PROVE BatchIInv'
<1>1. Batch!TypeOK
  BY DEF BatchIInv
<1>2. /\ bwpc \in {"select", "drain"} /\ bwpc' = "take" /\ flag' \in {flag, "tick"}
      /\ UNCHANGED <<ipc, spc, named, Datas, added, Chan, lastSent, batch, handled, got, before>>
  BY DEF Batch!Drained, Batch!Tick, Batch!Work, Batch!dataVars, Batch!chanVars
<1>3. Batch!TypeOK'
  BY <1>1, <1>2 DEF Batch!TypeOK
<1>4. EmptyHand' /\ InOrderOnce'
  BY <1>2, BatchOrderStays
<1>5. SignalsWereSent'
  BY <1>2 DEF BatchIInv, SignalsWereSent
<1>6. Covers'
  BY <1>2 DEF BatchIInv, Covers, Behind
<1>7. QED BY <1>3, <1>4, <1>5, <1>6 DEF BatchIInv

LEMMA BatchTake == ASSUME BatchIInv, Batch!Take PROVE BatchIInv'
<1>1. Batch!TypeOK
  BY DEF BatchIInv
<1>2. /\ bwpc = "take" /\ bwpc' = "func" /\ batch' = Datas /\ Datas' = <<>>
      /\ UNCHANGED <<ipc, spc, named, added, Chan, lastSent, flag, handled, got, before>>
  BY DEF Batch!Take, Batch!Work, Batch!chanVars
<1>3. /\ Datas \in Seq(BatchItems) /\ handled \in Seq(BatchItems) /\ batch = <<>>
  BY <1>1, <1>2 DEF Batch!TypeOK, BatchIInv, EmptyHand
<1>4. Batch!TypeOK'
  BY <1>1, <1>2, <1>3, EmptySeq DEF Batch!TypeOK
<1>5. handled \o Datas = added /\ (handled \o Datas) \o <<>> = handled \o Datas
  <2>1. handled \o <<>> = handled /\ handled \o Datas \in Seq(BatchItems)
    BY <1>3, ConcatProperties, ConcatEmptySeq
  <2>2. QED BY <1>3, <2>1, ConcatEmptySeq DEF BatchIInv, InOrderOnce, Batch!InOrderOnce
<1>6. EmptyHand' /\ InOrderOnce'
  BY <1>2, <1>5 DEF EmptyHand, InOrderOnce, Batch!InOrderOnce
<1>7. SignalsWereSent'
  BY <1>2 DEF BatchIInv, SignalsWereSent
<1>8. ToSet(added) = ToSet(handled') \cup ToSet(batch')
  <2>1. ToSet(handled \o Datas) = ToSet(handled) \cup ToSet(Datas)
    BY <1>3, ElementsConcat
  <2>2. handled \o Datas = added
    BY <1>5
  <2>3. ToSet(added) = ToSet(handled) \cup ToSet(Datas)
    BY <2>1, <2>2
  <2>4. handled' = handled /\ batch' = Datas
    BY <1>2
  <2>5. QED BY <2>3, <2>4
<1>9. Covers'
  BY <1>2, <1>8 DEF BatchIInv, Covers, Behind
<1>10. QED BY <1>4, <1>6, <1>7, <1>9 DEF BatchIInv

LEMMA BatchCallFunc == ASSUME BatchIInv, Batch!CallFunc PROVE BatchIInv'
<1>1. Batch!TypeOK
  BY DEF BatchIInv
<1>2. /\ bwpc = "func" /\ bwpc' \in {"closed", "select", "panicked"}
      /\ handled' = handled \o batch /\ batch' = <<>>
      /\ UNCHANGED <<ipc, spc, named, Datas, added, Chan, lastSent, flag, got, before>>
  BY DEF Batch!CallFunc, Batch!dataVars, Batch!chanVars
<1>3. handled \in Seq(BatchItems) /\ batch \in Seq(BatchItems) /\ Datas \in Seq(BatchItems)
  BY <1>1 DEF Batch!TypeOK
<1>4. /\ handled' \in Seq(BatchItems)
      /\ ToSet(handled') = ToSet(handled) \cup ToSet(batch)
  BY <1>2, <1>3, ElementsConcat
<1>5. Batch!TypeOK'
  BY <1>1, <1>2, <1>4, EmptySeq DEF Batch!TypeOK
<1>6. EmptyHand' /\ InOrderOnce'
  <2>1. handled' \o <<>> = handled'
    BY <1>4, ConcatEmptySeq
  <2>2. QED BY <1>2, <2>1 DEF BatchIInv, EmptyHand, InOrderOnce, Batch!InOrderOnce
<1>7. SignalsWereSent'
  BY <1>2 DEF BatchIInv, SignalsWereSent
<1>8. Covers'
  BY <1>2, <1>4 DEF BatchIInv, Covers, Behind
<1>9. QED BY <1>5, <1>6, <1>7, <1>8 DEF BatchIInv

LEMMA BatchStutter == ASSUME BatchIInv, UNCHANGED Batch!vars PROVE BatchIInv'
<1>1. UNCHANGED <<ipc, spc, named, Datas, added, Chan, lastSent, bwpc, flag, batch, handled,
                  got, before>>
  BY DEF Batch!vars, Batch!dataVars, Batch!chanVars, Batch!workVars
<1>2. Batch!TypeOK'
  BY <1>1 DEF BatchIInv, Batch!TypeOK
<1>3. QED BY <1>1, <1>2, BatchOrderStays, BatchCoverStays DEF BatchIInv

\* The inductive invariant of BatchSpawns holds in every state.
LEMMA BatchInductive == Batch!Spec => []BatchIInv
<1>1. BatchIInv /\ [Batch!Next]_(Batch!vars) => BatchIInv'
  BY BatchRegister, BatchAppendData, BatchSignalFull, BatchSignal, BatchReceive, BatchWake,
     BatchTake, BatchCallFunc, BatchStutter
     DEF Batch!Next, Batch!Caller, Batch!Worker
<1>2. QED BY BatchInit, <1>1, PTL DEF Batch!Spec

\* BatchSpawns hands every datum over once, in the order in which they were
\* appended: nothing is lost, doubled or overtaken between the slice that
\* callers append to and Func.
THEOREM AlwaysInOrderOnce == Batch!Spec => []InOrderOnce
<1>1. BatchIInv => InOrderOnce
  BY DEF BatchIInv
<1>2. QED BY <1>1, BatchInductive, PTL

\* When the goroutine has dealt with a Flush or Close it has handed over all
\* that was appended before the call, though signals merge in the channel.
THEOREM FlushAlwaysCovers == Batch!Spec => []FlushCovers
<1>1. BatchIInv => FlushCovers
  <2>1. SUFFICES ASSUME BatchIInv, NEW s \in Batch!Signals \cap got,
                        bwpc \in {"select", "closed", "panicked"}
                 PROVE  before[s] \subseteq ToSet(handled)
    BY DEF FlushCovers, Batch!FlushCovers, Batch!ToSet, ToSet
  <2>2. before[s] \subseteq Behind
    BY <2>1 DEF BatchIInv, Covers
  <2>3. Behind = ToSet(handled)
    BY <2>1 DEF Behind
  <2>4. QED BY <2>2, <2>3
<1>2. QED BY <1>1, BatchInductive, PTL

-----------------------------------------------------------------------------
(* ListSpawns.  What was accepted is what Func was given, what the          *)
(* goroutine holds and what is in the channel, in that order.               *)
Passed == accepted = (lhandled \o List!Held) \o LChan

\* Only the last datum that Func was given may be the nil of a Close, and then
\* the goroutine is gone.
NilIsLast ==
  /\ \A i \in 1 .. Len(lhandled) :
       i < Len(lhandled) \/ ~List!Gone => lhandled[i] \in ListItems
  /\ lwpc = "closed" => lhandled # <<>> /\ lhandled[Len(lhandled)] \in ListCloses

\* What had been accepted when a call was made was accepted before that call was.
EarlierIsBefore ==
  /\ \A c \in List!Senders : earlier[c] \subseteq ToSet(accepted)
  /\ \A i \in 1 .. Len(accepted) :
       /\ lpc[accepted[i]] = "sent"
       /\ earlier[accepted[i]] \subseteq {accepted[j] : j \in 1 .. i - 1}

ListIInv == List!TypeOK /\ Passed /\ NilIsLast /\ EarlierIsBefore

LEMMA ListInit == List!Init => ListIInv
<1>1. SUFFICES ASSUME List!Init PROVE ListIInv
  OBVIOUS
<1>2. /\ LChan = <<>> /\ lwpc = "off" /\ data = List!None /\ lhandled = <<>> /\ accepted = <<>>
      /\ lpc = [c \in List!Senders |-> "idle"] /\ earlier = [c \in List!Senders |-> {}]
      /\ LSize \in ListSizes /\ lnamed = FALSE
  BY <1>1 DEF List!Init
<1>3. <<>> \in Seq(List!Senders) /\ Len(<<>>) = 0 /\ <<>> \o <<>> = <<>>
  BY EmptySeq
<1>4. Len(LChan) <= LSize
  BY <1>2, <1>3, ListAssumption
<1>5. List!TypeOK
  BY <1>2, <1>3, <1>4 DEF List!TypeOK
<1>6. Passed
  BY <1>2, <1>3 DEF Passed, List!Held
<1>7. NilIsLast /\ EarlierIsBefore
  BY <1>2, <1>3 DEF NilIsLast, EarlierIsBefore
<1>8. QED BY <1>5, <1>6, <1>7 DEF ListIInv

\* The lengths and elements of what was handled and accepted are naturals and calls.
LEMMA ListLengths ==
  ASSUME ListIInv
  PROVE  /\ Len(lhandled) \in Nat /\ Len(accepted) \in Nat /\ Len(LChan) \in Nat
         /\ \A i \in 1 .. Len(accepted) : accepted[i] \in List!Senders
         /\ \A i \in 1 .. Len(lhandled) : lhandled[i] \in List!Senders
BY LenProperties DEF ListIInv, List!TypeOK

\* The steps that leave the data, and what is known of the senders, alone.
LEMMA ListDataStays ==
  ASSUME ListIInv, UNCHANGED <<LChan, data, lhandled, accepted>>,
         lwpc' = lwpc \/ (lwpc = "off" /\ lwpc' = "receive")
  PROVE  Passed' /\ NilIsLast'
<1>1. Passed'
  BY DEF ListIInv, Passed, List!Held
<1>2. NilIsLast'
  BY DEF ListIInv, NilIsLast, List!Gone
<1>3. QED BY <1>1, <1>2

\* Accepting one more.
LEMMA ListAccept ==
  ASSUME ListIInv, NEW c \in List!Senders, accepted' = Append(accepted, c),
         lpc' = [lpc EXCEPT ![c] = "sent"], earlier' = earlier
  PROVE  accepted' \in Seq(List!Senders) /\ EarlierIsBefore'
<1> DEFINE n == Len(accepted)
<1>1. accepted \in Seq(List!Senders) /\ lpc \in [List!Senders -> {"idle", "sending", "sent", "dropped"}]
  BY DEF ListIInv, List!TypeOK
<1>2. /\ accepted' \in Seq(List!Senders) /\ Len(accepted') = n + 1 /\ n \in Nat
      /\ \A i \in 1 .. n : accepted'[i] = accepted[i]
      /\ accepted'[n + 1] = c /\ ToSet(accepted') = ToSet(accepted) \cup {c}
  BY <1>1, AppendProperties, LenProperties, ElementsAppend
<1>3. \A q \in List!Senders : earlier'[q] \subseteq ToSet(accepted')
  BY <1>2 DEF ListIInv, EarlierIsBefore
<1>4. ASSUME NEW i \in 1 .. n + 1
      PROVE  /\ lpc'[accepted'[i]] = "sent"
             /\ earlier'[accepted'[i]] \subseteq {accepted'[j] : j \in 1 .. i - 1}
  <2>1. CASE i \in 1 .. n
    <3>1. accepted'[i] = accepted[i] /\ accepted[i] \in List!Senders
      BY <1>1, <1>2, <2>1, LenProperties
    <3>2. lpc'[accepted[i]] = "sent"
      BY <1>1, <2>1, <3>1 DEF ListIInv, EarlierIsBefore
    <3>3. \A j \in 1 .. i - 1 : accepted'[j] = accepted[j]
      BY <1>2, <2>1
    <3>4. {accepted'[j] : j \in 1 .. i - 1} = {accepted[j] : j \in 1 .. i - 1}
      BY <3>3
    <3>5. earlier[accepted[i]] \subseteq {accepted[j] : j \in 1 .. i - 1}
      BY <2>1 DEF ListIInv, EarlierIsBefore
    <3>6. QED BY <3>1, <3>2, <3>4, <3>5
  <2>2. CASE i = n + 1
    <3>1. i - 1 = n /\ accepted'[i] = c
      BY <1>2, <2>2
    <3>2. DOMAIN accepted = 1 .. n
      BY <1>1, LenProperties
    <3>3. ToSet(accepted) = {accepted'[j] : j \in 1 .. n}
      BY <1>2, <3>2 DEF ToSet
    <3>4. earlier[c] \subseteq ToSet(accepted)
      BY DEF ListIInv, EarlierIsBefore
    <3>5. lpc'[c] = "sent"
      BY <1>1
    <3>6. QED BY <3>1, <3>3, <3>4, <3>5
  <2>3. QED BY <1>2, <2>1, <2>2
<1>5. QED BY <1>2, <1>3, <1>4 DEF EarlierIsBefore

LEMMA ListRegister == ASSUME ListIInv, List!Register \/ List!Run PROVE ListIInv'
<1>1. /\ UNCHANGED <<lpc, LSize, LChan, data, lhandled, accepted, earlier>>
      /\ lwpc' = lwpc \/ (lwpc = "off" /\ lwpc' = "receive")
      /\ lnamed' \in {lnamed, TRUE}
  BY DEF List!Register, List!Run
<1>2. List!TypeOK'
  BY <1>1 DEF ListIInv, List!TypeOK
<1>3. Passed' /\ NilIsLast'
  BY <1>1, ListDataStays
<1>4. EarlierIsBefore'
  BY <1>1 DEF ListIInv, EarlierIsBefore
<1>5. QED BY <1>2, <1>3, <1>4 DEF ListIInv

LEMMA ListCall == ASSUME ListIInv, NEW c \in List!Senders, List!Call(c) PROVE ListIInv'
<1>1. /\ lpc[c] = "idle" /\ lpc' = [lpc EXCEPT ![c] = IF lnamed THEN "sending" ELSE "dropped"]
      /\ earlier' = [earlier EXCEPT ![c] = ToSet(accepted)]
      /\ UNCHANGED <<lnamed, LSize, LChan, lwpc, data, lhandled, accepted>>
  BY DEF List!Call, List!Goto, List!ToSet, ToSet
<1>2. List!TypeOK
  BY DEF ListIInv
<1>3. ToSet(accepted) \subseteq List!Senders
  BY <1>2, LenProperties DEF List!TypeOK, ToSet
<1>4. List!TypeOK'
  BY <1>1, <1>2, <1>3 DEF List!TypeOK
<1>5. Passed' /\ NilIsLast'
  BY <1>1, ListDataStays
<1>6. \A q \in List!Senders : earlier'[q] \subseteq ToSet(accepted')
  BY <1>1, <1>2 DEF ListIInv, EarlierIsBefore, List!TypeOK
<1>7. ASSUME NEW i \in 1 .. Len(accepted)
      PROVE  /\ lpc'[accepted[i]] = "sent"
             /\ earlier'[accepted[i]] \subseteq {accepted[j] : j \in 1 .. i - 1}
  <2>1. /\ lpc[accepted[i]] = "sent" /\ accepted[i] \in List!Senders
        /\ earlier[accepted[i]] \subseteq {accepted[j] : j \in 1 .. i - 1}
    BY ListLengths DEF ListIInv, EarlierIsBefore
  <2>2. accepted[i] # c
    BY <1>1, <2>1
  <2>3. lpc'[accepted[i]] = lpc[accepted[i]] /\ earlier'[accepted[i]] = earlier[accepted[i]]
    BY <1>1, <1>2, <2>1, <2>2 DEF List!TypeOK
  <2>4. QED BY <2>1, <2>3
<1>8. EarlierIsBefore'
  BY <1>1, <1>6, <1>7 DEF EarlierIsBefore
<1>9. QED BY <1>4, <1>5, <1>8 DEF ListIInv

LEMMA ListSend == ASSUME ListIInv, NEW c \in List!Senders, List!Send(c) PROVE ListIInv'
<1>1. /\ lpc' = [lpc EXCEPT ![c] = "sent"] /\ Len(LChan) < LSize
      /\ LChan' = Append(LChan, c) /\ accepted' = Append(accepted, c)
      /\ UNCHANGED <<lnamed, LSize, lwpc, data, lhandled, earlier>>
  BY DEF List!Send, List!Goto
<1>2. List!TypeOK
  BY DEF ListIInv
<1>3. accepted' \in Seq(List!Senders) /\ EarlierIsBefore'
  BY <1>1, ListAccept
<1>4. LChan' \in Seq(List!Senders) /\ Len(LChan') <= LSize
  <2>1. Len(Append(LChan, c)) = Len(LChan) + 1 /\ Append(LChan, c) \in Seq(List!Senders)
    BY <1>2, AppendProperties DEF List!TypeOK
  <2>2. Len(LChan) \in Nat /\ LSize \in Nat
    BY <1>2, LenProperties, ListAssumption DEF List!TypeOK
  <2>3. QED BY <1>1, <2>1, <2>2
<1>5. List!TypeOK'
  BY <1>1, <1>2, <1>3, <1>4 DEF List!TypeOK
<1>6. Passed'
  <2>1. List!Held' = List!Held
    BY <1>1 DEF List!Held
  <2>2. List!Held \in Seq(List!Senders) /\ lhandled \in Seq(List!Senders) /\ LChan \in Seq(List!Senders)
    BY <1>2 DEF List!Held, List!TypeOK, List!None
  <2>3. lhandled \o List!Held \in Seq(List!Senders)
    BY <2>2, ConcatProperties
  <2>4. (lhandled \o List!Held) \o Append(LChan, c) = Append((lhandled \o List!Held) \o LChan, c)
    BY <2>2, <2>3
  <2>5. QED BY <1>1, <2>1, <2>4 DEF ListIInv, Passed
<1>7. NilIsLast'
  BY <1>1 DEF ListIInv, NilIsLast, List!Gone
<1>8. QED BY <1>3, <1>5, <1>6, <1>7 DEF ListIInv

LEMMA ListMeet == ASSUME ListIInv, NEW c \in List!Senders, List!Meet(c) PROVE ListIInv'
<1>1. /\ LSize = 0 /\ lwpc = "receive" /\ lwpc' = "func"
      /\ lpc' = [lpc EXCEPT ![c] = "sent"] /\ data' = c /\ accepted' = Append(accepted, c)
      /\ UNCHANGED <<lnamed, LSize, LChan, lhandled, earlier>>
  BY DEF List!Meet, List!Work, List!Goto
<1>2. List!TypeOK
  BY DEF ListIInv
<1>3. accepted' \in Seq(List!Senders) /\ EarlierIsBefore'
  BY <1>1, ListAccept
<1>4. c # List!None
  BY ListAssumption DEF List!None, List!Senders
<1>5. List!TypeOK'
  BY <1>1, <1>2, <1>3, <1>4 DEF List!TypeOK
<1>6. Passed'
  <2>1. LChan = <<>>
    BY <1>1, <1>2, LenProperties, EmptySeq DEF List!TypeOK
  <2>2. List!Held = <<>> /\ List!Held' = <<c>>
    BY <1>1, <1>2, <1>4 DEF List!Held, List!TypeOK
  <2>3. lhandled \in Seq(List!Senders) /\ lhandled \o <<>> = lhandled
    BY <1>2, ConcatEmptySeq DEF List!TypeOK
  <2>4. accepted = lhandled
    BY <2>1, <2>2, <2>3 DEF ListIInv, Passed
  <2>5. lhandled \o <<c>> = Append(lhandled, c) /\ Append(lhandled, c) \in Seq(List!Senders)
    BY <2>3, AppendIsConcat, AppendProperties
  <2>6. Append(lhandled, c) \o <<>> = Append(lhandled, c)
    BY <2>5, ConcatEmptySeq
  <2>7. QED BY <1>1, <2>1, <2>2, <2>4, <2>5, <2>6 DEF Passed
<1>7. NilIsLast'
  BY <1>1 DEF ListIInv, NilIsLast, List!Gone
<1>8. QED BY <1>3, <1>5, <1>6, <1>7 DEF ListIInv

LEMMA ListReceive == ASSUME ListIInv, List!Receive PROVE ListIInv'
<1>1. /\ LChan # <<>> /\ lwpc = "receive" /\ lwpc' = "func"
      /\ data' = Head(LChan) /\ LChan' = Tail(LChan)
      /\ UNCHANGED <<lpc, lnamed, LSize, lhandled, accepted, earlier>>
  BY DEF List!Receive, List!Work
<1>2. List!TypeOK
  BY DEF ListIInv
<1>3. /\ LChan \in Seq(List!Senders) /\ lhandled \in Seq(List!Senders)
      /\ Len(LChan) \in Nat /\ LSize \in Nat
  BY <1>2, LenProperties, ListAssumption DEF List!TypeOK
<1>4. /\ Head(LChan) \in List!Senders /\ Tail(LChan) \in Seq(List!Senders)
      /\ Len(Tail(LChan)) = Len(LChan) - 1
  BY <1>1, <1>3, ElementsReceive
<1>5. Head(LChan) # List!None
  BY <1>4, ListAssumption DEF List!None, List!Senders
<1>6. Len(LChan') <= LSize
  BY <1>1, <1>2, <1>3, <1>4 DEF List!TypeOK
<1>7. List!TypeOK'
  BY <1>1, <1>2, <1>4, <1>5, <1>6 DEF List!TypeOK
<1>8. Passed'
  <2>1. List!Held = <<>> /\ List!Held' = <<Head(LChan)>>
    BY <1>1, <1>2, <1>5 DEF List!Held, List!TypeOK
  <2>2. lhandled \o <<>> = lhandled
    BY <1>3, ConcatEmptySeq
  <2>3. LChan = <<Head(LChan)>> \o Tail(LChan)
    BY <1>1, <1>3
  <2>4. <<Head(LChan)>> \in Seq(List!Senders)
    BY <1>4
  <2>5. lhandled \o (<<Head(LChan)>> \o Tail(LChan)) = (lhandled \o <<Head(LChan)>>) \o Tail(LChan)
    BY <1>3, <1>4, <2>4, ConcatAssociative
  <2>6. QED BY <1>1, <2>1, <2>2, <2>3, <2>5 DEF ListIInv, Passed
<1>9. NilIsLast'
  BY <1>1 DEF ListIInv, NilIsLast, List!Gone
<1>10. EarlierIsBefore'
  BY <1>1 DEF ListIInv, EarlierIsBefore
<1>11. QED BY <1>7, <1>8, <1>9, <1>10 DEF ListIInv

LEMMA ListCallFunc == ASSUME ListIInv, List!CallFunc PROVE ListIInv'
<1>1. /\ lwpc = "func" /\ lhandled' = Append(lhandled, data) /\ data' = List!None
      /\ \/ lwpc' = IF data \in ListCloses THEN "closed" ELSE "receive"
         \/ lwpc' = "panicked"
      /\ UNCHANGED <<lpc, lnamed, LSize, LChan, accepted, earlier>>
  BY DEF List!CallFunc
<1>2. List!TypeOK
  BY DEF ListIInv
<1>3. data \in List!Senders /\ data # List!None /\ lhandled \in Seq(List!Senders)
  BY <1>1, <1>2 DEF List!TypeOK
<1>4. /\ lhandled' \in Seq(List!Senders) /\ Len(lhandled') = Len(lhandled) + 1
      /\ Len(lhandled) \in Nat /\ lhandled'[Len(lhandled) + 1] = data
      /\ \A i \in 1 .. Len(lhandled) : lhandled'[i] = lhandled[i]
  BY <1>1, <1>3, AppendProperties, LenProperties
<1>5. List!TypeOK'
  BY <1>1, <1>2, <1>4 DEF List!TypeOK
<1>6. Passed'
  <2>1. List!Held = <<data>> /\ List!Held' = <<>>
    BY <1>1, <1>3 DEF List!Held
  <2>2. lhandled \o <<data>> = lhandled' /\ lhandled' \o <<>> = lhandled'
    BY <1>1, <1>3, <1>4, AppendIsConcat, ConcatEmptySeq
  <2>3. QED BY <1>1, <2>1, <2>2 DEF ListIInv, Passed
<1>7. NilIsLast'
  <2>1. \A i \in 1 .. Len(lhandled) : lhandled'[i] \in ListItems
    BY <1>1, <1>4 DEF ListIInv, NilIsLast, List!Gone
  <2>2. ~List!Gone' => data \in ListItems
    BY <1>1, <1>3 DEF List!Gone, List!Senders
  <2>3. lwpc' = "closed" => data \in ListCloses
    BY <1>1
  <2>4. lhandled' # <<>>
    BY <1>4, EmptySeq
  <2>5. QED BY <1>4, <2>1, <2>2, <2>3, <2>4 DEF NilIsLast
<1>8. EarlierIsBefore'
  BY <1>1 DEF ListIInv, EarlierIsBefore
<1>9. QED BY <1>5, <1>6, <1>7, <1>8 DEF ListIInv

LEMMA ListStutter == ASSUME ListIInv, UNCHANGED List!vars PROVE ListIInv'
<1>1. UNCHANGED <<lpc, lnamed, LSize, LChan, lwpc, data, lhandled, accepted, earlier>>
  BY DEF List!vars
<1>2. List!TypeOK'
  BY <1>1 DEF ListIInv, List!TypeOK
<1>3. EarlierIsBefore' <=> EarlierIsBefore
  BY <1>1 DEF EarlierIsBefore
<1>4. QED BY <1>1, <1>2, <1>3, ListDataStays DEF ListIInv

\* The inductive invariant of ListSpawns holds in every state.
LEMMA ListInductive == List!Spec => []ListIInv
<1>1. ListIInv /\ [List!Next]_(List!vars) => ListIInv'
  BY ListRegister, ListCall, ListSend, ListMeet, ListReceive, ListCallFunc, ListStutter
     DEF List!Next, List!Caller
<1>2. QED BY ListInit, <1>1, PTL DEF List!Spec

\* When a Close has ended the goroutine of a ListSpawns, Func was given all that
\* was accepted before that Close was called, and nothing accepted after it.
THEOREM CloseIsAlwaysACut == List!Spec => []CloseIsACut
<1>1. ASSUME ListIInv, lwpc = "closed"
      PROVE  /\ Last(lhandled) \in ListCloses
             /\ earlier[Last(lhandled)] \subseteq ToSet(lhandled)
             /\ \A i \in 1 .. Len(lhandled) - 1 : lhandled[i] \in ListItems
  <2> DEFINE n == Len(lhandled)
  <2>1. /\ lhandled \in Seq(List!Senders) /\ LChan \in Seq(List!Senders) /\ data = List!None
        /\ lhandled # <<>> /\ lhandled[n] \in ListCloses
    BY <1>1 DEF ListIInv, List!TypeOK, NilIsLast
  <2>2. Last(lhandled) = lhandled[n] /\ n \in Nat \ {0} /\ DOMAIN lhandled = 1 .. n
    BY <2>1, LenProperties, EmptySeq DEF Last
  <2>3. accepted = lhandled \o LChan
    <3>1. lhandled \o <<>> = lhandled
      BY <2>1, ConcatEmptySeq
    <3>2. List!Held = <<>>
      BY <2>1 DEF List!Held
    <3>3. QED BY <1>1, <3>1, <3>2 DEF ListIInv, Passed
  <2>4. n <= Len(accepted) /\ \A i \in 1 .. n : accepted[i] = lhandled[i]
    BY <2>1, <2>2, <2>3, ConcatProperties, LenProperties
  <2>5. n \in 1 .. Len(accepted)
    BY <1>1, <2>2, <2>4, ListLengths
  <2>6. earlier[lhandled[n]] \subseteq {accepted[j] : j \in 1 .. n - 1}
    BY <1>1, <2>2, <2>4, <2>5 DEF ListIInv, EarlierIsBefore
  <2>7. {accepted[j] : j \in 1 .. n - 1} \subseteq ToSet(lhandled)
    BY <2>2, <2>4 DEF ToSet
  <2>8. \A i \in 1 .. n - 1 : lhandled[i] \in ListItems
    BY <1>1, <2>2 DEF ListIInv, NilIsLast
  <2>9. QED BY <2>1, <2>2, <2>6, <2>7, <2>8
<1>2. ListIInv => CloseIsACut
  BY <1>1 DEF CloseIsACut, List!CloseIsACut, List!Last, Last, List!ToSet, ToSet
<1>3. QED BY <1>2, ListInductive, PTL
=============================================================================
