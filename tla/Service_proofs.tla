--------------------------- MODULE Service_proofs ---------------------------
(* For any listeners, connections and calls of Close, and a Config that     *)
(* changes at any time: what the counter of every WaitGroup is, and what a  *)
(* Close that returns has waited for.                                       *)
EXTENDS Service, FiniteSetTheorems, TLAPS

\* A connection that has not begun is on no group.
Fresh == \A c \in Conns : conn[c] = "no" => added[c] = None /\ release[c] = None /\ c \notin late

PastQuit == {"listener", "wait", "parked", "woken", "back", "panicked"}

\* Who calls Close has a Service, quits, and closes the listener before he waits.
Closing ==
    \A s \in Services, k \in Closers :
        /\ close[s][k] # "no" => listen[s] \in {"accepting", "ended"}
        /\ close[s][k] \in PastQuit => s \in IsQuit
        /\ close[s][k] \in PastQuit \ {"listener"} => s \notin open

Waited == {"woken", "back"}

AllThere(s) == Cardinality(OnTime(s)) + Acceptor(s) <= Cardinality(Stolen(s))

\* Nothing is missing from the time the Wait is woken.
Final == \A s \in Services, k \in Closers : close[s][k] \in Waited => AllThere(s)

IInv == TypeOK /\ Fresh /\ Closing /\ Final

Places == {"no", "spawned", "begun", "run", "waits", "ending", "done"}
ClosePlaces == {"no", "quit", "listener", "wait", "parked", "woken", "back", "panicked"}

-----------------------------------------------------------------------------
(* Counting                                                                 *)

\* All that is counted can be.
LEMMA Countable ==
    ASSUME NEW s
    PROVE  /\ IsFiniteSet(Adds(s)) /\ Cardinality(Adds(s)) \in Nat
           /\ IsFiniteSet(Dones(s)) /\ Cardinality(Dones(s)) \in Nat
BY ConnsAreFinite, FS_Subset, FS_CardinalityType DEF Adds, Dones

\* Of added and released connections, those that have not been released yet
\* are no more than the strangers among the released, when the counts agree.
LEMMA Balance ==
    ASSUME NEW A, NEW D, NEW H, IsFiniteSet(A), IsFiniteSet(D), H \subseteq A, H \cap D = {},
           NEW a \in {0, 1}, 0 = a + Cardinality(A) - Cardinality(D)
    PROVE  Cardinality(H) + a <= Cardinality(D \ A)
<1>1. H \subseteq A \ D /\ A \cap D = D \cap A
  OBVIOUS
<1>2. IsFiniteSet(A \ D) /\ IsFiniteSet(D \ A) /\ IsFiniteSet(H) /\ IsFiniteSet(A \cap D)
  BY FS_Subset
<1>3. Cardinality(H) <= Cardinality(A \ D)
  BY <1>1, <1>2, FS_Subset
<1>4. Cardinality(A \ D) = Cardinality(A) - Cardinality(A \cap D)
  BY FS_Difference
<1>5. Cardinality(D \ A) = Cardinality(D) - Cardinality(A \cap D)
  BY <1>1, FS_Difference
<1>6. /\ Cardinality(A) \in Nat /\ Cardinality(D) \in Nat /\ Cardinality(H) \in Nat
      /\ Cardinality(A \cap D) \in Nat
  BY <1>2, FS_CardinalityType
<1>7. QED BY <1>3, <1>4, <1>5, <1>6

\* When a counter is zero nothing is missing.
LEMMA ZeroIsEnough ==
    ASSUME TypeOK', NEW s \in Services, WaitGroup'[s] = 0
    PROVE  AllThere(s)'
<1>1. /\ OnTime(s)' \subseteq Adds(s)' /\ OnTime(s)' \cap Dones(s)' = {}
      /\ IsFiniteSet(Adds(s)') /\ IsFiniteSet(Dones(s)')
  BY ConnsAreFinite, FS_Subset DEF OnTime, Holders, Adds, Dones, Running
<1>2. 0 = AcceptorAdded(s)' + Cardinality(Adds(s)') - Cardinality(Dones(s)')
  BY DEF TypeOK
<1>3. AcceptorAdded(s)' \in {0, 1} /\ Acceptor(s)' \in {0, 1} /\ Acceptor(s)' <= AcceptorAdded(s)'
  BY DEF AcceptorAdded, Acceptor
<1>4. Cardinality(OnTime(s)') + AcceptorAdded(s)' <= Cardinality(Dones(s)' \ Adds(s)')
  BY <1>1, <1>2, <1>3, Balance
<1>5. Cardinality(OnTime(s)') \in Nat /\ Cardinality(Dones(s)' \ Adds(s)') \in Nat
  BY <1>1, FS_Subset, FS_CardinalityType
<1>6. Cardinality(OnTime(s)') + Acceptor(s)' <= Cardinality(Dones(s)' \ Adds(s)')
  BY <1>3, <1>4, <1>5
<1>7. QED BY <1>6 DEF AllThere, Stolen

\* What a step must not do to a group whose Wait has been woken.
Settles(s) ==
    /\ OnTime(s)' \subseteq OnTime(s) /\ Acceptor(s)' <= Acceptor(s)
    /\ Stolen(s) \subseteq Stolen(s)'

\* Then Final goes on.
LEMMA StaysFinal ==
    ASSUME IInv, TypeOK',
           NEW s \in Services, NEW k \in Closers, close'[s][k] \in Waited,
           close[s][k] \in Waited \/ WaitGroup'[s] = 0,
           close[s][k] \in Waited => Settles(s)
    PROVE  AllThere(s)'
<1>1. CASE WaitGroup'[s] = 0
  BY <1>1, ZeroIsEnough
<1>2. CASE close[s][k] \in Waited
  <2>1. Cardinality(OnTime(s)) + Acceptor(s) <= Cardinality(Stolen(s)) /\ Settles(s)
    BY <1>2 DEF IInv, Final, AllThere
  <2>2. IsFiniteSet(OnTime(s)) /\ IsFiniteSet(Stolen(s)')
    BY ConnsAreFinite, FS_Subset DEF OnTime, Holders, Adds, Stolen, Dones
  <2>3. /\ Cardinality(OnTime(s)') <= Cardinality(OnTime(s))
        /\ Cardinality(Stolen(s)) <= Cardinality(Stolen(s)')
        /\ Acceptor(s)' <= Acceptor(s)
    BY <2>1, <2>2, FS_Subset DEF Settles
  <2>4. IsFiniteSet(OnTime(s)') /\ IsFiniteSet(Stolen(s))
    BY <2>1, <2>2, FS_Subset DEF Settles
  <2>5. {Cardinality(OnTime(s)), Cardinality(OnTime(s)'), Cardinality(Stolen(s)),
         Cardinality(Stolen(s)')} \subseteq Nat /\ {Acceptor(s), Acceptor(s)'} \subseteq Nat
    BY <2>2, <2>4, FS_CardinalityType DEF Acceptor
  <2>6. Cardinality(OnTime(s)') + Acceptor(s)' <= Cardinality(Stolen(s)')
    BY <2>1, <2>3, <2>5
  <2>7. QED BY <2>6 DEF AllThere
<1>3. QED BY <1>1, <1>2

\* What Count does to the counters, and to the calls of Close.
LEMMA Counting ==
    ASSUME TypeOK, NEW t \in Services \cup {None}, NEW n \in {-1, 1}, Count(t, n)
    PROVE  /\ WaitGroup' \in [Services -> Int]
           /\ \A s \in Services : WaitGroup'[s] = WaitGroup[s] + IF s = t THEN n ELSE 0
           /\ close' \in [Services -> [Closers -> ClosePlaces]]
           /\ \A s \in Services, k \in Closers :
                 \/ close'[s][k] = close[s][k]
                 \/ close[s][k] = "parked" /\ close'[s][k] = "woken" /\ WaitGroup'[s] = 0
<1>1. WaitGroup \in [Services -> Int] /\ close \in [Services -> [Closers -> ClosePlaces]]
  BY DEF TypeOK, ClosePlaces
<1>2. CASE t \in Services
  <2> DEFINE w == [k \in Closers |-> IF close[t][k] = "parked" THEN "woken" ELSE close[t][k]]
  <2>1. WaitGroup' = [WaitGroup EXCEPT ![t] = WaitGroup[t] + n]
    BY <1>2 DEF Count
  <2>2. close' = IF WaitGroup[t] + n = 0 THEN [close EXCEPT ![t] = w] ELSE close
    BY <1>2 DEF Count
  <2>3. w \in [Closers -> ClosePlaces]
    BY <1>1, <1>2 DEF ClosePlaces
  <2>4. WaitGroup'[t] = WaitGroup[t] + n
    BY <1>1, <1>2, <2>1
  <2>5. close' \in [Services -> [Closers -> ClosePlaces]]
    BY <1>1, <2>2, <2>3
  <2>6. \A s \in Services, k \in Closers :
            \/ close'[s][k] = close[s][k]
            \/ close[s][k] = "parked" /\ close'[s][k] = "woken" /\ WaitGroup'[s] = 0
    BY <1>1, <1>2, <2>2, <2>4
  <2>7. WaitGroup' \in [Services -> Int]
    BY <1>1, <1>2, <2>1
  <2>8. \A s \in Services : WaitGroup'[s] = WaitGroup[s] + IF s = t THEN n ELSE 0
    BY <1>1, <1>2, <2>1
  <2>9. QED BY <2>5, <2>6, <2>7, <2>8
<1>3. CASE t \notin Services
  BY <1>1, <1>3 DEF Count, groupVars
<1>4. QED BY <1>2, <1>3

-----------------------------------------------------------------------------
\* The invariant holds at first.
LEMMA InitHolds == Init => IInv
<1> SUFFICES ASSUME Init PROVE IInv
  OBVIOUS
<1>1. \A s \in Services : Adds(s) = {} /\ Dones(s) = {} /\ AcceptorAdded(s) = 0
  BY NoneIsNoService DEF Init, Adds, Dones, AcceptorAdded
<1>2. TypeOK
  BY <1>1, FS_EmptySet DEF Init, TypeOK
<1>3. Fresh /\ Closing /\ Final
  BY DEF Init, Fresh, Closing, Final, PastQuit, Waited
<1>4. QED BY <1>2, <1>3 DEF IInv

\* A connection goes on, and calls neither Add nor Done.
LEMMA GoesOn ==
    ASSUME IInv, NEW c \in Conns, Begin(c) \/ CallFunc(c) \/ Run(c) \/ End(c)
    PROVE  IInv'
<1> USE DEF IInv
<1>1. /\ conn' \in [Conns -> Places] /\ Running(c) /\ Running(c)'
      /\ \A d \in Conns : d # c => conn'[d] = conn[d]
  BY DEF TypeOK, Begin, CallFunc, Run, End, Running, Places
<1>2. UNCHANGED <<serviceVars, groupVars, added, dialled, late>>
  BY DEF Begin, CallFunc, Run, End
<1>3. /\ release' \in [Conns -> Services \cup {None}] /\ waitsFor' \in [Conns -> Services \cup {None}]
      /\ \A d \in Conns : d # c => release'[d] = release[d]
  BY DEF TypeOK, Begin, CallFunc, Run, End
<1>4. \A s \in Services : Adds(s)' = Adds(s) /\ Dones(s)' = Dones(s)
  BY <1>1, <1>2, <1>3 DEF Adds, Dones, Running
<1>5. ASSUME NEW s \in Services PROVE OnTime(s)' = OnTime(s)
  <2>1. \A d \in Conns : Running(d)' <=> Running(d)
    BY <1>1 DEF Running
  <2>2. Adds(s)' = Adds(s) /\ late' = late /\ Adds(s) \subseteq Conns
    BY <1>2, <1>4 DEF Adds
  <2>3. Holders(s)' = Holders(s)
    BY <2>1, <2>2 DEF Holders
  <2>4. QED BY <2>2, <2>3 DEF OnTime
<1>6. TypeOK'
  <2>1. \A s \in Services : AcceptorAdded(s)' = AcceptorAdded(s)
    BY <1>2 DEF AcceptorAdded, serviceVars
  <2>2. ASSUME NEW s \in Services
        PROVE  WaitGroup'[s] = AcceptorAdded(s)' + Cardinality(Adds(s)') - Cardinality(Dones(s)')
    <3>1. WaitGroup[s] = AcceptorAdded(s) + Cardinality(Adds(s)) - Cardinality(Dones(s))
      BY DEF TypeOK
    <3>2. QED BY <1>2, <1>4, <2>1, <3>1 DEF groupVars
  <2>3. QED BY <1>1, <1>2, <1>3, <2>2 DEF TypeOK, serviceVars, groupVars, Places
<1>7. Fresh' /\ Closing'
  BY <1>1, <1>2, <1>3 DEF Fresh, Closing, Running, serviceVars, groupVars
<1>8. Final'
  BY <1>2, <1>4, <1>5 DEF Final, AllThere, Stolen, Acceptor, serviceVars, groupVars
<1>9. QED BY <1>6, <1>7, <1>8

\* The steps of a connection with its Done.
LEMMA Ends ==
    ASSUME IInv, NEW c \in Conns, CallFuncPanic(c) \/ Return(c)
    PROVE  IInv'
<1> USE DEF IInv
<1>1. /\ conn' \in [Conns -> Places] /\ Running(c) /\ conn[c] # "done" /\ conn'[c] = "done"
      /\ \A d \in Conns : d # c => conn'[d] = conn[d]
  BY DEF TypeOK, CallFuncPanic, Return, Running, Places
<1>2. UNCHANGED <<serviceVars, added, release, waitsFor, dialled, late>> /\ Count(release[c], -1)
  BY DEF CallFuncPanic, Return
<1>3. release[c] \in Services \cup {None}
  BY DEF TypeOK
<1>4. /\ WaitGroup' \in [Services -> Int]
      /\ \A s \in Services : WaitGroup'[s] = WaitGroup[s] + IF s = release[c] THEN -1 ELSE 0
      /\ close' \in [Services -> [Closers -> ClosePlaces]]
      /\ \A s \in Services, k \in Closers :
            \/ close'[s][k] = close[s][k]
            \/ close[s][k] = "parked" /\ close'[s][k] = "woken" /\ WaitGroup'[s] = 0
  BY <1>2, <1>3, Counting
<1>5. ASSUME NEW s \in Services
      PROVE  /\ Adds(s)' = Adds(s) /\ OnTime(s)' \subseteq OnTime(s)
             /\ Dones(s)' = IF s = release[c] THEN Dones(s) \cup {c} ELSE Dones(s)
             /\ c \notin Dones(s)
  BY <1>1, <1>2 DEF Adds, OnTime, Holders, Running, Dones
<1>6. ASSUME NEW s \in Services
      PROVE  Cardinality(Dones(s)') = Cardinality(Dones(s)) + IF s = release[c] THEN 1 ELSE 0
  BY <1>5, Countable, FS_AddElement
<1>7. ASSUME NEW s \in Services
      PROVE  WaitGroup'[s] = AcceptorAdded(s)' + Cardinality(Adds(s)') - Cardinality(Dones(s)')
  <2>1. WaitGroup[s] = AcceptorAdded(s) + Cardinality(Adds(s)) - Cardinality(Dones(s))
    BY DEF TypeOK
  <2>2. AcceptorAdded(s)' = AcceptorAdded(s) /\ AcceptorAdded(s) \in Int
    BY <1>2 DEF AcceptorAdded, serviceVars
  <2>3. QED BY <1>4, <1>5, <1>6, <2>1, <2>2, Countable
<1>8. TypeOK'
  BY <1>1, <1>2, <1>4, <1>7 DEF TypeOK, serviceVars, Places, ClosePlaces
<1>9. Fresh'
  BY <1>1, <1>2 DEF Fresh
<1>10. Closing'
  BY <1>2, <1>4 DEF Closing, PastQuit, serviceVars
<1>11. \A s \in Services : Settles(s)
  BY <1>2, <1>5 DEF Settles, Acceptor, Stolen, serviceVars
<1>12. Final'
  BY <1>4, <1>8, <1>11, StaysFinal DEF Final, Waited
<1>13. QED BY <1>8, <1>9, <1>10, <1>12

\* A connection begins, and Add returns or panics.
LEMMA Begins ==
    ASSUME IInv, NEW c \in Conns, NEW s \in Services \cup {None}, Begun(c, s),
           UNCHANGED <<config, IsQuit, open>>,
           \/ /\ Count(s, 1) /\ UNCHANGED listen
           \/ /\ AddPanics(s) /\ UNCHANGED groupVars
              /\ listen[s] = "accepting" /\ listen' = [listen EXCEPT ![s] = "ended"],
           \/ s \in open /\ UNCHANGED <<dialled, late>>
           \/ /\ dialled' = dialled \cup {c}
              /\ late' = IF s \in IsQuit THEN late \cup {c} ELSE late
    PROVE  IInv'
<1> USE DEF IInv
<1>1. /\ conn' \in [Conns -> Places] /\ conn[c] = "no" /\ conn'[c] \in {"spawned", "done"}
      /\ added' \in [Conns -> Services \cup {None}] /\ added'[c] = s
      /\ \A d \in Conns : d # c => conn'[d] = conn[d] /\ added'[d] = added[d]
      /\ UNCHANGED <<release, waitsFor>>
  BY DEF TypeOK, Begun, Places
<1>2. /\ dialled' \subseteq Conns /\ late' \subseteq Conns
      /\ \A d \in Conns : d # c => (d \in late' <=> d \in late)
      /\ s \in IsQuit => s \in open \/ c \in late'
  BY DEF TypeOK
<1>3. added[c] = None /\ release[c] = None
  BY <1>1 DEF Fresh
<1>4. /\ WaitGroup' \in [Services -> Int]
      /\ close' \in [Services -> [Closers -> ClosePlaces]]
      /\ \A t \in Services, k \in Closers :
            \/ close'[t][k] = close[t][k]
            \/ close[t][k] = "parked" /\ close'[t][k] = "woken" /\ WaitGroup'[t] = 0
  BY Counting DEF TypeOK, ClosePlaces, groupVars
<1>5. ASSUME NEW t \in Services
      PROVE  WaitGroup'[t] = WaitGroup[t] + (IF t = s THEN 1 ELSE 0)
                               + AcceptorAdded(t)' - AcceptorAdded(t)
  <2>1. WaitGroup[t] \in Int
    BY DEF TypeOK
  <2>2. CASE Count(s, 1) /\ UNCHANGED listen
    BY <2>1, <2>2, Counting DEF AcceptorAdded
  <2>3. CASE /\ AddPanics(s) /\ UNCHANGED groupVars
             /\ listen[s] = "accepting" /\ listen' = [listen EXCEPT ![s] = "ended"]
    <3>1. s \in Services /\ listen \in [Services -> {"no", "given", "accepting", "ended", "failed"}]
      BY <2>3 DEF AddPanics, TypeOK
    <3>2. CASE t = s
      BY <2>1, <2>3, <3>1, <3>2 DEF AcceptorAdded, groupVars
    <3>3. CASE t # s
      BY <2>1, <2>3, <3>1, <3>3 DEF AcceptorAdded, groupVars
    <3>4. QED BY <3>2, <3>3
  <2>4. QED BY <2>2, <2>3
<1>6. ASSUME NEW t \in Services
      PROVE  /\ Adds(t)' = IF t = s THEN Adds(t) \cup {c} ELSE Adds(t)
             /\ c \notin Adds(t) /\ Dones(t)' = Dones(t) /\ c \notin Dones(t)
  BY <1>1, <1>3, NoneIsNoService DEF Adds, Dones
<1>7. ASSUME NEW t \in Services
      PROVE  Cardinality(Adds(t)') = Cardinality(Adds(t)) + IF t = s THEN 1 ELSE 0
  BY <1>6, Countable, FS_AddElement
<1>8. ASSUME NEW t \in Services
      PROVE  WaitGroup'[t] = AcceptorAdded(t)' + Cardinality(Adds(t)') - Cardinality(Dones(t)')
  <2>1. WaitGroup[t] = AcceptorAdded(t) + Cardinality(Adds(t)) - Cardinality(Dones(t))
    BY DEF TypeOK
  <2>2. AcceptorAdded(t) \in Int /\ AcceptorAdded(t)' \in Int
    BY DEF AcceptorAdded
  <2>3. QED BY <1>5, <1>6, <1>7, <2>1, <2>2, Countable
<1>9. listen' \in [Services -> {"no", "given", "accepting", "ended", "failed"}]
  BY DEF TypeOK, AddPanics
<1>10. TypeOK'
  BY <1>1, <1>2, <1>4, <1>8, <1>9 DEF TypeOK, Places, ClosePlaces
<1>11. Fresh'
  BY <1>1, <1>2 DEF Fresh
<1>12. \A t \in Services : listen[t] \in {"accepting", "ended"} => listen'[t] \in {"accepting", "ended"}
  BY DEF TypeOK, AddPanics
<1>13. Closing'
  BY <1>4, <1>12 DEF Closing, PastQuit
<1>14. ASSUME NEW t \in Services, t \in IsQuit, t \notin open PROVE Settles(t)
  <2>1. OnTime(t)' \subseteq OnTime(t)
    <3>1. ASSUME NEW d \in OnTime(t)' PROVE d # c
      <4>1. d \in Adds(t)' /\ d \notin late'
        BY <3>1 DEF OnTime, Holders
      <4>2. d = c => t = s
        BY <1>1, <4>1 DEF Adds
      <4>3. QED BY <1>2, <1>14, <4>1, <4>2
    <3>2. ASSUME NEW d \in OnTime(t)' PROVE d \in OnTime(t)
      <4>1. d \in Conns /\ d \in Adds(t)' /\ d \notin late' /\ Running(d)' /\ d # c
        BY <3>1, <3>2 DEF OnTime, Holders, Adds
      <4>2. d \in Adds(t) /\ d \notin late /\ Running(d)
        BY <1>1, <1>2, <1>6, <4>1 DEF Running
      <4>3. QED BY <4>2 DEF OnTime, Holders
    <3>3. QED BY <3>2
  <2>2. Acceptor(t)' <= Acceptor(t)
    BY DEF Acceptor, TypeOK, AddPanics
  <2>3. Stolen(t) \subseteq Stolen(t)'
    BY <1>6 DEF Stolen
  <2>4. QED BY <2>1, <2>2, <2>3 DEF Settles
<1>15. Final'
  BY <1>4, <1>10, <1>14, StaysFinal DEF Final, Waited, Closing, PastQuit
<1>16. QED BY <1>10, <1>11, <1>13, <1>15

\* ListenTcp, and the end of an acceptor.
LEMMA Listens ==
    ASSUME IInv, NEW s \in Services, ListenTcp(s) \/ Listening(s) \/ AcceptErr(s)
    PROVE  IInv'
<1> USE DEF IInv
<1> DEFINE ListenPlaces == {"no", "given", "accepting", "ended", "failed"}
<1>1. UNCHANGED connVars /\ UNCHANGED IsQuit
  BY DEF ListenTcp, Listening, AcceptErr
<1>2. \A t \in Services : Adds(t)' = Adds(t) /\ Dones(t)' = Dones(t) /\ OnTime(t)' = OnTime(t)
  BY <1>1 DEF connVars, Adds, Dones, OnTime, Holders, Running
<1>3. PICK to \in {"given", "accepting", "ended", "failed"} : listen' = [listen EXCEPT ![s] = to]
  BY DEF ListenTcp, Listening, AcceptErr
<1>4. /\ listen \in [Services -> ListenPlaces] /\ listen' \in [Services -> ListenPlaces] /\ listen'[s] = to
      /\ \A t \in Services : t # s => listen'[t] = listen[t]
  BY <1>3 DEF TypeOK
<1>5. /\ WaitGroup' \in [Services -> Int]
      /\ close' \in [Services -> [Closers -> ClosePlaces]]
      /\ \A t \in Services, k \in Closers :
            \/ close'[t][k] = close[t][k]
            \/ close[t][k] = "parked" /\ close'[t][k] = "woken" /\ WaitGroup'[t] = 0
  BY Counting DEF ListenTcp, Listening, AcceptErr, TypeOK, ClosePlaces, groupVars
<1>6. ASSUME NEW t \in Services
      PROVE  WaitGroup'[t] = WaitGroup[t] + AcceptorAdded(t)' - AcceptorAdded(t)
  <2>1. WaitGroup[t] \in Int
    BY DEF TypeOK
  <2>2. CASE ListenTcp(s)
    <3>1. WaitGroup' = WaitGroup /\ listen[s] = "no" /\ to = "given"
      BY <1>4, <2>2 DEF ListenTcp, groupVars
    <3>2. AcceptorAdded(t)' = AcceptorAdded(t) /\ AcceptorAdded(t) \in Int
      BY <1>4, <3>1 DEF AcceptorAdded
    <3>3. QED BY <2>1, <3>1, <3>2
  <2>3. CASE Listening(s)
    <3>1. WaitGroup'[t] = WaitGroup[t] + IF t = s THEN 1 ELSE 0
      BY <2>3, Counting DEF Listening
    <3>2. listen[s] = "given" /\ to \in {"accepting", "failed"}
      BY <1>4, <2>3 DEF Listening
    <3>3. AcceptorAdded(t)' = AcceptorAdded(t) + (IF t = s THEN 1 ELSE 0) /\ AcceptorAdded(t) \in Int
      BY <1>4, <3>2 DEF AcceptorAdded
    <3>4. QED BY <2>1, <3>1, <3>3
  <2>4. CASE AcceptErr(s)
    <3>1. WaitGroup'[t] = WaitGroup[t] + IF t = s THEN -1 ELSE 0
      BY <2>4, Counting DEF AcceptErr
    <3>2. listen[s] = "accepting" /\ to = "ended"
      BY <1>4, <2>4 DEF AcceptErr
    <3>3. AcceptorAdded(t)' = AcceptorAdded(t) + (IF t = s THEN -1 ELSE 0) /\ AcceptorAdded(t) \in Int
      BY <1>4, <3>2 DEF AcceptorAdded
    <3>4. QED BY <2>1, <3>1, <3>3
  <2>5. QED BY <2>2, <2>3, <2>4
<1>7. ASSUME NEW t \in Services
      PROVE  WaitGroup'[t] = AcceptorAdded(t)' + Cardinality(Adds(t)') - Cardinality(Dones(t)')
  <2>1. WaitGroup[t] = AcceptorAdded(t) + Cardinality(Adds(t)) - Cardinality(Dones(t))
    BY DEF TypeOK
  <2>2. AcceptorAdded(t) \in Int /\ AcceptorAdded(t)' \in Int
    BY DEF AcceptorAdded
  <2>3. QED BY <1>2, <1>6, <2>1, <2>2, Countable
<1>8. config' \in Services \cup {None} /\ open' \subseteq Services
  BY DEF TypeOK, ListenTcp, Listening, AcceptErr
<1>9. TypeOK'
  BY <1>1, <1>4, <1>5, <1>7, <1>8 DEF TypeOK, connVars, ClosePlaces
<1>10. Fresh'
  BY <1>1 DEF Fresh, connVars
<1>11. /\ listen[s] \in {"accepting", "ended"} => to = "ended" /\ open' = open
       /\ \A t \in Services : t # s => (t \in open' <=> t \in open)
  BY <1>4 DEF ListenTcp, Listening, AcceptErr
<1>12. Closing'
  BY <1>1, <1>4, <1>5, <1>11 DEF Closing, PastQuit
<1>13. ASSUME NEW t \in Services, listen[t] \in {"accepting", "ended"} PROVE Settles(t)
  <2>1. Acceptor(t)' <= Acceptor(t)
    BY <1>4, <1>11, <1>13 DEF Acceptor
  <2>2. QED BY <1>2, <2>1 DEF Settles, Stolen
<1>14. Final'
  BY <1>5, <1>9, <1>13, StaysFinal DEF Final, Waited, Closing
<1>15. QED BY <1>9, <1>10, <1>12, <1>14

\* The steps of Close.
LEMMA Closes ==
    ASSUME IInv, NEW s \in Services, NEW k \in Closers, CallClose(s, k) \/ CloseSteps(s, k)
    PROVE  IInv'
<1> USE DEF IInv
<1>1. UNCHANGED <<config, listen, WaitGroup, connVars>>
  BY DEF CallClose, CloseSteps, QuitFunc, CloseListener, Wait, Woken, CloseStep
<1>2. PICK to \in {"quit", "listener", "wait", "parked", "back", "panicked"} :
          close' = [close EXCEPT ![s] = [close[s] EXCEPT ![k] = to]]
  BY DEF CallClose, CloseSteps, QuitFunc, CloseListener, Wait, Woken, CloseStep
<1>3. /\ close' \in [Services -> [Closers -> ClosePlaces]] /\ close'[s][k] = to
      /\ \A t \in Services, j \in Closers : t # s \/ j # k => close'[t][j] = close[t][j]
  <2>1. close \in [Services -> [Closers -> ClosePlaces]]
    BY DEF TypeOK, ClosePlaces
  <2>2. [close[s] EXCEPT ![k] = to] \in [Closers -> ClosePlaces]
    BY <2>1 DEF ClosePlaces
  <2>3. close' \in [Services -> [Closers -> ClosePlaces]]
    BY <1>2, <2>1, <2>2
  <2>4. QED BY <1>2, <2>1, <2>3
<1>4. IsQuit \subseteq IsQuit' /\ IsQuit' \subseteq Services /\ open' \subseteq open
  BY DEF TypeOK, CallClose, CloseSteps, QuitFunc, CloseListener, Wait, Woken, CloseStep
<1>5. \A t \in Services :
          /\ Adds(t)' = Adds(t) /\ Dones(t)' = Dones(t) /\ OnTime(t)' = OnTime(t)
          /\ AcceptorAdded(t)' = AcceptorAdded(t) /\ Acceptor(t)' = Acceptor(t)
  BY <1>1 DEF connVars, Adds, Dones, OnTime, Holders, Running, AcceptorAdded, Acceptor
<1>6. TypeOK'
  BY <1>1, <1>3, <1>4, <1>5 DEF TypeOK, connVars, ClosePlaces
<1>7. Fresh'
  BY <1>1 DEF Fresh, connVars
<1>8. /\ listen[s] \in {"accepting", "ended"}
      /\ to \in PastQuit => s \in IsQuit'
      /\ to \in PastQuit \ {"listener"} => s \notin open'
  BY <1>3 DEF Closing, PastQuit, CallClose, CloseSteps, QuitFunc, CloseListener, Wait, Woken, CloseStep
<1>9. Closing'
  BY <1>1, <1>3, <1>4, <1>8 DEF Closing
<1>10. to \in Waited => close[s][k] = "woken" \/ WaitGroup[s] = 0
  BY <1>3 DEF Waited, CallClose, CloseSteps, QuitFunc, CloseListener, Wait, Woken, CloseStep
<1>11. \A t \in Services : Settles(t)
  BY <1>5 DEF Settles, Stolen, Acceptor
<1>12. Final'
  BY <1>1, <1>3, <1>6, <1>10, <1>11, StaysFinal DEF Final, Waited
<1>13. QED BY <1>6, <1>7, <1>9, <1>12

-----------------------------------------------------------------------------
\* Every step keeps the invariant.
LEMMA StepHolds == IInv /\ [Next]_vars => IInv'
<1> SUFFICES ASSUME IInv, [Next]_vars PROVE IInv'
  OBVIOUS
<1>1. ASSUME NEW s \in Services, NEW c \in Conns, Accept(s, c) PROVE IInv'
  BY <1>1, Begins DEF Accept
<1>2. ASSUME NEW c \in Conns, Dial(c) PROVE IInv'
  <2>1. config \in Services \cup {None}
    BY DEF IInv, TypeOK
  <2>2. QED BY <1>2, <2>1, Begins DEF Dial, serviceVars
<1>3. ASSUME NEW c \in Conns, ConnSteps(c) \/ End(c) PROVE IInv'
  BY <1>3, GoesOn, Ends DEF ConnSteps
<1>4. ASSUME NEW s \in Services, ListenTcp(s) \/ Listening(s) \/ AcceptErr(s) PROVE IInv'
  BY <1>4, Listens
<1>5. ASSUME NEW s \in Services, NEW k \in Closers, CallClose(s, k) \/ CloseSteps(s, k) PROVE IInv'
  BY <1>5, Closes
<1>6. CASE UNCHANGED vars
  <2>1. \A s \in Services :
            /\ Adds(s)' = Adds(s) /\ Dones(s)' = Dones(s) /\ OnTime(s)' = OnTime(s)
            /\ AcceptorAdded(s)' = AcceptorAdded(s) /\ Acceptor(s)' = Acceptor(s)
    BY <1>6 DEF vars, connVars, serviceVars, Adds, Dones, OnTime, Holders, Running, AcceptorAdded, Acceptor
  <2>2. TypeOK'
    BY <1>6, <2>1 DEF vars, connVars, serviceVars, groupVars, IInv, TypeOK
  <2>3. Fresh' /\ Closing'
    BY <1>6 DEF vars, connVars, serviceVars, groupVars, IInv, Fresh, Closing
  <2>4. Final'
    BY <1>6, <2>1 DEF vars, groupVars, IInv, Final, AllThere, Stolen
  <2>5. QED BY <2>2, <2>3, <2>4 DEF IInv
<1>7. QED BY <1>1, <1>2, <1>3, <1>4, <1>5, <1>6 DEF Next

(* However the Config changes, each WaitGroup counts what was added to it   *)
(* less the Dones, and a Close that returns has waited for the acceptor and *)
(* its connections, but for as many as a stranger's Done stood in for.      *)
THEOREM CloseAlwaysFinal == Spec => [](TypeOK /\ CloseIsFinal)
<1>1. Init => IInv
  BY InitHolds
<1>2. IInv /\ [Next]_vars => IInv'
  BY StepHolds
<1>3. IInv => TypeOK /\ CloseIsFinal
  BY DEF IInv, Final, CloseIsFinal, AllThere, Waited
<1>4. QED BY <1>1, <1>2, <1>3, PTL DEF Spec
=============================================================================
