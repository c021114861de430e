--------------------------- MODULE Helpers_proofs ---------------------------
(* For any interval and timeouts: no direction is taken to have timed out   *)
(* before it was silent for its timeout, and a silent connection is given up*)
(* in time.  For any callers, LoadOrStore stores once; for any requests,    *)
(* success is honest and Stop final; and no vector writes into another's    *)
(* array.                                                                   *)
EXTENDS Helpers, FiniteSetTheorems, FunctionTheorems, SequenceTheorems, TLAPS

(* The inductive invariant: what is counted, and what the sleep will add to *)
(* it, has passed since the last byte the checks know of.                   *)
Asleep == IF pc = "sleep" THEN slept ELSE 0
Counted == \A d \in Directions : moved[d] \/ byteTime[d] + Asleep <= silent[d]

IInv == TypeOK /\ Counted /\ TimeoutIsSilence

LEMMA ConstantsAreNat ==
    /\ Interval \in Nat /\ Interval > 0 /\ Slack \in Nat /\ Interval + Slack \in Nat
    /\ \A d \in Directions : Timeout[d] \in Nat
BY IntervalIsPositive, SlackIsNat, TimeoutsAreNat

LEMMA InitIInv == Init => IInv
<1>1. SUFFICES ASSUME Init PROVE IInv
  OBVIOUS
<1>2. slept \in 0 .. Interval + Slack
  BY <1>1, ConstantsAreNat DEF Init
<1>3. \A d \in Directions : byteTime[d] = 0 /\ silent[d] = 0 /\ ~isTimeout[d]
  BY <1>1 DEF Init
<1>4. byteTime \in [Directions -> Nat] /\ silent \in [Directions -> Nat]
  BY <1>1 DEF Init
<1>5. TypeOK
  <2>1. /\ moved \in [Directions -> BOOLEAN] /\ isTimeout \in [Directions -> BOOLEAN]
        /\ pc \in {"top", "sleep", "read", "write", "decide", "done"}
        /\ IsQuit \in BOOLEAN /\ TypeClose \in {"none", "read", "write", "other"}
        /\ Unidirectional \in BOOLEAN
    BY <1>1 DEF Init
  <2>2. \A d \in Directions : moved[d] \/ byteTime[d] <= silent[d]
    BY <1>3
  <2>3. QED BY <1>2, <1>4, <2>1, <2>2 DEF TypeOK
<1>6. Counted
  BY <1>1, <1>3 DEF Init, Counted, Asleep
<1>7. TimeoutIsSilence
  BY <1>3 DEF TimeoutIsSilence
<1>8. QED BY <1>5, <1>6, <1>7 DEF IInv

LEMMA TrafficIInv ==
    ASSUME IInv, NEW d \in Directions, Traffic(d) PROVE IInv'
<1>1. TypeOK'
  BY DEF IInv, TypeOK, Traffic
<1>2. Counted' /\ TimeoutIsSilence'
  BY DEF IInv, TypeOK, Traffic, Counted, Asleep, TimeoutIsSilence
<1>3. QED BY <1>1, <1>2 DEF IInv

LEMMA QuitOtherIInv == ASSUME IInv, QuitOther PROVE IInv'
BY DEF IInv, TypeOK, QuitOther, Counted, Asleep, TimeoutIsSilence

LEMMA TickIInv == ASSUME IInv, Tick PROVE IInv'
<1>1. /\ slept' = slept + 1 /\ slept \in Nat /\ slept < Interval + Slack /\ pc = "sleep"
      /\ \A d \in Directions : silent'[d] = silent[d] + 1
      /\ \A d \in Directions : silent[d] \in Nat /\ byteTime[d] \in Nat
      /\ UNCHANGED <<moved, byteTime, isTimeout, pc, IsQuit, TypeClose, Unidirectional>>
  BY ConstantsAreNat DEF IInv, TypeOK, Tick
<1>2. silent' \in [Directions -> Nat]
  BY DEF IInv, TypeOK, Tick
<1>3. slept' \in 0 .. Interval + Slack
  BY <1>1, ConstantsAreNat
<1>4. Counted'
  BY <1>1 DEF IInv, Counted, Asleep
<1>5. TypeOK'
  BY <1>1, <1>2, <1>3 DEF IInv, TypeOK
<1>6. TimeoutIsSilence'
  BY <1>1, ConstantsAreNat DEF IInv, TimeoutIsSilence
<1>7. QED BY <1>4, <1>5, <1>6 DEF IInv

LEMMA TopIInv == ASSUME IInv, Top PROVE IInv'
<1>1. TypeOK'
  BY ConstantsAreNat DEF IInv, TypeOK, Top
<1>2. Counted'
  BY DEF IInv, TypeOK, Top, Counted, Asleep
<1>3. TimeoutIsSilence'
  BY DEF IInv, Top, TimeoutIsSilence
<1>4. QED BY <1>1, <1>2, <1>3 DEF IInv

LEMMA WakeIInv == ASSUME IInv, Wake PROVE IInv'
<1>1. /\ slept \in Nat /\ slept >= Interval /\ pc = "sleep" /\ pc' = "read"
      /\ \A d \in Directions : byteTime'[d] = byteTime[d] + Interval
      /\ \A d \in Directions : silent[d] \in Nat /\ byteTime[d] \in Nat
      /\ UNCHANGED <<moved, isTimeout, slept, silent, IsQuit, TypeClose, Unidirectional>>
  BY ConstantsAreNat DEF IInv, TypeOK, Wake
<1>2. byteTime' \in [Directions -> Nat]
  BY ConstantsAreNat DEF IInv, TypeOK, Wake
<1>3. \A d \in Directions : moved'[d] \/ byteTime'[d] <= silent'[d]
  BY <1>1, ConstantsAreNat DEF IInv, Counted, Asleep
<1>4. TypeOK'
  BY <1>1, <1>2, <1>3 DEF IInv, TypeOK
<1>5. Counted'
  BY <1>1, <1>2, <1>3 DEF Counted, Asleep
<1>6. TimeoutIsSilence'
  BY <1>1 DEF IInv, TimeoutIsSilence
<1>7. QED BY <1>4, <1>5, <1>6 DEF IInv

LEMMA CheckMovedIInv ==
    ASSUME IInv, NEW d \in Directions, NEW next \in {"write", "decide"}, CheckMoved(d, next)
    PROVE  IInv'
<1>1. TypeOK'
  BY DEF IInv, TypeOK, CheckMoved, Directions
<1>2. Counted'
  BY DEF IInv, TypeOK, CheckMoved, Counted, Asleep, Directions
<1>3. TimeoutIsSilence'
  BY DEF IInv, TypeOK, CheckMoved, TimeoutIsSilence, Directions
<1>4. QED BY <1>1, <1>2, <1>3 DEF IInv

LEMMA CheckSilentIInv ==
    ASSUME IInv, NEW d \in Directions, NEW next \in {"write", "decide"}, CheckSilent(d, next)
    PROVE  IInv'
<1>1. /\ pc \in Directions /\ ~moved[d] /\ pc' \in {"write", "decide", "done"}
      /\ isTimeout' = [isTimeout EXCEPT ![d] = @ \/ Up(d)]
      /\ UNCHANGED <<moved, byteTime, slept, silent, IsQuit, TypeClose, Unidirectional>>
  BY DEF CheckSilent
<1>2. Up(d) \in BOOLEAN
  BY DEF Up
<1>3. TypeOK'
  BY <1>1, <1>2 DEF IInv, TypeOK
<1>4. Counted'
  BY <1>1 DEF IInv, Counted, Asleep, Directions
<1>5. TimeoutIsSilence'
  <2>1. SUFFICES ASSUME NEW e \in Directions, isTimeout'[e]
                 PROVE  Timeout[e] > 0 /\ (silent[e] >= Timeout[e] \/ moved[e])
    BY <1>1 DEF TimeoutIsSilence
  <2>2. isTimeout[e] \/ (e = d /\ Up(d))
    BY <1>1, <2>1 DEF IInv, TypeOK
  <2>3. ASSUME isTimeout[e] PROVE Timeout[e] > 0 /\ (silent[e] >= Timeout[e] \/ moved[e])
    BY <2>3 DEF IInv, TimeoutIsSilence
  <2>4. ASSUME e = d, Up(d) PROVE Timeout[e] > 0 /\ (silent[e] >= Timeout[e] \/ moved[e])
    <3>1. byteTime[d] <= silent[d] /\ byteTime[d] \in Nat /\ silent[d] \in Nat
      BY <1>1 DEF IInv, TypeOK
    <3>2. QED BY <2>4, <3>1, ConstantsAreNat DEF Up
  <2>5. QED BY <2>2, <2>3, <2>4
<1>6. QED BY <1>3, <1>4, <1>5 DEF IInv

LEMMA GiveUpIInv == ASSUME IInv, NEW d \in Directions, GiveUp(d) PROVE IInv'
<1>1. /\ pc' = "done" /\ pc = "decide" /\ IsQuit' \in BOOLEAN
      /\ TypeClose' \in {"none", "read", "write", "other"}
      /\ UNCHANGED <<moved, byteTime, isTimeout, slept, silent, Unidirectional>>
  BY DEF GiveUp, IInv, TypeOK, Directions
<1>2. QED BY <1>1 DEF IInv, TypeOK, Counted, Asleep, TimeoutIsSilence

LEMMA GoOnIInv == ASSUME IInv, GoOn PROVE IInv'
BY DEF IInv, TypeOK, GoOn, Counted, Asleep, TimeoutIsSilence

LEMMA StutterIInv == ASSUME IInv, UNCHANGED vars PROVE IInv'
BY DEF vars, IInv, TypeOK, Counted, Asleep, TimeoutIsSilence

(* Every step keeps the counted time within the silence.                    *)
THEOREM Inductive == Spec => []IInv
<1>1. ASSUME IInv, [Next]_vars PROVE IInv'
  <2>1. "read" \in Directions /\ "write" \in Directions
    BY DEF Directions
  <2>2. QED
    BY <1>1, <2>1, TrafficIInv, QuitOtherIInv, TickIInv, TopIInv, WakeIInv, CheckMovedIInv,
       CheckSilentIInv, GiveUpIInv, GoOnIInv, StutterIInv DEF Next
<1>2. QED BY <1>1, InitIInv, PTL DEF Spec

(* Types, and the counted time is never more than passed.                   *)
THEOREM TypeCorrect == Spec => []TypeOK
BY Inductive, PTL DEF IInv

(* A direction taken to have timed out was silent for its whole timeout.    *)
THEOREM TimeoutIsAlwaysSilence == Spec => []TimeoutIsSilence
BY Inductive, PTL DEF IInv

-----------------------------------------------------------------------------
(* GivenUpInTime: the silence of a direction against the checks it counted. *)

W == Interval + Slack

\* The check of this round is still to look at the counter of d.
Unseen(d) == pc \in {"sleep", "read"} \/ (pc = "write" /\ d = "write")

(* n checks have found no byte; before them there was at most the round in  *)
(* which the last byte came.                                                *)
Paced(d, n) ==
    /\ byteTime[d] = n * Interval
    /\ moved[d] => silent[d] <= IF Unseen(d) THEN slept ELSE 0
    /\ ~moved[d] => silent[d] <= (n + 1) * W + Asleep
Pace == \A d \in Directions : \E n \in Nat : Paced(d, n)

\* A direction that was checked and whose time is up is known to be silent.
Looked ==
    \A d \in Directions :
        Timeout[d] > 0 /\ ~Unseen(d) /\ pc # "top" =>
            moved[d] \/ isTimeout[d] \/ byteTime[d] < Timeout[d]

(* Before the sleep the time of d is not up; it may be up by the Interval   *)
(* that the sleep has added.                                                *)
Fresh(d) ==
    moved[d] \/ byteTime[d] < Timeout[d] + IF pc \in {"top", "sleep"} THEN 0 ELSE Interval
StillFresh ==
    IF Unidirectional THEN \A d \in Directions : Timeout[d] > 0 => Fresh(d)
    ELSE (\A d \in Directions : Timeout[d] > 0) => \E d \in Directions : Fresh(d)

RoundInv == pc # "done" => Pace /\ Looked /\ StillFresh

\* Multiplication, for the bounds that are a number of rounds.
LEMMA Times ==
    ASSUME NEW m \in Nat, NEW n \in Nat, NEW w \in Nat
    PROVE  /\ (n + 1) * w = n * w + w
           /\ m <= n => m * w <= n * w
           /\ n * w \in Nat
<1>1. n * w \in Nat /\ (n + 1) * w = n * w + w
  OBVIOUS
<1>2. ASSUME m <= n PROVE m * w <= n * w
  <2>1. (n - m) \in Nat /\ (n - m) * w >= 0 /\ n * w = m * w + (n - m) * w
    BY <1>2
  <2>2. QED BY <2>1
<1>3. QED BY <1>1, <1>2

\* A time that is not up after n checks has room for one more round.
LEMMA RoomForOneMore ==
    ASSUME NEW d \in Directions, NEW n \in Nat, n * Interval < Timeout[d]
    PROVE  n + 2 <= Rounds(d)
<1> DEFINE a == Timeout[d] + Interval - 1
           q == a \div Interval
<1>1. a \in Nat /\ Interval \in Nat \ {0} /\ Timeout[d] \in Nat
  BY ConstantsAreNat
<1>2. q \in Nat /\ a < q * Interval + Interval
  BY <1>1
<1>3. n * Interval + Interval <= a
  BY <1>1, ConstantsAreNat, Times
<1>4. (n + 1) * Interval < (q + 1) * Interval
  <2>1. (n + 1) * Interval = n * Interval + Interval /\ (q + 1) * Interval = q * Interval + Interval
    BY <1>1, <1>2, Times
  <2>2. n * Interval \in Nat /\ q * Interval \in Nat
    BY <1>1, <1>2, Times
  <2> HIDE DEF a, q
  <2>3. QED BY <1>1, <1>2, <1>3, <2>1, <2>2
<1> HIDE DEF a, q
<1>5. ~(q + 1 <= n + 1)
  <2>1. SUFFICES ASSUME q + 1 <= n + 1 PROVE FALSE
    OBVIOUS
  <2>2. (q + 1) * Interval <= (n + 1) * Interval
    BY <1>1, <1>2, <2>1, Times
  <2>3. (q + 1) * Interval \in Nat /\ (n + 1) * Interval \in Nat
    BY <1>1, <1>2, Times
  <2>4. QED BY <1>4, <2>2, <2>3
<1>6. n + 1 <= q
  BY <1>2, <1>5
<1>7. Rounds(d) = 1 + q
  BY DEF Rounds, a, q
<1>8. QED BY <1>2, <1>6, <1>7

\* A fresh direction has not been silent for longer than its timeout allows.
LEMMA FreshInTime ==
    ASSUME TypeOK, Pace, pc # "done", NEW d \in Directions, Timeout[d] > 0, Fresh(d)
    PROVE  silent[d] <= Latest(d)
<1>1. PICK n \in Nat : Paced(d, n)
  BY DEF Pace
<1>2. W \in Nat /\ slept \in Nat /\ slept <= W /\ silent[d] \in Nat /\ Timeout[d] \in Nat
  BY ConstantsAreNat DEF TypeOK, W
<1>3. ASSUME NEW k \in Nat, k <= Rounds(d), silent[d] <= k * W PROVE silent[d] <= Latest(d)
  <2>1. Rounds(d) \in Nat
    BY ConstantsAreNat DEF Rounds
  <2>2. k * W <= Rounds(d) * W /\ k * W \in Nat /\ Rounds(d) * W \in Nat
    BY <1>2, <1>3, <2>1, Times
  <2>3. Latest(d) = Rounds(d) * W
    BY DEF Latest, W
  <2>4. QED BY <1>2, <1>3, <2>2, <2>3
<1>4. 2 <= Rounds(d)
  <2>1. 0 * Interval < Timeout[d] /\ 0 + 2 = 2
    BY ConstantsAreNat
  <2>2. QED BY <2>1, RoomForOneMore
<1>5. CASE moved[d]
  <2>1. silent[d] <= 1 * W
    BY <1>1, <1>2, <1>5 DEF Paced
  <2>2. 1 <= Rounds(d)
    <3>1. Rounds(d) \in Nat
      BY ConstantsAreNat DEF Rounds
    <3>2. QED BY <1>4, <3>1
  <2>3. QED BY <1>3, <2>1, <2>2
<1>6. CASE ~moved[d] /\ pc \in {"top", "sleep"}
  <2>1. n + 2 <= Rounds(d)
    <3>1. n * Interval < Timeout[d]
      BY <1>1, <1>2, <1>6 DEF Paced, Fresh
    <3>2. QED BY <3>1, RoomForOneMore
  <2>2. silent[d] <= (n + 1) * W + W
    <3>1. (n + 1) * W \in Nat
      BY <1>2, Times
    <3>2. QED BY <1>1, <1>2, <1>6, <3>1 DEF Paced, Asleep
  <2>3. (n + 2) * W = (n + 1) * W + W
    <3>1. (n + 1) + 1 = n + 2
      OBVIOUS
    <3>2. ((n + 1) + 1) * W = (n + 1) * W + W
      BY <1>2, Times
    <3>3. QED BY <3>1, <3>2
  <2>4. QED BY <1>3, <2>1, <2>2, <2>3
<1>7. CASE ~moved[d] /\ pc \notin {"top", "sleep"}
  <2>1. silent[d] <= (n + 1) * W
    <3>1. (n + 1) * W \in Nat
      BY <1>2, Times
    <3>2. QED BY <1>1, <1>2, <1>7, <3>1 DEF Paced, Asleep
  <2>2. n * Interval < Timeout[d] + Interval
    BY <1>1, <1>7 DEF Paced, Fresh
  <2>3. n + 1 <= Rounds(d)
    <3>1. CASE n = 0
      <4>1. Rounds(d) \in Nat
        BY ConstantsAreNat DEF Rounds
      <4>2. QED BY <1>4, <3>1, <4>1
    <3>2. CASE n # 0
      <4>1. n - 1 \in Nat /\ (n - 1) + 1 = n /\ (n - 1) + 2 = n + 1
        BY <3>2
      <4>2. n * Interval = (n - 1) * Interval + Interval /\ (n - 1) * Interval \in Nat
        BY <4>1, ConstantsAreNat, Times
      <4>3. (n - 1) * Interval < Timeout[d]
        BY <1>2, <2>2, <4>2, ConstantsAreNat
      <4>4. QED BY <4>1, <4>3, RoomForOneMore
    <3>3. QED BY <3>1, <3>2
  <2>4. QED BY <1>3, <2>1, <2>3
<1>8. QED BY <1>5, <1>6, <1>7

\* What a step that runs no time and clears no counter leaves as it is.
LEMMA RoundStays ==
    ASSUME TypeOK, RoundInv, pc # "done", pc' = pc,
           UNCHANGED <<byteTime, isTimeout, slept, Unidirectional>>,
           \A d \in Directions : UNCHANGED <<moved[d], silent[d]>> \/ (moved'[d] /\ silent'[d] = 0)
    PROVE  RoundInv'
<1>1. \A d \in Directions : moved[d] => moved'[d]
  OBVIOUS
<1>2. Pace'
  <2>1. SUFFICES ASSUME NEW d \in Directions PROVE \E n \in Nat : Paced(d, n)'
    BY DEF Pace
  <2>2. PICK n \in Nat : Paced(d, n)
    BY DEF RoundInv, Pace
  <2>3. 0 <= IF Unseen(d) THEN slept ELSE 0
    BY ConstantsAreNat DEF TypeOK
  <2>4. Paced(d, n)'
    BY <2>2, <2>3 DEF Paced, Unseen, Asleep
  <2>5. QED BY <2>4
<1>3. Looked'
  BY <1>1 DEF RoundInv, Looked, Unseen
<1>4. StillFresh'
  BY <1>1 DEF RoundInv, StillFresh, Fresh
<1>5. QED BY <1>2, <1>3, <1>4 DEF RoundInv

\* A tick is one more of the sleep and of every silence.
LEMMA TickRound == ASSUME TypeOK, RoundInv, Tick PROVE RoundInv'
<1>1. /\ pc = "sleep" /\ pc' = "sleep" /\ slept' = slept + 1 /\ slept \in Nat
      /\ \A d \in Directions : silent'[d] = silent[d] + 1 /\ silent[d] \in Nat
      /\ UNCHANGED <<moved, byteTime, isTimeout, Unidirectional>>
  BY ConstantsAreNat DEF Tick, TypeOK
<1>2. Pace'
  <2>1. SUFFICES ASSUME NEW d \in Directions PROVE \E n \in Nat : Paced(d, n)'
    BY DEF Pace
  <2>2. PICK n \in Nat : Paced(d, n)
    BY <1>1 DEF RoundInv, Pace
  <2>3. W \in Nat /\ (n + 1) * W \in Nat
    BY ConstantsAreNat, Times DEF W
  <2>4. Paced(d, n)'
    BY <1>1, <2>2, <2>3 DEF Paced, Unseen, Asleep
  <2>5. QED BY <2>4
<1>3. Looked' /\ StillFresh'
  BY <1>1 DEF RoundInv, Looked, Unseen, StillFresh, Fresh
<1>4. QED BY <1>2, <1>3 DEF RoundInv

\* The sleep of a round begins.
LEMMA TopRound == ASSUME TypeOK, RoundInv, Top PROVE RoundInv'
<1>1. SUFFICES ASSUME pc' = "sleep" PROVE RoundInv'
  BY DEF Top, RoundInv
<1>2. /\ pc = "top" /\ slept' = 0
      /\ UNCHANGED <<moved, byteTime, isTimeout, silent, Unidirectional>>
  BY DEF Top
<1>3. Pace'
  <2>1. SUFFICES ASSUME NEW d \in Directions PROVE \E n \in Nat : Paced(d, n)'
    BY DEF Pace
  <2>2. PICK n \in Nat : Paced(d, n)
    BY <1>2 DEF RoundInv, Pace
  <2>3. Paced(d, n)'
    BY <1>1, <1>2, <2>2 DEF Paced, Unseen, Asleep
  <2>4. QED BY <2>3
<1>4. Looked' /\ StillFresh'
  BY <1>1, <1>2 DEF RoundInv, Looked, Unseen, StillFresh, Fresh
<1>5. QED BY <1>3, <1>4 DEF RoundInv

\* The sleep is counted to both directions, seen bytes or not.
LEMMA WakeRound == ASSUME TypeOK, RoundInv, Wake PROVE RoundInv'
<1>1. /\ pc = "sleep" /\ pc' = "read" /\ slept \in Nat /\ slept <= W /\ W \in Nat
      /\ \A d \in Directions : /\ byteTime'[d] = byteTime[d] + Interval
                               /\ byteTime[d] \in Nat /\ silent[d] \in Nat
      /\ UNCHANGED <<moved, isTimeout, slept, silent, Unidirectional>>
  BY ConstantsAreNat DEF Wake, TypeOK, W
<1>2. Pace'
  <2>1. SUFFICES ASSUME NEW d \in Directions PROVE \E n \in Nat : Paced(d, n)'
    BY DEF Pace
  <2>2. PICK n \in Nat : Paced(d, n)
    BY <1>1 DEF RoundInv, Pace
  <2>3. (n + 1) * Interval = n * Interval + Interval
    BY ConstantsAreNat, Times
  <2>4. ((n + 1) + 1) * W = (n + 1) * W + W /\ (n + 1) * W \in Nat
    BY <1>1, Times
  <2>5. Paced(d, n + 1)'
    BY <1>1, <2>2, <2>3, <2>4 DEF Paced, Unseen, Asleep
  <2>6. n + 1 \in Nat
    OBVIOUS
  <2>7. QED BY <2>5, <2>6
<1>3. Looked'
  BY <1>1 DEF Looked, Unseen
<1>4. \A d \in Directions : Fresh(d) => Fresh(d)'
  BY <1>1, ConstantsAreNat DEF Fresh
<1>5. StillFresh'
  BY <1>1, <1>4 DEF RoundInv, StillFresh
<1>6. QED BY <1>2, <1>3, <1>5 DEF RoundInv

\* The check of a direction: the bytes found, or the time that is up.
LEMMA CheckRound ==
    ASSUME TypeOK, RoundInv, NEW e \in Directions, NEW next,
           <<e, next>> \in {<<"read", "write">>, <<"write", "decide">>},
           CheckMoved(e, next) \/ CheckSilent(e, next)
    PROVE  RoundInv'
<1>1. SUFFICES ASSUME pc' = next, pc' # "done" PROVE RoundInv'
  BY DEF CheckMoved, CheckSilent, RoundInv
<1>2. /\ pc = e /\ slept \in Nat /\ slept <= W /\ W \in Nat
      /\ (e = "read" /\ next = "write") \/ (e = "write" /\ next = "decide")
      /\ \A d \in Directions : d # e => UNCHANGED <<moved[d], byteTime[d], isTimeout[d]>>
      /\ UNCHANGED <<slept, silent, Unidirectional>>
  BY ConstantsAreNat DEF CheckMoved, CheckSilent, TypeOK, W
<1>3. /\ ~moved'[e]
      /\ \/ moved[e] /\ byteTime'[e] = 0
         \/ ~moved[e] /\ byteTime'[e] = byteTime[e] /\ isTimeout'[e] = (isTimeout[e] \/ Up(e))
  BY DEF CheckMoved, CheckSilent, TypeOK
<1>4. Pace'
  <2>1. SUFFICES ASSUME NEW d \in Directions PROVE \E n \in Nat : Paced(d, n)'
    BY DEF Pace
  <2>2. PICK n \in Nat : Paced(d, n)
    BY <1>2 DEF RoundInv, Pace, Directions
  <2>3. CASE d # e
    <3>1. Unseen(d)' = Unseen(d)
      BY <1>1, <1>2, <2>3 DEF Unseen, Directions
    <3>2. Paced(d, n)'
      BY <1>1, <1>2, <2>2, <2>3, <3>1 DEF Paced, Asleep, Directions
    <3>3. QED BY <3>2
  <2>4. CASE d = e /\ moved[e]
    <3>1. silent[e] <= slept /\ byteTime'[e] = 0
      BY <1>2, <1>3, <2>2, <2>4 DEF Paced, Unseen
    <3>2. 0 * Interval = 0 /\ (0 + 1) * W = W
      BY <1>2, ConstantsAreNat
    <3>3. silent[e] \in Nat
      BY DEF TypeOK
    <3>4. Paced(e, 0)'
      BY <1>1, <1>2, <1>3, <3>1, <3>2, <3>3 DEF Paced, Asleep, Directions
    <3>5. QED BY <2>4, <3>4
  <2>5. CASE d = e /\ ~moved[e]
    <3>1. Paced(e, n)'
      BY <1>1, <1>2, <1>3, <2>2, <2>5 DEF Paced, Asleep, Directions
    <3>2. QED BY <2>5, <3>1
  <2>6. QED BY <2>3, <2>4, <2>5
<1>5. Looked'
  <2>1. SUFFICES ASSUME NEW d \in Directions, Timeout[d] > 0, ~Unseen(d)', pc' # "top"
                 PROVE  moved'[d] \/ isTimeout'[d] \/ byteTime'[d] < Timeout[d]
    BY DEF Looked
  <2>2. CASE d # e
    <3>1. ~Unseen(d) /\ pc # "top"
      BY <1>1, <1>2, <2>1, <2>2 DEF Unseen, Directions
    <3>2. QED BY <1>2, <2>1, <2>2, <3>1 DEF RoundInv, Looked, Directions
  <2>3. CASE d = e
    <3>1. CASE moved[e]
      BY <1>3, <2>1, <2>3, <3>1
    <3>2. CASE ~moved[e] /\ Up(e)
      BY <1>3, <2>3, <3>2
    <3>3. CASE ~moved[e] /\ ~Up(e)
      <4>1. byteTime'[e] = byteTime[e] /\ byteTime[e] \in Nat /\ Timeout[e] \in Nat
        BY <1>3, <3>3, ConstantsAreNat DEF TypeOK
      <4>2. ~(byteTime[e] >= Timeout[e])
        BY <2>1, <2>3, <3>3 DEF Up
      <4>3. QED BY <2>3, <4>1, <4>2
    <3>4. QED BY <3>1, <3>2, <3>3
  <2>4. QED BY <2>2, <2>3
<1>6. \A d \in Directions : Timeout[d] > 0 /\ Fresh(d) => Fresh(d)'
  BY <1>1, <1>2, <1>3, ConstantsAreNat DEF Fresh, Directions
<1>7. StillFresh'
  BY <1>2, <1>6 DEF RoundInv, StillFresh, Directions
<1>8. QED BY <1>4, <1>5, <1>7 DEF RoundInv

\* Nobody is blamed: some direction, or every one, has bytes or time left.
LEMMA GoOnRound == ASSUME TypeOK, RoundInv, GoOn PROVE RoundInv'
<1>1. /\ pc = "decide" /\ pc' = "top" /\ \A d \in Directions : ~Blames(d)
      /\ UNCHANGED <<moved, byteTime, isTimeout, slept, silent, Unidirectional>>
  BY DEF GoOn
<1>2. \A d \in Directions : ~Unseen(d) /\ ~Unseen(d)'
  BY <1>1 DEF Unseen
<1>3. Pace'
  <2>1. SUFFICES ASSUME NEW d \in Directions PROVE \E n \in Nat : Paced(d, n)'
    BY DEF Pace
  <2>2. PICK n \in Nat : Paced(d, n)
    BY <1>1 DEF RoundInv, Pace
  <2>3. Paced(d, n)'
    BY <1>1, <1>2, <2>2 DEF Paced, Asleep
  <2>4. QED BY <2>3
<1>4. Looked'
  BY <1>1 DEF Looked
<1>5. \A d \in Directions : Timeout[d] > 0 /\ ~isTimeout[d] => Fresh(d)'
  BY <1>1, <1>2, ConstantsAreNat DEF RoundInv, Looked, Fresh, TypeOK
<1>6. IF Unidirectional THEN \A d \in Directions : ~isTimeout[d]
      ELSE \E d \in Directions : ~isTimeout[d]
  BY <1>1 DEF Blames, Directions
<1>7. StillFresh'
  BY <1>1, <1>5, <1>6 DEF StillFresh
<1>8. QED BY <1>3, <1>4, <1>7 DEF RoundInv

\* The invariant holds at first.
LEMMA InitRound == Init => RoundInv
<1> SUFFICES ASSUME Init PROVE RoundInv
  OBVIOUS
<1>1. ASSUME NEW d \in Directions PROVE Paced(d, 0)
  <2>1. 0 * Interval = 0 /\ (0 + 1) * W \in Nat
    BY ConstantsAreNat DEF W
  <2>2. QED BY <2>1 DEF Init, Paced, Asleep, Unseen
<1>2. Pace
  BY <1>1 DEF Pace
<1>3. Looked
  BY DEF Init, Looked
<1>4. "read" \in Directions
  BY DEF Directions
<1>5. StillFresh
  BY <1>4, ConstantsAreNat DEF Init, StillFresh, Fresh
<1>6. QED BY <1>2, <1>3, <1>5 DEF RoundInv

\* Every step keeps the invariant.
LEMMA RoundStep == IInv /\ RoundInv /\ [Next]_vars => RoundInv'
<1> SUFFICES ASSUME IInv, RoundInv, [Next]_vars PROVE RoundInv'
  OBVIOUS
<1>0. TypeOK
  BY DEF IInv
<1>1. ASSUME NEW d \in Directions, Traffic(d) PROVE RoundInv'
  <2>1. CASE pc = "done"
    BY <1>1, <2>1 DEF Traffic, RoundInv
  <2>2. CASE pc # "done"
    BY <1>0, <1>1, <2>2, RoundStays DEF Traffic, TypeOK
  <2>3. QED BY <2>1, <2>2
<1>2. CASE QuitOther \/ UNCHANGED vars
  <2>1. CASE pc = "done"
    BY <1>2, <2>1 DEF QuitOther, vars, RoundInv
  <2>2. CASE pc # "done"
    BY <1>0, <1>2, <2>2, RoundStays DEF QuitOther, vars
  <2>3. QED BY <2>1, <2>2
<1>3. ASSUME NEW d \in Directions, GiveUp(d) PROVE RoundInv'
  BY <1>3 DEF GiveUp, RoundInv
<1>4. CASE \/ CheckMoved("read", "write") \/ CheckSilent("read", "write")
           \/ CheckMoved("write", "decide") \/ CheckSilent("write", "decide")
  BY <1>0, <1>4, CheckRound DEF Directions
<1>5. QED
  BY <1>0, <1>1, <1>2, <1>3, <1>4, TickRound, TopRound, WakeRound, GoOnRound DEF Next

(* A silent connection is given up in time, whatever the interval, the      *)
(* overrun of its sleeps and the timeouts.                                  *)
THEOREM AlwaysGivenUpInTime == Spec => []GivenUpInTime
<1>1. TypeOK /\ RoundInv => GivenUpInTime
  BY FreshInTime DEF RoundInv, StillFresh, GivenUpInTime
<1>2. IInv => TypeOK
  BY DEF IInv
<1>3. QED BY <1>1, <1>2, InitRound, RoundStep, Inductive, PTL DEF Spec

-----------------------------------------------------------------------------
(* ArcSwap.  Each value stored by LoadOrStore used up one time the pointer  *)
(* was nil, and the time at hand is not used up.                            *)
Stored == {c \in ArcCalls : answer[c].stored}

ArcIInv ==
    /\ apc \in [ArcCalls -> {"idle", "load", "swap", "returned"}]
    /\ answer \in [ArcCalls -> [value : ArcCalls \cup ArcOthers \cup {Nil}, stored : BOOLEAN]]
    /\ ptr \in ArcCalls \cup ArcOthers \cup {Nil} /\ clears \in Nat
    /\ Cardinality(Stored) + (IF ptr = Nil THEN 1 ELSE 0) <= clears
    /\ \A c \in ArcCalls :
        /\ ptr = c => apc[c] = "returned"
        /\ answer[c].stored => apc[c] = "returned"
        /\ apc[c] = "returned" =>
              answer[c].value # Nil /\ (answer[c].stored <=> answer[c].value = c)

LEMMA StoredIsFinite == IsFiniteSet(Stored) /\ Cardinality(Stored) \in Nat
<1>1. Stored \in SUBSET ArcCalls
  BY DEF Stored
<1>2. QED BY <1>1, ArcAssumption, FS_Subset, FS_CardinalityType

LEMMA ArcInit == Arc!Init => ArcIInv
<1>1. SUFFICES ASSUME Arc!Init PROVE ArcIInv
  OBVIOUS
<1>2. /\ apc = [c \in ArcCalls |-> "idle"] /\ ptr \in {Nil} \cup ArcOthers
      /\ answer = [c \in ArcCalls |-> [value |-> Nil, stored |-> FALSE]]
      /\ clears = IF ptr = Nil THEN 1 ELSE 0
  BY <1>1 DEF Arc!Init, Arc!NoAnswer
<1>3. Stored = {} /\ Cardinality(Stored) = 0
  <2>1. Stored = {}
    BY <1>2 DEF Stored
  <2>2. QED BY <2>1, FS_EmptySet
<1>4. \A c \in ArcCalls : ptr # c /\ ~answer[c].stored /\ apc[c] = "idle"
  BY <1>2, ArcAssumption
<1>5. QED BY <1>2, <1>3, <1>4 DEF ArcIInv

\* a call that returns without having stored
LEMMA ArcAnswers ==
    ASSUME ArcIInv, NEW c \in ArcCalls, ptr # Nil, apc[c] # "returned",
           Arc!Return(c, ptr, FALSE), ptr' = ptr, clears' = clears
    PROVE  ArcIInv'
<1>1. /\ apc' = [apc EXCEPT ![c] = "returned"]
      /\ answer' = [answer EXCEPT ![c] = [value |-> ptr, stored |-> FALSE]]
  BY DEF Arc!Return
<1>2. ptr # c /\ ~answer[c].stored
  BY DEF ArcIInv
<1>3. Stored' = Stored
  BY <1>1, <1>2 DEF ArcIInv, Stored
<1>4. QED BY <1>1, <1>2, <1>3 DEF ArcIInv

LEMMA ArcLoad == ASSUME ArcIInv, NEW c \in ArcCalls, Arc!Load(c) PROVE ArcIInv'
<1>1. CASE ptr # Nil
  <2>1. apc[c] # "returned" /\ Arc!Return(c, ptr, FALSE) /\ ptr' = ptr /\ clears' = clears
    BY <1>1 DEF Arc!Load
  <2>2. QED BY <1>1, <2>1, ArcAnswers
<1>2. CASE ptr = Nil
  <2>1. /\ apc[c] # "returned" /\ apc' = [apc EXCEPT ![c] = "swap"]
        /\ UNCHANGED <<ptr, answer, clears>>
    BY <1>2 DEF Arc!Load
  <2>2. Stored' = Stored
    BY <2>1 DEF Stored
  <2>3. QED BY <2>1, <2>2 DEF ArcIInv
<1>3. QED BY <1>1, <1>2

LEMMA ArcCompareAndSwap ==
    ASSUME ArcIInv, NEW c \in ArcCalls, Arc!CompareAndSwap(c) PROVE ArcIInv'
<1>1. CASE ptr = Nil
  <2>1. /\ apc[c] = "swap" /\ ptr' = c /\ clears' = clears
        /\ apc' = [apc EXCEPT ![c] = "returned"]
        /\ answer' = [answer EXCEPT ![c] = [value |-> c, stored |-> TRUE]]
    BY <1>1 DEF Arc!CompareAndSwap, Arc!Return
  <2>2. c \notin Stored /\ Stored' = Stored \cup {c}
    BY <2>1 DEF ArcIInv, Stored
  <2>3. Cardinality(Stored') = Cardinality(Stored) + 1
    BY <2>2, StoredIsFinite, FS_AddElement
  <2>4. Cardinality(Stored') + (IF ptr' = Nil THEN 1 ELSE 0) <= clears'
    <3>1. Cardinality(Stored) + 1 <= clears
      BY <1>1 DEF ArcIInv
    <3>2. c # Nil
      BY ArcAssumption
    <3>3. QED BY <2>1, <2>3, <3>1, <3>2, StoredIsFinite
  <2>5. c # Nil
    BY ArcAssumption
  <2>6. QED BY <2>1, <2>4, <2>5 DEF ArcIInv
<1>2. CASE ptr # Nil
  <2>1. /\ apc[c] = "swap" /\ apc' = [apc EXCEPT ![c] = "load"]
        /\ UNCHANGED <<ptr, answer, clears>>
    BY <1>2 DEF Arc!CompareAndSwap
  <2>2. Stored' = Stored
    BY <2>1 DEF Stored
  <2>3. QED BY <2>1, <2>2 DEF ArcIInv
<1>3. QED BY <1>1, <1>2

LEMMA ArcStore ==
    ASSUME ArcIInv, NEW v \in ArcOthers \cup {Nil}, Arc!Store(v) PROVE ArcIInv'
<1>1. /\ v # ptr /\ ptr' = v /\ UNCHANGED <<apc, answer>>
      /\ clears' = IF v = Nil THEN clears + 1 ELSE clears
  BY DEF Arc!Store
<1>2. Stored' = Stored
  BY <1>1 DEF Stored
<1>3. v \notin ArcCalls
  BY ArcAssumption
<1>4. Cardinality(Stored) + (IF v = Nil THEN 1 ELSE 0) <= clears'
  BY <1>1, StoredIsFinite DEF ArcIInv
<1>5. clears' \in Nat
  BY <1>1 DEF ArcIInv
<1>6. QED BY <1>1, <1>2, <1>3, <1>4, <1>5 DEF ArcIInv

LEMMA ArcInductive == Arc!Spec => []ArcIInv
<1>1. ASSUME ArcIInv, UNCHANGED Arc!vars PROVE ArcIInv'
  <2>1. UNCHANGED <<ptr, apc, answer, clears>>
    BY <1>1 DEF Arc!vars
  <2>2. Stored' = Stored
    BY <2>1 DEF Stored
  <2>3. QED BY <1>1, <2>1, <2>2 DEF ArcIInv
<1>2. ArcIInv /\ [Arc!Next]_(Arc!vars) => ArcIInv'
  BY <1>1, ArcLoad, ArcCompareAndSwap, ArcStore DEF Arc!Next
<1>3. QED BY ArcInit, <1>2, PTL DEF Arc!Spec

\* However many calls of LoadOrStore race, and whatever other callers store, swap or
\* clear meanwhile, one stores for each time the pointer is nil and none returns nil.
THEOREM AlwaysStoresOnce == Arc!Spec => []StoresOnce
<1>1. ArcIInv => StoresOnce
  <2>1. SUFFICES ASSUME ArcIInv PROVE StoresOnce
    OBVIOUS
  <2>2. Cardinality(Stored) <= clears
    BY <2>1, StoredIsFinite DEF ArcIInv
  <2>3. QED BY <2>1, <2>2 DEF ArcIInv, StoresOnce, Arc!StoresOnce, Stored,
                              Arc!Cardinality, Cardinality
<1>2. QED BY <1>1, ArcInductive, PTL

-----------------------------------------------------------------------------
(* HttpServer.  A Stop that has called Shutdown keeps new requests out, and *)
(* one that returned in time has seen the last of the others.               *)
Replies == [code : Int, body : {"recovered", "data", "no data", "nothing"}]

HttpIInv ==
    /\ reply \in [Requests -> {None} \cup Replies]
    /\ \A s \in Stops : spc[s] \in {"waiting", "returned", "timed out"} => shut
    /\ \A s \in Stops : spc[s] = "returned" => ~Http!Busy
    /\ done \in [Requests -> {None, Http!NotCalled} \cup Http!Outcomes]
    /\ rpc \in [Requests -> {"new", "reading", "calling", "answering", "written"}]
    /\ spc \in [Stops -> {"idle", "waiting", "returned", "timed out", "missed"}]
    /\ \A q \in Requests : rpc[q] = "answering" => done[q] \in Http!Outcomes \cup {Http!NotCalled}
    /\ SuccessIsHonest

\* the code answered for an outcome of the callback
LEMMA CodeOfOutcome ==
    ASSUME NEW o \in Http!Outcomes \cup {Http!NotCalled}
    PROVE  /\ o.code \in Int /\ Http!Code(o) \in Int
           /\ Http!Code(o) >= 0 /\ o.failed => o.code > 0
<1>1. o.code \in Int
  <2>1. CASE o \in Http!Outcomes
    BY <2>1, CodesAreInt DEF Http!Outcomes
  <2>2. CASE o = Http!NotCalled
    BY <2>2 DEF Http!NotCalled
  <2>3. QED BY <2>1, <2>2
<1>2. CASE o.failed /\ o.code = 0
  <2>1. Http!Code(o) = -1
    BY <1>2 DEF Http!Code
  <2>2. QED BY <1>1, <2>1
<1>3. CASE ~(o.failed /\ o.code = 0)
  <2>1. Http!Code(o) = o.code
    BY <1>3 DEF Http!Code
  <2>2. o.failed => o.code # 0
    BY <1>3
  <2>3. o.code >= 0 /\ o.code # 0 => o.code > 0
    BY <1>1
  <2>4. QED BY <1>1, <2>1, <2>2, <2>3
<1>4. QED BY <1>2, <1>3

\* the answers there may be to a callback whose code is k
LEMMA RepliesHold ==
    ASSUME NEW k \in Int, NEW b \in {"recovered", "data", "no data", "nothing"}
    PROVE  [code |-> k, body |-> b] \in Replies
BY DEF Replies

LEMMA NoSuccess == -1 \in Int /\ ~(-1 >= 0)
OBVIOUS

LEMMA AnswerCodes ==
    ASSUME NEW k \in Int
    PROVE  \A r \in {[code |-> -1, body |-> "recovered"], [code |-> k, body |-> "data"],
                     [code |-> -1, body |-> "no data"], [code |-> -1, body |-> "nothing"]} :
              r \in Replies /\ (r.code >= 0 => r.code = k)
<1> DEFINE Good(r) == r \in Replies /\ (r.code >= 0 => r.code = k)
           minus == -1
<1>1. minus \in Int /\ ~(minus >= 0)
  BY NoSuccess
<1> HIDE DEF minus
<1>2. ASSUME NEW b \in {"recovered", "no data", "nothing"}
      PROVE  Good([code |-> minus, body |-> b])
  <2>1. [code |-> minus, body |-> b] \in Replies
    BY <1>1, RepliesHold
  <2>2. QED BY <1>1, <2>1
<1>3. Good([code |-> k, body |-> "data"])
  BY RepliesHold
<1> HIDE DEF Good
<1>4. \A r \in {[code |-> minus, body |-> "recovered"], [code |-> k, body |-> "data"],
               [code |-> minus, body |-> "no data"], [code |-> minus, body |-> "nothing"]} :
         Good(r)
  BY <1>2, <1>3, Zenon
<1>5. QED BY <1>4 DEF Good, minus

LEMMA HttpInit == Http!Init => HttpIInv
<1>1. SUFFICES ASSUME Http!Init PROVE HttpIInv
  OBVIOUS
<1>2. /\ spc = [s \in Stops |-> "idle"] /\ rpc = [q \in Requests |-> "new"]
      /\ done = [q \in Requests |-> None] /\ reply = [q \in Requests |-> None]
  BY <1>1 DEF Http!Init
<1>3. SuccessIsHonest
  BY <1>2 DEF SuccessIsHonest, Http!SuccessIsHonest
<1>4. QED BY <1>2, <1>3 DEF HttpIInv

\* the steps of Listen, and of Stop that leave the requests alone
LEMMA HttpListens ==
    ASSUME HttpIInv, \/ Http!ListenMakes \/ Http!ListenServes \/ Http!ListenReturns
                     \/ UNCHANGED Http!vars
    PROVE  HttpIInv'
<1>1. UNCHANGED <<shut, spc, rpc, done, reply>>
  BY DEF Http!ListenMakes, Http!ListenServes, Http!ListenReturns, Http!vars
<1>2. SuccessIsHonest'
  BY <1>1 DEF HttpIInv, SuccessIsHonest, Http!SuccessIsHonest
<1>3. Http!Busy' = Http!Busy
  BY <1>1 DEF Http!Busy
<1>4. QED BY <1>1, <1>2, <1>3 DEF HttpIInv

LEMMA HttpStops ==
    ASSUME HttpIInv, NEW s \in Stops, Http!StopLooks(s) \/ Http!StopReturns(s)
    PROVE  HttpIInv'
<1>1. UNCHANGED <<rpc, done, reply>> /\ (shut => shut')
  <2>1. CASE Http!StopLooks(s)
    BY <2>1 DEF Http!StopLooks
  <2>2. CASE Http!StopReturns(s)
    BY <2>2 DEF Http!StopReturns
  <2>3. QED BY <2>1, <2>2
<1>2. /\ \A r \in Stops \ {s} : spc'[r] = spc[r]
      /\ spc' \in [Stops -> {"idle", "waiting", "returned", "timed out", "missed"}]
  BY DEF HttpIInv, Http!StopLooks, Http!StopReturns
<1>3. /\ spc'[s] \in {"waiting", "returned", "timed out"} => shut'
      /\ spc'[s] = "returned" => ~Http!Busy
  <2>1. CASE Http!StopLooks(s)
    BY <2>1 DEF HttpIInv, Http!StopLooks
  <2>2. CASE Http!StopReturns(s)
    BY <2>2 DEF HttpIInv, Http!StopReturns
  <2>3. QED BY <2>1, <2>2
<1>4. Http!Busy' = Http!Busy
  BY <1>1 DEF Http!Busy
<1>5. SuccessIsHonest'
  BY <1>1 DEF HttpIInv, SuccessIsHonest, Http!SuccessIsHonest
<1>6. QED BY <1>1, <1>2, <1>3, <1>4, <1>5 DEF HttpIInv

LEMMA HttpRequest ==
    ASSUME HttpIInv, NEW q \in Requests, Http!Request(q) PROVE HttpIInv'
<1>1. UNCHANGED <<shut, spc>>
  BY DEF Http!Request, Http!Accept, Http!ReadBody, Http!Callback, Http!Answer
<1>2. \A r \in Requests \ {q} : rpc'[r] = rpc[r] /\ done'[r] = done[r]
  BY DEF HttpIInv, Http!Request, Http!Accept, Http!ReadBody, Http!Callback, Http!Answer, Http!Goto
<1>3. /\ rpc' \in [Requests -> {"new", "reading", "calling", "answering", "written"}]
      /\ done' \in [Requests -> {None, Http!NotCalled} \cup Http!Outcomes]
  BY DEF HttpIInv, Http!Request, Http!Accept, Http!ReadBody, Http!Callback, Http!Answer, Http!Goto
<1>4. rpc'[q] = "answering" => done'[q] \in Http!Outcomes \cup {Http!NotCalled}
  BY DEF HttpIInv, Http!Request, Http!Accept, Http!ReadBody, Http!Callback, Http!Answer, Http!Goto
<1>5. ASSUME Http!Busy' PROVE Http!Busy \/ ~shut
  BY <1>5, <1>2 DEF HttpIInv, Http!Busy, Http!Request, Http!Accept, Http!ReadBody,
                    Http!Callback, Http!Answer, Http!Goto
<1>6. SuccessIsHonest' /\ reply' \in [Requests -> {None} \cup Replies]
  <2>1. CASE Http!Answer(q)
    <3> DEFINE R == {[code |-> -1, body |-> "recovered"],
                     [code |-> Http!Code(done[q]), body |-> "data"],
                     [code |-> -1, body |-> "no data"], [code |-> -1, body |-> "nothing"]}
    <3>1. PICK r \in R : reply' = [reply EXCEPT ![q] = r]
      BY <2>1 DEF Http!Answer
    <3>2. rpc[q] = "answering" /\ UNCHANGED done
      BY <2>1 DEF Http!Answer, Http!Goto
    <3>3. done[q] \in Http!Outcomes \cup {Http!NotCalled}
      BY <3>2 DEF HttpIInv
    <3>4. /\ Http!Code(done[q]) \in Int
          /\ Http!Code(done[q]) >= 0 /\ done[q].failed => done[q].code > 0
      BY <3>3, CodeOfOutcome
    <3>5. r \in Replies
      BY <3>1, <3>4, AnswerCodes
    <3>6. r.code >= 0 => r.code = Http!Code(done[q])
      BY <3>1, <3>4, AnswerCodes
    <3>7. reply' \in [Requests -> {None} \cup Replies] /\ reply'[q] = r
      BY <3>1, <3>5 DEF HttpIInv
    <3>8. \A p \in Requests \ {q} : reply'[p] = reply[p]
      BY <3>1 DEF HttpIInv
    <3>9. SuccessIsHonest'
      <4> SUFFICES ASSUME NEW p \in Requests,
                          rpc'[p] = "written", reply'[p].code >= 0, done'[p].failed
                   PROVE  done'[p].code > 0
        BY DEF SuccessIsHonest, Http!SuccessIsHonest
      <4>1. CASE p = q
        BY <3>2, <3>4, <3>6, <3>7, <4>1
      <4>2. CASE p # q
        <5>1. rpc[p] = "written" /\ reply[p].code >= 0 /\ done[p].failed
          BY <1>2, <3>2, <3>8, <4>2
        <5>2. QED BY <3>2, <5>1 DEF HttpIInv, SuccessIsHonest, Http!SuccessIsHonest
      <4>3. QED BY <4>1, <4>2
    <3>10. QED BY <3>7, <3>9
  <2>2. CASE Http!Accept(q) \/ Http!ReadBody(q) \/ Http!Callback(q)
    <3>1. reply' = reply /\ rpc'[q] # "written"
      BY <2>2 DEF HttpIInv, Http!Accept, Http!ReadBody, Http!Callback, Http!Goto
    <3>2. QED BY <1>2, <3>1 DEF HttpIInv, SuccessIsHonest, Http!SuccessIsHonest
  <2>3. QED BY <2>1, <2>2 DEF Http!Request
<1>7. QED BY <1>1, <1>2, <1>3, <1>4, <1>5, <1>6 DEF HttpIInv

LEMMA HttpInductive == Http!Spec => []HttpIInv
<1>1. HttpIInv /\ [Http!Next]_(Http!vars) => HttpIInv'
  BY HttpListens, HttpStops, HttpRequest DEF Http!Next
<1>2. QED BY HttpInit, <1>1, PTL DEF Http!Spec

\* Success is told only when the callback was called and returned no error, or chose a
\* positive code itself, whichever way the answer was made.
THEOREM SuccessIsAlwaysHonest == Http!Spec => []SuccessIsHonest
<1>1. HttpIInv => SuccessIsHonest
  BY DEF HttpIInv
<1>2. QED BY <1>1, HttpInductive, PTL

\* Once a Stop has returned in time no request runs, none will, and the server does
\* not begin to serve.
THEOREM StopIsAlwaysFinal == Http!Spec => StopIsFinal
<1> DEFINE Final == \A s \in Stops : spc[s] = "returned" =>
                        ~Http!Busy' /\ (lpc' = "serving" => lpc = "serving")
<1>1. HttpIInv /\ HttpIInv' /\ [Http!Next]_(Http!vars) => [Final]_(Http!vars)
  <2>1. SUFFICES ASSUME HttpIInv, HttpIInv', Http!Next, NEW s \in Stops, spc[s] = "returned"
                 PROVE  ~Http!Busy' /\ (lpc' = "serving" => lpc = "serving")
    OBVIOUS
  <2>2. shut
    BY <2>1 DEF HttpIInv
  <2>3. spc'[s] = "returned"
    BY <2>1 DEF HttpIInv, Http!Next, Http!ListenMakes, Http!ListenServes, Http!ListenReturns,
                Http!StopLooks, Http!StopReturns, Http!Request, Http!Accept, Http!ReadBody,
                Http!Callback, Http!Answer
  <2>4. ~Http!Busy'
    BY <2>1, <2>3 DEF HttpIInv
  <2>5. lpc' = "serving" => lpc = "serving"
    BY <2>1, <2>2 DEF Http!Next, Http!ListenMakes, Http!ListenServes, Http!ListenReturns,
                Http!StopLooks, Http!StopReturns, Http!Request, Http!Accept, Http!ReadBody,
                Http!Callback, Http!Answer
  <2>6. QED BY <2>4, <2>5
<1>2. Http!Spec => [][Final]_(Http!vars)
  BY HttpInductive, <1>1, PTL DEF Http!Spec
<1>3. QED BY <1>2 DEF StopIsFinal, Http!StopIsFinal

-----------------------------------------------------------------------------
(* Vector.  An array that two vectors share was given to one of them, so that  *)
(* what a method writes in the array of its vector is behind no other vector   *)
(* which should hold its own.                                                  *)

\* What a vector may hold.
Elem == Val \cup {Zero}

VecTypes ==
    /\ array \in [Arrays -> Seq(Elem)]
    /\ datas \in [Vectors -> [arr : Arrays, len : Nat]]
    /\ \A v \in Vectors : Vec!Length(v) <= Len(array[Vec!Arr(v)])
    /\ shared \subseteq Arrays
    /\ ideal \in [Vectors -> Seq(Elem)]

Alone ==
    \A u, v \in Vectors : u # v /\ Vec!Arr(u) = Vec!Arr(v) => Vec!Arr(v) \in shared

VecIInv == VecTypes /\ Alone /\ HoldsItsOwn

\* Sequences.

LEMMA Prefixes ==
    ASSUME NEW S, NEW s \in Seq(S), NEW n \in 0 .. Len(s)
    PROVE  SubSeq(s, 1, n) \in Seq(S) /\ Len(SubSeq(s, 1, n)) = n
BY ElementOfSeq, LenProperties

LEMMA Suffixes ==
    ASSUME NEW S, NEW s \in Seq(S), NEW n \in 0 .. Len(s)
    PROVE  SubSeq(s, n + 1, Len(s)) \in Seq(S) /\ Len(SubSeq(s, n + 1, Len(s))) = Len(s) - n
<1>1. Len(s) \in Nat /\ \A i \in n + 1 .. Len(s) : s[i] \in S
  BY ElementOfSeq, LenProperties
<1>2. QED BY <1>1, SubSeqProperties

LEMMA PrefixOfConcat ==
    ASSUME NEW S, NEW s \in Seq(S), NEW t \in Seq(S)
    PROVE  SubSeq(s \o t, 1, Len(s)) = s
<1>1. /\ s \o t \in Seq(S) /\ Len(s \o t) = Len(s) + Len(t)
      /\ \A i \in 1 .. Len(s) : (s \o t)[i] = s[i]
      /\ Len(s) \in Nat /\ Len(t) \in Nat
  BY ConcatProperties, LenProperties
<1>2. SubSeq(s \o t, 1, Len(s)) \in Seq(S) /\ Len(SubSeq(s \o t, 1, Len(s))) = Len(s)
  BY <1>1, Prefixes
<1>3. \A i \in 1 .. Len(s) : SubSeq(s \o t, 1, Len(s))[i] = s[i]
  BY <1>1
<1>4. QED BY <1>2, <1>3, SeqEqual

LEMMA ZerosHold ==
    ASSUME NEW n \in Nat
    PROVE  Vec!Zeros(n) \in Seq(Elem) /\ Len(Vec!Zeros(n)) = n
BY DEF Vec!Zeros, Elem

LEMMA VecContents ==
    ASSUME VecIInv, NEW v \in Vectors
    PROVE  /\ Vec!Contents(v) \in Seq(Elem) /\ Len(Vec!Contents(v)) = Vec!Length(v)
           /\ Vec!Length(v) \in Nat /\ Vec!Arr(v) \in Arrays
           /\ array[Vec!Arr(v)] \in Seq(Elem)
           /\ Vec!Base(v) = Vec!Contents(v)
<1>1. /\ Vec!Length(v) \in Nat /\ Vec!Arr(v) \in Arrays
      /\ array[Vec!Arr(v)] \in Seq(Elem) /\ Vec!Length(v) <= Len(array[Vec!Arr(v)])
  BY DEF VecIInv, VecTypes, Vec!Length, Vec!Arr
<1>2. Vec!Contents(v) \in Seq(Elem) /\ Len(Vec!Contents(v)) = Vec!Length(v)
  BY <1>1, Prefixes, LenProperties DEF Vec!Contents
<1>3. Vec!Base(v) = Vec!Contents(v)
  BY DEF VecIInv, HoldsItsOwn, Vec!HoldsItsOwn, Vec!Base
<1>4. QED BY <1>1, <1>2, <1>3

LEMMA VecBehind ==
    ASSUME VecIInv, NEW v \in Vectors, NEW n \in 0 .. Len(array[Vec!Arr(v)])
    PROVE  Vec!Behind(v, n) \in Seq(Elem) /\ Len(Vec!Behind(v, n)) = Len(array[Vec!Arr(v)]) - n
BY VecContents, Suffixes DEF Vec!Behind

\* Writing into the array of v, as long as before.
LEMMA VecInPlace ==
    ASSUME VecIInv, NEW v \in Vectors, NEW s \in Seq(Elem), NEW rest \in Seq(Elem),
           Len(s) + Len(rest) = Len(array[Vec!Arr(v)]),
           Vec!InPlace(v, s, rest), Vec!Should(v, s)
    PROVE  VecIInv'
<1> DEFINE a == Vec!Arr(v)
<1>1. /\ a \in Arrays /\ a = datas[v].arr
      /\ array' = [array EXCEPT ![a] = s \o rest]
      /\ datas' = [datas EXCEPT ![v].len = Len(s)]
      /\ ideal' = [ideal EXCEPT ![v] = s] /\ shared' = shared
  BY VecContents DEF Vec!InPlace, Vec!Should, Vec!Arr
<1> HIDE DEF a
<1>2. s \o rest \in Seq(Elem) /\ Len(s \o rest) = Len(array[a]) /\ Len(s) \in Nat /\ Len(rest) \in Nat
  BY ConcatProperties, LenProperties DEF a
<1>3. /\ array' \in [Arrays -> Seq(Elem)] /\ array'[a] = s \o rest
      /\ \A b \in Arrays \ {a} : array'[b] = array[b]
      /\ datas' \in [Vectors -> [arr : Arrays, len : Nat]]
      /\ datas'[v].arr = datas[v].arr /\ datas'[v].len = Len(s)
      /\ \A u \in Vectors \ {v} : datas'[u] = datas[u]
      /\ ideal' \in [Vectors -> Seq(Elem)] /\ ideal'[v] = s
      /\ \A u \in Vectors \ {v} : ideal'[u] = ideal[u]
  BY <1>1, <1>2 DEF VecIInv, VecTypes
<1>4. \A u \in Vectors : datas'[u].arr = datas[u].arr
  BY <1>3
<1>5. Alone'
  BY <1>1, <1>4 DEF VecIInv, Alone, Vec!Arr
<1>6. VecTypes'
  <2>1. ASSUME NEW u \in Vectors PROVE datas'[u].len <= Len(array'[datas'[u].arr])
    <3>1. CASE u = v
      BY <1>1, <1>2, <1>3, <3>1
    <3>2. CASE u # v
      <4>1. datas'[u] = datas[u] /\ datas[u].arr \in Arrays /\ datas[u].len <= Len(array[datas[u].arr])
        BY <1>3, <3>2 DEF VecIInv, VecTypes, Vec!Length, Vec!Arr
      <4>2. QED BY <1>2, <1>3, <4>1
    <3>3. QED BY <3>1, <3>2
  <2>2. QED BY <1>1, <1>3, <2>1 DEF VecIInv, VecTypes, Vec!Length, Vec!Arr
<1>7. ASSUME NEW u \in Vectors, datas'[u].arr \notin shared'
      PROVE  SubSeq(array'[datas'[u].arr], 1, datas'[u].len) = ideal'[u]
  <2>1. CASE u = v
    <3>1. SubSeq(s \o rest, 1, Len(s)) = s
      BY PrefixOfConcat
    <3>2. QED BY <1>1, <1>3, <2>1, <3>1
  <2>2. CASE u # v
    <3>1. datas[u].arr \in Arrays /\ datas[u].arr \notin shared
      BY <1>1, <1>4, <1>7 DEF VecIInv, VecTypes
    <3>2. datas[u].arr # a
      BY <1>1, <2>2, <3>1 DEF VecIInv, Alone, Vec!Arr
    <3>3. SubSeq(array[datas[u].arr], 1, datas[u].len) = ideal[u]
      BY <3>1 DEF VecIInv, HoldsItsOwn, Vec!HoldsItsOwn, Vec!Arr, Vec!Length, Vec!Contents
    <3>4. QED BY <1>3, <2>2, <3>1, <3>2, <3>3
  <2>3. QED BY <2>1, <2>2
<1>8. QED
  BY <1>5, <1>6, <1>7 DEF VecIInv, HoldsItsOwn, Vec!HoldsItsOwn, Vec!Arr, Vec!Length, Vec!Contents

\* There is an array for no vector.
LEMMA VecSpare ==
    ASSUME VecIInv
    PROVE  \E a \in Arrays : a \notin {Vec!Arr(u) : u \in Vectors}
<1> DEFINE f == [u \in Vectors |-> Vec!Arr(u)]
<1>1. f \in [Vectors -> Arrays]
  BY VecContents
<1>2. SUFFICES ASSUME \A a \in Arrays : a \in {Vec!Arr(u) : u \in Vectors} PROVE FALSE
  OBVIOUS
<1>3. \A a \in Arrays : \E u \in Vectors : f[u] = a
  BY <1>2
<1>4. f \in Surjection(Vectors, Arrays)
  BY <1>1, <1>3, Fun_IsSurj
<1>5. IsFiniteSet(Arrays) /\ Cardinality(Arrays) <= Cardinality(Vectors)
  BY <1>4, FS_Surjection, VectorAssumption
<1>6. PICK some \in SUBSET Arrays :
         IsFiniteSet(some) /\ Cardinality(Vectors) < Cardinality(some)
  BY VectorAssumption
<1>7. Cardinality(some) <= Cardinality(Arrays)
  BY <1>5, <1>6, FS_Subset
<1>8. Cardinality(Arrays) \in Nat /\ Cardinality(Vectors) \in Nat /\ Cardinality(some) \in Nat
  BY <1>5, <1>6, FS_CardinalityType, VectorAssumption
<1>9. QED BY <1>5, <1>6, <1>7, <1>8

\* An array is left only when no other vector has it.
LEMMA VecLeft ==
    ASSUME NEW v \in Vectors
    PROVE  /\ Vec!Left(v) \subseteq {datas[v].arr}
           /\ \A u \in Vectors \ {v} : datas[u].arr \notin Vec!Left(v)
BY DEF Vec!Left, Vec!Arr

\* Leaving the array of v for a new one.
LEMMA VecAnew ==
    ASSUME VecIInv, NEW v \in Vectors, NEW s \in Seq(Elem), Vec!Anew(v, s), Vec!Should(v, s)
    PROVE  VecIInv'
<1> DEFINE a == CHOOSE b \in Arrays : b \notin {Vec!Arr(u) : u \in Vectors}
<1>1. a \in Arrays /\ \A u \in Vectors : datas[u].arr # a
  BY VecSpare DEF Vec!Arr
<1>2. PICK spare \in 0 .. 1 :
        /\ array' = [b \in Arrays |-> IF b = a THEN s \o Vec!Zeros(spare)
                                      ELSE IF b \in Vec!Left(v) THEN <<>> ELSE array[b]]
        /\ datas' = [datas EXCEPT ![v] = [arr |-> a, len |-> Len(s)]]
        /\ shared' = shared \ Vec!Left(v)
  BY DEF Vec!Anew
<1> HIDE DEF a
<1> DEFINE rest == Vec!Zeros(spare)
<1>3. rest \in Seq(Elem) /\ Len(rest) \in Nat
  BY ZerosHold
<1> HIDE DEF rest
<1>4. /\ s \o rest \in Seq(Elem) /\ Len(s \o rest) = Len(s) + Len(rest) /\ Len(s) \in Nat
      /\ <<>> \in Seq(Elem)
  BY <1>3, ConcatProperties, LenProperties, EmptySeq
<1>5. /\ array' \in [Arrays -> Seq(Elem)] /\ array'[a] = s \o rest
      /\ \A b \in Arrays : b # a /\ b \notin Vec!Left(v) => array'[b] = array[b]
  BY <1>1, <1>2, <1>4 DEF VecIInv, VecTypes, rest
<1>6. /\ datas' \in [Vectors -> [arr : Arrays, len : Nat]]
      /\ datas'[v].arr = a /\ datas'[v].len = Len(s)
      /\ \A u \in Vectors \ {v} : datas'[u] = datas[u]
  BY <1>1, <1>2, <1>4 DEF VecIInv, VecTypes
<1>7. /\ ideal' \in [Vectors -> Seq(Elem)] /\ ideal'[v] = s
      /\ \A u \in Vectors \ {v} : ideal'[u] = ideal[u]
  BY DEF VecIInv, VecTypes, Vec!Should
<1>8. Alone'
  <2>1. SUFFICES ASSUME NEW u \in Vectors, NEW w \in Vectors, u # w, datas'[u].arr = datas'[w].arr
                 PROVE  datas'[w].arr \in shared'
    BY DEF Alone, Vec!Arr
  <2>2. u # v /\ w # v
    BY <1>1, <1>6, <2>1
  <2>3. datas[w].arr \in shared /\ datas[w].arr \notin Vec!Left(v)
    BY <1>6, <2>1, <2>2, VecLeft DEF VecIInv, Alone, Vec!Arr
  <2>4. QED BY <1>2, <1>6, <2>2, <2>3
<1>9. ASSUME NEW u \in Vectors
      PROVE  /\ datas'[u].len <= Len(array'[datas'[u].arr])
             /\ datas'[u].arr \notin shared' =>
                  SubSeq(array'[datas'[u].arr], 1, datas'[u].len) = ideal'[u]
  <2>1. CASE u = v
    <3>1. SubSeq(s \o rest, 1, Len(s)) = s
      BY <1>3, PrefixOfConcat
    <3>2. QED BY <1>3, <1>4, <1>5, <1>6, <1>7, <2>1, <3>1
  <2>2. CASE u # v
    <3>1. /\ datas[u].arr \in Arrays /\ datas[u].arr # a /\ datas[u].arr \notin Vec!Left(v)
          /\ datas[u].len <= Len(array[datas[u].arr])
      BY <1>1, <2>2, VecLeft DEF VecIInv, VecTypes, Vec!Length, Vec!Arr
    <3>2. datas[u].arr \notin shared => SubSeq(array[datas[u].arr], 1, datas[u].len) = ideal[u]
      BY DEF VecIInv, HoldsItsOwn, Vec!HoldsItsOwn, Vec!Arr, Vec!Length, Vec!Contents
    <3>3. datas'[u] = datas[u] /\ array'[datas[u].arr] = array[datas[u].arr] /\ ideal'[u] = ideal[u]
      BY <1>5, <1>6, <1>7, <2>2, <3>1
    <3>4. QED BY <1>2, <3>1, <3>2, <3>3
  <2>3. QED BY <2>1, <2>2
<1>10. VecTypes'
  BY <1>2, <1>5, <1>6, <1>7, <1>9 DEF VecIInv, VecTypes, Vec!Length, Vec!Arr
<1>11. QED
  BY <1>8, <1>9, <1>10 DEF VecIInv, HoldsItsOwn, Vec!HoldsItsOwn, Vec!Arr, Vec!Length, Vec!Contents

LEMMA VecGrow ==
    ASSUME VecIInv, NEW v \in Vectors, NEW s \in Seq(Elem), Vec!Grow(v, s), Vec!Should(v, s)
    PROVE  VecIInv'
<1>1. CASE Len(s) <= Len(array[Vec!Arr(v)])
  <2>1. Len(s) \in 0 .. Len(array[Vec!Arr(v)]) /\ Len(array[Vec!Arr(v)]) \in Nat
    BY <1>1, VecContents, LenProperties
  <2>2. /\ Vec!Behind(v, Len(s)) \in Seq(Elem)
        /\ Len(s) + Len(Vec!Behind(v, Len(s))) = Len(array[Vec!Arr(v)])
    BY <2>1, VecBehind
  <2>3. QED BY <1>1, <2>2, VecInPlace DEF Vec!Grow
<1>2. CASE ~(Len(s) <= Len(array[Vec!Arr(v)]))
  BY <1>2, VecAnew DEF Vec!Grow
<1>3. QED BY <1>1, <1>2

\* v takes the slice of u.
LEMMA VecMove ==
    ASSUME VecIInv, NEW v \in Vectors, NEW u \in Vectors, Vec!Move(v, u)
    PROVE  VecIInv'
<1>1. /\ u # v
      /\ datas' = [datas EXCEPT ![v] = datas[u]]
      /\ array' = [b \in Arrays |-> IF b \in Vec!Left(v) \ {datas[u].arr} THEN <<>> ELSE array[b]]
      /\ ideal' = [ideal EXCEPT ![v] = Vec!Contents(u)]
      /\ shared' = (shared \ (Vec!Left(v) \ {datas[u].arr})) \cup {datas[u].arr}
  BY DEF Vec!Move, Vec!Share, Vec!Should, Vec!Arr
<1>2. /\ datas' \in [Vectors -> [arr : Arrays, len : Nat]] /\ datas'[v] = datas[u]
      /\ \A w \in Vectors \ {v} : datas'[w] = datas[w]
      /\ ideal' \in [Vectors -> Seq(Elem)]
      /\ \A w \in Vectors \ {v} : ideal'[w] = ideal[w]
  BY <1>1, VecContents DEF VecIInv, VecTypes
<1>3. /\ array' \in [Arrays -> Seq(Elem)]
      /\ \A b \in Arrays : b \notin Vec!Left(v) => array'[b] = array[b]
  BY <1>1, EmptySeq DEF VecIInv, VecTypes
<1>4. datas[u].arr \in Arrays /\ datas[u].arr \in shared' /\ shared' \subseteq Arrays
  BY <1>1 DEF VecIInv, VecTypes
<1>5. ASSUME NEW w \in Vectors
      PROVE  datas[w].arr \in shared /\ w # v => datas[w].arr \in shared'
  BY <1>1, VecLeft
<1>6. Alone'
  <2>1. SUFFICES ASSUME NEW x \in Vectors, NEW w \in Vectors, x # w, datas'[x].arr = datas'[w].arr
                 PROVE  datas'[w].arr \in shared'
    BY DEF Alone, Vec!Arr
  <2>2. CASE x = v \/ w = v
    BY <1>2, <1>4, <2>1, <2>2
  <2>3. CASE x # v /\ w # v
    BY <1>2, <1>5, <2>1, <2>3 DEF VecIInv, Alone, Vec!Arr
  <2>4. QED BY <2>2, <2>3
<1>7. ASSUME NEW w \in Vectors \ {v}
      PROVE  /\ datas[w].arr \in Arrays /\ datas[w].len <= Len(array[datas[w].arr])
             /\ array'[datas[w].arr] = array[datas[w].arr]
             /\ datas[w].arr \notin shared' =>
                  SubSeq(array'[datas[w].arr], 1, datas[w].len) = ideal[w]
  <2>1. datas[w].arr \in Arrays /\ datas[w].len <= Len(array[datas[w].arr])
    BY DEF VecIInv, VecTypes, Vec!Length, Vec!Arr
  <2>2. array'[datas[w].arr] = array[datas[w].arr]
    BY <1>3, <2>1, VecLeft
  <2>3. datas[w].arr \notin shared => SubSeq(array[datas[w].arr], 1, datas[w].len) = ideal[w]
    BY DEF VecIInv, HoldsItsOwn, Vec!HoldsItsOwn, Vec!Arr, Vec!Length, Vec!Contents
  <2>4. QED BY <1>5, <2>1, <2>2, <2>3
<1>8. VecTypes'
  BY <1>1, <1>2, <1>3, <1>4, <1>7 DEF VecTypes, Vec!Length, Vec!Arr
<1>9. HoldsItsOwn'
  BY <1>2, <1>4, <1>7 DEF HoldsItsOwn, Vec!HoldsItsOwn, Vec!Arr, Vec!Length, Vec!Contents
<1>10. QED BY <1>6, <1>8, <1>9 DEF VecIInv

\* What the methods write.

LEMMA VecNews ==
    ASSUME VecIInv, NEW v \in Vectors, Vec!New(v) \/ Vec!Clear(v)
    PROVE  VecIInv'
<1>1. CASE Vec!New(v)
  BY <1>1, ZerosHold, VecAnew DEF Vec!New
<1>2. CASE Vec!Clear(v)
  <2> DEFINE b == Vec!Behind(v, 0)
             e == <<>>
  <2>1. Len(array[Vec!Arr(v)]) \in Nat
    BY VecContents, LenProperties
  <2>2. b \in Seq(Elem) /\ Len(b) = Len(array[Vec!Arr(v)]) - 0
    BY <2>1, VecBehind
  <2>3. e \in Seq(Elem) /\ Len(e) = 0
    BY EmptySeq
  <2>4. Vec!InPlace(v, e, b) /\ Vec!Should(v, e)
    BY <1>2 DEF Vec!Clear
  <2> HIDE DEF b, e
  <2>5. Len(e) + Len(b) = Len(array[Vec!Arr(v)])
    BY <2>1, <2>2, <2>3
  <2>6. QED BY <2>2, <2>3, <2>4, <2>5, VecInPlace
<1>3. QED BY <1>1, <1>2

LEMMA VecRest ==
    ASSUME VecIInv, NEW v \in Vectors
    PROVE  /\ Vec!Behind(v, Vec!Length(v)) \in Seq(Elem)
           /\ Vec!Length(v) + Len(Vec!Behind(v, Vec!Length(v))) = Len(array[Vec!Arr(v)])
           /\ Vec!Length(v) <= Len(array[Vec!Arr(v)]) /\ Len(array[Vec!Arr(v)]) \in Nat
<1>1. /\ Vec!Length(v) \in Nat /\ Len(array[Vec!Arr(v)]) \in Nat
      /\ Vec!Length(v) <= Len(array[Vec!Arr(v)])
  BY VecContents, LenProperties DEF VecIInv, VecTypes
<1>2. Vec!Length(v) \in 0 .. Len(array[Vec!Arr(v)])
  BY <1>1
<1>3. /\ Vec!Behind(v, Vec!Length(v)) \in Seq(Elem)
      /\ Len(Vec!Behind(v, Vec!Length(v))) = Len(array[Vec!Arr(v)]) - Vec!Length(v)
  BY <1>2, VecBehind
<1>4. QED BY <1>1, <1>3

LEMMA VecReorder ==
    ASSUME VecIInv, NEW v \in Vectors, Vec!Reorder(v)
    PROVE  VecIInv'
<1> DEFINE c == Vec!Contents(v)
           s == Vec!Reverse(c)
<1>1. c \in Seq(Elem) /\ Len(c) = Vec!Length(v) /\ Len(c) \in Nat /\ Vec!Base(v) = c
  BY VecContents
<1>2. s \in Seq(Elem) /\ Len(s) = Len(c)
  <2> HIDE DEF c
  <2>1. \A i \in 1 .. Len(c) : c[Len(c) - i + 1] \in Elem
    BY <1>1, ElementOfSeq
  <2>2. QED BY <1>1, <2>1 DEF Vec!Reverse
<1>3. Vec!InPlace(v, s, Vec!Behind(v, Vec!Length(v))) /\ Vec!Should(v, s)
  BY <1>1 DEF Vec!Reorder
<1> HIDE DEF c, s
<1>4. QED BY <1>1, <1>2, <1>3, VecRest, VecInPlace

LEMMA VecAppend ==
    ASSUME VecIInv, NEW v \in Vectors, NEW x \in Val, Vec!AppendOne(v, x)
    PROVE  VecIInv'
<1>1. Vec!Contents(v) \in Seq(Elem) /\ Vec!Base(v) = Vec!Contents(v) /\ x \in Elem
  BY VecContents DEF Elem
<1>2. Append(Vec!Contents(v), x) \in Seq(Elem)
  BY <1>1
<1>3. QED BY <1>1, <1>2, VecGrow DEF Vec!AppendOne

LEMMA VecInsert ==
    ASSUME VecIInv, NEW v \in Vectors, NEW x \in Val, NEW i \in 1 .. MaxLen + 1,
           Vec!Insert(v, i, x)
    PROVE  VecIInv'
<1> DEFINE c == Vec!Contents(v)
           s == SubSeq(c, 1, i - 1) \o <<x>> \o SubSeq(c, i, Len(c))
<1>1. /\ c \in Seq(Elem) /\ Len(c) = Vec!Length(v) /\ Len(c) \in Nat /\ Vec!Base(v) = c
      /\ x \in Elem /\ i \in Int
  BY VecContents DEF Elem
<1>2. i - 1 \in 0 .. Len(c)
  BY <1>1 DEF Vec!Insert
<1>3. Vec!Grow(v, s) /\ Vec!Should(v, s)
  BY <1>1 DEF Vec!Insert, Vec!InsertAt
<1> HIDE DEF c
<1>4. SubSeq(c, 1, i - 1) \in Seq(Elem) /\ SubSeq(c, i, Len(c)) \in Seq(Elem)
  <2>1. SubSeq(c, i - 1 + 1, Len(c)) \in Seq(Elem)
    BY <1>1, <1>2, Suffixes
  <2>2. i - 1 + 1 = i
    BY <1>1
  <2>3. QED BY <1>1, <1>2, <2>1, <2>2, Prefixes
<1>5. s \in Seq(Elem)
  BY <1>1, <1>4, ConcatProperties
<1> HIDE DEF s
<1>6. QED BY <1>3, <1>5, VecGrow

LEMMA VecSet ==
    ASSUME VecIInv, NEW v \in Vectors, NEW x \in Val, NEW i, Vec!Set(v, i, x)
    PROVE  VecIInv'
<1> DEFINE c == Vec!Contents(v)
           s == [c EXCEPT ![i] = x]
<1>1. /\ c \in Seq(Elem) /\ Len(c) = Vec!Length(v) /\ Len(c) \in Nat /\ Vec!Base(v) = c
      /\ x \in Elem /\ i \in 1 .. Len(c)
  BY VecContents DEF Elem, Vec!Set, Vec!Places
<1>2. Vec!InPlace(v, s, Vec!Behind(v, Vec!Length(v))) /\ Vec!Should(v, s)
  BY <1>1 DEF Vec!Set, Vec!ReplaceAt
<1> HIDE DEF c
<1>3. s \in Seq(Elem) /\ Len(s) = Len(c)
  BY <1>1, ExceptSeq
<1> HIDE DEF s
<1>4. QED BY <1>1, <1>2, <1>3, VecRest, VecInPlace

LEMMA VecRemoveRange ==
    ASSUME VecIInv, NEW v \in Vectors, NEW i, NEW j, Vec!RemoveRange(v, i, j)
    PROVE  VecIInv'
<1> DEFINE c == Vec!Contents(v)
           n == j - i + 1
           keep == SubSeq(c, 1, i - 1) \o SubSeq(c, j + 1, Len(c))
           t == [k \in 1 .. Len(c) - n |-> c[IF k < i THEN k ELSE k + n]]
           rest == Vec!Zeros(n) \o Vec!Behind(v, Vec!Length(v))
<1>1. /\ c \in Seq(Elem) /\ Len(c) = Vec!Length(v) /\ Len(c) \in Nat /\ Vec!Base(v) = c
      /\ i \in 1 .. Len(c) /\ j \in i .. Len(c)
  BY VecContents DEF Vec!RemoveRange, Vec!Places
<1>2. Vec!InPlace(v, keep, rest) /\ Vec!Should(v, t)
  BY <1>1 DEF Vec!RemoveRange
<1> HIDE DEF c
<1>3. /\ SubSeq(c, 1, i - 1) \in Seq(Elem) /\ Len(SubSeq(c, 1, i - 1)) = i - 1
      /\ \A k \in 1 .. i - 1 : SubSeq(c, 1, i - 1)[k] = c[k]
  <2>1. i - 1 \in 0 .. Len(c)
    BY <1>1
  <2>2. \A k \in 1 .. i - 1 : SubSeq(c, 1, i - 1)[k] = c[k]
    BY <1>1, <2>1
  <2>3. QED BY <1>1, <2>1, <2>2, Prefixes
<1>4. /\ SubSeq(c, j + 1, Len(c)) \in Seq(Elem) /\ Len(SubSeq(c, j + 1, Len(c))) = Len(c) - j
      /\ \A k \in 1 .. Len(c) - j : SubSeq(c, j + 1, Len(c))[k] = c[j + k]
  <2>1. j \in 0 .. Len(c)
    BY <1>1
  <2>2. \A k \in 1 .. Len(c) - j : SubSeq(c, j + 1, Len(c))[k] = c[j + k]
    BY <1>1, <2>1
  <2>3. QED BY <1>1, <2>1, <2>2, Suffixes
<1>5. /\ keep \in Seq(Elem) /\ Len(keep) = Len(c) - n
      /\ \A k \in 1 .. Len(c) - n :
           keep[k] = IF k <= i - 1 THEN SubSeq(c, 1, i - 1)[k]
                     ELSE SubSeq(c, j + 1, Len(c))[k - (i - 1)]
  <2> DEFINE s1 == SubSeq(c, 1, i - 1)
             s2 == SubSeq(c, j + 1, Len(c))
  <2>1. s1 \in Seq(Elem) /\ s2 \in Seq(Elem) /\ Len(s1) = i - 1 /\ Len(s2) = Len(c) - j
    BY <1>3, <1>4
  <2> HIDE DEF s1, s2
  <2>2. /\ s1 \o s2 \in Seq(Elem) /\ Len(s1 \o s2) = Len(s1) + Len(s2)
        /\ \A k \in 1 .. Len(s1) + Len(s2) :
             (s1 \o s2)[k] = IF k <= Len(s1) THEN s1[k] ELSE s2[k - Len(s1)]
    BY <2>1, ConcatProperties
  <2>3. Len(s1) + Len(s2) = Len(c) - n
    BY <1>1, <2>1
  <2>4. QED BY <2>1, <2>2, <2>3 DEF s1, s2
<1>6. t \in Seq(Elem) /\ Len(t) = Len(c) - n
  <2>1. ASSUME NEW k \in 1 .. Len(c) - n PROVE c[IF k < i THEN k ELSE k + n] \in Elem
    BY <1>1, ElementOfSeq
  <2>2. Len(c) - n \in Nat
    BY <1>1
  <2>3. QED BY <2>1, <2>2
<1>7. \A k \in 1 .. Len(c) - n : keep[k] = t[k]
  <2>1. ASSUME NEW k \in 1 .. Len(c) - n, k < i PROVE keep[k] = t[k]
    <3>1. k \in 1 .. i - 1
      BY <1>1, <2>1
    <3>2. keep[k] = c[k]
      BY <1>1, <1>3, <1>5, <3>1, <2>1
    <3>3. QED BY <2>1, <3>2
  <2>2. ASSUME NEW k \in 1 .. Len(c) - n, ~(k < i) PROVE keep[k] = t[k]
    <3>1. k - (i - 1) \in 1 .. Len(c) - j /\ ~(k <= i - 1) /\ j + (k - (i - 1)) = k + n
      BY <1>1, <2>2
    <3>2. keep[k] = c[k + n]
      BY <1>4, <1>5, <2>2, <3>1
    <3>3. QED BY <2>2, <3>2
  <2>3. QED BY <2>1, <2>2
<1> HIDE DEF keep, t
<1>8. keep = t
  BY <1>5, <1>6, <1>7, SeqEqual
<1>9. rest \in Seq(Elem) /\ Len(rest) = n + Len(Vec!Behind(v, Vec!Length(v)))
  <2>1. n \in Nat
    BY <1>1
  <2> DEFINE z == Vec!Zeros(n)
             b == Vec!Behind(v, Vec!Length(v))
  <2>2. z \in Seq(Elem) /\ Len(z) = n /\ b \in Seq(Elem)
    BY <2>1, ZerosHold, VecRest
  <2> HIDE DEF z, b, n
  <2>3. z \o b \in Seq(Elem) /\ Len(z \o b) = n + Len(b)
    BY <2>2, ConcatProperties
  <2>4. QED BY <2>3 DEF z, b
<1> HIDE DEF rest
<1>10. Len(keep) + Len(rest) = Len(array[Vec!Arr(v)])
  <2>1. n \in Nat /\ Len(Vec!Behind(v, Vec!Length(v))) \in Nat
    BY <1>1, VecRest, LenProperties
  <2>2. QED BY <1>1, <1>5, <1>9, <2>1, VecRest
<1>11. QED BY <1>2, <1>5, <1>8, <1>9, <1>10, VecInPlace

LEMMA VecRemoveFast ==
    ASSUME VecIInv, NEW v \in Vectors, NEW i, Vec!RemoveFast(v, i)
    PROVE  VecIInv'
<1> DEFINE c == Vec!Contents(v)
           filled == [c EXCEPT ![i] = c[Len(c)]]
           s == SubSeq(filled, 1, Len(filled) - 1)
           rest == Vec!Behind(v, Vec!Length(v) - 1)
<1>1. /\ c \in Seq(Elem) /\ Len(c) = Vec!Length(v) /\ Len(c) \in Nat /\ Vec!Base(v) = c
      /\ i \in 1 .. Len(c)
  BY VecContents DEF Vec!RemoveFast, Vec!Places
<1>2. Vec!InPlace(v, s, rest) /\ Vec!Should(v, s)
  BY <1>1 DEF Vec!RemoveFast, Vec!Front, Vec!Last, Vec!ReplaceAt
<1> HIDE DEF c
<1>3. filled \in Seq(Elem) /\ Len(filled) = Len(c)
  BY <1>1, ExceptSeq, ElementOfSeq
<1> HIDE DEF filled
<1>4. s \in Seq(Elem) /\ Len(s) = Len(c) - 1
  BY <1>1, <1>3, Prefixes
<1>5. rest \in Seq(Elem) /\ Len(rest) = Len(array[Vec!Arr(v)]) - (Len(c) - 1)
  <2>1. Len(c) - 1 \in 0 .. Len(array[Vec!Arr(v)])
    BY <1>1, VecRest
  <2>2. QED BY <1>1, <2>1, VecBehind
<1> HIDE DEF s, rest
<1>6. Len(s) + Len(rest) = Len(array[Vec!Arr(v)])
  BY <1>1, <1>4, <1>5, VecRest
<1>7. QED BY <1>2, <1>4, <1>5, <1>6, VecInPlace

\* There are arrays enough for every vector to have one.
LEMMA VecHomes == \E h \in [Vectors -> Arrays] : Vec!IsInjective(h)
<1>1. PICK some \in SUBSET Arrays :
         IsFiniteSet(some) /\ Cardinality(Vectors) < Cardinality(some)
  BY VectorAssumption
<1> DEFINE m == Cardinality(Vectors)
           n == Cardinality(some)
<1>2. m \in Nat /\ n \in Nat /\ m < n
  BY <1>1, FS_CardinalityType, VectorAssumption
<1>3. ExistsBijection(1 .. m, Vectors) /\ ExistsBijection(1 .. n, some)
  BY <1>1, FS_CardinalityType, VectorAssumption
<1> HIDE DEF m, n
<1>4. ExistsInjection(Vectors, 1 .. m) /\ ExistsInjection(1 .. n, some)
  BY <1>3, Fun_ExistsBijEquiv
<1>5. ExistsInjection(1 .. m, 1 .. n)
  <2> DEFINE id == [k \in 1 .. m |-> k]
  <2>1. id \in [1 .. m -> 1 .. n]
    BY <1>2
  <2>2. id \in Injection(1 .. m, 1 .. n)
    BY <2>1, Fun_IsInj
  <2>3. QED BY <2>2, Fun_ExistsInj
<1>6. ExistsInjection(Vectors, some)
  BY <1>4, <1>5, Fun_ExistsInjTransitive
<1>7. PICK h \in Injection(Vectors, some) : TRUE
  BY <1>6, Fun_ExistsInj
<1>8. h \in [Vectors -> some] /\ \A a, b \in Vectors : h[a] = h[b] => a = b
  BY <1>7, Fun_InjectionProperties
<1>9. h \in [Vectors -> Arrays]
  BY <1>1, <1>8
<1>10. QED BY <1>8, <1>9 DEF Vec!IsInjective

LEMMA VecInit == Vec!Init => VecIInv
<1> DEFINE home == CHOOSE h \in [Vectors -> Arrays] : Vec!IsInjective(h)
<1>1. SUFFICES ASSUME Vec!Init PROVE VecIInv
  OBVIOUS
<1>2. home \in [Vectors -> Arrays] /\ Vec!IsInjective(home)
  BY VecHomes
<1>3. /\ array = [a \in Arrays |-> <<>>] /\ shared = {} /\ ideal = [v \in Vectors |-> <<>>]
      /\ datas = [v \in Vectors |-> [arr |-> home[v], len |-> 0]]
  BY <1>1 DEF Vec!Init
<1> HIDE DEF home
<1>4. <<>> \in Seq(Elem) /\ Len(<<>>) = 0 /\ SubSeq(<<>>, 1, 0) = <<>>
  BY EmptySeq, SubSeqEmpty
<1>5. /\ array \in [Arrays -> Seq(Elem)] /\ ideal \in [Vectors -> Seq(Elem)]
      /\ datas \in [Vectors -> [arr : Arrays, len : Nat]]
      /\ \A v \in Vectors : datas[v].arr = home[v] /\ datas[v].len = 0 /\ ideal[v] = <<>>
      /\ \A v \in Vectors : home[v] \in Arrays /\ array[home[v]] = <<>>
  BY <1>2, <1>3, <1>4
<1>6. VecTypes
  BY <1>3, <1>4, <1>5 DEF VecTypes, Vec!Length, Vec!Arr
<1>7. Alone
  BY <1>2, <1>5 DEF Alone, Vec!Arr, Vec!IsInjective
<1>8. HoldsItsOwn
  BY <1>4, <1>5 DEF HoldsItsOwn, Vec!HoldsItsOwn, Vec!Contents, Vec!Length, Vec!Arr
<1>9. QED BY <1>6, <1>7, <1>8 DEF VecIInv

\* A vector whose slice was not given away holds what its own methods made of it:
\* nobody else's append, removal or Clear writes into its array.
THEOREM AlwaysHoldsItsOwn == Vec!Spec => []HoldsItsOwn
<1>1. VecIInv /\ [Vec!Next]_(Vec!vars) => VecIInv'
  <2>1. SUFFICES ASSUME VecIInv, [Vec!Next]_(Vec!vars) PROVE VecIInv'
    OBVIOUS
  <2>2. CASE UNCHANGED Vec!vars
    BY <2>1, <2>2 DEF Vec!vars, VecIInv, VecTypes, Alone, HoldsItsOwn, Vec!HoldsItsOwn,
                      Vec!Contents, Vec!Length, Vec!Arr
  <2>3. ASSUME NEW v \in Vectors, Vec!New(v) \/ Vec!Clear(v) \/ Vec!Reorder(v) PROVE VecIInv'
    BY <2>1, <2>3, VecNews, VecReorder
  <2>4. ASSUME NEW v \in Vectors, NEW x \in Val, Vec!AppendOne(v, x) PROVE VecIInv'
    BY <2>1, <2>4, VecAppend
  <2>5. ASSUME NEW v \in Vectors, NEW i \in 1 .. MaxLen + 1, NEW x \in Val,
               Vec!Insert(v, i, x) \/ Vec!Set(v, i, x)
        PROVE  VecIInv'
    BY <2>1, <2>5, VecInsert, VecSet
  <2>6. ASSUME NEW v \in Vectors, NEW i, NEW j, Vec!RemoveRange(v, i, j) \/ Vec!RemoveFast(v, i)
        PROVE  VecIInv'
    BY <2>1, <2>6, VecRemoveRange, VecRemoveFast
  <2>7. ASSUME NEW v \in Vectors, NEW u \in Vectors, Vec!Copy(v, u) PROVE VecIInv'
    BY <2>1, <2>7, VecContents, VecAnew DEF Vec!Copy
  <2>8. ASSUME NEW v \in Vectors, NEW u \in Vectors, Vec!Move(v, u) PROVE VecIInv'
    BY <2>1, <2>8, VecMove
  <2>9. QED BY <2>1, <2>2, <2>3, <2>4, <2>5, <2>6, <2>7, <2>8 DEF Vec!Next
<1>2. VecIInv => HoldsItsOwn
  BY DEF VecIInv
<1>3. QED BY VecInit, <1>1, <1>2, PTL DEF Vec!Spec
=============================================================================
