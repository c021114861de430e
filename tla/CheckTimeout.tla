---------------------------- MODULE CheckTimeout ----------------------------
(* checkTimeout (rivetxcore/tcpx/tcp.go): the goroutine of a ConnService    *)
(* that wakes every CheckTimeoutInterval, compares the byte counters with   *)
(* those it saw before and closes the connection when it was silent for as  *)
(* long as SocketReadTimeout or SocketWriteTimeout say.  The goroutines     *)
(* that read and write count their bytes at any moment, also between two    *)
(* steps of a check.                                                        *)
(*                                                                          *)
(* Time is counted in ticks, and passes while the goroutine sleeps; that it *)
(* wakes late, or is held up by a callback, is the slack of its sleep.      *)
(* The byte counters only grow: what is kept of each is whether it has      *)
(* moved since the check copied it.                                         *)
EXTENDS Integers

CONSTANTS
    Interval,       \* CheckTimeoutInterval, after it was raised to 500 ms
    Slack,          \* by how much a sleep may overrun (bound)
    Timeout,        \* SocketReadTimeout and SocketWriteTimeout by direction; 0 is none
    MaxSilence,     \* no direction is silent for longer (bound)
    CallbackPanics  \* a timeout callback of the servicer may panic

Directions == {"read", "write"}

ASSUME IntervalIsPositive == Interval \in Nat \ {0}
ASSUME SlackIsNat == Slack \in Nat
ASSUME TimeoutsAreNat == Timeout \in [Directions -> Nat]

VARIABLES
    moved,      \* TotalReadByte, TotalWriteByte differ from the copies
    byteTime,   \* totalReadByteTime, totalWriteByteTime
    isTimeout,  \* isReadTimeout, isWriteTimeout
    pc,         \* "top", "sleep", "read", "write", "decide", "done"
    slept,      \* how long the sleep has lasted
    silent,     \* history: the ticks since bytes last went each way
    IsQuit,
    TypeClose,  \* "none", "read", "write" or "other"
    Unidirectional \* IsUnidirectionalTimeout: one silent direction is enough

vars == <<moved, byteTime, isTimeout, pc, slept, silent, IsQuit, TypeClose, Unidirectional>>

Init ==
    /\ moved = [d \in Directions |-> FALSE]
    /\ byteTime = [d \in Directions |-> 0]
    /\ isTimeout = [d \in Directions |-> FALSE]
    /\ pc = "top"
    /\ slept = 0
    /\ silent = [d \in Directions |-> 0]
    /\ IsQuit = FALSE
    /\ TypeClose = "none"
    /\ Unidirectional \in BOOLEAN

-----------------------------------------------------------------------------
(* The rest of the connection.                                              *)

\* ReadBytes or Write counts bytes
Traffic(d) ==
    /\ ~IsQuit
    /\ moved' = [moved EXCEPT ![d] = TRUE]
    /\ silent' = [silent EXCEPT ![d] = 0]
    /\ UNCHANGED <<byteTime, isTimeout, pc, slept, IsQuit, TypeClose, Unidirectional>>

\* another goroutine of the connection quits
QuitOther ==
    /\ ~IsQuit
    /\ IsQuit' = TRUE
    /\ TypeClose' = IF TypeClose = "none" THEN "other" ELSE TypeClose
    /\ UNCHANGED <<moved, byteTime, isTimeout, pc, slept, silent, Unidirectional>>

Tick ==
    /\ pc = "sleep"
    /\ slept < Interval + Slack
    /\ \A d \in Directions : silent[d] < MaxSilence
    /\ slept' = slept + 1
    /\ silent' = [d \in Directions |-> silent[d] + 1]
    /\ UNCHANGED <<moved, byteTime, isTimeout, pc, IsQuit, TypeClose, Unidirectional>>

-----------------------------------------------------------------------------
\* the head of the loop
Top ==
    /\ pc = "top"
    /\ pc' = IF IsQuit THEN "done" ELSE "sleep"
    /\ slept' = 0
    /\ UNCHANGED <<moved, byteTime, isTimeout, silent, IsQuit, TypeClose, Unidirectional>>

Wake ==
    /\ pc = "sleep"
    /\ slept >= Interval
    /\ byteTime' = [d \in Directions |-> byteTime[d] + Interval]
    /\ pc' = "read"
    /\ UNCHANGED <<moved, isTimeout, slept, silent, IsQuit, TypeClose, Unidirectional>>

\* a mutant: the time is up after the timeout, not with it
UpAfter(d) == Timeout[d] > 0 /\ byteTime[d] > Timeout[d]

Up(d) == Timeout[d] > 0 /\ byteTime[d] >= Timeout[d]

\* a mutant: bytes clear the time, and not the timeout seen before
CheckSticky(d, next) ==
    /\ pc = d
    /\ moved[d]
    /\ moved' = [moved EXCEPT ![d] = FALSE]
    /\ byteTime' = [byteTime EXCEPT ![d] = 0]
    /\ pc' = next
    /\ UNCHANGED <<isTimeout, slept, silent, IsQuit, TypeClose, Unidirectional>>

\* the counter of a direction has moved
CheckMoved(d, next) ==
    /\ pc = d
    /\ moved[d]
    /\ moved' = [moved EXCEPT ![d] = FALSE]
    /\ byteTime' = [byteTime EXCEPT ![d] = 0]
    /\ isTimeout' = [isTimeout EXCEPT ![d] = FALSE]
    /\ pc' = next
    /\ UNCHANGED <<slept, silent, IsQuit, TypeClose, Unidirectional>>

(* It has not: when the time is up the servicer is told.  A panic of the    *)
(* callback ends the goroutine (Spawn recovers it), and timeouts with it.   *)
CheckSilent(d, next) ==
    /\ pc = d
    /\ ~moved[d]
    /\ isTimeout' = [isTimeout EXCEPT ![d] = @ \/ Up(d)]
    /\ \/ pc' = next
       \/ CallbackPanics /\ Up(d) /\ pc' = "done"
    /\ UNCHANGED <<moved, byteTime, slept, silent, IsQuit, TypeClose, Unidirectional>>

(* In which direction the check gives up the connection.  If both must be   *)
(* silent the later of the two times of the check is blamed: the write's,   *)
(* if a millisecond passed since the read was checked.                      *)
Blames(d) ==
    IF Unidirectional
    THEN isTimeout[d] /\ (d = "write" => ~isTimeout["read"])
    ELSE isTimeout["read"] /\ isTimeout["write"]

(* TypeClose is set, the callbacks run, which may panic, and QuitFunc.      *)
GiveUp(d) ==
    /\ pc = "decide"
    /\ Blames(d)
    /\ TypeClose' = IF TypeClose = "none" THEN d ELSE TypeClose
    /\ \/ IsQuit' = TRUE
       \/ CallbackPanics /\ UNCHANGED IsQuit
    /\ pc' = "done"
    /\ UNCHANGED <<moved, byteTime, isTimeout, slept, silent, Unidirectional>>

GoOn ==
    /\ pc = "decide"
    /\ \A d \in Directions : ~Blames(d)
    /\ pc' = "top"
    /\ UNCHANGED <<moved, byteTime, isTimeout, slept, silent, IsQuit, TypeClose, Unidirectional>>

Next ==
    \/ \E d \in Directions : Traffic(d) \/ GiveUp(d)
    \/ QuitOther \/ Tick \/ Top \/ Wake \/ GoOn
    \/ CheckMoved("read", "write") \/ CheckSilent("read", "write")
    \/ CheckMoved("write", "decide") \/ CheckSilent("write", "decide")

Spec == Init /\ [][Next]_vars

-----------------------------------------------------------------------------
\* the longest a timeout takes from the last byte: the check that sees it,
\* and as many after it as the timeout has intervals
Rounds(d) == 1 + (Timeout[d] + Interval - 1) \div Interval
Latest(d) == Rounds(d) * (Interval + Slack)

(* Types; and the counted time is whole intervals, never more than passed.  *)
TypeOK ==
    /\ moved \in [Directions -> BOOLEAN]
    /\ byteTime \in [Directions -> Nat]
    /\ isTimeout \in [Directions -> BOOLEAN]
    /\ pc \in {"top", "sleep", "read", "write", "decide", "done"}
    /\ slept \in 0 .. Interval + Slack
    /\ silent \in [Directions -> Nat]
    /\ IsQuit \in BOOLEAN
    /\ TypeClose \in {"none", "read", "write", "other"}
    /\ Unidirectional \in BOOLEAN
    /\ \A d \in Directions : moved[d] \/ byteTime[d] <= silent[d]

(* A direction taken to have timed out was silent for its whole timeout: no *)
(* time of before the last byte is counted and no timeout of before it is   *)
(* remembered, but for bytes that came since its counter was looked at.     *)
TimeoutIsSilence ==
    \A d \in Directions :
        isTimeout[d] => Timeout[d] > 0 /\ (silent[d] >= Timeout[d] \/ moved[d])

(* A connection on which every direction with a timeout is silent is given  *)
(* up in time, as long as no callback has panicked.  If both directions must*)
(* be silent and one has no timeout it never is.                            *)
GivenUpInTime ==
    pc # "done" =>
        IF Unidirectional
        THEN \A d \in Directions : Timeout[d] > 0 => silent[d] <= Latest(d)
        ELSE (\A d \in Directions : Timeout[d] > 0) =>
                 \E d \in Directions : silent[d] <= Latest(d)
=============================================================================
