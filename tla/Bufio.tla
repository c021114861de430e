-------------------------------- MODULE Bufio --------------------------------
(* The Writer and the Reader of a connection, each alone: which says whose   *)
(* turn this behavior is.                                                    *)
EXTENDS BufioWriter

CONSTANTS ReaderSize, Inputs, MaxEmpty, MaxArg, MaxFaults, Unreads, None

VARIABLES
    which,
    input, taken, faults, rbuf, r, rerr, lastByte, lastRune, call, tries, got, answer

reader == <<input, taken, faults, rbuf, r, rerr, lastByte, lastRune, call, tries, got, answer>>

R == INSTANCE BufioReader WITH Size <- ReaderSize, buf <- rbuf, err <- rerr

ASSUME ReaderSizeIsPositive == ReaderSize \in Nat \ {0}
ASSUME MaxEmptyIsPositive == MaxEmpty \in Nat \ {0}
ASSUME MaxArgIsNat == MaxArg \in Nat
ASSUME InputsAreBytes == Inputs \subseteq Seq(R!ByteKind)
ASSUME NoneIsNoError ==
    None \notin [kind : {"fault", "eof", "full", "noprogress", "write", "invalid"}, at : Nat]

BenchInit ==
    /\ which \in {"writer", "reader"}
    /\ Init /\ R!Init
    /\ which = "reader" => wr = {}
    /\ which = "writer" => input = CHOOSE i \in Inputs : TRUE

BenchNext ==
    \/ which = "writer" /\ Next /\ UNCHANGED <<which, reader>>
    \/ which = "reader" /\ R!Next /\ UNCHANGED <<which, vars>>

BenchSpec == BenchInit /\ [][BenchNext]_<<which, vars, reader>>

\* Reader: no byte is lost, doubled, changed or out of order, nor an error told early.
ReadsAreExact == R!StreamIsExact
\* Reader: a line is whole, or its beginning, and ends with its delimiter.
LineIsWhole == R!LineIsWhole
\* Reader: UnreadByte unreads the last byte read, after ReadLine too.
UnreadIsTheLastRead == R!UnreadIsTheLastRead
=============================================================================
