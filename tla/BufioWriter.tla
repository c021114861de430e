---------------------------- MODULE BufioWriter -----------------------------
(* bufiox.Writer (rivetxcore/bufiox/bufio.go): the buffered writer through  *)
(* which a connection's Write goroutine sends.  The underlying writer may   *)
(* take a part of what it is given, and fail; unlike Go's bufio this Writer *)
(* can be told to forget an error (ResetErr) and is then written to again,  *)
(* with what the failed call left in the buffer.                            *)
(*                                                                          *)
(* One goroutine uses a Writer; a step is a call, or one turn of the loop   *)
(* of Write or ReadFrom.  Bytes are numbered in the order they are offered, *)
(* so that one lost, doubled or out of place shows.                         *)
EXTENDS Naturals, Sequences

CONSTANTS
    Size,           \* the length of the buffer
    UTFMax,         \* the bytes the longest rune takes
    MaxWrite,       \* the longest argument of Write, ReadFrom's source (bound)
    MaxStream       \* no call is made after this many bytes (bound)

ASSUME SizeIsPositive == Size \in Nat \ {0}
ASSUME UTFMaxIsPositive == UTFMax \in Nat \ {0}
ASSUME MaxWriteIsNat == MaxWrite \in Nat
ASSUME MaxStreamIsNat == MaxStream \in Nat

VARIABLES
    buf,        \* b.buf[0:b.n]
    err,        \* b.err # nil
    wire,       \* what the underlying writer took
    accepted,   \* what calls reported as written, since the last Reset
    pc,         \* "idle", or the call: "write", "string", "put", "readfrom"
    p,          \* what it still has to write (or ReadFrom's source to give)
    failed,     \* an error occurred since the last Reset
    wr          \* what the underlying writer is besides: "ReaderFrom", "StringWriter"

vars == <<buf, err, wire, accepted, pc, p, failed, wr>>

Init ==
    /\ buf = <<>>
    /\ err = FALSE
    /\ wire = <<>>
    /\ accepted = <<>>
    /\ pc = "idle"
    /\ p = <<>>
    /\ failed = FALSE
    /\ wr \in SUBSET {"ReaderFrom", "StringWriter"}

Available == Size - Len(buf)

\* the first n elements of s, and the others
First(s, n) == SubSeq(s, 1, n)
After(s, n) == SubSeq(s, n + 1, Len(s))

\* the next n bytes a caller has to write
Bytes(n) == [i \in 1 .. n |-> Len(accepted) + i]

-----------------------------------------------------------------------------
\* a mutant: what was taken of a failed flush stays in the buffer
FlushKeeping(b) ==
    \E n \in 0 .. Len(b), e \in BOOLEAN :
        LET fails == e \/ n < Len(b)
        IN /\ wire' = wire \o First(b, n)
           /\ buf' = IF fails THEN b ELSE <<>>
           /\ err' = fails
           /\ failed' = (failed \/ fails)

(* Flush of a buffer that holds b, with no error before: what was not taken *)
(* moves to the front, and a short write is an error.                       *)
FlushBuffer(b) ==
    IF b = <<>>
    THEN buf' = b /\ UNCHANGED <<err, wire, failed>>
    ELSE \E n \in 0 .. Len(b), e \in BOOLEAN :
            LET fails == e \/ n < Len(b)
            IN /\ wire' = wire \o First(b, n)
               /\ buf' = After(b, n)
               /\ err' = fails
               /\ failed' = (failed \/ fails)

\* a call is made: the bound on the stream
MayCall(n) == pc = "idle" /\ Len(accepted) + n <= MaxStream

Flush ==
    /\ pc = "idle"
    /\ ~err
    /\ FlushBuffer(buf)
    /\ UNCHANGED <<accepted, pc, p>>

(* Write and WriteString begin: the loop runs while the rest does not fit.  *)
Write(n, call) ==
    /\ MayCall(n)
    /\ call \in {"write", "string"}
    /\ p' = Bytes(n)
    /\ pc' = call
    /\ UNCHANGED <<buf, err, wire, accepted, failed>>

Writing == pc \in {"write", "string"}
Looping == Writing /\ Len(p) > Available /\ ~err

\* a large write with an empty buffer goes to the underlying writer, a string
\* only if that has a WriteString
Direct == buf = <<>> /\ (pc = "string" => "StringWriter" \in wr)

WriteDirect ==
    /\ Looping
    /\ Direct
    /\ \E n \in 0 .. Len(p), e \in BOOLEAN :
          /\ wire' = wire \o First(p, n)
          /\ accepted' = accepted \o First(p, n)
          /\ p' = After(p, n)
          /\ err' = e
          /\ failed' = (failed \/ e)
    /\ UNCHANGED <<buf, pc>>

\* otherwise the buffer is filled and flushed
WriteThrough ==
    /\ Looping
    /\ ~Direct
    /\ accepted' = accepted \o First(p, Available)
    /\ p' = After(p, Available)
    /\ FlushBuffer(buf \o First(p, Available))
    /\ UNCHANGED pc

\* the loop ends with an error, or the rest fits in the buffer
WriteReturn ==
    /\ Writing
    /\ \/ /\ err
          /\ UNCHANGED <<buf, accepted>>
       \/ /\ ~err
          /\ Len(p) <= Available
          /\ buf' = buf \o p
          /\ accepted' = accepted \o p
    /\ p' = <<>>
    /\ pc' = "idle"
    /\ UNCHANGED <<err, wire, failed>>

(* WriteByte (n and room are 1) and WriteRune of n bytes (the room is that  *)
(* of any rune) when there is room: the bytes are put into the buffer.      *)
Put(n, room) ==
    /\ MayCall(n)
    /\ ~err
    /\ Available >= room
    /\ buf' = buf \o Bytes(n)
    /\ accepted' = accepted \o Bytes(n)
    /\ UNCHANGED <<err, wire, pc, p, failed>>

\* when there is not, the buffer is flushed first
FlushToPut(n, room) ==
    /\ MayCall(n)
    /\ ~err
    /\ Available < room
    /\ FlushBuffer(buf)
    /\ p' = Bytes(n)
    /\ pc' = "put"
    /\ UNCHANGED accepted

(* and the bytes are put into it, unless the flush failed.  Where even an   *)
(* empty buffer has no room for any rune WriteString takes over.            *)
PutFlushed ==
    /\ pc = "put"
    /\ \/ /\ err
          /\ p' = <<>>
          /\ pc' = "idle"
          /\ UNCHANGED <<buf, accepted>>
       \/ /\ ~err
          /\ Available >= UTFMax \/ Len(p) = 1
          /\ buf' = buf \o p
          /\ accepted' = accepted \o p
          /\ p' = <<>>
          /\ pc' = "idle"
       \/ /\ ~err
          /\ Available < UTFMax /\ Len(p) > 1
          /\ pc' = "string"
          /\ UNCHANGED <<buf, accepted, p>>
    /\ UNCHANGED <<err, wire, failed>>

\* ReadFrom of a source that holds n bytes
ReadFrom(n) ==
    /\ MayCall(n)
    /\ ~err
    /\ p' = Bytes(n)
    /\ pc' = "readfrom"
    /\ UNCHANGED <<buf, err, wire, accepted, failed>>

\* ReadFrom makes room; if that fails it returns
ReadFromFlush ==
    /\ pc = "readfrom"
    /\ Available = 0
    /\ FlushBuffer(buf)
    /\ pc' = IF err' THEN "idle" ELSE "readfrom"
    /\ p' = IF err' THEN <<>> ELSE p
    /\ UNCHANGED accepted

\* with an empty buffer the underlying writer reads the source, if it can
ReadFromDirect ==
    /\ pc = "readfrom"
    /\ "ReaderFrom" \in wr
    /\ buf = <<>>
    /\ \E n \in 0 .. Len(p), e \in BOOLEAN :
          /\ n < Len(p) => e
          /\ wire' = wire \o First(p, n)
          /\ accepted' = accepted \o First(p, n)
          /\ err' = e
          /\ failed' = (failed \/ e)
    /\ p' = <<>>
    /\ pc' = "idle"
    /\ UNCHANGED buf

\* otherwise a part of the source is read into the buffer
ReadFromSource(n) ==
    /\ pc = "readfrom"
    /\ Available > 0
    /\ ~("ReaderFrom" \in wr /\ buf = <<>>)
    /\ n \in 1 .. Available
    /\ n <= Len(p)
    /\ buf' = buf \o First(p, n)
    /\ accepted' = accepted \o First(p, n)
    /\ p' = After(p, n)
    /\ UNCHANGED <<err, wire, pc, failed>>

(* The source ends, and a buffer it has filled is flushed; or it fails or   *)
(* gives nothing (maxConsecutiveEmptyReads times), and ReadFrom returns an  *)
(* error that does not stay with the Writer.                                *)
ReadFromEnd ==
    /\ pc = "readfrom"
    /\ ~("ReaderFrom" \in wr /\ buf = <<>>)
    /\ \/ /\ p = <<>>
          /\ Available = 0
          /\ FlushBuffer(buf)
       \/ UNCHANGED <<buf, err, wire, failed>>
    /\ p' = <<>>
    /\ pc' = "idle"
    /\ UNCHANGED accepted

(* A call other than ResetErr and Reset does nothing once an error is kept. *)
ResetErr ==
    /\ pc = "idle"
    /\ err
    /\ err' = FALSE
    /\ UNCHANGED <<buf, wire, accepted, pc, p, failed>>

\* Reset to another underlying writer discards what is buffered
Reset ==
    /\ pc = "idle"
    /\ buf' = <<>>
    /\ err' = FALSE
    /\ wire' = <<>>
    /\ accepted' = <<>>
    /\ failed' = FALSE
    /\ wr' \in SUBSET {"ReaderFrom", "StringWriter"}
    /\ UNCHANGED <<pc, p>>

Loop ==
    \/ WriteDirect \/ WriteThrough \/ WriteReturn \/ PutFlushed
    \/ ReadFromFlush \/ ReadFromDirect \/ ReadFromEnd
    \/ \E n \in 1 .. MaxWrite : ReadFromSource(n)

Next ==
    \/ /\ \/ \E n \in 0 .. MaxWrite : Write(n, "write") \/ Write(n, "string") \/ ReadFrom(n)
          \/ Put(1, 1) \/ FlushToPut(1, 1)
          \/ \E n \in 2 .. UTFMax : Put(n, UTFMax) \/ FlushToPut(n, UTFMax)
          \/ Loop
          \/ Flush \/ ResetErr
       /\ UNCHANGED wr
    \/ Reset

Spec == Init /\ [][Next]_vars

-----------------------------------------------------------------------------
(* Types; and the buffer never holds more than it has room for, so that no  *)
(* index runs past it.                                                      *)
TypeOK ==
    /\ buf \in Seq(Nat)
    /\ Len(buf) <= Size
    /\ err \in BOOLEAN
    /\ wire \in Seq(Nat)
    /\ accepted \in Seq(Nat)
    /\ pc \in {"idle", "write", "string", "put", "readfrom"}
    /\ p \in Seq(Nat)
    /\ failed \in BOOLEAN
    /\ wr \in SUBSET {"ReaderFrom", "StringWriter"}

(* What the underlying writer took and what is buffered is what the calls   *)
(* reported as written: no byte lost, doubled or out of order, through short*)
(* writes, failures in the middle of a Write, and ResetErr after them.  It  *)
(* is what makes ConnService's use of a Writer after a write timeout right. *)
StreamIsExact == wire \o buf = accepted
=============================================================================
