---------------------------- MODULE Bufio_proofs ----------------------------
(* Writer: for a buffer of any length, runes of any length, calls of any    *)
(* length and an underlying writer that takes and fails as it likes, no     *)
(* byte is lost, doubled or reordered, and the buffer is never overrun.     *)
(*                                                                          *)
(* Reader: for a buffer of any length, inputs of any length and an          *)
(* underlying reader that gives what it likes and fails when it likes, the  *)
(* same of the bytes handed out, which no error overtakes; and lines are    *)
(* whole.                                                                   *)
EXTENDS Bufio, SequenceTheorems, WellFoundedInduction, TLAPS

-----------------------------------------------------------------------------
\* a sequence cut in two is put together again by concatenation
LEMMA Cut ==
    ASSUME NEW s \in Seq(Nat), NEW n \in 0 .. Len(s)
    PROVE  /\ First(s, n) \in Seq(Nat) /\ After(s, n) \in Seq(Nat)
           /\ Len(First(s, n)) = n /\ Len(After(s, n)) = Len(s) - n
           /\ First(s, n) \o After(s, n) = s
<1>1. Len(s) \in Nat /\ \A i \in 1 .. Len(s) : s[i] \in Nat
  BY LenProperties, ElementOfSeq
<1>2. First(s, n) \in Seq(Nat) /\ Len(First(s, n)) = n
  <2>1. \A i \in 1 .. n : s[i] \in Nat
    BY <1>1
  <2>2. QED BY <1>1, <2>1, SubSeqProperties DEF First
<1>3. After(s, n) \in Seq(Nat) /\ Len(After(s, n)) = Len(s) - n
  <2>1. \A i \in n + 1 .. Len(s) : s[i] \in Nat
    BY <1>1
  <2>2. n + 1 \in Int /\ Len(s) \in Int
    BY <1>1
  <2>3. /\ SubSeq(s, n + 1, Len(s)) \in Seq(Nat)
        /\ Len(SubSeq(s, n + 1, Len(s))) = IF n + 1 <= Len(s) THEN Len(s) - (n + 1) + 1 ELSE 0
    BY <2>1, <2>2, SubSeqProperties
  <2>4. QED BY <1>1, <2>3 DEF After
<1>4. First(s, n) \o After(s, n) = s
  <2>1. 1 \in 1 .. Len(s) + 1 /\ n \in 1 - 1 .. Len(s) /\ Len(s) \in n .. Len(s)
    BY <1>1
  <2>2. SubSeq(s, 1, n) \o SubSeq(s, n + 1, Len(s)) = SubSeq(s, 1, Len(s))
    BY <2>1, ConcatAdjacentSubSeq
  <2>3. QED BY <2>2, SubSeqFull DEF First, After
<1>5. QED BY <1>2, <1>3, <1>4

\* concatenation is associative, on sequences of bytes
LEMMA Associative ==
    ASSUME NEW x \in Seq(Nat), NEW y \in Seq(Nat), NEW z \in Seq(Nat)
    PROVE  (x \o y) \o z = x \o (y \o z)
OBVIOUS

\* no bytes
LEMMA NoBytes ==
    /\ <<>> \in Seq(Nat) /\ Len(<<>>) = 0 /\ <<>> \o <<>> = <<>>
    /\ \A s \in Seq(Nat) : Len(s) = 0 => s = <<>>
OBVIOUS

\* the bytes a caller offers
LEMMA OfferedBytes ==
    ASSUME NEW n \in Nat, accepted \in Seq(Nat)
    PROVE  Bytes(n) \in Seq(Nat) /\ Len(Bytes(n)) = n
<1>1. Len(accepted) \in Nat
  BY LenProperties
<1>2. \A i \in 1 .. n : Len(accepted) + i \in Nat
  BY <1>1
<1>3. QED BY <1>2 DEF Bytes

\* a flush moves bytes from the buffer to the underlying writer, in order
LEMMA FlushMoves ==
    ASSUME NEW b \in Seq(Nat), wire \in Seq(Nat), err \in BOOLEAN, failed \in BOOLEAN,
           FlushBuffer(b)
    PROVE  /\ wire' \in Seq(Nat) /\ buf' \in Seq(Nat)
           /\ err' \in BOOLEAN /\ failed' \in BOOLEAN
           /\ Len(buf') <= Len(b)
           /\ wire' \o buf' = wire \o b
           /\ ~err' => buf' = <<>>
<1>1. CASE b = <<>>
  BY <1>1 DEF FlushBuffer
<1>2. CASE b # <<>>
  <2>1. PICK n \in 0 .. Len(b), e \in BOOLEAN :
            /\ wire' = wire \o First(b, n)
            /\ buf' = After(b, n)
            /\ err' = (e \/ n < Len(b))
            /\ failed' = (failed \/ (e \/ n < Len(b)))
    BY <1>2 DEF FlushBuffer
  <2>2. /\ First(b, n) \in Seq(Nat) /\ After(b, n) \in Seq(Nat)
        /\ Len(After(b, n)) = Len(b) - n /\ First(b, n) \o After(b, n) = b
    BY Cut
  <2>3. Len(b) \in Nat
    BY LenProperties
  <2>4. wire' \in Seq(Nat)
    <3>1. wire \o First(b, n) \in Seq(Nat)
      BY <2>2, ConcatProperties
    <3>2. QED BY <3>1, <2>1
  <2>5. wire' \o buf' = wire \o b
    <3>1. wire \in Seq(Nat)
      OBVIOUS
    <3>2. (wire \o First(b, n)) \o After(b, n) = wire \o (First(b, n) \o After(b, n))
      BY <2>2, <3>1, Associative
    <3>3. QED BY <3>2, <2>1, <2>2
  <2>6. ~err' => buf' = <<>>
    <3>1. ~err' => ~(n < Len(b))
      BY <2>1, Zenon
    <3>2. ~(n < Len(b)) => Len(After(b, n)) = 0
      BY <2>2, <2>3
    <3>3. QED BY <3>1, <3>2, <2>1, <2>2, NoBytes
  <2>7. err' \in BOOLEAN /\ failed' \in BOOLEAN
    BY <2>1
  <2>8. Len(buf') <= Len(b)
    BY <2>1, <2>2, <2>3
  <2>9. QED BY <2>1, <2>2, <2>4, <2>5, <2>6, <2>7, <2>8
<1>3. QED BY <1>1, <1>2

-----------------------------------------------------------------------------
(* The inductive invariant: when WriteByte or WriteRune has flushed, the    *)
(* buffer is empty, which is why the byte fits.                             *)
Flushed ==
    pc = "put" => /\ Len(p) >= 1
                  /\ Len(p) = 1 \/ Len(p) <= UTFMax
                  /\ ~err => buf = <<>>

IInv == TypeOK /\ StreamIsExact /\ Flushed

LEMMA InitIInv == Init => IInv
<1>1. SUFFICES ASSUME Init PROVE IInv
  OBVIOUS
<1>2. TypeOK
  <2>1. buf \in Seq(Nat) /\ wire \in Seq(Nat) /\ accepted \in Seq(Nat) /\ p \in Seq(Nat)
    BY <1>1, NoBytes DEF Init
  <2>2. Len(buf) <= Size
    BY <1>1, NoBytes, SizeIsPositive DEF Init
  <2>3. QED BY <1>1, <2>1, <2>2 DEF Init, TypeOK
<1>3. StreamIsExact
  BY <1>1, NoBytes DEF Init, StreamIsExact
<1>4. QED BY <1>1, <1>2, <1>3 DEF Init, IInv, Flushed

\* Write and ReadFrom begin
LEMMA BeginIInv ==
    ASSUME IInv, UNCHANGED wr, NEW n \in Nat, NEW w, Write(n, w) \/ ReadFrom(n)
    PROVE  IInv'
<1>1. p' \in Seq(Nat)
  BY OfferedBytes DEF IInv, TypeOK, Write, ReadFrom
<1>2. pc' \in {"write", "string", "readfrom"}
  BY DEF Write, ReadFrom
<1>3. UNCHANGED <<buf, err, wire, accepted, failed, wr>>
  BY DEF Write, ReadFrom
<1>4. QED BY <1>1, <1>2, <1>3 DEF IInv, TypeOK, StreamIsExact, Flushed

LEMMA FlushIInv ==
    ASSUME IInv, UNCHANGED wr, Flush
    PROVE  IInv'
<1>1. /\ wire' \in Seq(Nat) /\ buf' \in Seq(Nat)
      /\ err' \in BOOLEAN /\ failed' \in BOOLEAN
      /\ Len(buf') <= Len(buf) /\ wire' \o buf' = wire \o buf
  BY FlushMoves DEF IInv, TypeOK, Flush
<1>2. Len(buf) \in Nat /\ Len(buf') \in Nat /\ Size \in Nat
  BY <1>1, LenProperties, SizeIsPositive DEF IInv, TypeOK
<1>3. Len(buf') <= Size
  BY <1>1, <1>2 DEF IInv, TypeOK
<1>4. UNCHANGED <<accepted, pc, p>> /\ pc = "idle"
  BY DEF Flush
<1>5. QED BY <1>1, <1>3, <1>4 DEF IInv, TypeOK, StreamIsExact, Flushed

LEMMA WriteDirectIInv ==
    ASSUME IInv, UNCHANGED wr, WriteDirect
    PROVE  IInv'
<1>1. PICK n \in 0 .. Len(p), e \in BOOLEAN :
          /\ wire' = wire \o First(p, n)
          /\ accepted' = accepted \o First(p, n)
          /\ p' = After(p, n)
          /\ err' = e
          /\ failed' = (failed \/ e)
  BY DEF WriteDirect
<1>2. First(p, n) \in Seq(Nat) /\ After(p, n) \in Seq(Nat)
  BY Cut DEF IInv, TypeOK
<1>3. wire' \in Seq(Nat) /\ accepted' \in Seq(Nat)
  BY <1>1, <1>2, ConcatProperties DEF IInv, TypeOK
<1>4. buf = <<>> /\ UNCHANGED <<buf, pc>> /\ pc \in {"write", "string"}
  BY DEF WriteDirect, Direct, Looping, Writing
<1>5. wire' \o buf' = accepted'
  BY <1>1, <1>3, <1>4, ConcatEmptySeq DEF IInv, TypeOK, StreamIsExact
<1>6. QED BY <1>1, <1>2, <1>3, <1>4, <1>5 DEF IInv, TypeOK, StreamIsExact, Flushed

LEMMA WriteThroughIInv ==
    ASSUME IInv, UNCHANGED wr, WriteThrough
    PROVE  IInv'
<1>1. PICK n : n = Available
  OBVIOUS
<1>2. Len(buf) \in Nat /\ Len(p) \in Nat /\ Size \in Nat
  BY LenProperties, SizeIsPositive DEF IInv, TypeOK
<1>3. n \in 0 .. Len(p) /\ n = Size - Len(buf)
  BY <1>1, <1>2 DEF WriteThrough, Looping, Available, IInv, TypeOK
<1>4. First(p, n) \in Seq(Nat) /\ After(p, n) \in Seq(Nat) /\ Len(First(p, n)) = n
  BY <1>3, Cut DEF IInv, TypeOK
<1>5. PICK b : b = buf \o First(p, n)
  OBVIOUS
<1>6. b \in Seq(Nat) /\ Len(b) = Size
  BY <1>2, <1>3, <1>4, <1>5, ConcatProperties DEF IInv, TypeOK
<1>7. FlushBuffer(b) /\ accepted' = accepted \o First(p, n) /\ p' = After(p, n)
  BY <1>1, <1>5 DEF WriteThrough
<1>8. /\ wire' \in Seq(Nat) /\ buf' \in Seq(Nat)
      /\ err' \in BOOLEAN /\ failed' \in BOOLEAN
      /\ Len(buf') <= Size /\ wire' \o buf' = wire \o b
  BY <1>6, <1>7, FlushMoves DEF IInv, TypeOK
<1>9. accepted' \in Seq(Nat)
  BY <1>4, <1>7, ConcatProperties DEF IInv, TypeOK
<1>10. wire' \o buf' = accepted'
  <2>1. wire \o (buf \o First(p, n)) = accepted \o First(p, n)
    <3>1. wire \in Seq(Nat) /\ buf \in Seq(Nat) /\ wire \o buf = accepted
      BY DEF IInv, TypeOK, StreamIsExact
    <3>2. (wire \o buf) \o First(p, n) = wire \o (buf \o First(p, n))
      BY <3>1, <1>4, Associative
    <3>3. QED BY <3>1, <3>2
  <2>2. QED BY <2>1, <1>5, <1>7, <1>8
<1>11. pc' = pc /\ pc \in {"write", "string"}
  BY DEF WriteThrough, Looping, Writing
<1>12. QED BY <1>4, <1>7, <1>8, <1>9, <1>10, <1>11 DEF IInv, TypeOK, StreamIsExact, Flushed

\* bytes that fit are put into the buffer and the call returns
LEMMA PutIntoBuffer ==
    ASSUME IInv, UNCHANGED <<wr, wire, err, failed>>, NEW s \in Seq(Nat), Len(s) <= Available,
           buf' = buf \o s, accepted' = accepted \o s, p' \in Seq(Nat), pc' = "idle"
    PROVE  IInv'
<1>1. buf' \in Seq(Nat) /\ accepted' \in Seq(Nat) /\ Len(buf') = Len(buf) + Len(s)
  BY ConcatProperties DEF IInv, TypeOK
<1>2. Len(buf) \in Nat /\ Len(s) \in Nat /\ Size \in Nat
  BY LenProperties, SizeIsPositive DEF IInv, TypeOK
<1>3. Len(buf') <= Size
  BY <1>1, <1>2 DEF Available
<1>4. wire' \o buf' = accepted'
  <2>1. wire \o (buf \o s) = accepted \o s
    <3>1. wire \in Seq(Nat) /\ buf \in Seq(Nat) /\ wire \o buf = accepted
      BY DEF IInv, TypeOK, StreamIsExact
    <3>2. (wire \o buf) \o s = wire \o (buf \o s)
      BY <3>1, Associative
    <3>3. QED BY <3>1, <3>2
  <2>2. QED BY <2>1
<1>5. QED BY <1>1, <1>3, <1>4 DEF IInv, TypeOK, StreamIsExact, Flushed

LEMMA EmptyBytes == <<>> \in Seq(Nat)
OBVIOUS

LEMMA WriteReturnIInv ==
    ASSUME IInv, UNCHANGED wr, WriteReturn
    PROVE  IInv'
<1>1. ASSUME err, UNCHANGED <<buf, accepted>> PROVE IInv'
  BY <1>1, EmptyBytes DEF WriteReturn, IInv, TypeOK, StreamIsExact, Flushed
<1>2. ASSUME ~err, Len(p) <= Available, buf' = buf \o p, accepted' = accepted \o p PROVE IInv'
  <2>1. p \in Seq(Nat) /\ p' \in Seq(Nat) /\ pc' = "idle" /\ UNCHANGED <<wr, wire, err, failed>>
    BY EmptyBytes DEF WriteReturn, IInv, TypeOK
  <2>2. QED BY <1>2, <2>1, PutIntoBuffer
<1>3. QED BY <1>1, <1>2 DEF WriteReturn

LEMMA PutIInv ==
    ASSUME IInv, UNCHANGED wr, NEW n \in Nat, NEW room \in Nat, n <= room, Put(n, room)
    PROVE  IInv'
<1>1. Bytes(n) \in Seq(Nat) /\ Len(Bytes(n)) = n
  BY OfferedBytes DEF IInv, TypeOK
<1>2. Len(buf) \in Nat /\ Size \in Nat
  BY LenProperties, SizeIsPositive DEF IInv, TypeOK
<1>3. n <= Available
  BY <1>2 DEF Put, Available
<1>4. /\ UNCHANGED <<wr, wire, err, failed>> /\ buf' = buf \o Bytes(n)
      /\ accepted' = accepted \o Bytes(n) /\ p' \in Seq(Nat) /\ pc' = "idle"
  BY DEF Put, MayCall, IInv, TypeOK
<1>5. QED BY <1>1, <1>3, <1>4, PutIntoBuffer

LEMMA FlushToPutIInv ==
    ASSUME IInv, UNCHANGED wr, NEW n \in Nat, NEW room, FlushToPut(n, room),
           n >= 1, n = 1 \/ n <= UTFMax
    PROVE  IInv'
<1>1. Bytes(n) \in Seq(Nat) /\ Len(Bytes(n)) = n
  BY OfferedBytes DEF IInv, TypeOK
<1>2. /\ wire' \in Seq(Nat) /\ buf' \in Seq(Nat)
      /\ err' \in BOOLEAN /\ failed' \in BOOLEAN
      /\ Len(buf') <= Len(buf) /\ wire' \o buf' = wire \o buf
      /\ ~err' => buf' = <<>>
  BY FlushMoves DEF IInv, TypeOK, FlushToPut
<1>3. Len(buf) \in Nat /\ Len(buf') \in Nat /\ Size \in Nat
  BY <1>2, LenProperties, SizeIsPositive DEF IInv, TypeOK
<1>4. Len(buf') <= Size
  BY <1>2, <1>3 DEF IInv, TypeOK
<1>5. accepted' = accepted /\ p' = Bytes(n) /\ pc' = "put"
  BY DEF FlushToPut
<1>6. QED BY <1>1, <1>2, <1>4, <1>5 DEF IInv, TypeOK, StreamIsExact, Flushed

LEMMA PutFlushedIInv ==
    ASSUME IInv, UNCHANGED wr, PutFlushed
    PROVE  IInv'
<1>1. ASSUME err, p' = <<>>, pc' = "idle", UNCHANGED <<buf, accepted>> PROVE IInv'
  BY <1>1, EmptyBytes DEF PutFlushed, IInv, TypeOK, StreamIsExact, Flushed
<1>2. ASSUME ~err, Available >= UTFMax \/ Len(p) = 1, buf' = buf \o p,
             accepted' = accepted \o p, p' = <<>>, pc' = "idle"
      PROVE  IInv'
  <2>1. p \in Seq(Nat) /\ p' \in Seq(Nat) /\ UNCHANGED <<wr, wire, err, failed>> /\ pc = "put"
    BY <1>2, EmptyBytes DEF PutFlushed, IInv, TypeOK
  <2>2. buf = <<>> /\ (Len(p) = 1 \/ Len(p) <= UTFMax) /\ Len(p) \in Nat
    BY <1>2, <2>1, LenProperties DEF IInv, Flushed
  <2>3. Available = Size
    BY <2>2, SizeIsPositive DEF Available
  <2>4. Len(p) <= Available
    BY <1>2, <2>2, <2>3, SizeIsPositive, UTFMaxIsPositive
  <2>5. QED BY <1>2, <2>1, <2>4, PutIntoBuffer
<1>3. ASSUME ~err, pc' = "string", UNCHANGED <<buf, accepted, p>> PROVE IInv'
  BY <1>3 DEF PutFlushed, IInv, TypeOK, StreamIsExact, Flushed
<1>4. QED BY <1>1, <1>2, <1>3 DEF PutFlushed

LEMMA ReadFromFlushIInv ==
    ASSUME IInv, UNCHANGED wr, ReadFromFlush
    PROVE  IInv'
<1>1. /\ wire' \in Seq(Nat) /\ buf' \in Seq(Nat)
      /\ err' \in BOOLEAN /\ failed' \in BOOLEAN
      /\ Len(buf') <= Len(buf) /\ wire' \o buf' = wire \o buf
  BY FlushMoves DEF IInv, TypeOK, ReadFromFlush
<1>2. Len(buf) \in Nat /\ Len(buf') \in Nat /\ Size \in Nat
  BY <1>1, LenProperties, SizeIsPositive DEF IInv, TypeOK
<1>3. Len(buf') <= Size
  BY <1>1, <1>2 DEF IInv, TypeOK
<1>4. accepted' = accepted /\ p' \in Seq(Nat) /\ pc' \in {"idle", "readfrom"}
  BY EmptyBytes DEF ReadFromFlush, IInv, TypeOK
<1>5. QED BY <1>1, <1>3, <1>4 DEF IInv, TypeOK, StreamIsExact, Flushed

LEMMA ReadFromDirectIInv ==
    ASSUME IInv, UNCHANGED wr, ReadFromDirect
    PROVE  IInv'
<1>1. PICK n \in 0 .. Len(p), e \in BOOLEAN :
          /\ wire' = wire \o First(p, n)
          /\ accepted' = accepted \o First(p, n)
          /\ err' = e
          /\ failed' = (failed \/ e)
  BY DEF ReadFromDirect
<1>2. First(p, n) \in Seq(Nat)
  BY Cut DEF IInv, TypeOK
<1>3. wire' \in Seq(Nat) /\ accepted' \in Seq(Nat)
  BY <1>1, <1>2, ConcatProperties DEF IInv, TypeOK
<1>4. buf = <<>> /\ buf' = buf /\ pc' = "idle" /\ p' \in Seq(Nat)
  BY EmptyBytes DEF ReadFromDirect
<1>5. wire' \o buf' = accepted'
  BY <1>1, <1>3, <1>4, ConcatEmptySeq DEF IInv, TypeOK, StreamIsExact
<1>6. QED BY <1>1, <1>3, <1>4, <1>5 DEF IInv, TypeOK, StreamIsExact, Flushed

LEMMA ReadFromSourceIInv ==
    ASSUME IInv, UNCHANGED wr, NEW n \in Nat, ReadFromSource(n)
    PROVE  IInv'
<1>1. Len(p) \in Nat /\ Len(buf) \in Nat /\ Size \in Nat
  BY LenProperties, SizeIsPositive DEF IInv, TypeOK
<1>2. n \in 0 .. Len(p) /\ n <= Available
  BY <1>1 DEF ReadFromSource, Available
<1>3. First(p, n) \in Seq(Nat) /\ After(p, n) \in Seq(Nat) /\ Len(First(p, n)) = n
  BY <1>2, Cut DEF IInv, TypeOK
<1>4. /\ buf' \in Seq(Nat) /\ accepted' \in Seq(Nat) /\ Len(buf') = Len(buf) + n
  <2>1. /\ buf \o First(p, n) \in Seq(Nat) /\ accepted \o First(p, n) \in Seq(Nat)
        /\ Len(buf \o First(p, n)) = Len(buf) + n
    BY <1>3, ConcatProperties DEF IInv, TypeOK
  <2>2. QED BY <2>1 DEF ReadFromSource
<1>5. Len(buf') <= Size
  BY <1>1, <1>2, <1>4 DEF Available
<1>6. wire' = wire /\ p' \in Seq(Nat) /\ UNCHANGED <<err, pc, failed>> /\ pc = "readfrom"
  BY <1>3 DEF ReadFromSource
<1>7. wire' \o buf' = accepted'
  <2>1. wire \o (buf \o First(p, n)) = accepted \o First(p, n)
    <3>1. wire \in Seq(Nat) /\ buf \in Seq(Nat) /\ wire \o buf = accepted
      BY DEF IInv, TypeOK, StreamIsExact
    <3>2. (wire \o buf) \o First(p, n) = wire \o (buf \o First(p, n))
      BY <3>1, <1>3, Associative
    <3>3. QED BY <3>1, <3>2
  <2>2. QED BY <2>1, <1>6 DEF ReadFromSource
<1>8. QED BY <1>4, <1>5, <1>6, <1>7 DEF IInv, TypeOK, StreamIsExact, Flushed

LEMMA ReadFromEndIInv ==
    ASSUME IInv, UNCHANGED wr, ReadFromEnd
    PROVE  IInv'
<1>1. p' \in Seq(Nat) /\ pc' = "idle" /\ accepted' = accepted
  BY EmptyBytes DEF ReadFromEnd
<1>2. /\ wire' \in Seq(Nat) /\ buf' \in Seq(Nat)
      /\ err' \in BOOLEAN /\ failed' \in BOOLEAN
      /\ Len(buf') <= Len(buf) /\ wire' \o buf' = wire \o buf
  <2>1. ASSUME FlushBuffer(buf) PROVE <1>2!:
    BY <2>1, FlushMoves DEF IInv, TypeOK
  <2>2. ASSUME UNCHANGED <<buf, err, wire, failed>> PROVE <1>2!:
    BY <2>2, LenProperties DEF IInv, TypeOK
  <2>3. QED BY <2>1, <2>2 DEF ReadFromEnd
<1>3. Len(buf) \in Nat /\ Len(buf') \in Nat /\ Size \in Nat
  BY <1>2, LenProperties, SizeIsPositive DEF IInv, TypeOK
<1>4. Len(buf') <= Size
  BY <1>2, <1>3 DEF IInv, TypeOK
<1>5. QED BY <1>1, <1>2, <1>4 DEF IInv, TypeOK, StreamIsExact, Flushed

LEMMA ResetIInv ==
    ASSUME IInv, Reset \/ (ResetErr /\ UNCHANGED wr)
    PROVE  IInv'
<1>1. ASSUME Reset PROVE IInv'
  <2>1. TypeOK'
    <3>1. /\ buf' \in Seq(Nat) /\ wire' \in Seq(Nat) /\ accepted' \in Seq(Nat)
          /\ p' \in Seq(Nat)
      BY <1>1, NoBytes DEF Reset, IInv, TypeOK
    <3>2. Len(buf') <= Size
      BY <1>1, NoBytes, SizeIsPositive DEF Reset
    <3>3. QED BY <1>1, <3>1, <3>2 DEF Reset, IInv, TypeOK
  <2>2. StreamIsExact'
    BY <1>1, NoBytes DEF Reset, StreamIsExact
  <2>3. QED BY <1>1, <2>1, <2>2 DEF Reset, IInv, Flushed
<1>2. ASSUME ResetErr, UNCHANGED wr PROVE IInv'
  BY <1>2 DEF ResetErr, IInv, TypeOK, StreamIsExact, Flushed
<1>3. QED BY <1>1, <1>2

(* Every step keeps the stream exact and the buffer within its bounds.      *)
THEOREM Inductive == Spec => []IInv
<1>1. ASSUME IInv, [Next]_vars PROVE IInv'
  <2>1. ASSUME UNCHANGED vars PROVE IInv'
    BY <1>1, <2>1 DEF vars, IInv, TypeOK, StreamIsExact, Flushed
  <2>2. ASSUME NEW n \in 0 .. MaxWrite, UNCHANGED wr,
               Write(n, "write") \/ Write(n, "string") \/ ReadFrom(n)
        PROVE  IInv'
    <3>1. n \in Nat
      BY MaxWriteIsNat
    <3>2. QED BY <1>1, <2>2, <3>1, BeginIInv
  <2>3. ASSUME UNCHANGED wr, Put(1, 1) \/ FlushToPut(1, 1) PROVE IInv'
    BY <1>1, <2>3, PutIInv, FlushToPutIInv
  <2>4. ASSUME NEW n \in 2 .. UTFMax, UNCHANGED wr, Put(n, UTFMax) \/ FlushToPut(n, UTFMax)
        PROVE  IInv'
    <3>1. n \in Nat /\ n >= 1 /\ n <= UTFMax /\ UTFMax \in Nat
      BY UTFMaxIsPositive
    <3>2. QED BY <1>1, <2>4, <3>1, PutIInv, FlushToPutIInv
  <2>5. ASSUME UNCHANGED wr, Loop PROVE IInv'
    <3>1. ASSUME NEW n \in 1 .. MaxWrite, ReadFromSource(n) PROVE IInv'
      <4>1. n \in Nat
        BY MaxWriteIsNat
      <4>2. QED BY <1>1, <2>5, <3>1, <4>1, ReadFromSourceIInv
    <3>2. QED
      BY <1>1, <2>5, <3>1, WriteDirectIInv, WriteThroughIInv, WriteReturnIInv, PutFlushedIInv,
         ReadFromFlushIInv, ReadFromDirectIInv, ReadFromEndIInv DEF Loop
  <2>6. ASSUME UNCHANGED wr, Flush PROVE IInv'
    BY <1>1, <2>6, FlushIInv
  <2>7. ASSUME Reset \/ (ResetErr /\ UNCHANGED wr) PROVE IInv'
    BY <1>1, <2>7, ResetIInv
  <2>8. QED BY <1>1, <2>1, <2>2, <2>3, <2>4, <2>5, <2>6, <2>7 DEF Next
<1>2. QED BY <1>1, InitIInv, PTL DEF Spec

(* No index runs past the buffer, whatever its length.                      *)
THEOREM TypeCorrect == Spec => []TypeOK
BY Inductive, PTL DEF IInv

(* What went out and what is buffered is what was reported as written.      *)
THEOREM StreamIsAlwaysExact == Spec => []StreamIsExact
BY Inductive, PTL DEF IInv

-----------------------------------------------------------------------------
(* Reader.  Byte i of the input is the number i, so that what callers have   *)
(* and what is buffered behind it count up to what was taken.                *)

Ops == {"idle", "peek", "discard", "discard, filled", "byte", "rune", "slice", "line", "bytes",
        "writeto, write", "writeto, fill", "writeto, filled"}

ReaderTypes ==
    /\ input \in Inputs /\ taken \in 0 .. Len(input)
    /\ rbuf \in Seq(Nat) /\ Len(rbuf) <= ReaderSize /\ r \in 0 .. Len(rbuf)
    /\ got \in Seq(Nat)
    /\ call \in [op : Ops, n : Nat, held : Seq(Nat)]

\* What callers have, and what is buffered behind it.
InOrder ==
    /\ \A i \in 1 .. Len(got) : got[i] = i
    /\ \A i \in r + 1 .. Len(rbuf) : rbuf[i] = Len(got) + i - r
    /\ Len(got) + Len(rbuf) - r = taken

\* The last byte is the last callers have, or was put back by ReadLine; the bytes
\* of the last rune are still in the buffer, unless it has moved.
Forgetful == {"discard", "discard, filled", "writeto, write", "writeto, fill", "writeto, filled"}

LastIsLast ==
    /\ lastByte # None =>
         lastByte \in Nat \ {0} /\ (lastByte = Len(got) \/ lastByte = Len(got) + 1)
    /\ lastRune # None =>
         /\ lastRune \in 1 .. 2 /\ lastRune <= Len(got)
         /\ lastRune <= r => \A i \in r - lastRune + 1 .. r : rbuf[i] = Len(got) + i - r
    /\ call.op \in Forgetful => lastByte = None /\ lastRune = None
    /\ call.op = "byte" => lastRune = None

\* An error waits no longer than the bytes before it are buffered.
ErrorWaits ==
    /\ rerr \in {None, R!NoProgress} \cup R!Errors
    /\ rerr \in R!Errors => rerr.at <= taken

\* A call that runs has returned nothing; what it holds has no delimiter.
CallHolds ==
    call.op # "idle" =>
        /\ answer = R!Nothing
        /\ \A i \in 1 .. Len(call.held) :
             call.held[i] \in 1 .. taken /\ input[call.held[i]] # "lf"

\* Errors are told after the bytes that came before them, and lines are whole.
ErrorsAreLate ==
    answer.err \in R!Errors /\ answer.op # "reseterr" =>
        IF answer.op = "peek" THEN Len(got) + Len(answer.bytes) >= answer.err.at
                              ELSE Len(got) >= answer.err.at

RIInv ==
    /\ ReaderTypes /\ InOrder /\ LastIsLast /\ ErrorWaits /\ CallHolds
    /\ ErrorsAreLate /\ LineIsWhole

LEMMA Least ==
    ASSUME NEW T \in SUBSET Nat, T # {}
    PROVE  \E x \in T : \A y \in T : x <= y
<1> DEFINE Lt == OpToRel(<, Nat)
<1>1. Lt = {ss \in Nat \X Nat : ss[1] < ss[2]}
  BY DEF OpToRel
<1>2. IsWellFoundedOn(Lt, Nat)
  BY NatLessThanWellFounded
<1>3. \A x, y \in Nat : <<x, y>> \in Lt <=> x < y
  BY <1>1
<1> HIDE DEF Lt
<1>4. PICK x \in T : \A y \in T : ~(<<y, x>> \in Lt)
  BY <1>2, WFMin
<1>5. x \in Nat /\ \A y \in T : y \in Nat /\ ~(y < x)
  BY <1>3, <1>4, Zenon
<1>6. QED BY <1>5

LEMMA Lengths ==
    ASSUME RIInv
    PROVE  /\ Len(rbuf) \in Nat /\ Len(got) \in Nat /\ r \in Nat /\ taken \in Nat
           /\ Len(input) \in Nat /\ ReaderSize \in Nat \ {0} /\ call.n \in Nat
           /\ r <= Len(rbuf) /\ taken <= Len(input) /\ Len(got) <= taken
           /\ Len(got) + (Len(rbuf) - r) = taken
           /\ R!Buffered = Len(rbuf) - r
<1>1. input \in Seq(R!ByteKind)
  BY InputsAreBytes DEF RIInv, ReaderTypes
<1>2. /\ Len(rbuf) \in Nat /\ Len(got) \in Nat /\ r \in Nat /\ taken \in Nat
      /\ Len(input) \in Nat /\ ReaderSize \in Nat \ {0} /\ call.n \in Nat
      /\ r <= Len(rbuf) /\ taken <= Len(input)
  BY <1>1, ReaderSizeIsPositive, LenProperties DEF RIInv, ReaderTypes
<1>3. Len(got) + Len(rbuf) - r = taken
  BY DEF RIInv, InOrder
<1>4. QED BY <1>2, <1>3 DEF R!Buffered

\* Errors are none of the other answers, and None is no error.
LEMMA ErrorsApart ==
    /\ None \notin R!Errors /\ None # R!Full
    /\ \A e \in R!Errors \cup {R!NoProgress} : e # R!Full
    /\ R!NoProgress \notin R!Errors /\ R!Full \notin R!Errors
    /\ R!Invalid \notin R!Errors /\ R!WriteFault \notin R!Errors
<1>1. /\ \A e \in R!Errors : e.kind \in {"fault", "eof"}
      /\ R!NoProgress.kind = "noprogress" /\ R!Full.kind = "full"
      /\ R!Invalid.kind = "invalid" /\ R!WriteFault.kind = "write"
  BY DEF R!Errors, R!NoProgress, R!Full, R!Invalid, R!WriteFault
<1>2. \A e \in R!Errors \cup {R!Full} : e \in
         [kind : {"fault", "eof", "full", "noprogress", "write", "invalid"}, at : Nat]
  BY DEF R!Errors, R!Full
<1>3. None \notin R!Errors /\ None # R!Full
  BY <1>2, NoneIsNoError
<1>4. QED BY <1>1, <1>2, <1>3

\* n bytes of the buffer go to the caller.
LEMMA Takes ==
    ASSUME RIInv, NEW n \in Nat, n <= Len(rbuf) - r, R!Take(n), UNCHANGED <<rbuf, taken, input>>
    PROVE  /\ r' = r + n /\ r' \in 0 .. Len(rbuf')
           /\ got' \in Seq(Nat) /\ Len(got') = Len(got) + n
           /\ InOrder'
<1> DEFINE s == SubSeq(rbuf, r + 1, r + n)
<1>1. /\ Len(rbuf) \in Nat /\ Len(got) \in Nat /\ r \in Nat /\ rbuf \in Seq(Nat) /\ got \in Seq(Nat)
  BY Lengths DEF RIInv, ReaderTypes
<1>2. s \in Seq(Nat) /\ Len(s) = n /\ \A i \in 1 .. n : s[i] = rbuf[r + i]
  <2>1. \A i \in r + 1 .. r + n : rbuf[i] \in Nat
    BY <1>1, ElementOfSeq
  <2>2. /\ s \in Seq(Nat) /\ Len(s) = IF r + 1 <= r + n THEN r + n - (r + 1) + 1 ELSE 0
        /\ \A i \in 1 .. r + n - (r + 1) + 1 : s[i] = rbuf[r + 1 + i - 1]
    BY <1>1, <2>1, SubSeqProperties
  <2> HIDE DEF s
  <2>3. \A i \in 1 .. n : i \in 1 .. r + n - (r + 1) + 1 /\ r + 1 + i - 1 = r + i
    BY <1>1
  <2>4. Len(s) = n
    BY <1>1, <2>2
  <2>5. QED BY <2>2, <2>3, <2>4
<1>3. r' = r + n /\ got' = got \o s
  BY DEF R!Take
<1> HIDE DEF s
<1>4. /\ got' \in Seq(Nat) /\ Len(got') = Len(got) + n
      /\ \A i \in 1 .. Len(got) + n : got'[i] = IF i <= Len(got) THEN got[i] ELSE s[i - Len(got)]
  BY <1>1, <1>2, <1>3, ConcatProperties
<1>5. InOrder'
  <2>1. ASSUME NEW i \in 1 .. Len(got) + n PROVE got'[i] = i
    <3>1. CASE i <= Len(got)
      <4>1. i \in 1 .. Len(got)
        BY <1>1, <3>1
      <4>2. got[i] = i
        BY <4>1 DEF RIInv, InOrder
      <4>3. QED BY <1>4, <3>1, <4>2
    <3>2. CASE ~(i <= Len(got))
      <4>1. i - Len(got) \in 1 .. n /\ r + (i - Len(got)) \in r + 1 .. Len(rbuf)
        BY <1>1, <3>2
      <4>2. rbuf[r + (i - Len(got))] = Len(got) + (r + (i - Len(got))) - r
        BY <4>1 DEF RIInv, InOrder
      <4>3. s[i - Len(got)] = rbuf[r + (i - Len(got))]
        BY <1>2, <4>1
      <4>4. Len(got) + (r + (i - Len(got))) - r = i
        BY <1>1
      <4>5. QED BY <1>4, <3>2, <4>2, <4>3, <4>4
    <3>3. QED BY <3>1, <3>2
  <2>2. ASSUME NEW i \in r + n + 1 .. Len(rbuf) PROVE rbuf[i] = Len(got) + n + i - (r + n)
    <3>1. i \in r + 1 .. Len(rbuf) /\ Len(got) + i - r = Len(got) + n + i - (r + n)
      BY <1>1
    <3>2. QED BY <3>1 DEF RIInv, InOrder
  <2>3. Len(got) + n + Len(rbuf) - (r + n) = taken
    BY <1>1, Lengths
  <2>4. QED BY <1>3, <1>4, <2>1, <2>2, <2>3 DEF InOrder
<1>6. QED BY <1>1, <1>3, <1>4, <1>5

\* What the underlying reader gives.
LEMMA Giving ==
    ASSUME RIInv, NEW n, NEW size \in Nat, NEW e \in {None} \cup R!Errors, R!Gives(n, size, e)
    PROVE  /\ n \in Nat /\ n <= size /\ input' = input
           /\ taken' = taken + n /\ taken' \in 0 .. Len(input)
           /\ e \in R!Errors => e.at = taken'
           /\ R!Given(n) \in Seq(Nat) /\ Len(R!Given(n)) = n
           /\ \A i \in 1 .. n : R!Given(n)[i] = taken + i
<1>1. n \in 0 .. R!Smaller(size, Len(input) - taken) /\ taken' = taken + n /\ input' = input
  BY DEF R!Gives
<1>2. n \in Nat /\ n <= size /\ n <= Len(input) - taken
  BY <1>1, Lengths DEF R!Smaller
<1>3. e \in R!Errors => e.at = taken'
  <2>1. ASSUME e \in R!Errors PROVE e.at = taken + n
    <3>1. e # None
      BY <2>1, ErrorsApart
    <3>2. PICK k : e = [kind |-> k, at |-> taken + n]
      BY <3>1 DEF R!Gives
    <3>3. QED BY <3>2
  <2>2. QED BY <1>1, <2>1
<1>4. \A i \in 1 .. n : taken + i \in Nat
  BY <1>2, Lengths
<1>5. R!Given(n) \in Seq(Nat) /\ Len(R!Given(n)) = n /\ \A i \in 1 .. n : R!Given(n)[i] = taken + i
  BY <1>2, <1>4 DEF R!Given
<1>6. QED BY <1>1, <1>2, <1>3, <1>5, Lengths

\* The error that waits goes on waiting, or is forgotten.
LEMMA SameError ==
    ASSUME RIInv, input' = input, taken' = taken, rerr' = None \/ rerr' = rerr
    PROVE  ErrorWaits'
<1>1. R!Errors' = R!Errors
  BY DEF R!Errors
<1>2. CASE rerr' = None
  BY <1>1, <1>2, ErrorsApart DEF ErrorWaits
<1>3. CASE rerr' = rerr
  BY <1>1, <1>3 DEF RIInv, ErrorWaits
<1>4. QED BY <1>2, <1>3

\* A call returns: a late enough error, no line.
LEMMA Returning ==
    ASSUME NEW op, NEW bytes, NEW e, R!Return(op, bytes, e), input' = input,
           op \notin {"slice", "bytes", "line"},
           e \in R!Errors /\ op # "reseterr" =>
               IF op = "peek" THEN Len(got') + Len(bytes) >= e.at ELSE Len(got') >= e.at
    PROVE  /\ call'.op = "idle"
           /\ call' \in [op : Ops, n : Nat, held : Seq(Nat)]
           /\ CallHolds' /\ ErrorsAreLate' /\ LineIsWhole'
<1>1. /\ call' = [op |-> "idle", n |-> 0, held |-> <<>>]
      /\ answer'.op = op /\ answer'.bytes = bytes /\ answer'.err = e
  BY DEF R!Return, R!Idle
<1>2. call' \in [op : Ops, n : Nat, held : Seq(Nat)] /\ call'.held = <<>> /\ call'.op = "idle"
  BY <1>1 DEF Ops
<1>3. CallHolds'
  BY <1>1, <1>2 DEF CallHolds
<1>4. ErrorsAreLate'
  BY <1>1 DEF ErrorsAreLate, R!Errors
<1>5. LineIsWhole'
  BY <1>1 DEF LineIsWhole, R!LineIsWhole
<1>6. QED BY <1>1, <1>2, <1>3, <1>4, <1>5

\* A call that runs has told nothing.
LEMMA Untold ==
    ASSUME answer' = R!Nothing
    PROVE  ErrorsAreLate' /\ LineIsWhole'
<1>1. answer'.op = "none" /\ answer'.err = None
  BY DEF R!Nothing
<1>2. None \notin R!Errors'
  <2>1. \A e \in R!Errors' : e \in
           [kind : {"fault", "eof", "full", "noprogress", "write", "invalid"}, at : Nat]
    BY DEF R!Errors
  <2>2. QED BY <2>1, NoneIsNoError
<1>3. QED BY <1>1, <1>2 DEF ErrorsAreLate, LineIsWhole, R!LineIsWhole

LEMMA Segment ==
    ASSUME RIInv, NEW n \in Nat, n <= Len(rbuf) - r
    PROVE  /\ SubSeq(rbuf, r + 1, r + n) \in Seq(Nat)
           /\ Len(SubSeq(rbuf, r + 1, r + n)) = n
           /\ \A i \in 1 .. n : SubSeq(rbuf, r + 1, r + n)[i] = Len(got) + i
<1> DEFINE s == SubSeq(rbuf, r + 1, r + n)
<1>1. /\ Len(rbuf) \in Nat /\ Len(got) \in Nat /\ r \in Nat /\ rbuf \in Seq(Nat)
  BY Lengths DEF RIInv, ReaderTypes
<1>2. \A i \in r + 1 .. r + n : rbuf[i] \in Nat
  BY <1>1, ElementOfSeq
<1>3. /\ s \in Seq(Nat) /\ Len(s) = IF r + 1 <= r + n THEN r + n - (r + 1) + 1 ELSE 0
      /\ \A i \in 1 .. r + n - (r + 1) + 1 : s[i] = rbuf[r + 1 + i - 1]
  BY <1>1, <1>2, SubSeqProperties
<1> HIDE DEF s
<1>4. Len(s) = n
  <2>1. r \in Nat /\ Len(s) = IF r + 1 <= r + n THEN r + n - (r + 1) + 1 ELSE 0
    BY <1>1, <1>3
  <2>2. r + n - (r + 1) + 1 = n /\ (r + 1 <= r + n <=> n > 0)
    BY <2>1
  <2>3. QED BY <2>1, <2>2
<1>5. ASSUME NEW i \in 1 .. n PROVE s[i] = Len(got) + i
  <2>1. i \in 1 .. r + n - (r + 1) + 1 /\ r + 1 + i - 1 = r + i /\ r + i \in r + 1 .. Len(rbuf)
    BY <1>1
  <2>2. rbuf[r + i] = Len(got) + (r + i) - r
    BY <2>1 DEF RIInv, InOrder
  <2>3. Len(got) + (r + i) - r = Len(got) + i
    BY <1>1
  <2>4. s[i] = rbuf[r + i]
    BY <1>3, <2>1
  <2>5. QED BY <2>2, <2>3, <2>4
<1>6. QED BY <1>3, <1>4, <1>5 DEF s

LEMMA UnreadHolds ==
    ASSUME RIInv
    PROVE  /\ R!Unread \in Seq(Nat) /\ Len(R!Unread) = Len(rbuf) - r
           /\ \A i \in 1 .. Len(rbuf) - r : R!Unread[i] = Len(got) + i
<1> DEFINE n == Len(rbuf) - r
<1>1. n \in Nat /\ n <= Len(rbuf) - r /\ r + n = Len(rbuf)
  BY Lengths
<1> HIDE DEF n
<1>2. R!Unread = SubSeq(rbuf, r + 1, r + n)
  BY <1>1 DEF R!Unread
<1>3. /\ R!Unread \in Seq(Nat) /\ Len(R!Unread) = n
      /\ \A i \in 1 .. n : R!Unread[i] = Len(got) + i
  BY <1>1, <1>2, Segment
<1>4. QED BY <1>3 DEF n

LEMMA Kinds ==
    ASSUME RIInv, NEW i \in 1 .. Len(rbuf) - r
    PROVE  R!KindAt(i) = input[Len(got) + i] /\ rbuf[r + i] = Len(got) + i
<1>1. r + i \in r + 1 .. Len(rbuf) /\ Len(got) + (r + i) - r = Len(got) + i
  BY Lengths
<1>2. rbuf[r + i] = Len(got) + i
  BY <1>1 DEF RIInv, InOrder
<1>3. QED BY <1>2 DEF R!KindAt

\* The delimiter found is the first one.
LEMMA Delimiter ==
    ASSUME RIInv
    PROVE  \/ /\ R!Delim = 0
              /\ \A i \in 1 .. Len(rbuf) - r : input[Len(got) + i] # "lf"
           \/ /\ R!Delim \in 1 .. Len(rbuf) - r /\ input[Len(got) + R!Delim] = "lf"
              /\ \A i \in 1 .. R!Delim - 1 : input[Len(got) + i] # "lf"
<1> DEFINE n == Len(rbuf) - r
           T == {i \in 1 .. n : R!KindAt(i) = "lf"}
           First1(i) == R!KindAt(i) = "lf" /\ \A j \in 1 .. i - 1 : R!KindAt(j) # "lf"
<1>1. n \in Nat /\ R!Buffered = n
  BY Lengths
<1>2. CASE T = {}
  <2>1. \A i \in 1 .. n : R!KindAt(i) # "lf"
    BY <1>2
  <2>2. R!Delim = 0
    BY <1>1, <2>1 DEF R!Delim
  <2>3. QED BY <2>1, <2>2, Kinds
<1>3. CASE T # {}
  <2>1. T \in SUBSET Nat
    BY <1>1
  <2>2. PICK x \in T : \A y \in T : x <= y
    BY <1>3, <2>1, Least
  <2>3. x \in 1 .. n /\ First1(x)
    <3>1. ASSUME NEW j \in 1 .. x - 1, R!KindAt(j) = "lf" PROVE FALSE
      <4>1. j \in T
        BY <1>1, <2>2, <3>1
      <4>2. QED BY <1>1, <2>2, <4>1
    <3>2. QED BY <2>2, <3>1
  <2>4. R!Delim = CHOOSE i \in 1 .. n : First1(i)
    BY <1>1, <2>3 DEF R!Delim
  <2> HIDE DEF First1
  <2>5. R!Delim \in 1 .. n /\ First1(R!Delim)
    BY <2>3, <2>4
  <2>6. \A i \in 1 .. R!Delim - 1 : i \in 1 .. n
    BY <1>1, <2>5
  <2>7. QED BY <2>5, <2>6, Kinds DEF First1
<1>4. QED BY <1>2, <1>3

\* What ReadSlice finds.
LEMMA Fragments ==
    ASSUME RIInv
    PROVE  /\ R!Fragment \in Seq(Nat) /\ Len(R!Fragment) \in 0 .. Len(rbuf) - r
           /\ \A i \in 1 .. Len(R!Fragment) : R!Fragment[i] = Len(got) + i
           /\ Len(R!Fragment) = IF R!Delim > 0 THEN R!Delim ELSE Len(rbuf) - r
           /\ R!Fragment # <<>> <=> Len(R!Fragment) > 0
           /\ R!Fragment # <<>> => R!Last(R!Fragment) = Len(got) + Len(R!Fragment)
<1>1. Len(rbuf) - r \in Nat
  BY Lengths
<1>2. /\ R!Fragment \in Seq(Nat) /\ Len(R!Fragment) \in 0 .. Len(rbuf) - r
      /\ \A i \in 1 .. Len(R!Fragment) : R!Fragment[i] = Len(got) + i
      /\ Len(R!Fragment) = IF R!Delim > 0 THEN R!Delim ELSE Len(rbuf) - r
  <2>1. CASE R!Delim > 0
    <3>1. R!Delim \in 1 .. Len(rbuf) - r
      BY <2>1, Delimiter
    <3>2. R!Fragment = SubSeq(rbuf, r + 1, r + R!Delim)
      BY <2>1 DEF R!Fragment
    <3>3. R!Delim \in Nat /\ R!Delim <= Len(rbuf) - r
      BY <1>1, <3>1
    <3> DEFINE s == SubSeq(rbuf, r + 1, r + R!Delim)
    <3>4. s \in Seq(Nat) /\ Len(s) = R!Delim /\ \A i \in 1 .. R!Delim : s[i] = Len(got) + i
      BY <3>3, Segment
    <3> HIDE DEF s
    <3>5. R!Fragment = s
      BY <3>2 DEF s
    <3>6. QED BY <2>1, <3>1, <3>4, <3>5
  <2>2. CASE ~(R!Delim > 0)
    BY <1>1, <2>2, UnreadHolds DEF R!Fragment
  <2>3. QED BY <2>1, <2>2
<1>3. R!Fragment # <<>> <=> Len(R!Fragment) > 0
  BY <1>2
<1>4. R!Fragment # <<>> => R!Last(R!Fragment) = Len(got) + Len(R!Fragment)
  BY <1>1, <1>2, <1>3 DEF R!Last
<1>5. QED BY <1>2, <1>3, <1>4

\* A full buffer: no delimiter, and no error that waits.
LEMMA FullBuffer ==
    ASSUME RIInv, R!Runs("slice") \/ R!Runs("line") \/ R!Runs("bytes")
    PROVE  /\ R!FragmentErr = R!Full =>
                R!Delim = 0 /\ rerr = None /\ Len(R!Fragment) > 0
           /\ R!FragmentErr = None <=> R!Delim > 0
           /\ R!FragmentErr \in R!Errors => R!Delim = 0 /\ R!FragmentErr.at <= taken
<1>1. R!Delim = 0 \/ R!Delim > 0
  BY Delimiter, Lengths
<1>2. None # R!Full /\ None \notin R!Errors /\ R!Full \notin R!Errors
  BY ErrorsApart
<1>3. rerr # None => rerr # R!Full
  BY ErrorsApart DEF RIInv, ErrorWaits
<1>4. R!Delim = 0 /\ rerr = None => Len(rbuf) - r > 0
  <2>1. SUFFICES ASSUME R!Delim = 0, rerr = None PROVE Len(rbuf) - r > 0
    OBVIOUS
  <2>2. ~(R!Buffered < ReaderSize)
    BY <2>1 DEF R!Runs, R!Wants
  <2>3. QED BY <2>2, Lengths
<1>5. R!FragmentErr = R!Full => R!Delim = 0 /\ rerr = None /\ Len(R!Fragment) > 0
  <2>1. R!FragmentErr = R!Full => R!Delim = 0 /\ rerr = None
    BY <1>1, <1>2, <1>3 DEF R!FragmentErr
  <2>2. R!Delim = 0 => Len(R!Fragment) = Len(rbuf) - r
    BY Fragments
  <2>3. QED BY <1>4, <2>1, <2>2
<1>6. R!FragmentErr = None <=> R!Delim > 0
  BY <1>1, <1>2 DEF R!FragmentErr
<1>7. R!FragmentErr \in R!Errors => R!Delim = 0 /\ R!FragmentErr.at <= taken
  BY <1>1, <1>2 DEF R!FragmentErr, RIInv, ErrorWaits
<1>8. QED BY <1>5, <1>6, <1>7

\* The stream that stays as it was.
LEMMA SameStream ==
    ASSUME RIInv, UNCHANGED <<input, taken, rbuf, r, got>>
    PROVE  /\ InOrder'
           /\ input' \in Inputs /\ taken' \in 0 .. Len(input')
           /\ rbuf' \in Seq(Nat) /\ Len(rbuf') <= ReaderSize /\ r' \in 0 .. Len(rbuf')
           /\ got' \in Seq(Nat)
BY DEF RIInv, InOrder, ReaderTypes

LEMMA NoneHeld == \A i : i \in 1 .. Len(<<>>) => FALSE
OBVIOUS

LEMMA BeginKeeps ==
    ASSUME RIInv, NEW n \in Nat, NEW op, op \in Ops, op # "idle", R!Begin(op, n),
           op \in Forgetful => op \in {"discard", "writeto, write"}
    PROVE  RIInv'
<1>1. /\ call' = [op |-> op, n |-> n, held |-> <<>>] /\ answer' = R!Nothing
      /\ UNCHANGED <<input, taken, rbuf, r, rerr, got>>
  BY DEF R!Begin, R!source
<1>2. call' \in [op : Ops, n : Nat, held : Seq(Nat)] /\ call'.op = op /\ call'.held = <<>>
  BY <1>1, EmptySeq
<1>3. ReaderTypes' /\ InOrder'
  BY <1>1, <1>2, SameStream DEF ReaderTypes
<1>4. LastIsLast'
  <2>1. /\ lastByte' = None \/ lastByte' = lastByte
        /\ lastRune' = None \/ lastRune' = lastRune
        /\ op \in {"discard", "writeto, write"} => lastByte' = None /\ lastRune' = None
        /\ op = "byte" => lastRune' = None
    BY DEF R!Begin
  <2>2. QED BY <1>1, <1>2, <2>1 DEF RIInv, LastIsLast
<1>5. ErrorWaits'
  <2>1. input' = input /\ taken' = taken /\ rerr' = rerr
    BY <1>1
  <2>2. QED BY <2>1, SameError
<1>6. CallHolds'
  <2>1. call'.held = <<>> /\ answer' = R!Nothing'
    BY <1>1, <1>2 DEF R!Nothing
  <2>2. QED BY <2>1, NoneHeld DEF CallHolds
<1>7. QED BY <1>1, <1>3, <1>4, <1>5, <1>6, Untold DEF RIInv

\* What is buffered moves to the beginning.
LEMMA FillKeeps ==
    ASSUME RIInv, R!Fill
    PROVE  RIInv'
<1>1. /\ rbuf' = R!Unread /\ r' = 0
      /\ UNCHANGED <<input, taken, rerr, lastByte, lastRune, call, got, answer>>
  BY DEF R!Fill, R!Slide, R!source, R!last
<1>2. /\ rbuf' \in Seq(Nat) /\ Len(rbuf') = Len(rbuf) - r
      /\ \A i \in 1 .. Len(rbuf) - r : rbuf'[i] = Len(got) + i
  BY <1>1, UnreadHolds
<1>3. ReaderTypes'
  BY <1>1, <1>2, Lengths DEF RIInv, ReaderTypes
<1>4. InOrder'
  <2>1. \A i \in 0 + 1 .. Len(rbuf') : rbuf'[i] = Len(got) + i - 0
    BY <1>2, Lengths
  <2>2. Len(got) + Len(rbuf') - 0 = taken
    BY <1>2, Lengths
  <2>3. QED BY <1>1, <2>1, <2>2 DEF RIInv, InOrder
<1>5. LastIsLast'
  BY <1>1 DEF RIInv, LastIsLast
<1>6. ErrorWaits' /\ CallHolds'
  BY <1>1 DEF RIInv, ErrorWaits, CallHolds, R!Errors
<1>7. ErrorsAreLate' /\ LineIsWhole'
  BY <1>1 DEF RIInv, ErrorsAreLate, LineIsWhole, R!LineIsWhole, R!Errors
<1>8. QED BY <1>3, <1>4, <1>5, <1>6, <1>7 DEF RIInv

\* What is given is buffered behind the rest.
LEMMA FillReadKeeps ==
    ASSUME RIInv, R!FillRead
    PROVE  RIInv'
<1>1. PICK n \in 0 .. ReaderSize, e \in {None} \cup R!Errors :
        /\ R!Gives(n, ReaderSize - Len(rbuf), e)
        /\ rbuf' = rbuf \o R!Given(n)
        /\ \/ call' = R!Filled /\ rerr' = e /\ e # None
           \/ call' = R!Filled /\ rerr' = rerr
           \/ call' = R!Filled /\ rerr' = R!NoProgress
           \/ call' = call /\ rerr' = rerr
  BY DEF R!FillRead
<1>2. UNCHANGED <<r, lastByte, lastRune, got, answer>>
  BY DEF R!FillRead, R!last
<1>3. ReaderSize - Len(rbuf) \in Nat
  BY Lengths DEF RIInv, ReaderTypes
<1>4. /\ n \in Nat /\ n <= ReaderSize - Len(rbuf) /\ input' = input
      /\ taken' = taken + n /\ taken' \in 0 .. Len(input)
      /\ e \in R!Errors => e.at = taken'
      /\ R!Given(n) \in Seq(Nat) /\ Len(R!Given(n)) = n
      /\ \A i \in 1 .. n : R!Given(n)[i] = taken + i
  BY <1>1, <1>3, Giving
<1>5. rbuf \in Seq(Nat) /\ rbuf' = rbuf \o R!Given(n)
  BY <1>1 DEF RIInv, ReaderTypes
<1>6. /\ rbuf' \in Seq(Nat) /\ Len(rbuf') = Len(rbuf) + n
      /\ \A i \in 1 .. Len(rbuf) : rbuf'[i] = rbuf[i]
      /\ \A i \in 1 .. n : rbuf'[Len(rbuf) + i] = taken + i
  <2> DEFINE g == R!Given(n)
  <2>1. g \in Seq(Nat) /\ Len(g) = n /\ Len(rbuf) \in Nat /\ n \in Nat
    BY <1>4, Lengths
  <2> HIDE DEF g
  <2>2. /\ rbuf \o g \in Seq(Nat) /\ Len(rbuf \o g) = Len(rbuf) + n
        /\ \A i \in 1 .. Len(rbuf) + n :
             (rbuf \o g)[i] = IF i <= Len(rbuf) THEN rbuf[i] ELSE g[i - Len(rbuf)]
    BY <1>5, <2>1, ConcatProperties
  <2>3. \A i \in 1 .. Len(rbuf) : (rbuf \o g)[i] = rbuf[i]
    BY <2>1, <2>2
  <2>4. \A i \in 1 .. n : (rbuf \o g)[Len(rbuf) + i] = g[i]
    BY <2>1, <2>2
  <2>5. QED BY <1>4, <1>5, <2>2, <2>3, <2>4 DEF g
<1>7. call.op = "idle" => call'.op = "idle"
  BY <1>1 DEF R!Filled, RIInv, ReaderTypes
<1>8. /\ call' \in [op : Ops, n : Nat, held : Seq(Nat)]
      /\ call'.held = call.held
      /\ call'.op \in Forgetful => call.op \in Forgetful
      /\ call'.op = "byte" => call.op = "byte"
  BY <1>1 DEF R!Filled, RIInv, ReaderTypes, Ops, Forgetful
<1>9. ReaderTypes'
  <2>1. Len(rbuf') <= ReaderSize /\ r' \in 0 .. Len(rbuf')
    <3>1. Len(rbuf) \in Nat /\ r \in Nat /\ r <= Len(rbuf) /\ ReaderSize \in Nat
      BY Lengths
    <3>2. QED BY <1>2, <1>4, <1>6, <3>1
  <2>2. QED BY <1>2, <1>4, <1>6, <1>8, <2>1 DEF RIInv, ReaderTypes
<1>10. InOrder'
  <2>1. ASSUME NEW i \in r + 1 .. Len(rbuf) + n PROVE rbuf'[i] = Len(got) + i - r
    <3>1. CASE i <= Len(rbuf)
      <4>1. i \in r + 1 .. Len(rbuf) /\ i \in 1 .. Len(rbuf)
        BY <3>1, Lengths
      <4>2. QED BY <1>6, <4>1 DEF RIInv, InOrder
    <3>2. CASE ~(i <= Len(rbuf))
      <4>1. i - Len(rbuf) \in 1 .. n /\ Len(rbuf) + (i - Len(rbuf)) = i
            /\ taken + (i - Len(rbuf)) = Len(got) + i - r
        <5>1. /\ Len(rbuf) \in Nat /\ Len(got) \in Nat /\ r \in Nat
              /\ taken = Len(got) + (Len(rbuf) - r)
          BY Lengths
        <5>2. n \in Nat
          BY <1>4
        <5>3. QED BY <3>2, <5>1, <5>2
      <4>2. QED BY <1>6, <4>1
    <3>3. QED BY <3>1, <3>2
  <2>2. Len(got) + (Len(rbuf) + n) - r = taken + n
    BY <1>4, Lengths
  <2>3. QED BY <1>2, <1>4, <1>6, <2>1, <2>2 DEF RIInv, InOrder
<1>11. LastIsLast'
  <2>1. ASSUME lastRune # None, lastRune <= r, NEW i \in r - lastRune + 1 .. r
        PROVE  rbuf'[i] = Len(got) + i - r
    <3>1. lastRune \in 1 .. 2 /\ rbuf[i] = Len(got) + i - r
      BY <2>1 DEF RIInv, LastIsLast
    <3>2. i \in 1 .. Len(rbuf)
      BY <2>1, <3>1, Lengths
    <3>3. QED BY <1>6, <3>1, <3>2
  <2>2. QED BY <1>2, <1>8, <2>1 DEF RIInv, LastIsLast
<1>12. ErrorWaits'
  <2>1. R!Errors' = R!Errors
    BY <1>4 DEF R!Errors
  <2>2. rerr \in R!Errors => rerr.at \in Nat /\ rerr.at <= taken
    BY DEF RIInv, ErrorWaits, R!Errors
  <2>3. rerr \in R!Errors => rerr.at <= taken'
    BY <1>4, <2>2, Lengths
  <2>4. e \in R!Errors => e.at <= taken'
    BY <1>4
  <2>5. rerr' \in {rerr, R!NoProgress, e}
    BY <1>1
  <2>6. QED BY <2>1, <2>3, <2>4, <2>5, ErrorsApart DEF RIInv, ErrorWaits
<1>13. CallHolds'
  <2>1. ASSUME call.op # "idle", NEW i \in 1 .. Len(call.held)
        PROVE  call.held[i] \in 1 .. taken' /\ input[call.held[i]] # "lf"
    <3>1. call.held[i] \in 1 .. taken /\ input[call.held[i]] # "lf"
      BY <2>1 DEF RIInv, CallHolds
    <3>2. taken \in Nat /\ taken' = taken + n
      BY <1>4, Lengths
    <3>3. QED BY <1>4, <3>1, <3>2
  <2>2. QED BY <1>2, <1>4, <1>7, <1>8, <2>1 DEF RIInv, CallHolds, R!Nothing
<1>14. ErrorsAreLate' /\ LineIsWhole'
  BY <1>2, <1>4 DEF RIInv, ErrorsAreLate, LineIsWhole, R!LineIsWhole, R!Errors
<1>15. QED BY <1>9, <1>10, <1>11, <1>12, <1>13, <1>14 DEF RIInv

-----------------------------------------------------------------------------
(* The calls of Reader *)

\* n bytes are handed out, or none, and the rest of the state follows.
LEMMA Handing ==
    ASSUME RIInv, NEW n \in Nat, n <= Len(rbuf) - r, R!Take(n),
           UNCHANGED <<input, taken, rbuf>>,
           call' \in [op : Ops, n : Nat, held : Seq(Nat)],
           rerr' \in {None, rerr},
           LastIsLast', CallHolds', ErrorsAreLate', LineIsWhole'
    PROVE  RIInv'
<1>1. ReaderTypes' /\ InOrder'
  BY Takes DEF RIInv, ReaderTypes
<1>2. ErrorWaits'
  BY SameError
<1>3. QED BY <1>1, <1>2 DEF RIInv

LEMMA Keeping ==
    ASSUME RIInv, UNCHANGED <<input, taken, rbuf, r, got>>,
           call' \in [op : Ops, n : Nat, held : Seq(Nat)],
           rerr' \in {None, rerr},
           LastIsLast', CallHolds', ErrorsAreLate', LineIsWhole'
    PROVE  RIInv'
<1>1. ReaderTypes' /\ InOrder'
  BY SameStream DEF RIInv, ReaderTypes
<1>2. ErrorWaits'
  BY SameError
<1>3. QED BY <1>1, <1>2 DEF RIInv

\* the last byte and rune of a call that does not touch them
LEMMA SameLast ==
    ASSUME RIInv, UNCHANGED <<rbuf, r, got, lastByte, lastRune>>,
           call'.op = call.op \/ call'.op = "idle"
    PROVE  LastIsLast'
BY DEF RIInv, LastIsLast, Forgetful

LEMMA PeekKeeps ==
    ASSUME RIInv, R!Peek
    PROVE  RIInv'
<1>1. /\ UNCHANGED <<input, taken, rbuf, r, lastByte, lastRune, got>>
  BY DEF R!Peek, R!source, R!last
<1>2. PICK bytes, e :
        /\ R!Return("peek", bytes, e) /\ rerr' \in {None, rerr}
        /\ e \in R!Errors => e = rerr /\ bytes = R!Unread
  BY ErrorsApart DEF R!Peek
<1>3. e \in R!Errors => Len(got') + Len(bytes) >= e.at
  <2>1. SUFFICES ASSUME e \in R!Errors PROVE Len(got') + Len(bytes) >= e.at
    OBVIOUS
  <2>2. rerr.at <= taken /\ rerr.at \in Nat /\ Len(bytes) = Len(rbuf) - r
    BY <1>2, <2>1, UnreadHolds DEF RIInv, ErrorWaits, R!Errors
  <2>3. QED BY <1>1, <1>2, <2>1, <2>2, Lengths
<1>4. /\ call'.op = "idle"
      /\ call' \in [op : Ops, n : Nat, held : Seq(Nat)]
      /\ CallHolds' /\ ErrorsAreLate' /\ LineIsWhole'
  BY <1>1, <1>2, <1>3, Returning
<1>5. LastIsLast'
  BY <1>1, <1>4, SameLast
<1>6. QED BY <1>1, <1>2, <1>4, <1>5, Keeping

\* The error that waits is told when the buffer is empty.
LEMMA Telling ==
    ASSUME RIInv, NEW op, NEW e, R!Return(op, <<>>, e), op \notin {"slice", "bytes", "line", "peek"},
           e \in R!Errors /\ op # "reseterr" => e = rerr /\ R!Buffered = 0,
           rerr' = None,
           UNCHANGED <<input, taken, rbuf, r, got>>,
           lastByte' = lastByte, lastRune' \in {None, lastRune}
    PROVE  RIInv'
<1>1. e \in R!Errors /\ op # "reseterr" => Len(got') >= e.at
  <2>1. SUFFICES ASSUME e \in R!Errors, op # "reseterr" PROVE Len(got') >= e.at
    OBVIOUS
  <2>2. rerr.at <= taken /\ rerr.at \in Nat /\ e = rerr
    BY <2>1 DEF RIInv, ErrorWaits, R!Errors
  <2>3. QED BY <2>1, <2>2, Lengths
<1>2. op = "peek" => FALSE
  OBVIOUS
<1>3. /\ call'.op = "idle"
      /\ call' \in [op : Ops, n : Nat, held : Seq(Nat)]
      /\ CallHolds' /\ ErrorsAreLate' /\ LineIsWhole'
  BY <1>1, <1>2, Returning
<1>4. LastIsLast'
  BY <1>3 DEF RIInv, LastIsLast, Forgetful
<1>5. QED BY <1>3, <1>4, Keeping

LEMMA DiscardKeeps ==
    ASSUME RIInv, R!Discard
    PROVE  RIInv'
<1> DEFINE skip == R!Smaller(R!Buffered, call.n)
<1>1. /\ UNCHANGED <<input, taken, rbuf, lastByte, lastRune>> /\ R!Take(skip)
      /\ call.op \in {"discard", "discard, filled"}
  BY DEF R!Discard, R!source, R!last
<1>2. /\ skip \in Nat /\ skip <= Len(rbuf) - r /\ skip <= call.n
      /\ skip # call.n => skip = Len(rbuf) - r
  BY Lengths DEF R!Smaller
<1>3. \/ skip = call.n /\ R!Return("discard", <<>>, None) /\ rerr' = rerr
      \/ skip # call.n /\ R!Return("discard", <<>>, rerr) /\ rerr' = None
      \/ /\ call' = [call EXCEPT !.op = "discard", !.n = call.n - skip]
         /\ UNCHANGED <<rerr, answer>>
  BY DEF R!Discard
<1> HIDE DEF skip
<1>4. lastByte' = None /\ lastRune' = None
  BY <1>1 DEF RIInv, LastIsLast, Forgetful
<1>5. LastIsLast'
  BY <1>4 DEF LastIsLast
<1>6. Len(got') = Len(got) + skip
  BY <1>1, <1>2, Takes
<1>7. CASE skip = call.n /\ R!Return("discard", <<>>, None) /\ rerr' = rerr
  <2>1. /\ call' \in [op : Ops, n : Nat, held : Seq(Nat)]
        /\ CallHolds' /\ ErrorsAreLate' /\ LineIsWhole'
    BY <1>1, <1>7, Returning, ErrorsApart
  <2>2. QED BY <1>1, <1>2, <1>5, <1>7, <2>1, Handing
<1>8. CASE skip # call.n /\ R!Return("discard", <<>>, rerr) /\ rerr' = None
  <2>1. rerr \in R!Errors => Len(got') >= rerr.at
    <3>1. rerr \in R!Errors => rerr.at \in Nat /\ rerr.at <= taken
      BY DEF RIInv, ErrorWaits, R!Errors
    <3>2. QED BY <1>2, <1>6, <1>8, <3>1, Lengths
  <2>2. /\ call' \in [op : Ops, n : Nat, held : Seq(Nat)]
        /\ CallHolds' /\ ErrorsAreLate' /\ LineIsWhole'
    BY <1>1, <1>8, <2>1, Returning
  <2>3. QED BY <1>1, <1>2, <1>5, <1>8, <2>2, Handing
<1>9. CASE /\ call' = [call EXCEPT !.op = "discard", !.n = call.n - skip]
           /\ UNCHANGED <<rerr, answer>>
  <2>1. /\ call' \in [op : Ops, n : Nat, held : Seq(Nat)] /\ call'.held = call.held
        /\ call'.op = "discard"
    <3>1. call.n - skip \in Nat
      BY <1>2, Lengths
    <3>2. QED BY <1>9, <3>1 DEF RIInv, ReaderTypes, Ops
  <2>2. answer' = R!Nothing
    BY <1>1, <1>9 DEF RIInv, CallHolds
  <2>3. CallHolds'
    BY <1>1, <2>1, <2>2 DEF RIInv, CallHolds
  <2>4. ErrorsAreLate' /\ LineIsWhole'
    BY <2>2, Untold
  <2>5. QED BY <1>1, <1>2, <1>5, <1>9, <2>1, <2>3, <2>4, Handing
<1>10. QED BY <1>3, <1>7, <1>8, <1>9

LEMMA ReadByteKeeps ==
    ASSUME RIInv, R!ReadByte
    PROVE  RIInv'
<1>1. CASE R!NoByte
  BY <1>1, Telling DEF R!ReadByte, R!TellError, R!NoByte, R!source, R!last
<1>2. CASE ~R!NoByte
  <2>1. /\ R!Take(1) /\ lastByte' = rbuf[r + 1] /\ R!Return("byte", <<rbuf[r + 1]>>, None)
        /\ UNCHANGED <<input, taken, rbuf, rerr, lastRune>> /\ call.op = "byte"
    BY <1>2 DEF R!ReadByte, R!source, R!Runs
  <2>2. 1 <= Len(rbuf) - r /\ rbuf[r + 1] = Len(got) + 1
    <3>1. 1 \in 1 .. Len(rbuf) - r
      BY <1>2, Lengths DEF R!NoByte
    <3>2. QED BY <3>1, Kinds
  <2>3. Len(got') = Len(got) + 1
    BY <2>1, <2>2, Takes
  <2>4. /\ call'.op = "idle" /\ call' \in [op : Ops, n : Nat, held : Seq(Nat)]
        /\ CallHolds' /\ ErrorsAreLate' /\ LineIsWhole'
    BY <2>1, Returning, ErrorsApart
  <2>5. LastIsLast'
    <3>1. lastRune' = None
      BY <2>1 DEF RIInv, LastIsLast
    <3>2. QED BY <2>1, <2>2, <2>3, <2>4, <3>1, Lengths DEF LastIsLast, Forgetful
  <2>6. QED BY <2>1, <2>2, <2>4, <2>5, Handing
<1>3. QED BY <1>1, <1>2

LEMMA ReadRuneKeeps ==
    ASSUME RIInv, R!ReadRune
    PROVE  RIInv'
<1>1. CASE R!Buffered = 0
  BY <1>1, Telling DEF R!ReadRune, R!source
<1>2. CASE R!Buffered # 0
  <2> DEFINE n == R!RuneSize
  <2>1. /\ R!Take(n) /\ lastByte' = rbuf[r + n] /\ lastRune' = n
        /\ R!Return("rune", SubSeq(rbuf, r + 1, r + n), None)
        /\ UNCHANGED <<input, taken, rbuf, rerr>>
    BY <1>2 DEF R!ReadRune, R!source
  <2>2. n \in 1 .. 2 /\ n \in 1 .. Len(rbuf) - r
    BY <1>2, Lengths DEF R!RuneSize
  <2> HIDE DEF n
  <2>3. n \in Nat /\ n <= Len(rbuf) - r /\ rbuf[r + n] = Len(got) + n
    BY <2>2, Kinds, Lengths
  <2>4. Len(got') = Len(got) + n /\ r' = r + n
    BY <2>1, <2>3, Takes
  <2>5. /\ call'.op = "idle" /\ call' \in [op : Ops, n : Nat, held : Seq(Nat)]
        /\ CallHolds' /\ ErrorsAreLate' /\ LineIsWhole'
    BY <2>1, Returning, ErrorsApart
  <2> DEFINE a == Len(got) + n
             b == r + n
  <2>6. a \in Nat /\ b \in Nat /\ n \in Nat /\ n <= b
    BY <2>3, Lengths
  <2>7. ASSUME NEW i \in Nat, b - n + 1 <= i, i <= b PROVE rbuf[i] = a + i - b
    <3>1. r \in Nat /\ Len(got) \in Nat /\ Len(rbuf) \in Nat /\ n \in Nat /\ n <= Len(rbuf) - r
      BY <2>3, Lengths
    <3>2. i - r \in 1 .. Len(rbuf) - r /\ r + (i - r) = i
          /\ Len(got) + (i - r) = a + i - b
      BY <2>7, <3>1
    <3>3. rbuf[r + (i - r)] = Len(got) + (i - r)
      BY <3>2, Kinds
    <3>4. QED BY <3>2, <3>3
  <2>8. n \in 1 .. Len(got') /\ lastByte' = Len(got') /\ Len(got') \in Nat \ {0}
    BY <2>1, <2>2, <2>3, <2>4, Lengths
  <2> HIDE DEF a, b
  <2>9. \A i \in r' - n + 1 .. r' : rbuf'[i] = Len(got') + i - r'
    <3>1. ASSUME NEW i, i \in b - n + 1 .. b PROVE rbuf[i] = a + i - b
      <4>1. i \in Nat /\ b - n + 1 <= i /\ i <= b
        BY <2>6, <3>1
      <4>2. QED BY <2>7, <4>1
    <3>2. rbuf' = rbuf /\ Len(got') = a /\ r' = b
      BY <2>1, <2>4 DEF a, b
    <3>3. QED BY <3>1, <3>2
  <2>10. LastIsLast'
    <3>1. lastRune' = n /\ n \in 1 .. 2
      BY <2>1, <2>2
    <3>2. QED BY <2>5, <2>8, <2>9, <3>1 DEF LastIsLast, Forgetful
  <2>11. QED BY <2>1, <2>3, <2>5, <2>10, Handing
<1>3. QED BY <1>1, <1>2

\* Bytes b that follow those callers have; k of those behind from go out.
LEMMA CopyKeeps ==
    ASSUME RIInv, NEW b \in Seq(Nat), NEW from \in Nat, NEW n \in Nat \ {0}, NEW e,
           R!CopyOut(b, from, n, e),
           from < Len(b), Len(b) <= ReaderSize,
           \A i \in from + 1 .. Len(b) : b[i] = Len(got) + i - from,
           input' = input, taken' = Len(got) + Len(b) - from, taken' \in 0 .. Len(input),
           ErrorWaits'
    PROVE  RIInv'
<1> DEFINE k == R!Smaller(n, Len(b) - from)
           s == SubSeq(b, from + 1, from + k)
<1>1. /\ rbuf' = b /\ r' = from + k /\ rerr' = e /\ got' = got \o s
      /\ lastByte' = b[from + k] /\ lastRune' = None
      /\ R!Return("read", s, None)
  BY DEF R!CopyOut
<1>2. Len(b) \in Nat /\ Len(got) \in Nat /\ got \in Seq(Nat)
  BY Lengths, LenProperties DEF RIInv, ReaderTypes
<1>3. k \in Nat /\ 1 <= k /\ k <= Len(b) - from
  BY <1>2 DEF R!Smaller
<1> HIDE DEF k
<1>4. s \in Seq(Nat) /\ Len(s) = k /\ \A i \in 1 .. k : s[i] = Len(got) + i
  <2>1. \A i \in from + 1 .. from + k : b[i] \in Nat
    BY <1>2, <1>3, ElementOfSeq
  <2>2. /\ s \in Seq(Nat) /\ Len(s) = IF from + 1 <= from + k THEN from + k - (from + 1) + 1 ELSE 0
        /\ \A i \in 1 .. from + k - (from + 1) + 1 : s[i] = b[from + 1 + i - 1]
    BY <1>2, <1>3, <2>1, SubSeqProperties
  <2> HIDE DEF s
  <2>3. Len(s) = k
    BY <1>2, <1>3, <2>2
  <2>4. ASSUME NEW i \in 1 .. k PROVE s[i] = Len(got) + i
    <3>1. /\ i \in 1 .. from + k - (from + 1) + 1 /\ from + 1 + i - 1 = from + i
          /\ from + i \in from + 1 .. Len(b) /\ Len(got) + (from + i) - from = Len(got) + i
      BY <1>2, <1>3
    <3>2. s[i] = b[from + i]
      BY <2>2, <3>1
    <3>3. b[from + i] = Len(got) + (from + i) - from
      BY <3>1
    <3>4. QED BY <3>1, <3>2, <3>3
  <2>5. QED BY <2>2, <2>3, <2>4
<1> HIDE DEF s
<1>5. /\ got' \in Seq(Nat) /\ Len(got') = Len(got) + k
      /\ \A i \in 1 .. Len(got) + k : got'[i] = IF i <= Len(got) THEN got[i] ELSE s[i - Len(got)]
  BY <1>1, <1>2, <1>4, ConcatProperties
<1>6. ASSUME NEW i \in 1 .. Len(got) + k PROVE got'[i] = i
  <2>1. CASE i <= Len(got)
    <3>1. i \in 1 .. Len(got)
      BY <1>2, <2>1
    <3>2. got[i] = i
      BY <3>1 DEF RIInv, InOrder
    <3>3. QED BY <1>5, <2>1, <3>2
  <2>2. CASE ~(i <= Len(got))
    <3>1. i - Len(got) \in 1 .. k /\ Len(got) + (i - Len(got)) = i
      BY <1>2, <1>3, <2>2
    <3>2. s[i - Len(got)] = i
      BY <1>4, <3>1
    <3>3. QED BY <1>5, <2>2, <3>2
  <2>3. QED BY <2>1, <2>2
<1>7. /\ call'.op = "idle" /\ call' \in [op : Ops, n : Nat, held : Seq(Nat)]
      /\ CallHolds' /\ ErrorsAreLate' /\ LineIsWhole'
  <2>1. R!Return("read", s, None) /\ None \notin R!Errors
    BY <1>1, ErrorsApart
  <2>2. QED BY <2>1, Returning
<1>8. ReaderTypes'
  <2>1. r' \in 0 .. Len(rbuf') /\ rbuf' \in Seq(Nat) /\ Len(rbuf') <= ReaderSize
    BY <1>1, <1>2, <1>3
  <2>2. QED BY <1>5, <1>7, <2>1 DEF RIInv, ReaderTypes
<1>9. InOrder'
  <2>1. ASSUME NEW i \in from + k + 1 .. Len(b) PROVE b[i] = Len(got) + k + i - (from + k)
    <3>1. i \in from + 1 .. Len(b)
      BY <1>2, <1>3
    <3>2. Len(got) + i - from = Len(got) + k + i - (from + k)
      BY <1>2, <1>3
    <3>3. b[i] = Len(got) + i - from
      BY <3>1
    <3>4. QED BY <3>2, <3>3
  <2>2. Len(got) + k + Len(b) - (from + k) = Len(got) + Len(b) - from
    BY <1>2, <1>3
  <2>3. QED BY <1>1, <1>5, <1>6, <2>1, <2>2 DEF InOrder
<1>10. LastIsLast'
  <2>1. from + k \in from + 1 .. Len(b) /\ Len(got) + (from + k) - from = Len(got) + k
    BY <1>2, <1>3
  <2>2. b[from + k] = Len(got) + k
    BY <2>1
  <2>3. lastByte' = Len(got') /\ lastRune' = None
    BY <1>1, <1>5, <2>2
  <2>4. Len(got') \in Nat \ {0}
    BY <1>2, <1>3, <1>5
  <2>5. QED BY <1>7, <2>3, <2>4 DEF LastIsLast, Forgetful
<1>11. QED BY <1>7, <1>8, <1>9, <1>10 DEF RIInv

\* n bytes given go straight to the caller, the buffer being empty or after all of it.
LEMMA Through ==
    ASSUME RIInv, NEW b \in Seq(Nat), NEW k \in Nat, Len(b) = k,
           \A i \in 1 .. k : b[i] = Len(got) + i,
           got' = got \o b, rbuf' = rbuf, r' = Len(rbuf),
           input' = input, taken' = Len(got) + k, taken' \in 0 .. Len(input)
    PROVE  /\ got' \in Seq(Nat) /\ Len(got') = Len(got) + k
           /\ InOrder'
<1>1. Len(got) \in Nat /\ got \in Seq(Nat) /\ Len(rbuf) \in Nat
  BY Lengths DEF RIInv, ReaderTypes
<1>2. /\ got' \in Seq(Nat) /\ Len(got') = Len(got) + k
      /\ \A i \in 1 .. Len(got) + k : got'[i] = IF i <= Len(got) THEN got[i] ELSE b[i - Len(got)]
  BY <1>1, ConcatProperties
<1>3. ASSUME NEW i \in 1 .. Len(got) + k PROVE got'[i] = i
  <2>1. CASE i <= Len(got)
    <3>1. i \in 1 .. Len(got)
      BY <1>1, <2>1
    <3>2. got[i] = i
      BY <3>1 DEF RIInv, InOrder
    <3>3. QED BY <1>2, <2>1, <3>2
  <2>2. CASE ~(i <= Len(got))
    <3>1. i - Len(got) \in 1 .. k /\ Len(got) + (i - Len(got)) = i
      BY <1>1, <2>2
    <3>2. QED BY <1>2, <2>2, <3>1
  <2>3. QED BY <2>1, <2>2
<1>4. InOrder'
  <2>1. Len(rbuf) + 1 .. Len(rbuf) = {}
    BY <1>1
  <2>2. Len(got) + k + Len(rbuf) - Len(rbuf) = Len(got) + k
    BY <1>1
  <2>3. QED BY <1>2, <1>3, <2>1, <2>2 DEF InOrder
<1>5. QED BY <1>2, <1>4

LEMMA ReadKeeps ==
    ASSUME RIInv, NEW n \in Nat, R!Read(n)
    PROVE  RIInv'
<1>1. CASE n > 0 /\ R!Buffered > 0 /\ R!CopyOut(rbuf, r, n, rerr) /\ UNCHANGED <<input, taken>>
  <2>1. rerr' = rerr
    BY <1>1 DEF R!CopyOut
  <2>2. ErrorWaits'
    BY <1>1, <2>1, SameError
  <2>3. /\ rbuf \in Seq(Nat) /\ r \in Nat /\ n \in Nat \ {0} /\ r < Len(rbuf)
        /\ Len(rbuf) <= ReaderSize
    BY <1>1, Lengths DEF RIInv, ReaderTypes
  <2>4. \A i \in r + 1 .. Len(rbuf) : rbuf[i] = Len(got) + i - r
    BY DEF RIInv, InOrder
  <2>5. taken' = Len(got) + Len(rbuf) - r /\ taken' \in 0 .. Len(input)
    BY <1>1, Lengths DEF RIInv, InOrder
  <2>6. QED BY <1>1, <2>2, <2>3, <2>4, <2>5, CopyKeeps
<1>2. CASE /\ R!Buffered = 0 /\ R!Return("read", <<>>, rerr) /\ rerr' = None
           /\ UNCHANGED <<input, taken, rbuf, r, lastByte, lastRune, got>>
  BY <1>2, Telling
<1>3. ASSUME R!Buffered = 0, NEW k, NEW e \in {None} \cup R!Errors,
             R!Gives(k, n, e), got' = got \o R!Given(k),
             IF k > 0 THEN lastByte' = taken + k /\ lastRune' = None
                      ELSE UNCHANGED <<lastByte, lastRune>>,
             R!Return("read", R!Given(k), e), UNCHANGED <<rbuf, r, rerr>>
      PROVE  RIInv'
  <2>1. /\ k \in Nat /\ input' = input /\ taken' = taken + k /\ taken' \in 0 .. Len(input)
        /\ e \in R!Errors => e.at = taken'
        /\ R!Given(k) \in Seq(Nat) /\ Len(R!Given(k)) = k
        /\ \A i \in 1 .. k : R!Given(k)[i] = taken + i
    BY <1>3, Giving
  <2>2. taken = Len(got) /\ r = Len(rbuf) /\ Len(got) \in Nat
    BY <1>3, Lengths
  <2>3. got' \in Seq(Nat) /\ Len(got') = Len(got) + k /\ InOrder'
    BY <1>3, <2>1, <2>2, Through
  <2>4. e \in R!Errors => Len(got') >= e.at
    BY <2>1, <2>2, <2>3
  <2>5. /\ call'.op = "idle" /\ call' \in [op : Ops, n : Nat, held : Seq(Nat)]
        /\ CallHolds' /\ ErrorsAreLate' /\ LineIsWhole'
    BY <1>3, <2>1, <2>4, Returning
  <2>6. ReaderTypes'
    BY <1>3, <2>1, <2>3, <2>5 DEF RIInv, ReaderTypes
  <2>7. LastIsLast'
    <3>1. CASE k > 0
      BY <1>3, <2>1, <2>2, <2>3, <2>5, <3>1 DEF LastIsLast, Forgetful
    <3>2. CASE ~(k > 0)
      <4>1. Len(got') = Len(got) /\ UNCHANGED <<rbuf, r, lastByte, lastRune>>
        BY <1>3, <2>1, <2>2, <2>3, <3>2
      <4>2. QED BY <2>5, <4>1 DEF RIInv, LastIsLast, Forgetful
    <3>3. QED BY <3>1, <3>2
  <2>8. ErrorWaits'
    <3>1. R!Errors' = R!Errors /\ rerr' = rerr
      BY <1>3, <2>1 DEF R!Errors
    <3>2. rerr \in R!Errors => rerr.at <= taken + k
      <4>1. rerr \in R!Errors => rerr.at \in Nat /\ rerr.at <= taken
        BY DEF RIInv, ErrorWaits, R!Errors
      <4>2. QED BY <2>1, <2>2, <4>1
    <3>3. QED BY <2>1, <3>1, <3>2 DEF RIInv, ErrorWaits
  <2>9. QED BY <2>3, <2>5, <2>6, <2>7, <2>8 DEF RIInv
<1>4. ASSUME n > 0, R!Buffered = 0, NEW k, NEW e \in {None} \cup R!Errors, rerr = None,
             R!Gives(k, ReaderSize, e),
             IF k > 0 THEN R!CopyOut(R!Given(k), 0, n, e)
                      ELSE /\ rbuf' = <<>> /\ r' = 0 /\ R!Return("read", <<>>, e)
                           /\ UNCHANGED <<rerr, lastByte, lastRune, got>>
      PROVE  RIInv'
  <2>1. /\ k \in Nat /\ k <= ReaderSize
        /\ input' = input /\ taken' = taken + k /\ taken' \in 0 .. Len(input)
        /\ e \in R!Errors => e.at = taken'
        /\ R!Given(k) \in Seq(Nat) /\ Len(R!Given(k)) = k
        /\ \A i \in 1 .. k : R!Given(k)[i] = taken + i
    BY <1>4, Giving, Lengths
  <2>2. taken = Len(got) /\ r = Len(rbuf) /\ Len(got) \in Nat
    BY <1>4, Lengths
  <2>3. CASE k > 0
    <3>1. R!CopyOut(R!Given(k), 0, n, e) /\ rerr' = e
      BY <1>4, <2>3 DEF R!CopyOut
    <3>2. ErrorWaits'
      <4>1. R!Errors' = R!Errors
        BY <2>1 DEF R!Errors
      <4>2. e \in R!Errors => e.at <= taken'
        BY <2>1, <2>2
      <4>3. QED BY <3>1, <4>1, <4>2, ErrorsApart DEF ErrorWaits
    <3>3. \A i \in 0 + 1 .. Len(R!Given(k)) : R!Given(k)[i] = Len(got) + i - 0
      BY <2>1, <2>2
    <3>4. /\ 0 \in Nat /\ 0 < Len(R!Given(k)) /\ Len(R!Given(k)) <= ReaderSize /\ n \in Nat \ {0}
          /\ taken' = Len(got) + Len(R!Given(k)) - 0
      BY <1>4, <2>1, <2>2, <2>3
    <3>5. QED BY <2>1, <3>1, <3>2, <3>3, <3>4, CopyKeeps
  <2>4. CASE ~(k > 0)
    <3>1. /\ rbuf' = <<>> /\ r' = 0 /\ R!Return("read", <<>>, e)
          /\ UNCHANGED <<rerr, lastByte, lastRune, got>>
      BY <1>4, <2>4
    <3>2. taken' = taken
      BY <2>1, <2>2, <2>4
    <3>3. e \in R!Errors => Len(got') >= e.at
      BY <2>1, <2>2, <3>1, <3>2
    <3>4. /\ call'.op = "idle" /\ call' \in [op : Ops, n : Nat, held : Seq(Nat)]
          /\ CallHolds' /\ ErrorsAreLate' /\ LineIsWhole'
      BY <2>1, <3>1, <3>3, Returning
    <3>5. rbuf' \in Seq(Nat) /\ Len(rbuf') = 0 /\ r' \in 0 .. Len(rbuf') /\ Len(rbuf') <= ReaderSize
      <4>1. Len(<<>>) = 0 /\ <<>> \in Seq(Nat)
        BY EmptySeq
      <4>2. QED BY <3>1, <4>1, Lengths
    <3>6. ReaderTypes'
      BY <2>1, <3>1, <3>4, <3>5 DEF RIInv, ReaderTypes
    <3>7. InOrder'
      BY <2>2, <3>1, <3>2, <3>5 DEF RIInv, InOrder
    <3>8. LastIsLast'
      <4>1. lastRune # None => lastRune \in 1 .. 2 /\ ~(lastRune <= 0)
        BY DEF RIInv, LastIsLast
      <4>2. QED BY <3>1, <3>4, <4>1 DEF RIInv, LastIsLast, Forgetful
    <3>9. ErrorWaits'
      BY <2>1, <3>1, <3>2, SameError
    <3>10. QED BY <3>4, <3>6, <3>7, <3>8, <3>9 DEF RIInv
  <2>5. QED BY <2>3, <2>4
<1>5. QED BY <1>1, <1>2, <1>3, <1>4 DEF R!Read, R!source, R!last

-----------------------------------------------------------------------------
(* ReadSlice, ReadBytes and ReadLine *)

\* The first m bytes of those ReadSlice finds.
LEMMA Beginning ==
    ASSUME RIInv, NEW m \in Nat, m <= Len(R!Fragment)
    PROVE  /\ SubSeq(R!Fragment, 1, m) \in Seq(Nat) /\ Len(SubSeq(R!Fragment, 1, m)) = m
           /\ \A i \in 1 .. m : SubSeq(R!Fragment, 1, m)[i] = Len(got) + i
<1> DEFINE f == R!Fragment
           s == SubSeq(f, 1, m)
<1>1. /\ f \in Seq(Nat) /\ Len(f) \in Nat /\ m <= Len(f) /\ \A i \in 1 .. Len(f) : f[i] = Len(got) + i
  BY Fragments, LenProperties
<1> HIDE DEF f
<1>2. \A i \in 1 .. m : f[i] \in Nat
  BY <1>1, ElementOfSeq
<1>3. /\ s \in Seq(Nat) /\ Len(s) = IF 1 <= m THEN m - 1 + 1 ELSE 0
      /\ \A i \in 1 .. m - 1 + 1 : s[i] = f[1 + i - 1]
  BY <1>2, SubSeqProperties
<1> HIDE DEF s
<1>4. Len(s) = m /\ \A i \in 1 .. m : s[i] = f[i]
  BY <1>3
<1>5. ASSUME NEW i \in 1 .. m PROVE s[i] = Len(got) + i
  <2>1. i \in 1 .. Len(f)
    BY <1>1
  <2>2. f[i] = Len(got) + i
    BY <1>1, <2>1
  <2>3. s[i] = f[i]
    BY <1>4
  <2>4. QED BY <2>2, <2>3
<1>6. QED BY <1>3, <1>4, <1>5 DEF s, f

LEMMA KindsOf ==
    ASSUME NEW inp, NEW b \in Seq(Nat)
    PROVE  LET kinds == [i \in DOMAIN b |-> inp[b[i]]]
           IN  /\ Len(kinds) = Len(b)
               /\ kinds # <<>> <=> Len(b) > 0
               /\ \A i \in 1 .. Len(b) : kinds[i] = inp[b[i]]
               /\ R!Last(kinds) = kinds[Len(b)]
               /\ "lf" \in R!Range(kinds) => \E i \in 1 .. Len(b) : inp[b[i]] = "lf"
<1> DEFINE kinds == [i \in DOMAIN b |-> inp[b[i]]]
<1>1. DOMAIN b = 1 .. Len(b) /\ Len(b) \in Nat
  BY LenProperties
<1>2. kinds = [i \in 1 .. Len(b) |-> inp[b[i]]]
  BY <1>1
<1>3. Len(kinds) = Len(b) /\ DOMAIN kinds = 1 .. Len(b) /\ \A i \in 1 .. Len(b) : kinds[i] = inp[b[i]]
  BY <1>1, <1>2
<1>4. kinds # <<>> <=> Len(b) > 0
  <2>1. kinds = <<>> => Len(b) = 0
    BY <1>3
  <2>2. Len(b) = 0 => kinds = <<>>
    BY <1>2
  <2>3. QED BY <1>1, <2>1, <2>2
<1>5. R!Last(kinds) = kinds[Len(b)]
  BY <1>3 DEF R!Last
<1>6. "lf" \in R!Range(kinds) => \E i \in 1 .. Len(b) : inp[b[i]] = "lf"
  BY <1>3 DEF R!Range
<1>7. QED BY <1>3, <1>4, <1>5, <1>6

\* An answer of ReadSlice or ReadBytes, and one of ReadLine of m bytes and l more that
\* are their line end, in terms of the bytes of the input.
LEMMA SliceIsWhole ==
    ASSUME NEW b \in Seq(Nat), NEW e, NEW op \in {"slice", "bytes"}, NEW m,
           answer' = [op |-> op, bytes |-> b, err |-> e, more |-> m], input' = input,
           e = None <=> Len(b) > 0 /\ input[b[Len(b)]] = "lf"
    PROVE  LineIsWhole'
<1> DEFINE kinds == [i \in DOMAIN b |-> input[b[i]]]
<1>1. /\ kinds # <<>> <=> Len(b) > 0
      /\ Len(b) > 0 => R!Last(kinds) = input[b[Len(b)]]
  <2>1. /\ kinds # <<>> <=> Len(b) > 0
        /\ \A i \in 1 .. Len(b) : kinds[i] = input[b[i]]
        /\ R!Last(kinds) = kinds[Len(b)]
    BY KindsOf
  <2> HIDE DEF kinds
  <2>2. Len(b) > 0 => Len(b) \in 1 .. Len(b)
    BY LenProperties
  <2>3. QED BY <2>1, <2>2
<1>2. answer'.op = op /\ answer'.bytes = b /\ answer'.err = e
  OBVIOUS
<1> HIDE DEF kinds
<1>3. e = None <=> kinds # <<>> /\ R!Last(kinds) = "lf"
  BY <1>1
<1>4. QED BY <1>2, <1>3 DEF LineIsWhole, R!LineIsWhole, R!Last, kinds

\* ReadLine answers with the m bytes b behind the first g, and takes l more, the line end.
LineOf(b, m, g, l, e, more) ==
    /\ answer' = [op |-> "line", bytes |-> b, err |-> e, more |-> more]
    /\ input' = input /\ Len(got') = g + m + l
    /\ Len(b) = m /\ \A i \in 1 .. m : b[i] = g + i /\ input[g + i] # "lf"
    /\ l = 1 => input[g + m + 1] = "lf" /\ (m > 0 => input[g + m] # "cr")
    /\ l = 2 => input[g + m + 1] = "cr" /\ input[g + m + 2] = "lf"
    /\ more /\ m > 0 => l = 0 /\ ~(input[g + m] = "cr" /\ input[g + m + 1] = "lf")

LEMMA LineIsLine ==
    ASSUME NEW b \in Seq(Nat), NEW m \in Nat, NEW g \in Nat, NEW l \in 0 .. 2, NEW e,
           NEW more \in BOOLEAN, LineOf(b, m, g, l, e, more)
    PROVE  LineIsWhole'
<1> USE DEF LineOf
<1> DEFINE kinds == [i \in DOMAIN b |-> input[b[i]]]
           end == [i \in 1 .. Len(got') - R!Last(b) |-> input[R!Last(b) + i]]
<1>1. SUFFICES ASSUME kinds # <<>>
               PROVE  /\ "lf" \notin R!Range(kinds)
                      /\ end \in {<<>>, <<"lf">>, <<"cr", "lf">>}
                      /\ end = <<"lf">> => R!Last(kinds) # "cr"
                      /\ more => /\ end = <<>>
                                 /\ ~(/\ R!Last(kinds) = "cr" /\ Len(got') < Len(input)
                                      /\ input[Len(got') + 1] = "lf")
  <2>1. answer'.op = "line" /\ answer'.bytes = b /\ answer'.more = more
    OBVIOUS
  <2>2. QED BY <1>1, <2>1 DEF LineIsWhole, R!LineIsWhole, R!Last, R!Range
<1>2. m > 0 /\ R!Last(kinds) = input[g + m] /\ R!Last(b) = g + m
  <2>1. Len(b) > 0 /\ R!Last(kinds) = kinds[Len(b)]
    BY <1>1, KindsOf
  <2>2. kinds[Len(b)] = input[b[Len(b)]]
    BY <2>1, KindsOf
  <2>3. b[m] = g + m
    BY <2>1
  <2>4. QED BY <2>1, <2>2, <2>3 DEF R!Last
<1>3. "lf" \notin R!Range(kinds)
  <2>1. "lf" \in R!Range(kinds) => \E i \in 1 .. Len(b) : input[b[i]] = "lf"
    BY KindsOf
  <2>2. QED BY <2>1
<1> HIDE DEF kinds
<1>4. end = [i \in 1 .. l |-> input[g + m + i]]
  <2>1. Len(got') - R!Last(b) = l
    BY <1>2
  <2>2. QED BY <1>2, <2>1
<1> HIDE DEF end
<1>5. CASE l = 0
  <2>1. end = <<>> /\ Len(got') = g + m
    BY <1>4, <1>5
  <2>2. QED BY <1>2, <1>3, <1>5, <2>1
<1>6. CASE l = 1
  <2>1. end = <<"lf">>
    BY <1>4, <1>6
  <2>2. QED BY <1>2, <1>3, <1>6, <2>1
<1>7. CASE l = 2
  <2>1. end = <<"cr", "lf">>
    BY <1>4, <1>7
  <2>2. <<"cr", "lf">> # <<"lf">>
    OBVIOUS
  <2>3. QED BY <1>2, <1>3, <1>7, <2>1, <2>2
<1>8. QED BY <1>5, <1>6, <1>7

\* The end of ReadSlice: all that was found is taken, but for the byte put back.
LEMMA SliceEnds ==
    ASSUME RIInv, NEW keep \in Nat, R!SliceEnd(keep),
           keep = Len(R!Fragment) \/ keep = Len(R!Fragment) - 1,
           call'.op \in {"idle", "bytes"}
    PROVE  /\ UNCHANGED <<input, taken, rbuf>> /\ R!Take(keep) /\ keep <= Len(rbuf) - r
           /\ Len(got') = Len(got) + keep
           /\ rerr' \in {None, rerr}
           /\ LastIsLast'
<1> DEFINE f == R!Fragment
<1>1. /\ UNCHANGED <<input, taken, rbuf>> /\ R!Take(keep)
      /\ rerr' \in {None, rerr}
      /\ f = <<>> => UNCHANGED <<lastByte, lastRune>>
      /\ f # <<>> => lastByte' = R!Last(f) /\ lastRune' = None
  BY DEF R!SliceEnd, R!source, R!last
<1>2. /\ Len(f) \in Nat /\ Len(f) <= Len(rbuf) - r
      /\ f # <<>> <=> Len(f) > 0
      /\ f # <<>> => R!Last(f) = Len(got) + Len(f)
  BY Fragments, Lengths
<1> HIDE DEF f
<1>3. keep <= Len(rbuf) - r
  BY <1>2, Lengths DEF f
<1>4. r' = r + keep /\ Len(got') = Len(got) + keep
  BY <1>1, <1>3, Takes
<1>5. LastIsLast'
  <2>1. CASE f = <<>>
    <3>1. keep = 0
      BY <1>2, <2>1 DEF f
    <3>2. r' = r /\ Len(got') = Len(got)
      BY <1>4, <3>1, Lengths
    <3>3. QED BY <1>1, <2>1, <3>2 DEF RIInv, LastIsLast, Forgetful
  <2>2. CASE f # <<>>
    <3>1. lastByte' = Len(got) + Len(f) /\ lastRune' = None /\ Len(f) > 0
      BY <1>1, <1>2, <2>2
    <3>2. Len(got) + Len(f) = Len(got') \/ Len(got) + Len(f) = Len(got') + 1
      <4>1. Len(got) \in Nat
        BY Lengths
      <4>2. keep = Len(f) \/ keep = Len(f) - 1
        BY DEF f
      <4>3. QED BY <1>2, <1>4, <4>1, <4>2
    <3>3. Len(got) + Len(f) \in Nat \ {0}
      BY <1>2, <3>1, Lengths
    <3>4. QED BY <3>1, <3>2, <3>3 DEF LastIsLast, Forgetful
  <2>3. QED BY <2>1, <2>2
<1>6. QED BY <1>1, <1>3, <1>4, <1>5

\* What was found ends with the delimiter, or holds none.
LEMMA SliceDelim ==
    ASSUME RIInv, R!Runs("slice") \/ R!Runs("line") \/ R!Runs("bytes")
    PROVE  LET f == R!Fragment
           IN  R!FragmentErr = None <=> Len(f) > 0 /\ input[f[Len(f)]] = "lf"
<1> DEFINE f == R!Fragment
<1>1. /\ Len(f) \in Nat /\ \A i \in 1 .. Len(f) : f[i] = Len(got) + i
      /\ Len(f) = IF R!Delim > 0 THEN R!Delim ELSE Len(rbuf) - r
  BY Fragments, LenProperties
<1>2. R!FragmentErr = None <=> R!Delim > 0
  BY FullBuffer
<1> HIDE DEF f
<1>3. CASE R!Delim > 0
  <2>1. R!Delim \in 1 .. Len(rbuf) - r /\ input[Len(got) + R!Delim] = "lf"
    BY <1>3, Delimiter
  <2>2. Len(f) = R!Delim /\ Len(f) > 0 /\ Len(f) \in 1 .. Len(f)
    BY <1>1, <1>3
  <2>3. QED BY <1>1, <1>2, <1>3, <2>1, <2>2 DEF f
<1>4. CASE ~(R!Delim > 0)
  <2>1. \A i \in 1 .. Len(rbuf) - r : input[Len(got) + i] # "lf"
    BY <1>4, Delimiter, Lengths
  <2>2. Len(f) = Len(rbuf) - r
    BY <1>1, <1>4
  <2>3. Len(f) > 0 => Len(f) \in 1 .. Len(f)
    BY <1>1
  <2>4. QED BY <1>1, <1>2, <1>4, <2>1, <2>2, <2>3 DEF f
<1>5. QED BY <1>3, <1>4

\* A full buffer holds no delimiter.
LEMMA NoDelim ==
    ASSUME RIInv, R!Delim = 0
    PROVE  \A i \in 1 .. Len(R!Fragment) :
             R!Fragment[i] \in 1 .. taken /\ input[R!Fragment[i]] # "lf"
<1>1. /\ Len(R!Fragment) = Len(rbuf) - r
      /\ \A i \in 1 .. Len(R!Fragment) : R!Fragment[i] = Len(got) + i
  BY Fragments
<1>2. \A i \in 1 .. Len(rbuf) - r : input[Len(got) + i] # "lf"
  BY Delimiter
<1>3. \A i \in 1 .. Len(rbuf) - r : Len(got) + i \in 1 .. taken
  BY Lengths
<1>4. QED BY <1>1, <1>2, <1>3

LEMMA DelimIsLast ==
    ASSUME RIInv, R!Delim > 0
    PROVE  input[Len(got) + Len(R!Fragment)] = "lf"
<1>1. Len(R!Fragment) = R!Delim
  BY Fragments
<1>2. input[Len(got) + R!Delim] = "lf"
  BY Delimiter, Lengths
<1>3. QED BY <1>1, <1>2

LEMMA ReadSliceKeeps ==
    ASSUME RIInv, R!ReadSlice
    PROVE  RIInv'
<1> DEFINE f == R!Fragment
           e == R!FragmentErr
<1>1. /\ R!Runs("slice") /\ R!SliceEnd(Len(f)) /\ call' = R!Idle
      /\ answer' = [op |-> "slice", bytes |-> f, err |-> e, more |-> FALSE]
  BY DEF R!ReadSlice, R!Return
<1>2. /\ f \in Seq(Nat) /\ Len(f) \in Nat /\ Len(f) = Len(R!Fragment)
      /\ \A i \in 1 .. Len(f) : f[i] = Len(got) + i
  BY Fragments, LenProperties
<1>3. call'.op = "idle" /\ call'.held = <<>> /\ call' \in [op : Ops, n : Nat, held : Seq(Nat)]
  BY <1>1, EmptySeq DEF R!Idle, Ops
<1>4. /\ UNCHANGED <<input, taken, rbuf>> /\ R!Take(Len(f)) /\ Len(f) <= Len(rbuf) - r
      /\ Len(got') = Len(got) + Len(f) /\ rerr' \in {None, rerr} /\ LastIsLast'
  BY <1>1, <1>2, <1>3, SliceEnds
<1>5. CallHolds'
  BY <1>3, NoneHeld DEF CallHolds
<1>6. ErrorsAreLate'
  <2>1. e \in R!Errors => Len(got') >= e.at
    BY <1>1, <1>4, FullBuffer, Fragments, Lengths DEF R!Errors
  <2>2. QED BY <1>1, <1>4, <2>1 DEF ErrorsAreLate, R!Errors
<1>7. e = None <=> Len(f) > 0 /\ input[f[Len(f)]] = "lf"
  BY <1>1, <1>2, SliceDelim
<1>8. LineIsWhole'
  <2> HIDE DEF f, e
  <2>1. QED BY <1>1, <1>2, <1>4, <1>7, SliceIsWhole
<1>9. QED BY <1>2, <1>3, <1>4, <1>5, <1>6, <1>8, Handing

LEMMA ReadBytesKeeps ==
    ASSUME RIInv, R!ReadBytes
    PROVE  RIInv'
<1> DEFINE f == R!Fragment
           e == R!FragmentErr
           h == call.held
<1>1. /\ R!Runs("bytes") /\ R!SliceEnd(Len(f)) /\ call.op = "bytes"
      /\ \/ e = R!Full /\ call' = [call EXCEPT !.held = h \o f] /\ answer' = answer
         \/ /\ e # R!Full /\ call' = R!Idle
            /\ answer' = [op |-> "bytes", bytes |-> h \o f, err |-> e, more |-> FALSE]
  BY DEF R!ReadBytes, R!Return, R!Runs
<1>2. /\ f \in Seq(Nat) /\ Len(f) \in Nat /\ Len(f) = Len(R!Fragment)
      /\ \A i \in 1 .. Len(f) : f[i] = Len(got) + i
      /\ h \in Seq(Nat) /\ Len(h) \in Nat
  BY Fragments, LenProperties DEF RIInv, ReaderTypes
<1>3. /\ h \o f \in Seq(Nat) /\ Len(h \o f) = Len(h) + Len(f)
      /\ \A i \in 1 .. Len(h) : (h \o f)[i] = h[i]
      /\ \A i \in 1 .. Len(f) : (h \o f)[Len(h) + i] = f[i]
  <2> HIDE DEF h, f
  <2>1. /\ h \o f \in Seq(Nat) /\ Len(h \o f) = Len(h) + Len(f)
        /\ \A i \in 1 .. Len(h) + Len(f) :
             (h \o f)[i] = IF i <= Len(h) THEN h[i] ELSE f[i - Len(h)]
    BY <1>2, ConcatProperties
  <2>2. QED BY <1>2, <2>1
<1>4. /\ call'.op \in {"idle", "bytes"} /\ call' \in [op : Ops, n : Nat, held : Seq(Nat)]
      /\ call'.op = "idle" => call'.held = <<>>
      /\ call'.op # "idle" => e = R!Full /\ call'.held = h \o f /\ answer' = answer
      /\ call'.op = "idle" => e # R!Full
  <2>1. CASE e = R!Full /\ call' = [call EXCEPT !.held = h \o f] /\ answer' = answer
    <3> HIDE DEF f, e
    <3>1. QED BY <1>1, <1>3, <2>1 DEF RIInv, ReaderTypes, Ops
  <2>2. CASE e # R!Full /\ call' = R!Idle
    BY <2>2, EmptySeq DEF R!Idle, Ops
  <2>3. QED BY <1>1, <2>1, <2>2
<1>5. /\ UNCHANGED <<input, taken, rbuf>> /\ R!Take(Len(f)) /\ Len(f) <= Len(rbuf) - r
      /\ Len(got') = Len(got) + Len(f) /\ rerr' \in {None, rerr} /\ LastIsLast'
  BY <1>1, <1>2, <1>4, SliceEnds
<1>6. CASE call'.op # "idle"
  <2>1. answer' = R!Nothing
    BY <1>1, <1>4, <1>6 DEF RIInv, CallHolds
  <2>2. CallHolds'
    <3>1. \A i \in 1 .. Len(f) : f[i] \in 1 .. taken /\ input[f[i]] # "lf"
      BY <1>1, <1>4, <1>6, FullBuffer, NoDelim
    <3>2. \A i \in 1 .. Len(h) : h[i] \in 1 .. taken /\ input[h[i]] # "lf"
      BY <1>1 DEF RIInv, CallHolds
    <3>3. ASSUME NEW i \in 1 .. Len(h) + Len(f)
          PROVE  (h \o f)[i] \in 1 .. taken /\ input[(h \o f)[i]] # "lf"
      <4> HIDE DEF h, f
      <4>1. CASE i <= Len(h)
        BY <1>2, <1>3, <3>2, <4>1
      <4>2. CASE ~(i <= Len(h))
        <5>1. i - Len(h) \in 1 .. Len(f) /\ Len(h) + (i - Len(h)) = i
          BY <1>2, <4>2
        <5>2. (h \o f)[i] = f[i - Len(h)]
          BY <1>3, <5>1
        <5>3. QED BY <3>1, <5>1, <5>2
      <4>3. QED BY <4>1, <4>2
    <3> HIDE DEF h, f
    <3>4. QED BY <1>3, <1>4, <1>5, <1>6, <2>1, <3>3 DEF CallHolds, R!Nothing
  <2>3. ErrorsAreLate' /\ LineIsWhole'
    BY <2>1, Untold
  <2>4. QED BY <1>2, <1>4, <1>5, <2>2, <2>3, Handing
<1>7. CASE call'.op = "idle"
  <2>1. answer' = [op |-> "bytes", bytes |-> h \o f, err |-> e, more |-> FALSE]
    BY <1>1, <1>4, <1>7
  <2>2. CallHolds'
    BY <1>4, <1>7, NoneHeld DEF CallHolds
  <2>3. ErrorsAreLate'
    <3>1. e \in R!Errors => Len(got') >= e.at
      BY <1>1, <1>5, FullBuffer, Fragments, Lengths DEF R!Errors
    <3>2. QED BY <2>1, <1>5, <3>1 DEF ErrorsAreLate, R!Errors
  <2>4. e = None <=> Len(h \o f) > 0 /\ input[(h \o f)[Len(h \o f)]] = "lf"
    <3>1. e = None <=> Len(f) > 0 /\ input[f[Len(f)]] = "lf"
      BY <1>1, <1>2, SliceDelim
    <3>2. \A i \in 1 .. Len(h) : input[h[i]] # "lf"
      BY <1>1 DEF RIInv, CallHolds
    <3> HIDE DEF h, f, e
    <3>3. CASE Len(f) > 0
      BY <1>2, <1>3, <3>1, <3>3
    <3>4. CASE Len(f) = 0
      BY <1>2, <1>3, <3>1, <3>2, <3>4
    <3>5. QED BY <1>2, <3>3, <3>4
  <2>5. LineIsWhole'
    <3> HIDE DEF f, e, h
    <3>1. QED BY <1>3, <1>5, <2>1, <2>4, SliceIsWhole
  <2>6. QED BY <1>2, <1>4, <1>5, <2>2, <2>3, <2>5, Handing
<1>8. QED BY <1>6, <1>7

\* The beginning of a line, with a full buffer of n bytes of which cut are put back.
LEMMA LineMore ==
    ASSUME NEW b \in Seq(Nat), NEW n \in Nat, n > 0, NEW g \in Nat, NEW cut \in 0 .. 1,
           answer' = [op |-> "line", bytes |-> b, err |-> None, more |-> TRUE],
           input' = input, Len(got') = g + (n - cut),
           Len(b) = n - cut, \A i \in 1 .. n - cut : b[i] = g + i,
           \A i \in 1 .. n : input[g + i] # "lf",
           cut = 0 => input[g + n] # "cr"
    PROVE  LineIsWhole'
<1> DEFINE m == n - cut
           l == 0
           more == TRUE
<1>1. m \in Nat /\ m <= n /\ l = 0 /\ l \in 0 .. 2 /\ more \in BOOLEAN
  OBVIOUS
<1>2. Len(got') = g + m + l /\ Len(b) = m
  OBVIOUS
<1>3. cut = 1 => g + m + 1 = g + n
  OBVIOUS
<1>4. cut = 0 => m = n
  OBVIOUS
<1>5. answer' = [op |-> "line", bytes |-> b, err |-> None, more |-> more]
  OBVIOUS
<1>6. ASSUME NEW i \in 1 .. m PROVE b[i] = g + i /\ input[g + i] # "lf"
  OBVIOUS
<1> HIDE DEF m, l, more
<1>7. ~(input[g + m] = "cr" /\ input[g + m + 1] = "lf")
  <2>1. input[g + n] # "lf"
    <3>1. n \in 1 .. n
      OBVIOUS
    <3>2. QED BY <3>1
  <2>2. CASE cut = 0
    BY <1>4, <2>2
  <2>3. CASE cut = 1
    BY <1>3, <2>1, <2>3
  <2>4. QED BY <2>2, <2>3
<1>8. LineOf(b, m, g, l, None, more)
  <2>1. l # 1 /\ l # 2
    BY <1>1
  <2>2. \A i \in 1 .. m : b[i] = g + i /\ input[g + i] # "lf"
    BY <1>6
  <2>3. l = 1 => input[g + m + 1] = "lf" /\ (m > 0 => input[g + m] # "cr")
    BY <2>1
  <2>4. l = 2 => input[g + m + 1] = "cr" /\ input[g + m + 2] = "lf"
    BY <2>1
  <2>5. more /\ m > 0 => l = 0 /\ ~(input[g + m] = "cr" /\ input[g + m + 1] = "lf")
    BY <1>1, <1>7
  <2>6. QED BY <1>2, <1>5, <2>2, <2>3, <2>4, <2>5, Zenon DEF LineOf
<1>9. QED BY <1>1, <1>8, LineIsLine

\* No byte before the end of the input.
LEMMA LineNone ==
    ASSUME NEW b \in Seq(Nat), Len(b) = 0, NEW g \in Nat, NEW e,
           answer' = [op |-> "line", bytes |-> b, err |-> e, more |-> FALSE],
           input' = input, Len(got') = g
    PROVE  LineIsWhole'
<1> DEFINE m == 0
           l == 0
           more == FALSE
<1>1. /\ m \in Nat /\ m = 0 /\ l = 0 /\ l \in 0 .. 2 /\ more \in BOOLEAN /\ ~more
      /\ Len(got') = g + m + l /\ Len(b) = m
      /\ answer' = [op |-> "line", bytes |-> b, err |-> e, more |-> more]
  OBVIOUS
<1>2. \A i \in 1 .. m : b[i] = g + i /\ input[g + i] # "lf"
  OBVIOUS
<1> HIDE DEF m, l, more
<1>3. LineOf(b, m, g, l, e, more)
  <2>1. l # 1 /\ l # 2
    BY <1>1
  <2>2. l = 1 => input[g + m + 1] = "lf" /\ (m > 0 => input[g + m] # "cr")
    BY <2>1
  <2>3. l = 2 => input[g + m + 1] = "cr" /\ input[g + m + 2] = "lf"
    BY <2>1
  <2>4. more /\ m > 0 => l = 0 /\ ~(input[g + m] = "cr" /\ input[g + m + 1] = "lf")
    BY <1>1
  <2>5. QED BY <1>1, <1>2, <2>2, <2>3, <2>4, Zenon DEF LineOf
<1>4. QED BY <1>1, <1>3, LineIsLine

\* A line of n bytes, of which cut are its line end.
LEMMA LineWithEnd ==
    ASSUME NEW b \in Seq(Nat), NEW n \in Nat, n > 0, NEW g \in Nat, NEW cut \in 0 .. 2, cut <= n,
           answer' = [op |-> "line", bytes |-> b, err |-> None, more |-> FALSE],
           input' = input, Len(got') = g + n,
           Len(b) = n - cut, \A i \in 1 .. n - cut : b[i] = g + i /\ input[g + i] # "lf",
           cut = 1 => input[g + n] = "lf",
           cut = 1 /\ n > 1 => input[g + (n - 1)] # "cr",
           cut = 2 => input[g + n] = "lf" /\ input[g + (n - 1)] = "cr"
    PROVE  LineIsWhole'
<1> DEFINE m == n - cut
           more == FALSE
<1>1. /\ m \in Nat /\ more \in BOOLEAN /\ ~more
      /\ Len(got') = g + m + cut /\ Len(b) = m
      /\ answer' = [op |-> "line", bytes |-> b, err |-> None, more |-> more]
      /\ cut = 1 => g + m + 1 = g + n /\ g + m = g + (n - 1)
      /\ cut = 2 => g + m + 2 = g + n /\ g + m + 1 = g + (n - 1)
      /\ cut = 1 /\ m > 0 => n > 1
  OBVIOUS
<1>2. \A i \in 1 .. m : b[i] = g + i /\ input[g + i] # "lf"
  OBVIOUS
<1> HIDE DEF m, more
<1>3. cut = 1 => input[g + m + 1] = "lf" /\ (m > 0 => input[g + m] # "cr")
  BY <1>1
<1>4. cut = 2 => input[g + m + 1] = "cr" /\ input[g + m + 2] = "lf"
  BY <1>1
<1>5. LineOf(b, m, g, cut, None, more)
  BY <1>1, <1>2, <1>3, <1>4 DEF LineOf
<1>6. QED BY <1>1, <1>5, LineIsLine

\* What every way of ReadLine to return does, n bytes having been found.
LEMMA LineReturns ==
    ASSUME RIInv, NEW keep \in Nat, NEW b, NEW e, NEW more,
           R!SliceEnd(keep), call' = R!Idle,
           answer' = [op |-> "line", bytes |-> b, err |-> e, more |-> more],
           keep = Len(R!Fragment) \/ keep = Len(R!Fragment) - 1
    PROVE  /\ input' = input /\ Len(got') = Len(got) + keep
           /\ LineIsWhole' /\ (e \in R!Errors => Len(got) + keep >= e.at) => RIInv'
<1>1. call'.op = "idle" /\ call'.held = <<>> /\ call' \in [op : Ops, n : Nat, held : Seq(Nat)]
  BY EmptySeq DEF R!Idle, Ops
<1>2. /\ UNCHANGED <<input, taken, rbuf>> /\ R!Take(keep) /\ keep <= Len(rbuf) - r
      /\ Len(got') = Len(got) + keep /\ rerr' \in {None, rerr} /\ LastIsLast'
  BY <1>1, SliceEnds
<1>3. CallHolds'
  BY <1>1, NoneHeld DEF CallHolds
<1>4. SUFFICES ASSUME LineIsWhole', e \in R!Errors => Len(got) + keep >= e.at PROVE RIInv'
  BY <1>2
<1>5. ErrorsAreLate'
  <2>1. answer'.op = "line" /\ answer'.err = e
    OBVIOUS
  <2>2. QED BY <1>2, <1>4, <2>1 DEF ErrorsAreLate, R!Errors
<1>6. QED BY <1>1, <1>2, <1>3, <1>4, <1>5, Handing

LEMMA ReadLineKeeps ==
    ASSUME RIInv, R!ReadLine
    PROVE  RIInv'
<1> DEFINE f == R!Fragment
           n == Len(f)
           g == Len(got)
           kinds == [i \in 1 .. n |-> input[f[i]]]
           Ends(keep, cut, e, more) ==
              /\ R!SliceEnd(keep) /\ call' = R!Idle
              /\ answer' = [op |-> "line", bytes |-> SubSeq(f, 1, n - cut),
                            err |-> e, more |-> more]
<1>1. /\ R!Runs("line")
      /\ \/ /\ R!FragmentErr = R!Full
            /\ Ends(n - R!PutBack(kinds), R!PutBack(kinds), None, TRUE)
         \/ /\ R!FragmentErr # R!Full /\ n = 0
            /\ Ends(0, 0, R!FragmentErr, FALSE)
         \/ /\ R!FragmentErr # R!Full /\ n > 0
            /\ Ends(n, R!LineEnd(kinds), None, FALSE)
  BY DEF R!ReadLine
<1>2. /\ f \in Seq(Nat) /\ n \in Nat /\ g \in Nat /\ n <= Len(rbuf) - r
      /\ \A i \in 1 .. n : f[i] = g + i
      /\ Len(kinds) = n /\ \A i \in 1 .. n : kinds[i] = input[g + i]
      /\ R!Last(kinds) = kinds[n]
  <2>1. f \in Seq(Nat) /\ n \in Nat /\ n <= Len(rbuf) - r /\ \A i \in 1 .. n : f[i] = g + i
    BY Fragments, LenProperties, Lengths
  <2> HIDE DEF f
  <2>2. Len(kinds) = n /\ \A i \in 1 .. n : kinds[i] = input[g + i]
    BY <2>1
  <2> HIDE DEF n
  <2>3. R!Last(kinds) = kinds[n]
    BY <2>2 DEF R!Last
  <2>4. QED BY <2>1, <2>2, <2>3, Lengths
\* the bytes of every way to return
<1>3. ASSUME NEW cut \in Nat, cut <= n
      PROVE  /\ SubSeq(f, 1, n - cut) \in Seq(Nat) /\ Len(SubSeq(f, 1, n - cut)) = n - cut
             /\ \A i \in 1 .. n - cut : SubSeq(f, 1, n - cut)[i] = g + i
  <2>1. n - cut \in Nat /\ n - cut <= Len(R!Fragment)
    BY <1>2, <1>3
  <2>2. QED BY <2>1, Beginning
<1>4. CASE R!FragmentErr = R!Full /\ Ends(n - R!PutBack(kinds), R!PutBack(kinds), None, TRUE)
  <2> DEFINE cut == R!PutBack(kinds)
             b == SubSeq(f, 1, n - cut)
             keep == n - cut
  <2>1. n > 0 /\ \A i \in 1 .. n : input[g + i] # "lf"
    <3>1. R!Delim = 0 /\ n > 0
      BY <1>1, <1>4, FullBuffer
    <3>2. \A i \in 1 .. n : input[f[i]] # "lf"
      BY <3>1, NoDelim
    <3> HIDE DEF n, f, g
    <3>3. QED BY <1>2, <3>1, <3>2
  <2>2. cut \in 0 .. 1 /\ (cut = 0 => input[g + n] # "cr")
    <3> HIDE DEF kinds, n
    <3>1. R!Last(kinds) = input[g + n]
      BY <1>2, <2>1
    <3>2. QED BY <3>1 DEF R!PutBack
  <2>3. /\ R!SliceEnd(keep) /\ call' = R!Idle
        /\ answer' = [op |-> "line", bytes |-> b, err |-> None, more |-> TRUE]
    BY <1>4
  <2> HIDE DEF cut, kinds
  <2>4. cut \in Nat /\ cut <= n
    BY <1>2, <2>1, <2>2
  <2>5. b \in Seq(Nat) /\ Len(b) = n - cut /\ \A i \in 1 .. n - cut : b[i] = g + i
    BY <1>3, <2>4
  <2>6. keep \in Nat /\ (keep = n \/ keep = n - 1)
    BY <1>2, <2>2, <2>4
  <2> HIDE DEF keep
  <2>7. /\ input' = input /\ Len(got') = g + keep
        /\ LineIsWhole' /\ (None \in R!Errors => Len(got) + keep >= None.at) => RIInv'
    <3> HIDE DEF b
    <3>1. keep = Len(R!Fragment) \/ keep = Len(R!Fragment) - 1
      BY <2>6
    <3>2. QED BY <2>3, <2>6, <3>1, LineReturns
  <2> HIDE DEF b, f, n, g
  <2>8. Len(got') = g + (n - cut)
    BY <2>7 DEF keep
  <2>9. LineIsWhole'
    BY <1>2, <2>1, <2>2, <2>3, <2>5, <2>7, <2>8, LineMore
  <2>10. QED BY <2>7, <2>9, ErrorsApart
<1>5. CASE R!FragmentErr # R!Full /\ n = 0 /\ Ends(0, 0, R!FragmentErr, FALSE)
  <2> DEFINE b == SubSeq(f, 1, n - 0)
             e == R!FragmentErr
  <2>1. b \in Seq(Nat) /\ Len(b) = 0
    BY <1>2, <1>3, <1>5
  <2>2. /\ R!SliceEnd(0) /\ call' = R!Idle
        /\ answer' = [op |-> "line", bytes |-> b, err |-> e, more |-> FALSE]
    BY <1>5
  <2>3. /\ input' = input /\ Len(got') = g + 0
        /\ LineIsWhole' /\ (e \in R!Errors => Len(got) + 0 >= e.at) => RIInv'
    <3> HIDE DEF b, e
    <3>1. 0 = Len(R!Fragment)
      BY <1>5
    <3>2. QED BY <2>2, <3>1, LineReturns
  <2>4. LineIsWhole'
    <3> HIDE DEF b, e, g
    <3>1. Len(got') = g
      BY <1>2, <2>3
    <3>2. QED BY <1>2, <2>1, <2>2, <2>3, <3>1, LineNone
  <2>5. e \in R!Errors => Len(got) + 0 >= e.at
    <3>1. e \in R!Errors => R!Delim = 0 /\ e.at <= taken
      BY <1>1, FullBuffer
    <3>2. R!Delim = 0 => Len(rbuf) - r = 0
      BY <1>5, Fragments
    <3>3. Len(rbuf) - r = 0 => taken = Len(got) + 0
      BY Lengths
    <3>4. e \in R!Errors => e.at \in Nat
      BY DEF R!Errors
    <3> HIDE DEF e
    <3>5. QED BY <3>1, <3>2, <3>3, <3>4, Lengths
  <2>6. QED BY <2>3, <2>4, <2>5
<1>6. CASE R!FragmentErr # R!Full /\ n > 0 /\ Ends(n, R!LineEnd(kinds), None, FALSE)
  <2> DEFINE cut == R!LineEnd(kinds)
             b == SubSeq(f, 1, n - cut)
  <2>1. n \in 1 .. n /\ kinds[n] = input[g + n]
    <3>1. n \in 1 .. n
      BY <1>2, <1>6
    <3>2. QED BY <1>2, <3>1
  <2>2. /\ cut \in 0 .. 2 /\ cut <= n
        /\ cut = 0 => input[g + n] # "lf"
        /\ cut = 1 => input[g + n] = "lf"
        /\ cut = 1 /\ n > 1 => input[g + (n - 1)] # "cr"
        /\ cut = 2 => input[g + n] = "lf" /\ input[g + (n - 1)] = "cr"
    <3>1. Len(kinds) = n /\ R!Last(kinds) = input[g + n]
      BY <1>2, <2>1
    <3>2. n > 1 => kinds[n - 1] = input[g + (n - 1)]
      <4>1. n > 1 => n - 1 \in 1 .. n
        BY <1>2
      <4>2. QED BY <1>2, <4>1
    <3> HIDE DEF kinds, n
    <3>3. n > 0 /\ n \in Nat
      BY <1>2, <1>6
    <3>4. QED BY <3>1, <3>2, <3>3 DEF R!LineEnd
  <2>3. /\ R!SliceEnd(n) /\ call' = R!Idle
        /\ answer' = [op |-> "line", bytes |-> b, err |-> None, more |-> FALSE]
    BY <1>6
  <2> HIDE DEF cut, kinds
  <2>4. \A i \in 1 .. n - cut : input[g + i] # "lf"
    <3>1. CASE R!Delim > 0
      <4>1. /\ n = R!Delim /\ input[g + n] = "lf"
            /\ \A i \in 1 .. n - 1 : input[g + i] # "lf"
        <5>1. n = R!Delim
          BY <3>1, Fragments
        <5>2. /\ input[g + R!Delim] = "lf"
              /\ \A i \in 1 .. R!Delim - 1 : input[g + i] # "lf"
          BY <3>1, Delimiter
        <5> HIDE DEF n
        <5>3. QED BY <5>1, <5>2
      <4>2. cut # 0
        BY <2>2, <4>1
      <4> HIDE DEF n
      <4>3. \A i \in 1 .. n - cut : i \in 1 .. n - 1
        BY <1>2, <2>2, <4>2
      <4>4. QED BY <4>1, <4>3
    <3>2. CASE ~(R!Delim > 0)
      <4>1. R!Delim = 0
        BY <3>2, Delimiter, Lengths
      <4>2. \A i \in 1 .. n : input[f[i]] # "lf"
        BY <4>1, NoDelim
      <4> HIDE DEF f, n
      <4>3. \A i \in 1 .. n - cut : i \in 1 .. n
        BY <1>2, <2>2
      <4>4. QED BY <1>2, <4>2, <4>3
    <3>3. QED BY <3>1, <3>2
  <2>5. b \in Seq(Nat) /\ Len(b) = n - cut /\ \A i \in 1 .. n - cut : b[i] = g + i
    <3>1. cut \in Nat /\ cut <= n
      BY <2>2
    <3>2. QED BY <1>3, <3>1
  <2>6. /\ input' = input /\ Len(got') = g + n
        /\ LineIsWhole' /\ (None \in R!Errors => Len(got) + n >= None.at) => RIInv'
    <3> HIDE DEF b
    <3>1. n = Len(R!Fragment) /\ n \in Nat
      BY <1>2
    <3>2. QED BY <2>3, <3>1, LineReturns
  <2> HIDE DEF b, f, n, g
  <2>7. LineIsWhole'
    <3>1. n > 0 /\ n \in Nat /\ g \in Nat
      BY <1>2, <1>6
    <3>2. \A i \in 1 .. n - cut : b[i] = g + i /\ input[g + i] # "lf"
      BY <2>4, <2>5
    <3>3. QED BY <2>2, <2>3, <2>5, <2>6, <3>1, <3>2, LineWithEnd
  <2>8. QED BY <2>6, <2>7, ErrorsApart
<1>7. QED BY <1>1, <1>4, <1>5, <1>6

-----------------------------------------------------------------------------
(* UnreadByte, UnreadRune, WriteTo, ResetErr and Reset *)

\* The last n bytes callers have are taken back.
LEMMA TakenBack ==
    ASSUME RIInv, NEW n \in Nat, n <= Len(got)
    PROVE  LET s == SubSeq(got, 1, Len(got) - n)
           IN  s \in Seq(Nat) /\ Len(s) = Len(got) - n /\ \A i \in 1 .. Len(s) : s[i] = i
<1> DEFINE m == Len(got) - n
           s == SubSeq(got, 1, m)
<1>1. m \in Nat /\ m <= Len(got) /\ got \in Seq(Nat) /\ Len(got) \in Nat
  BY Lengths DEF RIInv, ReaderTypes
<1> HIDE DEF m
<1>2. \A i \in 1 .. m : got[i] \in Nat /\ got[i] = i
  <2>1. \A i \in 1 .. m : i \in 1 .. Len(got)
    BY <1>1
  <2>2. QED BY <1>1, <2>1, ElementOfSeq DEF RIInv, InOrder
<1>3. /\ s \in Seq(Nat) /\ Len(s) = IF 1 <= m THEN m - 1 + 1 ELSE 0
      /\ \A i \in 1 .. m - 1 + 1 : s[i] = got[1 + i - 1]
  BY <1>1, <1>2, SubSeqProperties
<1> HIDE DEF s
<1>4. Len(s) = m /\ \A i \in 1 .. m : s[i] = got[i]
  BY <1>1, <1>3
<1>5. QED BY <1>2, <1>3, <1>4 DEF m, s

\* Places in the buffer when r goes back by n.
LEMMA GoBack ==
    ASSUME NEW g \in Nat, NEW x \in Nat, NEW n \in Nat, NEW w \in Nat, n <= g, n <= x, x <= w
    PROVE  /\ \A i \in Int : g - n + i - (x - n) = g + i - x
           /\ x - n \in 0 .. w
           /\ g - n + w - (x - n) = g + (w - x)
           /\ \A i \in x - n + 1 .. w : i \in Int /\ (i \in x - n + 1 .. x \/ i \in x + 1 .. w)
OBVIOUS

LEMMA UnreadByteKeeps ==
    ASSUME RIInv, ~Unreads, R!UnreadByte
    PROVE  RIInv'
<1>1. UNCHANGED <<input, taken, rerr>>
  BY DEF R!UnreadByte, R!source
<1>2. CASE R!Return("unreadbyte", <<>>, R!Invalid) /\ UNCHANGED <<rbuf, r, lastByte, lastRune, got>>
  <2>1. /\ call'.op = "idle" /\ call' \in [op : Ops, n : Nat, held : Seq(Nat)]
        /\ CallHolds' /\ ErrorsAreLate' /\ LineIsWhole'
    BY <1>1, <1>2, Returning, ErrorsApart
  <2>2. LastIsLast'
    BY <1>2, <2>1, SameLast
  <2>3. QED BY <1>1, <1>2, <2>1, <2>2, Keeping
<1>3. ASSUME lastByte # None, r > 0 \/ Len(rbuf) = 0,
             \/ r > 0 /\ r' = r - 1 /\ rbuf' = [rbuf EXCEPT ![r] = lastByte]
             \/ r = 0 /\ r' = 0 /\ rbuf' = <<lastByte>>,
             lastByte' = None, lastRune' = None,
             got' = R!Front(got), R!Return("unreadbyte", <<>>, None)
      PROVE  RIInv'
  <2>1. lastByte = Len(got) /\ Len(got) \in Nat \ {0}
    BY <1>3, Lengths DEF RIInv, LastIsLast, R!UnreadByte, R!PutBackLast
  <2>2. /\ got' \in Seq(Nat) /\ Len(got') = Len(got) - 1
        /\ \A i \in 1 .. Len(got') : got'[i] = i
    <3>1. got' = SubSeq(got, 1, Len(got) - 1)
      BY <1>3 DEF R!Front
    <3>2. 1 \in Nat /\ 1 <= Len(got)
      BY <2>1
    <3>3. QED BY <3>1, <3>2, TakenBack
  <2>3. /\ call'.op = "idle" /\ call' \in [op : Ops, n : Nat, held : Seq(Nat)]
        /\ CallHolds' /\ ErrorsAreLate' /\ LineIsWhole'
    BY <1>1, <1>3, Returning, ErrorsApart
  <2>4. /\ rbuf' \in Seq(Nat) /\ Len(rbuf') <= ReaderSize /\ r' \in 0 .. Len(rbuf')
        /\ Len(got') + Len(rbuf') - r' = taken
        /\ \A i \in r' + 1 .. Len(rbuf') : rbuf'[i] = Len(got') + i - r'
    <3>1. CASE r > 0 /\ r' = r - 1 /\ rbuf' = [rbuf EXCEPT ![r] = lastByte]
      <4>1. r \in 1 .. Len(rbuf) /\ lastByte \in Nat /\ rbuf \in Seq(Nat)
        BY <2>1, <3>1, Lengths DEF RIInv, ReaderTypes
      <4>2. /\ rbuf' \in Seq(Nat) /\ Len(rbuf') = Len(rbuf)
            /\ \A j \in 1 .. Len(rbuf) : rbuf'[j] = IF j = r THEN lastByte ELSE rbuf[j]
        BY <3>1, <4>1, ExceptSeq
      <4>3. ASSUME NEW i \in r - 1 + 1 .. Len(rbuf)
            PROVE  rbuf'[i] = Len(got) - 1 + i - (r - 1)
        <5>1. i \in 1 .. Len(rbuf) /\ i \in r .. Len(rbuf)
          BY <4>1, Lengths
        <5>2. CASE i = r
          <6>1. rbuf'[i] = Len(got)
            BY <2>1, <4>2, <5>1, <5>2
          <6>2. Len(got) = Len(got) - 1 + i - (r - 1)
            BY <2>1, <5>2, Lengths
          <6>3. QED BY <6>1, <6>2
        <5>3. CASE i # r
          <6>1. i \in r + 1 .. Len(rbuf) /\ Len(got) + i - r = Len(got) - 1 + i - (r - 1)
            <7>1. /\ r \in Nat /\ 1 <= r /\ r <= Len(rbuf) /\ Len(rbuf) \in Nat /\ Len(got) \in Nat
                  /\ 1 <= Len(got) /\ 1 \in Nat
              BY <2>1, <4>1, Lengths
            <7>2. i \in Int /\ Len(got) - 1 + i - (r - 1) = Len(got) + i - r
              BY <5>1, <7>1, GoBack
            <7>3. i \in r + 1 .. Len(rbuf)
              BY <5>1, <5>3, <7>1
            <7>4. QED BY <7>2, <7>3
          <6>2. rbuf[i] = Len(got) + i - r
            BY <6>1 DEF RIInv, InOrder
          <6>3. rbuf'[i] = rbuf[i]
            BY <4>2, <5>1, <5>3
          <6>4. QED BY <6>1, <6>2, <6>3
        <5>4. QED BY <5>2, <5>3
      <4>4. Len(got) - 1 + Len(rbuf) - (r - 1) = taken
        BY <2>1, <4>1, Lengths
      <4>5. r - 1 \in 0 .. Len(rbuf) /\ Len(rbuf) <= ReaderSize
        BY <3>1, Lengths DEF RIInv, ReaderTypes
      <4>6. QED BY <2>2, <3>1, <4>2, <4>3, <4>4, <4>5
    <3>2. CASE r = 0 /\ r' = 0 /\ rbuf' = <<lastByte>>
      <4>1. Len(rbuf) = 0 /\ lastByte \in Nat
        BY <1>3, <2>1, <3>2
      <4>2. rbuf' \in Seq(Nat) /\ Len(rbuf') = 1 /\ rbuf'[1] = Len(got)
        BY <2>1, <3>2, <4>1
      <4>3. Len(got) - 1 + 1 - 0 = taken /\ ReaderSize >= 1
        BY <2>1, <3>2, <4>1, Lengths
      <4>4. \A i \in 0 + 1 .. 1 : rbuf'[i] = Len(got) - 1 + i - 0
        BY <2>1, <4>2
      <4>5. QED BY <2>2, <3>2, <4>2, <4>3, <4>4, Lengths
    <3>3. QED BY <1>3, <3>1, <3>2
  <2>5. ReaderTypes' /\ InOrder'
    BY <1>1, <2>2, <2>3, <2>4 DEF RIInv, ReaderTypes, InOrder
  <2>6. LastIsLast'
    BY <1>3, <2>3 DEF LastIsLast
  <2>7. ErrorWaits'
    BY <1>1, SameError
  <2>8. QED BY <2>3, <2>5, <2>6, <2>7 DEF RIInv
<1>4. r > 0 \/ r = 0
  BY Lengths
<1>5. Len(rbuf) > 0 \/ Len(rbuf) = 0
  BY Lengths
<1>6. QED BY <1>2, <1>3, <1>4, <1>5 DEF R!UnreadByte, R!last

LEMMA UnreadRuneKeeps ==
    ASSUME RIInv, R!UnreadRune
    PROVE  RIInv'
<1>1. UNCHANGED <<input, taken, rbuf, rerr>>
  BY DEF R!UnreadRune, R!source
<1>2. CASE R!Return("unreadrune", <<>>, R!Invalid) /\ UNCHANGED <<r, lastByte, lastRune, got>>
  <2>1. /\ call'.op = "idle" /\ call' \in [op : Ops, n : Nat, held : Seq(Nat)]
        /\ CallHolds' /\ ErrorsAreLate' /\ LineIsWhole'
    BY <1>1, <1>2, Returning, ErrorsApart
  <2>2. LastIsLast'
    BY <1>1, <1>2, <2>1, SameLast
  <2>3. QED BY <1>1, <1>2, <2>1, <2>2, Keeping
<1>3. ASSUME lastRune # None, ~(r < lastRune), r' = r - lastRune,
             lastByte' = None, lastRune' = None,
             got' = SubSeq(got, 1, Len(got) - lastRune), R!Return("unreadrune", <<>>, None)
      PROVE  RIInv'
  <2>1. /\ lastRune \in 1 .. 2 /\ lastRune <= Len(got) /\ lastRune <= r /\ lastRune \in Nat
        /\ \A i \in r - lastRune + 1 .. r : rbuf[i] = Len(got) + i - r
    <3>1. r \in Nat
      BY Lengths
    <3>2. lastRune \in 1 .. 2 /\ lastRune <= Len(got)
      BY <1>3 DEF RIInv, LastIsLast
    <3>3. lastRune \in Nat /\ lastRune <= r
      BY <1>3, <3>1, <3>2
    <3>4. \A i \in r - lastRune + 1 .. r : rbuf[i] = Len(got) + i - r
      BY <1>3, <3>3 DEF RIInv, LastIsLast
    <3>5. QED BY <3>2, <3>3, <3>4
  <2>2. /\ got' \in Seq(Nat) /\ Len(got') = Len(got) - lastRune
        /\ \A i \in 1 .. Len(got') : got'[i] = i
    BY <1>3, <2>1, TakenBack
  <2>3. /\ call'.op = "idle" /\ call' \in [op : Ops, n : Nat, held : Seq(Nat)]
        /\ CallHolds' /\ ErrorsAreLate' /\ LineIsWhole'
    BY <1>1, <1>3, Returning, ErrorsApart
  <2>4. /\ Len(got) \in Nat /\ r \in Nat /\ lastRune \in Nat /\ Len(rbuf) \in Nat
        /\ lastRune <= Len(got) /\ lastRune <= r /\ r <= Len(rbuf)
    BY <2>1, Lengths
  <2>5. /\ \A i \in r - lastRune + 1 .. Len(rbuf) :
             rbuf[i] = Len(got) - lastRune + i - (r - lastRune)
        /\ r' \in 0 .. Len(rbuf) /\ Len(got) - lastRune + Len(rbuf) - (r - lastRune) = taken
    <3>1. ASSUME NEW i \in r - lastRune + 1 .. Len(rbuf)
          PROVE  rbuf[i] = Len(got) - lastRune + i - (r - lastRune)
      <4>1. /\ i \in r - lastRune + 1 .. r \/ i \in r + 1 .. Len(rbuf)
            /\ Len(got) - lastRune + i - (r - lastRune) = Len(got) + i - r
        BY <2>4, GoBack
      <4>2. \A j \in r + 1 .. Len(rbuf) : rbuf[j] = Len(got) + j - r
        BY DEF RIInv, InOrder
      <4>3. QED BY <2>1, <4>1, <4>2
    <3>2. /\ r - lastRune \in 0 .. Len(rbuf)
          /\ Len(got) - lastRune + Len(rbuf) - (r - lastRune) = Len(got) + (Len(rbuf) - r)
      BY <2>4, GoBack
    <3>3. QED BY <1>3, <3>1, <3>2, Lengths
  <2>6. ReaderTypes' /\ InOrder'
    BY <1>1, <1>3, <2>2, <2>3, <2>5 DEF RIInv, ReaderTypes, InOrder
  <2>7. LastIsLast'
    BY <1>3, <2>3 DEF LastIsLast
  <2>8. ErrorWaits'
    BY <1>1, SameError
  <2>9. QED BY <2>3, <2>6, <2>7, <2>8 DEF RIInv
<1>4. QED BY <1>2, <1>3 DEF R!UnreadRune, R!last

LEMMA WriteBufKeeps ==
    ASSUME RIInv, R!WriteBuf
    PROVE  RIInv'
<1>1. /\ UNCHANGED <<rbuf, rerr, lastByte, lastRune>> /\ call.op = "writeto, write"
  BY DEF R!WriteBuf, R!last
<1>2. lastByte' = None /\ lastRune' = None /\ answer = R!Nothing
  BY <1>1 DEF RIInv, LastIsLast, CallHolds, Forgetful
<1>3. LastIsLast'
  BY <1>2 DEF LastIsLast
<1>4. CASE /\ R!Take(R!Buffered) /\ call' = [call EXCEPT !.op = "writeto, fill"]
           /\ UNCHANGED <<input, taken, answer>>
  <2>1. /\ call' \in [op : Ops, n : Nat, held : Seq(Nat)] /\ call'.held = call.held
        /\ call'.op = "writeto, fill"
    BY <1>4 DEF RIInv, ReaderTypes, Ops
  <2>2. answer' = R!Nothing
    BY <1>2, <1>4
  <2>3. CallHolds'
    <3>1. \A i \in 1 .. Len(call.held) : call.held[i] \in 1 .. taken /\ input[call.held[i]] # "lf"
      BY <1>1 DEF RIInv, CallHolds
    <3>2. taken' = taken /\ input' = input /\ call'.held = call.held /\ answer' = R!Nothing
      BY <1>4, <2>1, <2>2
    <3>3. QED BY <3>1, <3>2 DEF CallHolds, R!Nothing
  <2>4. ErrorsAreLate' /\ LineIsWhole'
    BY <2>2, Untold
  <2>5. R!Buffered \in Nat /\ R!Buffered <= Len(rbuf) - r
    BY Lengths
  <2>6. QED BY <1>1, <1>3, <1>4, <2>1, <2>3, <2>4, <2>5, Handing
<1>5. ASSUME NEW k, NEW e \in {None} \cup R!Errors, R!Gives(k, Len(input), e),
             r' = Len(rbuf), got' = got \o R!Unread \o R!Given(k),
             R!Return("writeto", <<>>, IF e # None /\ e.kind = "eof" THEN None ELSE e)
      PROVE  RIInv'
  <2>1. /\ k \in Nat /\ input' = input /\ taken' = taken + k /\ taken' \in 0 .. Len(input)
        /\ e \in R!Errors => e.at = taken'
        /\ R!Given(k) \in Seq(Nat) /\ Len(R!Given(k)) = k
        /\ \A i \in 1 .. k : R!Given(k)[i] = taken + i
    BY <1>5, Giving, Lengths
  <2>2. /\ R!Unread \in Seq(Nat) /\ Len(R!Unread) = Len(rbuf) - r
        /\ \A i \in 1 .. Len(rbuf) - r : R!Unread[i] = Len(got) + i
    BY UnreadHolds
  <2> DEFINE u == R!Unread
             v == R!Given(k)
             n == Len(rbuf) - r
  <2>3. n \in Nat /\ Len(got) \in Nat /\ got \in Seq(Nat) /\ taken = Len(got) + n
    BY Lengths DEF RIInv, ReaderTypes
  <2>4. got' = got \o (u \o v)
    <3>1. u \in Seq(Nat) /\ v \in Seq(Nat) /\ got \in Seq(Nat) /\ got' = (got \o u) \o v
      BY <1>5, <2>1, <2>2, <2>3
    <3> HIDE DEF u, v
    <3>2. QED BY <3>1, Associative
  <2>5. /\ u \o v \in Seq(Nat) /\ Len(u \o v) = n + k
        /\ \A i \in 1 .. n + k : (u \o v)[i] = Len(got) + i
    <3>1. /\ u \o v \in Seq(Nat) /\ Len(u \o v) = n + k
          /\ \A i \in 1 .. n + k : (u \o v)[i] = IF i <= n THEN u[i] ELSE v[i - n]
      <4>1. u \in Seq(Nat) /\ v \in Seq(Nat) /\ Len(u) = n /\ Len(v) = k
        BY <2>1, <2>2
      <4> HIDE DEF u, v, n
      <4>2. QED BY <4>1, ConcatProperties
    <3>2. ASSUME NEW i \in 1 .. n + k PROVE (u \o v)[i] = Len(got) + i
      <4>1. CASE i <= n
        <5> HIDE DEF u, v, n
        <5>1. i \in 1 .. n
          BY <2>3, <4>1
        <5>2. u[i] = Len(got) + i
          BY <2>2, <5>1 DEF u, n
        <5>3. QED BY <3>1, <4>1, <5>2
      <4>2. CASE ~(i <= n)
        <5> HIDE DEF u, v, n
        <5>1. i - n \in 1 .. k /\ taken + (i - n) = Len(got) + i
          BY <2>1, <2>3, <4>2
        <5>2. v[i - n] = taken + (i - n)
          BY <2>1, <5>1 DEF v
        <5>3. QED BY <3>1, <4>2, <5>1, <5>2
      <4>3. QED BY <4>1, <4>2
    <3>3. QED BY <3>1, <3>2
  <2> HIDE DEF u, v, n
  <2>6. n + k \in Nat /\ taken' = Len(got) + (n + k)
    BY <2>1, <2>3
  <2>7. got' \in Seq(Nat) /\ Len(got') = Len(got) + (n + k) /\ InOrder'
    BY <1>1, <1>5, <2>1, <2>4, <2>5, <2>6, Through
  <2>8. /\ call'.op = "idle" /\ call' \in [op : Ops, n : Nat, held : Seq(Nat)]
        /\ CallHolds' /\ ErrorsAreLate' /\ LineIsWhole'
    <3> DEFINE x == IF e # None /\ e.kind = "eof" THEN None ELSE e
    <3>1. x \in R!Errors => x = e
      BY ErrorsApart
    <3>2. R!Return("writeto", <<>>, x)
      BY <1>5
    <3> HIDE DEF x
    <3>3. x \in R!Errors => Len(got') >= x.at
      BY <2>1, <2>3, <2>6, <2>7, <3>1
    <3>4. QED BY <2>1, <3>2, <3>3, Returning
  <2>9. ReaderTypes'
    <3>1. r' \in 0 .. Len(rbuf)
      BY <1>5, Lengths
    <3>2. QED BY <1>1, <2>1, <2>7, <2>8, <3>1 DEF RIInv, ReaderTypes
  <2>10. ErrorWaits'
    <3>1. R!Errors' = R!Errors /\ rerr' = rerr
      BY <1>1, <2>1 DEF R!Errors
    <3>2. rerr \in R!Errors => rerr.at <= taken'
      <4>1. rerr \in R!Errors => rerr.at \in Nat /\ rerr.at <= taken
        BY DEF RIInv, ErrorWaits, R!Errors
      <4>2. QED BY <2>1, <2>3, <4>1
    <3>3. QED BY <3>1, <3>2 DEF RIInv, ErrorWaits
  <2>11. QED BY <1>3, <2>7, <2>8, <2>9, <2>10 DEF RIInv
<1>6. ASSUME NEW k \in 0 .. R!Buffered, R!Take(k), R!Return("writeto", <<>>, R!WriteFault),
             UNCHANGED <<input, taken>>
      PROVE  RIInv'
  <2>1. k \in Nat /\ k <= Len(rbuf) - r
    BY Lengths
  <2>2. /\ call' \in [op : Ops, n : Nat, held : Seq(Nat)]
        /\ CallHolds' /\ ErrorsAreLate' /\ LineIsWhole'
    BY <1>6, Returning, ErrorsApart
  <2>3. QED BY <1>1, <1>3, <1>6, <2>1, <2>2, Handing
<1>7. QED BY <1>4, <1>5, <1>6 DEF R!WriteBuf, R!source

LEMMA WriteToNextKeeps ==
    ASSUME RIInv, R!WriteToNext
    PROVE  RIInv'
<1>1. /\ UNCHANGED <<input, taken, rbuf, r, lastByte, lastRune, got>> /\ call.op = "writeto, filled"
  BY DEF R!WriteToNext, R!source, R!last
<1>2. CASE R!Buffered > 0
  <2>1. call' = [call EXCEPT !.op = "writeto, write", !.n = 1] /\ UNCHANGED <<rerr, answer>>
    BY <1>2 DEF R!WriteToNext
  <2>2. /\ call' \in [op : Ops, n : Nat, held : Seq(Nat)] /\ call'.held = call.held
        /\ call'.op = "writeto, write"
    BY <2>1 DEF RIInv, ReaderTypes, Ops
  <2>3. answer' = R!Nothing /\ lastByte' = None /\ lastRune' = None
    BY <1>1, <2>1 DEF RIInv, CallHolds, LastIsLast, Forgetful
  <2>4. CallHolds'
    BY <1>1, <2>2, <2>3 DEF RIInv, CallHolds, R!Nothing
  <2>5. ErrorsAreLate' /\ LineIsWhole'
    BY <2>3, Untold
  <2>6. LastIsLast'
    BY <2>3 DEF LastIsLast
  <2>7. QED BY <1>1, <2>1, <2>2, <2>4, <2>5, <2>6, Keeping
<1>3. CASE ~(R!Buffered > 0)
  <2> DEFINE x == IF rerr # None /\ rerr.kind = "eof" THEN None ELSE rerr
  <2>1. R!Return("writeto", <<>>, x) /\ rerr' = None
    BY <1>3 DEF R!WriteToNext
  <2>2. x \in R!Errors => x = rerr /\ R!Buffered = 0
    BY <1>3, Lengths, ErrorsApart
  <2> HIDE DEF x
  <2>3. QED BY <1>1, <2>1, <2>2, Telling
<1>4. QED BY <1>2, <1>3

\* A reader with nothing read.
LEMMA FreshReader ==
    ASSUME input \in Inputs, taken = 0, rbuf = <<>>, r = 0, rerr = None,
           lastByte = None, lastRune = None, got = <<>>, answer = R!Nothing,
           call \in [op : Ops, n : Nat, held : Seq(Nat)], call.op = "idle"
    PROVE  RIInv
<1>1. Len(input) \in Nat /\ ReaderSize \in Nat
  BY InputsAreBytes, LenProperties, ReaderSizeIsPositive
<1>2. rbuf \in Seq(Nat) /\ Len(rbuf) = 0 /\ got \in Seq(Nat) /\ Len(got) = 0
  BY EmptySeq
<1>3. ReaderTypes
  BY <1>1, <1>2 DEF ReaderTypes
<1>4. InOrder
  <2>1. \A i \in 0 + 1 .. Len(rbuf) : FALSE
    BY <1>2
  <2>2. \A i \in 1 .. Len(got) : FALSE
    BY <1>2
  <2>3. QED BY <1>2, <2>1, <2>2 DEF InOrder
<1>5. LastIsLast /\ ErrorWaits /\ CallHolds
  BY ErrorsApart DEF LastIsLast, ErrorWaits, CallHolds
<1>6. ErrorsAreLate /\ LineIsWhole
  <2>1. answer.op = "none" /\ answer.err = None
    BY DEF R!Nothing
  <2>2. QED BY <2>1, ErrorsApart DEF ErrorsAreLate, LineIsWhole, R!LineIsWhole
<1>7. QED BY <1>3, <1>4, <1>5, <1>6 DEF RIInv

LEMMA ResetKeeps ==
    ASSUME RIInv, R!Reset
    PROVE  RIInv'
<1>1. /\ input' \in Inputs /\ taken' = 0 /\ rbuf' = <<>> /\ r' = 0 /\ rerr' = None
      /\ lastByte' = None /\ lastRune' = None /\ got' = <<>> /\ answer' = R!Nothing
      /\ call' = call /\ call.op = "idle"
  BY DEF R!Reset
<1>2. Len(input') \in Nat /\ ReaderSize \in Nat
  BY <1>1, InputsAreBytes, LenProperties, ReaderSizeIsPositive
<1>3. rbuf' \in Seq(Nat) /\ Len(rbuf') = 0 /\ got' \in Seq(Nat) /\ Len(got') = 0
  BY <1>1, EmptySeq
<1>4. ReaderTypes'
  BY <1>1, <1>2, <1>3 DEF RIInv, ReaderTypes
<1>5. InOrder'
  <2>1. \A i \in 0 + 1 .. Len(rbuf') : FALSE
    BY <1>3
  <2>2. \A i \in 1 .. Len(got') : FALSE
    BY <1>3
  <2>3. QED BY <1>1, <1>3, <2>1, <2>2 DEF InOrder
<1>6. LastIsLast' /\ ErrorWaits' /\ CallHolds'
  <2>1. None \in {None, R!NoProgress} \cup R!Errors' /\ None \notin R!Errors'
    <3>1. \A e \in R!Errors' : e \in
             [kind : {"fault", "eof", "full", "noprogress", "write", "invalid"}, at : Nat]
      BY DEF R!Errors
    <3>2. QED BY <3>1, NoneIsNoError
  <2>2. QED BY <1>1, <2>1 DEF LastIsLast, ErrorWaits, CallHolds
<1>7. QED BY <1>1, <1>4, <1>5, <1>6, Untold DEF RIInv

LEMMA ResetErrKeeps ==
    ASSUME RIInv, R!ResetErr
    PROVE  RIInv'
BY Telling DEF R!ResetErr, R!TellError, R!source, R!last

LEMMA ReaderInit == R!Init => RIInv
<1>1. SUFFICES ASSUME R!Init PROVE RIInv
  OBVIOUS
<1>2. /\ call = R!Idle
      /\ input \in Inputs /\ taken = 0 /\ rbuf = <<>> /\ r = 0 /\ rerr = None
      /\ lastByte = None /\ lastRune = None /\ got = <<>> /\ answer = R!Nothing
  BY <1>1 DEF R!Init
<1>3. call \in [op : Ops, n : Nat, held : Seq(Nat)] /\ call.op = "idle"
  BY <1>2, EmptySeq DEF R!Idle, Ops
<1>4. QED BY <1>2, <1>3, FreshReader

LEMMA ReaderStep ==
    ASSUME RIInv, ~Unreads, [R!Next]_reader
    PROVE  RIInv'
<1>1. CASE UNCHANGED reader
  BY <1>1 DEF reader, RIInv, ReaderTypes, InOrder, LastIsLast, ErrorWaits, CallHolds,
              ErrorsAreLate, LineIsWhole, R!LineIsWhole, R!Errors
<1>2. ASSUME NEW n \in 0 .. MaxArg,
             R!Begin("peek", n) \/ R!Begin("discard", n) \/ R!Read(n)
      PROVE  RIInv'
  <2>1. n \in Nat
    BY MaxArgIsNat
  <2>2. ASSUME NEW op \in {"peek", "discard"}, R!Begin(op, n) PROVE RIInv'
    BY <2>1, <2>2, BeginKeeps DEF Ops, Forgetful
  <2>3. QED BY <1>2, <2>1, <2>2, ReadKeeps
<1>3. ASSUME NEW op \in {"byte", "rune", "slice", "line", "bytes", "writeto, write"},
             R!Begin(op, 0)
      PROVE  RIInv'
  BY <1>3, BeginKeeps DEF Ops, Forgetful
<1>4. QED
  BY <1>1, <1>2, <1>3, FillKeeps, FillReadKeeps, PeekKeeps, DiscardKeeps, ReadByteKeeps,
     ReadRuneKeeps, ReadSliceKeeps, ReadBytesKeeps, ReadLineKeeps, UnreadByteKeeps,
     UnreadRuneKeeps, WriteBufKeeps, WriteToNextKeeps, ResetErrKeeps, ResetKeeps DEF R!Next

\* What callers have and what is buffered are the bytes taken.
LEMMA RIInvIsExact ==
    ASSUME RIInv
    PROVE  ReadsAreExact
<1> DEFINE n == Len(rbuf) - r
           u == R!Unread
           all == [i \in 1 .. taken |-> i]
<1>1. /\ u \in Seq(Nat) /\ Len(u) = n /\ \A i \in 1 .. n : u[i] = Len(got) + i
  BY UnreadHolds
<1>2. /\ got \in Seq(Nat) /\ Len(got) \in Nat /\ n \in Nat /\ Len(got) + n = taken
      /\ \A i \in 1 .. Len(got) : got[i] = i
  BY Lengths DEF RIInv, ReaderTypes, InOrder
<1>3. got \o u = all
  <2> HIDE DEF n, u
  <2>1. /\ got \o u \in Seq(Nat) /\ Len(got \o u) = taken
        /\ \A i \in 1 .. Len(got) + n : (got \o u)[i] = IF i <= Len(got) THEN got[i] ELSE u[i - Len(got)]
    BY <1>1, <1>2, ConcatProperties
  <2>2. ASSUME NEW i \in 1 .. taken PROVE (got \o u)[i] = i
    <3>1. i \in 1 .. Len(got) + n
      BY <1>2
    <3>2. CASE i <= Len(got)
      <4>1. i \in 1 .. Len(got)
        BY <1>2, <3>2
      <4>2. QED BY <1>2, <2>1, <3>1, <3>2, <4>1
    <3>3. CASE ~(i <= Len(got))
      <4>1. i - Len(got) \in 1 .. n /\ Len(got) + (i - Len(got)) = i
        BY <1>2, <3>3
      <4>2. QED BY <1>1, <2>1, <3>1, <3>3, <4>1
    <3>4. QED BY <3>2, <3>3
  <2>3. taken \in Nat
    BY <1>2
  <2>4. all \in Seq(Nat) /\ Len(all) = taken /\ \A i \in 1 .. taken : all[i] = i
    BY <2>3
  <2> HIDE DEF all
  <2>5. QED BY <2>1, <2>2, <2>4, SeqEqual
<1>4. answer.err \in R!Errors /\ answer.op # "reseterr" =>
        Len(got) + (IF answer.op = "peek" THEN Len(answer.bytes) ELSE 0) >= answer.err.at
  <2>1. Len(got) + 0 = Len(got)
    BY <1>2
  <2>2. QED BY <2>1 DEF RIInv, ErrorsAreLate
<1>5. QED BY <1>3, <1>4 DEF ReadsAreExact, R!StreamIsExact

LEMMA ReaderInductive ==
    ASSUME ~Unreads
    PROVE  R!Spec => []RIInv
<1>1. RIInv /\ [R!Next]_reader => RIInv'
  BY ReaderStep
<1>2. [R!Next]_R!vars => [R!Next]_reader
  BY DEF R!vars, R!source, R!last, reader
<1>4. QED BY <1>1, <1>2, ReaderInit, PTL DEF R!Spec

(* A Reader whose caller does not unread the byte that ReadLine put back:   *)
(* what callers have and what is buffered are the bytes taken, in order,    *)
(* and no error is told before the bytes that came before it.               *)
THEOREM ReadsAreAlwaysExact ==
    ASSUME ~Unreads
    PROVE  R!Spec => []ReadsAreExact
<1>1. RIInv => ReadsAreExact
  BY RIInvIsExact
<1>2. QED BY <1>1, ReaderInductive, PTL

(* Such a Reader's fragments end with the delimiter exactly when they are   *)
(* returned without an error, and its lines leave nothing out.              *)
THEOREM LinesAreAlwaysWhole ==
    ASSUME ~Unreads
    PROVE  R!Spec => []LineIsWhole
<1>1. RIInv => LineIsWhole
  BY DEF RIInv
<1>2. QED BY <1>1, ReaderInductive, PTL
=============================================================================
