----------------------------- MODULE BufioReader -----------------------------
(* bufiox.Reader (rivetxcore/bufiox/bufio.go): the buffered reader through  *)
(* which a connection's Read goroutine receives.  The underlying reader     *)
(* gives what it likes of the bytes it is asked for, and an error with or   *)
(* without bytes; after a time limit the caller forgets the error           *)
(* (ResetErr) and reads on, so that an error is not the end of the stream.  *)
(*                                                                          *)
(* One goroutine uses a Reader; a step is a call, or one turn of the loop   *)
(* of a call.  A byte is its place in the input, which says of what kind    *)
(* it is, so that one lost, doubled or changed shows.                       *)
EXTENDS Naturals, Sequences, SequencesExt

CONSTANTS
    Size,       \* len(b.buf)
    Inputs,     \* the inputs there may be: the kinds of their bytes in order
    MaxEmpty,   \* maxConsecutiveEmptyReads
    MaxArg,     \* the longest argument of Read, Peek and Discard (bound)
    MaxFaults,  \* the errors the underlying reader gives (bound)
    Unreads,    \* UnreadByte is called after a ReadLine that put a byte back
    None        \* no byte, no rune, no error

\* A byte is plain, a carriage return, a line feed (the delimiter), or the
\* first or second byte of a rune of two.
ByteKind == {"plain", "cr", "lf", "lead", "cont"}
RuneMax == 2     \* utf8.UTFMax, of such runes

\* what a call may return besides the errors of the underlying reader
Full == [kind |-> "full", at |-> 0]
NoProgress == [kind |-> "noprogress", at |-> 0]
WriteFault == [kind |-> "write", at |-> 0]
Invalid == [kind |-> "invalid", at |-> 0]

VARIABLES
    input,      \* the kinds of the bytes the underlying reader gives, in order
    taken,      \* how many it has given
    faults,     \* how many errors it has given
    buf,        \* b.buf[0:b.w]
    r,          \* b.r
    err,        \* b.err, with the bytes given before it
    lastByte,   \* b.lastByte
    lastRune,   \* b.lastRuneSize
    call,       \* the call that runs, its argument, the bytes it holds
    tries,      \* fill's reads that are left, 0 when it does not run
    got,        \* history: the bytes callers have and did not unread
    answer      \* history: what the last call returned

source == <<input, taken, faults>>
last == <<lastByte, lastRune>>
vars == <<source, buf, r, err, last, call, tries, got, answer>>

Idle == [op |-> "idle", n |-> 0, held |-> <<>>]

Nothing == [op |-> "none", bytes |-> <<>>, err |-> None, more |-> FALSE]

Smaller(m, n) == IF m < n THEN m ELSE n
Given(n) == [i \in 1 .. n |-> taken + i]
Buffered == Len(buf) - r
Unread == SubSeq(buf, r + 1, Len(buf))
KindAt(i) == input[buf[r + i]]

\* the place of the first delimiter in the buffer, 0 when there is none
Delim == IF \E i \in 1 .. Buffered : KindAt(i) = "lf"
         THEN CHOOSE i \in 1 .. Buffered :
                KindAt(i) = "lf" /\ \A j \in 1 .. i - 1 : KindAt(j) # "lf"
         ELSE 0

\* utf8.FullRune and the size of utf8.DecodeRune of what is buffered
FullRune == Buffered > 0 /\ (KindAt(1) = "lead" => Buffered > 1)
RuneSize == IF Buffered > 1 /\ KindAt(1) = "lead" /\ KindAt(2) = "cont" THEN 2 ELSE 1

-----------------------------------------------------------------------------
(* The underlying reader, fill and readErr *)

\* Read gives n of at most size bytes, with an error e or None: the end of the
\* input, or another one, after which it may go on.
Gives(n, size, e) ==
    /\ n \in 0 .. Smaller(size, Len(input) - taken)
    /\ taken' = taken + n
    /\ \/ e = None /\ UNCHANGED faults
       \/ /\ faults < MaxFaults /\ faults' = faults + 1
          /\ \E k \in {"fault"} \cup (IF taken + n = Len(input) THEN {"eof"} ELSE {}) :
                e = [kind |-> k, at |-> taken + n]
    /\ UNCHANGED input

Errors == [kind : {"fault", "eof"}, at : 0 .. Len(input)]

\* what the call that runs returns
Return(op, bytes, e) ==
    /\ call' = Idle
    /\ answer' = [op |-> op, bytes |-> bytes, err |-> e, more |-> FALSE]

\* The loop of the call that runs asks for more bytes.
Wants ==
    \/ call.op = "peek" /\ Buffered < call.n /\ Buffered < Size /\ err = None
    \/ call.op = "discard" /\ Buffered = 0
    \/ call.op = "byte" /\ Buffered = 0 /\ err = None
    \/ call.op = "rune" /\ Buffered < RuneMax /\ ~FullRune /\ err = None /\ Buffered < Size
    \/ call.op \in {"slice", "line", "bytes"} /\ Delim = 0 /\ err = None /\ Buffered < Size
    \/ call.op = "writeto, fill"

\* What is left moves to the beginning.
Slide == buf' = Unread /\ r' = 0

Fill ==
    /\ tries = 0 /\ Wants
    /\ Slide
    /\ tries' = MaxEmpty
    /\ UNCHANGED <<source, err, last, call, got, answer>>

\* fill is done: a call that asks once goes on.
Filled == CASE call.op = "discard" -> [call EXCEPT !.op = "discard, filled"]
            [] call.op = "writeto, fill" -> [call EXCEPT !.op = "writeto, filled"]
            [] OTHER -> call

FillRead ==
    /\ tries > 0
    /\ \E n \in 0 .. Size, e \in {None} \cup Errors :
        /\ Gives(n, Size - Len(buf), e)
        /\ buf' = buf \o Given(n)
        /\ IF e # None \/ n > 0
             THEN tries' = 0 /\ call' = Filled /\ err' = (IF e # None THEN e ELSE err)
             ELSE /\ tries' = tries - 1
                  /\ IF tries = 1 THEN call' = Filled /\ err' = NoProgress
                                  ELSE UNCHANGED <<call, err>>
    /\ UNCHANGED <<r, last, got, answer>>

-----------------------------------------------------------------------------
(* The calls: each begins when no other runs *)

Begin(op, n) ==
    /\ call.op = "idle"
    /\ call' = [op |-> op, n |-> n, held |-> <<>>]
    /\ IF op \in {"peek", "discard", "writeto, write"} THEN lastByte' = None ELSE UNCHANGED lastByte
    /\ IF op \in {"peek", "discard", "writeto, write", "byte"}
         THEN lastRune' = None ELSE UNCHANGED lastRune
    /\ answer' = Nothing
    /\ UNCHANGED <<source, buf, r, err, tries, got>>

\* n bytes of the buffer go to the caller
Take(n) ==
    /\ r' = r + n
    /\ got' = got \o SubSeq(buf, r + 1, r + n)

Runs(op) == call.op = op /\ tries = 0 /\ ~Wants

Peek ==
    /\ Runs("peek")
    /\ \/ /\ call.n > Size
          /\ Return("peek", Unread, Full) /\ UNCHANGED err
       \/ /\ call.n <= Size /\ Buffered < call.n
          /\ Return("peek", Unread, IF err = None THEN Full ELSE err) /\ err' = None
       \/ /\ call.n <= Size /\ Buffered >= call.n
          /\ Return("peek", SubSeq(buf, r + 1, r + call.n), None) /\ UNCHANGED err
    /\ UNCHANGED <<source, buf, r, last, tries, got>>

Discard ==
    /\ tries = 0 /\ call.op \in {"discard", "discard, filled"} /\ ~Wants
    /\ LET skip == Smaller(Buffered, call.n) IN
        /\ Take(skip)
        /\ IF skip = call.n THEN Return("discard", <<>>, None) /\ UNCHANGED err
           ELSE IF err # None THEN Return("discard", <<>>, err) /\ err' = None
           ELSE call' = [call EXCEPT !.op = "discard", !.n = @ - skip] /\ UNCHANGED <<err, answer>>
    /\ UNCHANGED <<source, buf, last, tries>>

\* The end of the call with the error that waited.
TellError(op) ==
    /\ Return(op, <<>>, err) /\ err' = None
    /\ UNCHANGED <<source, buf, r, last, tries, got>>

\* a mutant: the error that waits comes first
ErrorFirst == Buffered = 0 \/ err # None

\* ReadByte has no byte to give.
NoByte == Buffered = 0

ReadByte ==
    /\ Runs("byte")
    /\ IF NoByte THEN TellError("byte")
       ELSE /\ Take(1) /\ lastByte' = buf[r + 1]
            /\ Return("byte", <<buf[r + 1]>>, None)
            /\ UNCHANGED <<source, buf, err, lastRune, tries>>

ReadRune ==
    /\ Runs("rune")
    /\ IF Buffered = 0
         THEN /\ Return("rune", <<>>, err) /\ err' = None /\ lastRune' = None
              /\ UNCHANGED <<source, buf, r, lastByte, tries, got>>
         ELSE /\ Take(RuneSize) /\ lastByte' = buf[r + RuneSize] /\ lastRune' = RuneSize
              /\ Return("rune", SubSeq(buf, r + 1, r + RuneSize), None)
              /\ UNCHANGED <<source, buf, err, tries>>

\* Read of n bytes, from the buffer, or with one Read of the underlying reader
\* into the caller's slice when that is as large as the buffer, into the buffer
\* when it is smaller.
CopyOut(b, from, n, e) ==
    LET k == Smaller(n, Len(b) - from) IN
    /\ buf' = b /\ r' = from + k /\ err' = e
    /\ got' = got \o SubSeq(b, from + 1, from + k)
    /\ lastByte' = b[from + k] /\ lastRune' = None
    /\ Return("read", SubSeq(b, from + 1, from + k), None)

Read(n) ==
    /\ call.op = "idle"
    /\ \/ /\ n > 0 /\ Buffered > 0
          /\ CopyOut(buf, r, n, err) /\ UNCHANGED source
       \/ /\ Buffered = 0 /\ (n = 0 \/ err # None)
          /\ Return("read", <<>>, err) /\ err' = None
          /\ UNCHANGED <<source, buf, r, last, got>>
       \/ /\ n >= Size /\ Buffered = 0 /\ err = None
          /\ \E k \in 0 .. n, e \in {None} \cup Errors :
                /\ Gives(k, n, e)
                /\ got' = got \o Given(k)
                /\ IF k > 0 THEN lastByte' = taken + k /\ lastRune' = None ELSE UNCHANGED last
                /\ Return("read", Given(k), e)
          /\ UNCHANGED <<buf, r, err>>
       \/ /\ n \in 1 .. Size - 1 /\ Buffered = 0 /\ err = None
          /\ \E k \in 0 .. Size, e \in {None} \cup Errors :
                /\ Gives(k, Size, e)
                /\ IF k > 0 THEN CopyOut(Given(k), 0, n, e)
                   ELSE /\ buf' = <<>> /\ r' = 0 /\ Return("read", <<>>, e)
                        /\ UNCHANGED <<err, last, got>>
    /\ UNCHANGED tries

-----------------------------------------------------------------------------
(* ReadSlice, and ReadLine and collectFragments on it *)

\* What ReadSlice finds: up to the delimiter, or all there is with the error
\* that waits, or a full buffer.
Fragment == IF Delim > 0 THEN SubSeq(buf, r + 1, r + Delim) ELSE Unread
FragmentErr == IF Delim > 0 THEN None ELSE IF err # None THEN err ELSE Full

\* its end, with keep of the bytes: r, the pending error, the last byte
SliceEnd(keep) ==
    /\ Take(keep)
    /\ err' = IF Delim > 0 THEN err ELSE None
    /\ IF Fragment = <<>> THEN UNCHANGED last
                          ELSE lastByte' = Last(Fragment) /\ lastRune' = None
    /\ UNCHANGED <<source, buf, tries>>

ReadSlice ==
    /\ Runs("slice")
    /\ SliceEnd(Len(Fragment))
    /\ Return("slice", Fragment, FragmentErr)

\* ReadBytes and ReadString: full buffers are held until the last fragment.
ReadBytes ==
    /\ Runs("bytes")
    /\ SliceEnd(Len(Fragment))
    /\ IF FragmentErr = Full
         THEN call' = [call EXCEPT !.held = @ \o Fragment] /\ UNCHANGED answer
         ELSE Return("bytes", call.held \o Fragment, FragmentErr)

\* a mutant: a carriage return at the end of a full buffer is not put back
NoPutBack(bytes) == 0

\* how many bytes at the end of a full buffer are put back
PutBack(bytes) == IF Last(bytes) = "cr" THEN 1 ELSE 0

\* the length of the line end
LineEnd(bytes) ==
    IF Last(bytes) # "lf" THEN 0
    ELSE IF Len(bytes) > 1 /\ bytes[Len(bytes) - 1] = "cr" THEN 2 ELSE 1

\* A line, or with more the beginning of a line; the error is forgotten when
\* there are bytes.
ReadLine ==
    /\ Runs("line")
    /\ LET n == Len(Fragment)
           kinds == [i \in 1 .. n |-> input[Fragment[i]]]
           Line(cut, e, more) ==
              /\ call' = Idle
              /\ answer' = [op |-> "line", bytes |-> SubSeq(Fragment, 1, n - cut),
                            err |-> e, more |-> more]
       IN \/ FragmentErr = Full
             /\ SliceEnd(n - PutBack(kinds)) /\ Line(PutBack(kinds), None, TRUE)
          \/ FragmentErr # Full /\ n = 0
             /\ SliceEnd(0) /\ Line(0, FragmentErr, FALSE)
          \/ FragmentErr # Full /\ n > 0
             /\ SliceEnd(n) /\ Line(LineEnd(kinds), None, FALSE)

-----------------------------------------------------------------------------
(* UnreadByte, UnreadRune, WriteTo, ResetErr and Reset *)

\* A ReadLine put the last byte back, and no read followed.
PutBackLast == lastByte # None /\ lastByte = Len(got) + 1

UnreadByte ==
    /\ call.op = "idle" /\ (Unreads \/ ~PutBackLast)
    /\ IF lastByte = None \/ (r = 0 /\ Len(buf) > 0)
         THEN Return("unreadbyte", <<>>, Invalid) /\ UNCHANGED <<buf, r, last, got>>
         ELSE /\ IF r > 0 THEN r' = r - 1 /\ buf' = [buf EXCEPT ![r] = lastByte]
                          ELSE r' = 0 /\ buf' = <<lastByte>>
              /\ lastByte' = None /\ lastRune' = None
              /\ got' = Front(got)
              /\ Return("unreadbyte", <<>>, None)
    /\ UNCHANGED <<source, err, tries>>

UnreadRune ==
    /\ call.op = "idle"
    /\ IF lastRune = None \/ r < lastRune
         THEN Return("unreadrune", <<>>, Invalid) /\ UNCHANGED <<r, last, got>>
         ELSE /\ r' = r - lastRune
              /\ lastByte' = None /\ lastRune' = None
              /\ got' = SubSeq(got, 1, Len(got) - lastRune)
              /\ Return("unreadrune", <<>>, None)
    /\ UNCHANGED <<source, buf, err, tries>>

\* writeBuf: the writer takes all of the buffer, or less and fails.  After the
\* first one the underlying reader and the writer may do the rest between them.
WriteBuf ==
    /\ call.op = "writeto, write"
    /\ \/ /\ Take(Buffered)
          /\ call' = [call EXCEPT !.op = "writeto, fill"] /\ UNCHANGED <<source, answer>>
       \/ /\ call.n = 0
          /\ \E k \in 0 .. Len(input), e \in {None} \cup Errors :
                /\ e = None => k = Len(input) - taken
                /\ Gives(k, Len(input), e)
                /\ r' = Len(buf) /\ got' = got \o Unread \o Given(k)
                /\ Return("writeto", <<>>, IF e # None /\ e.kind = "eof" THEN None ELSE e)
       \/ /\ \E k \in 0 .. Buffered : Take(k)
          /\ Return("writeto", <<>>, WriteFault) /\ UNCHANGED source
    /\ UNCHANGED <<buf, err, last, tries>>

\* The loop of WriteTo, and its end, where the end of the input is no error.
WriteToNext ==
    /\ call.op = "writeto, filled"
    /\ IF Buffered > 0
         THEN call' = [call EXCEPT !.op = "writeto, write", !.n = 1] /\ UNCHANGED <<err, answer>>
         ELSE /\ Return("writeto", <<>>, IF err # None /\ err.kind = "eof" THEN None ELSE err)
              /\ err' = None
    /\ UNCHANGED <<source, buf, r, last, tries, got>>

ResetErr == call.op = "idle" /\ TellError("reseterr")

\* Reset to another reader: what is buffered is dropped, and its input begins.
Reset ==
    /\ call.op = "idle"
    /\ input' \in Inputs /\ taken' = 0 /\ UNCHANGED faults
    /\ buf' = <<>> /\ r' = 0 /\ err' = None
    /\ lastByte' = None /\ lastRune' = None
    /\ got' = <<>> /\ answer' = Nothing
    /\ UNCHANGED <<call, tries>>

-----------------------------------------------------------------------------
Init ==
    /\ input \in Inputs /\ taken = 0 /\ faults = 0
    /\ buf = <<>> /\ r = 0 /\ err = None
    /\ lastByte = None /\ lastRune = None
    /\ call = Idle /\ tries = 0 /\ got = <<>> /\ answer = Nothing

Next ==
    \/ \E n \in 0 .. MaxArg : Begin("peek", n) \/ (n > 0 /\ Begin("discard", n)) \/ Read(n)
    \/ \E op \in {"byte", "rune", "slice", "line", "bytes", "writeto, write"} : Begin(op, 0)
    \/ Fill \/ FillRead
    \/ Peek \/ Discard \/ ReadByte \/ ReadRune
    \/ ReadSlice \/ ReadBytes \/ ReadLine
    \/ UnreadByte \/ UnreadRune
    \/ WriteBuf \/ WriteToNext
    \/ ResetErr \/ Reset

Spec == Init /\ [][Next]_vars

-----------------------------------------------------------------------------
(* Properties *)

\* Bytes and errors come through in order.  What callers have and what is
\* buffered are together the bytes the underlying reader gave: none is lost,
\* doubled, changed or overtaken (fill's slide, Read's two ways past it,
\* ReadLine's byte put back, UnreadByte, UnreadRune).  An error of the
\* underlying reader is told after the bytes that came before it, by all but
\* ResetErr, which forgets it, and Peek, which hands none out.
StreamIsExact ==
    /\ got \o Unread = [i \in 1 .. taken |-> i]
    /\ answer.err \in Errors /\ answer.op # "reseterr" =>
        Len(got) + (IF answer.op = "peek" THEN Len(answer.bytes) ELSE 0) >= answer.err.at

\* ReadSlice and ReadBytes return an error exactly when their bytes do not end
\* with the delimiter; a line holds no line feed, and from it to what was read
\* there is nothing but its line end; the beginning of a line leaves nothing out
\* and does not end between a carriage return and the line feed.
LineIsWhole ==
    LET kinds == [i \in DOMAIN answer.bytes |-> input[answer.bytes[i]]]
        end == [i \in 1 .. Len(got) - Last(answer.bytes) |-> input[Last(answer.bytes) + i]]
    IN /\ answer.op \in {"slice", "bytes"} =>
            (answer.err = None <=> kinds # <<>> /\ Last(kinds) = "lf")
       /\ answer.op = "line" /\ kinds # <<>> =>
            /\ "lf" \notin Range(kinds)
            /\ end \in {<<>>, <<"lf">>, <<"cr", "lf">>}
            /\ end = <<"lf">> => Last(kinds) # "cr"
            /\ answer.more =>
                 /\ end = <<>>
                 /\ ~(Last(kinds) = "cr" /\ Len(got) < Len(input) /\ input[Len(got) + 1] = "lf")

\* UnreadByte unreads the last byte read, after ReadLine too: the byte that comes
\* next is the one after those callers still have (comment of ReadLine).
UnreadIsTheLastRead ==
    answer.op = "unreadbyte" /\ answer.err = None => Head(Unread) = Len(got) + 1
=============================================================================
