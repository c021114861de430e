------------------------------- MODULE Vector -------------------------------
(* vector.Vector (rivetxcore/vector/vector.go): a slice with methods that   *)
(* change it.  A slice is a length and a backing array, which FromSlice,    *)
(* MoveDatas and Datas share and Clone and CopyDatas do not; the methods    *)
(* change the array in place when it has room, and leave it for a new one   *)
(* when it has not.                                                         *)
EXTENDS Naturals, Sequences, SequencesExt

CONSTANTS
    Vectors,
    Arrays,     \* the backing arrays there may be
    Val,        \* the elements
    Zero,       \* the zero value, what Delete leaves behind
    MaxLen      \* the longest array (bound)

VARIABLES
    array,      \* the elements of each backing array, up to its capacity
    datas,      \* of each vector: its backing array and its length
    shared,     \* the arrays that were given to two vectors (history)
    ideal       \* what each vector should hold (history)

vars == <<array, datas, shared, ideal>>

Arr(v) == datas[v].arr
Length(v) == datas[v].len
Contents(v) == SubSeq(array[Arr(v)], 1, Length(v))
Behind(v, n) == SubSeq(array[Arr(v)], n + 1, Len(array[Arr(v)]))
Places(v) == 1 .. Length(v)
Zeros(n) == [i \in 1 .. n |-> Zero]

Init ==
    /\ array = [a \in Arrays |-> <<>>]
    /\ LET home == CHOOSE h \in [Vectors -> Arrays] : IsInjective(h)
       IN datas = [v \in Vectors |-> [arr |-> home[v], len |-> 0]]
    /\ shared = {}
    /\ ideal = [v \in Vectors |-> <<>>]

-----------------------------------------------------------------------------
(* v gets the elements s in its array, with rest behind them; or in a new    *)
(* one, with or without room to spare, and nobody may be left with the old.  *)
(* New arrays differ in nothing, so that one stands for all.                 *)

Should(v, s) == ideal' = [ideal EXCEPT ![v] = s]

InPlace(v, s, rest) ==
    /\ array' = [array EXCEPT ![Arr(v)] = s \o rest]
    /\ datas' = [datas EXCEPT ![v].len = Len(s)]
    /\ UNCHANGED shared

Left(v) == IF \E u \in Vectors \ {v} : Arr(u) = Arr(v) THEN {} ELSE {Arr(v)}

Anew(v, s) ==
    \E spare \in 0 .. 1 : LET a == CHOOSE b \in Arrays : b \notin {Arr(u) : u \in Vectors} IN
        /\ Len(s) + spare <= MaxLen
        /\ array' = [b \in Arrays |-> IF b = a THEN s \o Zeros(spare)
                                      ELSE IF b \in Left(v) THEN <<>> ELSE array[b]]
        /\ datas' = [datas EXCEPT ![v] = [arr |-> a, len |-> Len(s)]]
        /\ shared' = shared \ Left(v)

\* append and slices.Insert
Grow(v, s) ==
    IF Len(s) <= Len(array[Arr(v)]) THEN InPlace(v, s, Behind(v, Len(s))) ELSE Anew(v, s)

\* v gets the slice of u, as FromSlice and MoveDatas do with Datas.
Share(v, u) ==
    /\ datas' = [datas EXCEPT ![v] = datas[u]]
    /\ array' = [b \in Arrays |-> IF b \in Left(v) \ {Arr(u)} THEN <<>> ELSE array[b]]

-----------------------------------------------------------------------------
(* The methods.  A vector that shares its array may have been changed through *)
(* another: what it should hold begins with what it holds.                     *)

Base(v) == IF Arr(v) \in shared THEN Contents(v) ELSE ideal[v]

New(v) == \E n \in 0 .. 1 : Anew(v, Zeros(n)) /\ Should(v, Zeros(n))

AppendOne(v, x) ==
    /\ Length(v) < MaxLen
    /\ Grow(v, Append(Contents(v), x)) /\ Should(v, Append(Base(v), x))

Insert(v, i, x) ==
    /\ Length(v) < MaxLen /\ i <= Length(v) + 1
    /\ Grow(v, InsertAt(Contents(v), i, x))
    /\ Should(v, SubSeq(Base(v), 1, i - 1) \o <<x>> \o SubSeq(Base(v), i, Length(v)))

Set(v, i, x) ==
    /\ i \in Places(v)
    /\ InPlace(v, [Contents(v) EXCEPT ![i] = x], Behind(v, Length(v)))
    /\ Should(v, ReplaceAt(Base(v), i, x))

\* Remove and RemoveRange: slices.Delete moves the elements behind j to i, and
\* clears what this leaves behind.
RemoveRange(v, i, j) ==
    /\ i \in Places(v) /\ j \in i .. Length(v)
    /\ LET keep == SubSeq(Contents(v), 1, i - 1) \o SubSeq(Contents(v), j + 1, Length(v))
       IN InPlace(v, keep, Zeros(j - i + 1) \o Behind(v, Length(v)))
    /\ Should(v, [k \in 1 .. Length(v) - (j - i + 1) |->
                    Base(v)[IF k < i THEN k ELSE k + (j - i + 1)]])

\* The last element takes the place of the one removed, and stays behind too.
RemoveFast(v, i) ==
    /\ i \in Places(v)
    /\ LET moved == [Contents(v) EXCEPT ![i] = Last(Contents(v))]
       IN InPlace(v, Front(moved), Behind(v, Length(v) - 1))
    /\ Should(v, Front(ReplaceAt(Base(v), i, Last(Base(v)))))

Clear(v) == InPlace(v, <<>>, Behind(v, 0)) /\ Should(v, <<>>)

\* Reverse; SortFunc too orders the elements in their array.
Reorder(v) ==
    /\ InPlace(v, Reverse(Contents(v)), Behind(v, Length(v)))
    /\ Should(v, Reverse(Base(v)))

\* a mutant: Clone and CopyDatas keep the array
CopyShares(v, u) == Share(v, u) /\ UNCHANGED shared /\ Should(v, Base(u))

\* Clone and CopyDatas
Copy(v, u) == Anew(v, Contents(u)) /\ Should(v, Base(u))

Move(v, u) ==
    /\ v # u
    /\ Share(v, u) /\ Should(v, Contents(u))
    /\ shared' = (shared \ (Left(v) \ {Arr(u)})) \cup {Arr(u)}

Next ==
    \E v \in Vectors :
        \/ New(v) \/ Clear(v) \/ Reorder(v)
        \/ \E x \in Val : AppendOne(v, x)
        \/ \E i \in 1 .. MaxLen + 1, x \in Val : Insert(v, i, x) \/ Set(v, i, x)
        \/ \E i \in 1 .. MaxLen, j \in 1 .. MaxLen : RemoveRange(v, i, j)
        \/ \E i \in 1 .. MaxLen : RemoveFast(v, i)
        \/ \E u \in Vectors : Copy(v, u) \/ Move(v, u)

Spec == Init /\ [][Next]_vars

-----------------------------------------------------------------------------
\* A vector whose slice was not given away holds what its own methods made of it:
\* no method of another vector, a clone or the one it was copied from among them,
\* writes into its array (the removals, Clear and appends that reuse one).
HoldsItsOwn == \A v \in Vectors : Arr(v) \notin shared => Contents(v) = ideal[v]
=============================================================================
