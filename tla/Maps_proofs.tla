---------------------------- MODULE Maps_proofs -----------------------------
(* For any keys, callers and maxSize: the list and the map of a LinkedMap   *)
(* mirror each other up to the callers between two steps of Add, and a key  *)
(* whose Add has not answered yet is not evicted.  For any keys, callers    *)
(* and number of shards: the calls of a ShardedMap are atomic calls of a    *)
(* set, and its counter is right up to the calls that have not counted.     *)
EXTENDS Maps, FiniteSetTheorems, TLAPS

-----------------------------------------------------------------------------
(* What pushing at the back and removing the front do to the keys of a list.*)

\* the elements after a push
LEMMA PushedKeys ==
    ASSUME NEW S, NEW s \in Seq(S), NEW k \in S
    PROVE  /\ Append(s, k) \in Seq(S)
           /\ ToSet(Append(s, k)) = ToSet(s) \cup {k}
           /\ Len(Append(s, k)) = Len(s) + 1
<1>1. /\ Append(s, k) \in Seq(S)
      /\ Len(Append(s, k)) = Len(s) + 1
      /\ \A i \in 1 .. Len(s) : Append(s, k)[i] = s[i]
      /\ Append(s, k)[Len(s) + 1] = k
  OBVIOUS
<1>2. DOMAIN Append(s, k) = 1 .. Len(s) + 1 /\ DOMAIN s = 1 .. Len(s) /\ Len(s) \in Nat
  BY <1>1
<1>3. 1 .. Len(s) + 1 = (1 .. Len(s)) \cup {Len(s) + 1}
  BY <1>2
<1>4. ToSet(Append(s, k)) = ToSet(s) \cup {k}
  BY <1>1, <1>2, <1>3 DEF ToSet
<1>5. QED BY <1>1, <1>4

\* a list without repetitions has none after a push of a new element
LEMMA PushedOnce ==
    ASSUME NEW S, NEW s \in Seq(S), NEW k \in S, IsInjective(s), k \notin ToSet(s)
    PROVE  IsInjective(Append(s, k))
BY DEF ToSet, IsInjective

\* the elements after the front is removed, in a list without repetitions
LEMMA RemovedFront ==
    ASSUME NEW S, NEW s \in Seq(S), s # <<>>, IsInjective(s)
    PROVE  /\ Tail(s) \in Seq(S)
           /\ Head(s) \in S
           /\ Head(s) \in ToSet(s)
           /\ ToSet(Tail(s)) = ToSet(s) \ {Head(s)}
           /\ IsInjective(Tail(s))
           /\ Len(Tail(s)) = Len(s) - 1
<1>1. Len(s) \in Nat \ {0} /\ Head(s) = s[1] /\ s \in [1 .. Len(s) -> S]
  OBVIOUS
<1>2. /\ Tail(s) \in Seq(S)
      /\ Len(Tail(s)) = Len(s) - 1
      /\ \A i \in 1 .. Len(s) - 1 : Tail(s)[i] = s[i + 1]
  OBVIOUS
<1>3. DOMAIN Tail(s) = 1 .. Len(s) - 1
  BY <1>2
<1>4. IsInjective(Tail(s))
  BY <1>1, <1>2, <1>3 DEF IsInjective
<1>5. ToSet(Tail(s)) \subseteq ToSet(s) \ {Head(s)}
  BY <1>1, <1>2, <1>3 DEF ToSet, IsInjective
<1>6. ToSet(s) \ {Head(s)} \subseteq ToSet(Tail(s))
  <2>1. SUFFICES ASSUME NEW i \in 1 .. Len(s), s[i] # s[1]
                 PROVE  s[i] \in ToSet(Tail(s))
    BY <1>1 DEF ToSet
  <2>2. i - 1 \in 1 .. Len(s) - 1 /\ s[i] = Tail(s)[i - 1]
    BY <1>1, <1>2, <2>1
  <2>3. QED BY <2>2, <1>3 DEF ToSet
<1>7. Head(s) \in S /\ Head(s) \in ToSet(s)
  BY <1>1 DEF ToSet
<1>8. ToSet(Tail(s)) = ToSet(s) \ {Head(s)}
  BY <1>5, <1>6
<1>9. QED BY <1>2, <1>4, <1>7, <1>8

-----------------------------------------------------------------------------
(* The inductive invariant.                                                 *)

\* the callers at work on the list hold the mutex
Holds == \A c \in Callers : pc[c] \in {"list", "delete", "unlock"} => Mutex = c

\* a key to be pushed is in the map and not on the list
ToPush == \A c \in Callers : Pushing(c) => key[c] \in Map \ ToSet(Keys)

\* and no other caller is about to push it
PushedByOne ==
    \A c, d \in Callers : Pushing(c) /\ Pushing(d) /\ key[c] = key[d] => c = d

\* a key to be deleted is off the list, and nobody is about to push it
ToDelete ==
    \A c \in Callers : pc[c] = "delete" =>
        /\ removed[c] \in Map \ ToSet(Keys)
        /\ \A d \in Callers : Pushing(d) => key[d] # removed[c]

\* a key that was pushed stays on the list while its caller holds the mutex
Pushed == \A c \in Callers : pc[c] \in {"delete", "unlock"} => key[c] \in ToSet(Keys)

\* the key of a caller in Add is a key
Busy == \A c \in Callers : pc[c] # "idle" => key[c] \in Key

IInv ==
    /\ TypeOK /\ Holds /\ Busy /\ ListMirrorsMap
    /\ ToPush /\ PushedByOne /\ ToDelete /\ Pushed

LEMMA InitIInv == Init => IInv
<1>1. SUFFICES ASSUME Init PROVE IInv
  OBVIOUS
<1>2. ToSet(<<>>) = {} /\ IsInjective(<<>>) /\ <<>> \in Seq(Key) /\ Len(<<>>) = 0
  BY DEF ToSet, IsInjective
<1>3. QED
  BY <1>1, <1>2, MaxSizeIsNat DEF Init, IInv, TypeOK, Holds, Busy, ListMirrorsMap,
     ToPush, PushedByOne, ToDelete, Pushed, Pushing

\* StoreNew preserves the invariant: the new key was in no set of the partition
LEMMA StoreNewIInv ==
    ASSUME IInv, NEW c \in Callers, NEW k \in Key, StoreNew(c, k)
    PROVE  IInv'
<1>1. TypeOK'
  BY DEF IInv, TypeOK, StoreNew
<1>2. /\ \A d \in Callers : d # c => pc'[d] = pc[d] /\ key'[d] = key[d]
      /\ pc'[c] = "lock" /\ key'[c] = k /\ pc[c] = "idle"
      /\ Keys' = Keys /\ removed' = removed /\ Mutex' = Mutex /\ Map' = Map \cup {k}
      /\ k \notin Map
  BY DEF IInv, TypeOK, StoreNew
<1>3. Holds' /\ Busy'
  BY <1>2 DEF IInv, Holds, Busy
<1>4. ListMirrorsMap'
  <2>1. IsInjective(Keys') /\ ToSet(Keys') \subseteq Map'
    BY <1>2 DEF IInv, ListMirrorsMap
  <2>2. ASSUME NEW j \in Map' \ ToSet(Keys')
        PROVE  \E d \in Callers : \/ Pushing(d)' /\ key'[d] = j
                                  \/ pc'[d] = "delete" /\ removed'[d] = j
    <3>1. CASE j = k
      BY <1>2, <3>1 DEF Pushing
    <3>2. CASE j # k
      <4>1. PICK d \in Callers : \/ Pushing(d) /\ key[d] = j
                                 \/ pc[d] = "delete" /\ removed[d] = j
        BY <1>2, <2>2, <3>2 DEF IInv, ListMirrorsMap
      <4>2. d # c
        BY <4>1, <1>2 DEF Pushing
      <4>3. QED BY <4>1, <4>2, <1>2 DEF Pushing
    <3>3. QED BY <3>1, <3>2
  <2>3. QED BY <2>1, <2>2 DEF ListMirrorsMap
<1>5. ToPush' /\ Pushed'
  BY <1>2 DEF IInv, ToPush, Pushed, Pushing, ListMirrorsMap
<1>6. PushedByOne'
  BY <1>2 DEF IInv, PushedByOne, ToPush, Pushing
<1>7. ToDelete'
  BY <1>2 DEF IInv, ToDelete, Pushing
<1>8. QED BY <1>1, <1>3, <1>4, <1>5, <1>6, <1>7 DEF IInv

\* Lock preserves the invariant: nothing but the mutex changes hands
LEMMA LockIInv ==
    ASSUME IInv, NEW c \in Callers, Lock(c)
    PROVE  IInv'
<1>1. TypeOK'
  BY DEF IInv, TypeOK, Lock
<1>2. /\ \A d \in Callers : d # c => pc'[d] = pc[d]
      /\ pc[c] = "lock" /\ pc'[c] = "list" /\ Mutex = NoCaller /\ Mutex' = c
      /\ Keys' = Keys /\ removed' = removed /\ key' = key /\ Map' = Map
  BY DEF IInv, TypeOK, Lock
<1>3. \A d \in Callers : (pc'[d] = "delete" <=> pc[d] = "delete") /\ (Pushing(d)' <=> Pushing(d))
  BY <1>2 DEF Pushing
<1>4. Holds'
  BY <1>2, NoCallerIsNone DEF IInv, Holds
<1>5. Busy'
  BY <1>2 DEF IInv, Busy
<1>6. ListMirrorsMap'
  BY <1>2, <1>3 DEF IInv, ListMirrorsMap
<1>7. ToPush' /\ PushedByOne' /\ ToDelete'
  BY <1>2, <1>3 DEF IInv, ToPush, PushedByOne, ToDelete
<1>8. Pushed'
  BY <1>2 DEF IInv, Pushed
<1>9. QED BY <1>1, <1>4, <1>5, <1>6, <1>7, <1>8 DEF IInv

\* MapDelete preserves the invariant: the key it deletes is off the list
LEMMA MapDeleteIInv ==
    ASSUME IInv, NEW c \in Callers, MapDelete(c)
    PROVE  IInv'
<1>1. TypeOK'
  BY DEF IInv, TypeOK, MapDelete
<1>2. PICK r : r = removed[c]
  OBVIOUS
<1>3. /\ \A d \in Callers : d # c => pc'[d] = pc[d] /\ removed'[d] = removed[d]
      /\ pc[c] = "delete" /\ pc'[c] = "unlock" /\ Mutex' = Mutex /\ Keys' = Keys
      /\ key' = key /\ Map' = Map \ {r}
  BY <1>2 DEF IInv, TypeOK, MapDelete
<1>4. /\ r \notin ToSet(Keys) /\ r \in Map
      /\ \A d \in Callers : Pushing(d) => key[d] # r
      /\ \A d \in Callers : pc[d] = "delete" => d = c
  BY <1>2, <1>3 DEF IInv, ToDelete, Holds
<1>5. \A d \in Callers : Pushing(d)' <=> Pushing(d)
  BY <1>3 DEF Pushing
<1>6. Holds' /\ Busy'
  BY <1>3 DEF IInv, Holds, Busy
<1>7. ListMirrorsMap'
  <2>1. IsInjective(Keys') /\ ToSet(Keys') \subseteq Map'
    BY <1>3, <1>4 DEF IInv, ListMirrorsMap
  <2>2. ASSUME NEW j \in Map' \ ToSet(Keys')
        PROVE  \E d \in Callers : \/ Pushing(d)' /\ key'[d] = j
                                  \/ pc'[d] = "delete" /\ removed'[d] = j
    <3>1. PICK d \in Callers : \/ Pushing(d) /\ key[d] = j
                               \/ pc[d] = "delete" /\ removed[d] = j
      BY <1>3, <2>2 DEF IInv, ListMirrorsMap
    <3>2. d # c
      BY <3>1, <1>2, <1>3, <2>2 DEF Pushing
    <3>3. QED BY <3>1, <3>2, <1>3, <1>5
  <2>3. QED BY <2>1, <2>2 DEF ListMirrorsMap
<1>8. ToPush' /\ PushedByOne'
  BY <1>3, <1>4, <1>5 DEF IInv, ToPush, PushedByOne
<1>9. ToDelete'
  BY <1>3, <1>4 DEF ToDelete
<1>10. Pushed'
  BY <1>3 DEF IInv, Pushed
<1>11. QED BY <1>1, <1>6, <1>7, <1>8, <1>9, <1>10 DEF IInv

\* Unlock preserves the invariant: its caller owes nothing to list or map
LEMMA UnlockIInv ==
    ASSUME IInv, NEW c \in Callers, Unlock(c)
    PROVE  IInv'
<1>1. TypeOK'
  BY DEF IInv, TypeOK, Unlock
<1>2. /\ \A d \in Callers : d # c => pc'[d] = pc[d] /\ key'[d] = key[d]
      /\ pc[c] = "unlock" /\ pc'[c] = "idle" /\ Mutex' = NoCaller /\ Keys' = Keys
      /\ removed' = removed /\ Map' = Map
  BY DEF IInv, TypeOK, Unlock
<1>3. \A d \in Callers : pc[d] \in {"list", "delete", "unlock"} => d = c
  BY <1>2 DEF IInv, Holds
<1>4. \A d \in Callers : Pushing(d)' <=> Pushing(d) /\ d # c
  BY <1>2 DEF Pushing
<1>5. Holds' /\ Busy'
  BY <1>2, <1>3 DEF IInv, Holds, Busy
<1>6. ListMirrorsMap'
  <2>1. IsInjective(Keys') /\ ToSet(Keys') \subseteq Map'
    BY <1>2 DEF IInv, ListMirrorsMap
  <2>2. ASSUME NEW j \in Map' \ ToSet(Keys')
        PROVE  \E d \in Callers : \/ Pushing(d)' /\ key'[d] = j
                                  \/ pc'[d] = "delete" /\ removed'[d] = j
    <3>1. PICK d \in Callers : \/ Pushing(d) /\ key[d] = j
                               \/ pc[d] = "delete" /\ removed[d] = j
      BY <1>2, <2>2 DEF IInv, ListMirrorsMap
    <3>2. d # c
      BY <3>1, <1>2 DEF Pushing
    <3>3. QED BY <3>1, <3>2, <1>2 DEF Pushing
  <2>3. QED BY <2>1, <2>2 DEF ListMirrorsMap
<1>7. ToPush' /\ PushedByOne'
  BY <1>2, <1>4 DEF IInv, ToPush, PushedByOne, Pushing
<1>8. ToDelete'
  BY <1>2, <1>4 DEF IInv, ToDelete, Pushing
<1>9. Pushed'
  BY <1>2 DEF IInv, Pushed
<1>10. QED BY <1>1, <1>5, <1>6, <1>7, <1>8, <1>9 DEF IInv

\* PushBack preserves the invariant: the key goes from the pushing to the list
LEMMA PushBackIInv ==
    ASSUME IInv, NEW c \in Callers, PushBack(c)
    PROVE  IInv'
<1>1. PICK k : k = key[c]
  OBVIOUS
<1>2. /\ \A d \in Callers : d # c => pc'[d] = pc[d]
      /\ pc[c] = "list" /\ pc'[c] = "unlock" /\ Mutex' = Mutex /\ key' = key
      /\ removed' = removed /\ Map' = Map /\ Keys' = Append(Keys, k)
      /\ ~Outgrown(Append(Keys, k))
  BY <1>1 DEF IInv, TypeOK, PushBack
<1>3. k \in Key /\ k \in Map /\ k \notin ToSet(Keys) /\ Keys \in Seq(Key)
  BY <1>1, <1>2 DEF IInv, TypeOK, Busy, ToPush, Pushing
<1>4. /\ Keys' \in Seq(Key) /\ ToSet(Keys') = ToSet(Keys) \cup {k}
      /\ Len(Append(Keys, k)) \in Nat
  BY <1>2, <1>3, PushedKeys
<1>5. IsInjective(Keys')
  BY <1>2, <1>3, PushedOnce DEF IInv, ListMirrorsMap
<1>6. \A d \in Callers : d # c => (Pushing(d)' <=> Pushing(d)) /\ (Pushing(d) => key[d] # k)
  BY <1>1, <1>2 DEF IInv, PushedByOne, Pushing
<1>7. \A d \in Callers : pc[d] \in {"list", "delete", "unlock"} => d = c
  BY <1>2 DEF IInv, Holds
<1>8. TypeOK'
  BY <1>2, <1>4, MaxSizeIsNat DEF IInv, TypeOK, PushBack, Outgrown
<1>9. Holds' /\ Busy'
  BY <1>2 DEF IInv, Holds, Busy
<1>10. ListMirrorsMap'
  <2>1. IsInjective(Keys') /\ ToSet(Keys') \subseteq Map'
    BY <1>2, <1>3, <1>4, <1>5 DEF IInv, ListMirrorsMap
  <2>2. ASSUME NEW j \in Map' \ ToSet(Keys')
        PROVE  \E d \in Callers : \/ Pushing(d)' /\ key'[d] = j
                                  \/ pc'[d] = "delete" /\ removed'[d] = j
    <3>1. j # k /\ j \in Map \ ToSet(Keys)
      BY <1>2, <1>4, <2>2
    <3>2. PICK d \in Callers : \/ Pushing(d) /\ key[d] = j
                               \/ pc[d] = "delete" /\ removed[d] = j
      BY <3>1 DEF IInv, ListMirrorsMap
    <3>3. d # c
      BY <3>1, <3>2, <1>1, <1>2 DEF Pushing
    <3>4. QED BY <3>2, <3>3, <1>2, <1>6
  <2>3. QED BY <2>1, <2>2 DEF ListMirrorsMap
<1>11. \A d \in Callers : Pushing(d)' => d # c
  BY <1>2 DEF Pushing
<1>12. ToPush' /\ PushedByOne'
  BY <1>2, <1>4, <1>6, <1>11 DEF IInv, ToPush, PushedByOne
<1>13. ToDelete'
  BY <1>2, <1>7 DEF ToDelete
<1>14. Pushed'
  BY <1>1, <1>2, <1>4 DEF IInv, Pushed
<1>15. QED BY <1>8, <1>9, <1>10, <1>12, <1>13, <1>14 DEF IInv

\* PushAndEvict preserves the invariant: the front of the list, which is not
\* the key just pushed, goes from the list to the keys to be deleted
LEMMA PushAndEvictIInv ==
    ASSUME IInv, NEW c \in Callers, PushAndEvict(c)
    PROVE  IInv'
<1>1. PICK k : k = key[c]
  OBVIOUS
<1>2. PICK p : p = Append(Keys, k)
  OBVIOUS
<1>3. /\ \A d \in Callers : d # c => pc'[d] = pc[d]
      /\ pc[c] = "list" /\ pc'[c] = "delete" /\ Mutex' = Mutex /\ key' = key
      /\ removed'[c] = Head(p) /\ Map' = Map /\ Keys' = Tail(p) /\ Outgrown(p)
  BY <1>1, <1>2 DEF IInv, TypeOK, PushAndEvict
<1>4. k \in Key /\ k \in Map /\ k \notin ToSet(Keys) /\ Keys \in Seq(Key)
  BY <1>1, <1>3 DEF IInv, TypeOK, Busy, ToPush, Pushing
<1>5. /\ p \in Seq(Key) /\ ToSet(p) = ToSet(Keys) \cup {k}
      /\ Len(p) = Len(Keys) + 1 /\ IsInjective(p)
  BY <1>2, <1>4, PushedKeys, PushedOnce DEF IInv, ListMirrorsMap
<1>6. Len(p) > 1 /\ p # <<>> /\ Len(Keys) <= MaxSize /\ Len(Keys) > 0
  BY <1>3, <1>4, <1>5, MaxSizeIsNat DEF Outgrown, IInv, TypeOK
<1>7. PICK r : r = Head(p)
  OBVIOUS
<1>8. /\ Keys' \in Seq(Key) /\ r \in Key /\ r \in ToSet(p)
      /\ ToSet(Keys') = ToSet(p) \ {r} /\ IsInjective(Keys')
      /\ Len(Keys') = Len(p) - 1
  BY <1>3, <1>5, <1>6, <1>7, RemovedFront
<1>9. r # k
  <2>1. r = Keys[1] /\ 1 \in DOMAIN Keys
    BY <1>2, <1>4, <1>6, <1>7
  <2>2. QED BY <2>1, <1>4 DEF ToSet
<1>10. /\ r \in Map /\ r \in ToSet(Keys) /\ k \in ToSet(Keys')
       /\ ToSet(Keys') \subseteq ToSet(Keys) \cup {k}
  BY <1>5, <1>8, <1>9 DEF IInv, ListMirrorsMap
<1>11. \A d \in Callers : d # c => (Pushing(d)' <=> Pushing(d)) /\ (Pushing(d) => key[d] # k)
  BY <1>1, <1>3 DEF IInv, PushedByOne, Pushing
<1>12. \A d \in Callers : pc[d] \in {"list", "delete", "unlock"} => d = c
  BY <1>3 DEF IInv, Holds
<1>13. TypeOK'
  <2>1. removed' \in [Callers -> Key \cup {NoKey}]
    BY <1>1, <1>2, <1>7, <1>8 DEF IInv, TypeOK, PushAndEvict
  <2>2. MaxSize > 0 => Len(Keys') <= MaxSize
    BY <1>4, <1>5, <1>6, <1>8, MaxSizeIsNat
  <2>3. QED BY <2>1, <2>2, <1>8 DEF IInv, TypeOK, PushAndEvict
<1>14. Holds' /\ Busy'
  BY <1>3 DEF IInv, Holds, Busy
<1>15. ListMirrorsMap'
  <2>1. IsInjective(Keys') /\ ToSet(Keys') \subseteq Map'
    BY <1>3, <1>4, <1>8, <1>10 DEF IInv, ListMirrorsMap
  <2>2. ASSUME NEW j \in Map' \ ToSet(Keys')
        PROVE  \E d \in Callers : \/ Pushing(d)' /\ key'[d] = j
                                  \/ pc'[d] = "delete" /\ removed'[d] = j
    <3>1. CASE j = r
      BY <3>1, <1>3, <1>7
    <3>2. CASE j # r
      <4>1. j # k /\ j \in Map \ ToSet(Keys)
        BY <1>3, <1>5, <1>8, <1>10, <2>2, <3>2
      <4>2. PICK d \in Callers : \/ Pushing(d) /\ key[d] = j
                                 \/ pc[d] = "delete" /\ removed[d] = j
        BY <4>1 DEF IInv, ListMirrorsMap
      <4>3. d # c
        BY <4>1, <4>2, <1>1, <1>3 DEF Pushing
      <4>4. Pushing(d) /\ key[d] = j
        BY <4>2, <4>3, <1>12
      <4>5. QED BY <4>3, <4>4, <1>3, <1>11
    <3>3. QED BY <3>1, <3>2
  <2>3. QED BY <2>1, <2>2 DEF ListMirrorsMap
<1>16. \A d \in Callers : Pushing(d)' => d # c
  BY <1>3 DEF Pushing
<1>17. ToPush' /\ PushedByOne'
  BY <1>3, <1>10, <1>11, <1>16 DEF IInv, ToPush, PushedByOne
<1>18. ToDelete'
  <2>1. ASSUME NEW d \in Callers, pc'[d] = "delete"
        PROVE  d = c
    BY <2>1, <1>3, <1>12
  <2>2. \A d \in Callers : Pushing(d)' => key'[d] # r
    BY <1>3, <1>10, <1>11, <1>16 DEF IInv, ToPush
  <2>3. removed'[c] \in Map' \ ToSet(Keys')
    BY <1>3, <1>7, <1>8, <1>10
  <2>4. removed'[c] = r
    BY <1>3, <1>7
  <2>5. QED BY <2>1, <2>2, <2>3, <2>4 DEF ToDelete
<1>19. Pushed'
  BY <1>1, <1>3, <1>10, <1>12 DEF Pushed
<1>20. QED BY <1>13, <1>14, <1>15, <1>17, <1>18, <1>19 DEF IInv

\* a step that changes nothing
LEMMA StutterIInv == ASSUME IInv, UNCHANGED vars PROVE IInv'
BY DEF vars, IInv, TypeOK, Holds, Busy, ListMirrorsMap, ToPush, PushedByOne,
   ToDelete, Pushed, Pushing

(* The conjunction of all of the above is an invariant of any LinkedMap.    *)
THEOREM Inductive == Spec => []IInv
<1>1. ASSUME IInv, [Next]_vars PROVE IInv'
  <2>1. CASE UNCHANGED vars
    BY <1>1, <2>1, StutterIInv
  <2>2. CASE Next
    <3>1. PICK c \in Callers :
              \/ \E k \in Key : StoreNew(c, k) \/ Find(c, k)
              \/ Lock(c) \/ PushAndEvict(c) \/ PushBack(c) \/ MapDelete(c) \/ Unlock(c)
      BY <2>2 DEF Next
    <3>2. ASSUME NEW k \in Key, StoreNew(c, k) \/ Find(c, k) PROVE IInv'
      BY <1>1, <3>2, StoreNewIInv, StutterIInv DEF Find
    <3>3. QED
      BY <1>1, <3>1, <3>2, LockIInv, PushAndEvictIInv, PushBackIInv, MapDeleteIInv, UnlockIInv
  <2>3. QED BY <1>1, <2>1, <2>2
<1>2. QED BY <1>1, InitIInv, PTL DEF Spec

(* Types, and maxSize bounds the list whenever another goroutine can see it.*)
THEOREM TypeCorrect == Spec => []TypeOK
BY Inductive, PTL DEF IInv

(* A key is on the list once and then in the map; a key in the map alone is *)
(* one that a running Add will push or delete.                              *)
THEOREM ListMirrorsMapAlways == Spec => []ListMirrorsMap
BY Inductive, PTL DEF IInv

(* The key an Add is about to answer true for is still in the map.          *)
THEOREM AddedIsFoundAlways == Spec => []AddedIsFound
<1>1. IInv => AddedIsFound
  <2>1. SUFFICES ASSUME IInv, NEW c \in Callers, pc[c] # "idle" PROVE key[c] \in Map
    BY DEF AddedIsFound
  <2>2. Pushing(c) \/ pc[c] \in {"delete", "unlock"}
    BY <2>1 DEF IInv, TypeOK, Pushing
  <2>3. QED BY <2>1, <2>2 DEF IInv, ToPush, Pushed, ListMirrorsMap
<1>2. QED BY <1>1, Inductive, PTL

-----------------------------------------------------------------------------
(* ShardedMap.  Every key has a shard of its own.                           *)

LEMMA ShardOf ==
    ASSUME NEW k \in ShardedKeys
    PROVE  Sharded!getShard(k) \in Sharded!Shard
<1>1. Sharded!Shards \in Nat \ {0} /\ k \in Nat
  BY ShardsArePositive, KeysAreNats
<1>2. \A n \in Nat \ {0} : k % n \in 0 .. n - 1
  BY <1>1
<1>3. QED BY <1>1, <1>2 DEF Sharded!getShard, Sharded!Shard

\* a caller finds its key in its shard if it is anywhere
LEMMA PresentIsAKey ==
    ASSUME Sharded!TypeOK, NEW c \in Callers
    PROVE  /\ skey[c] \in ShardedKeys /\ Sharded!shard(c) \in Sharded!Shard
           /\ Sharded!Present(c) <=> skey[c] \in Sharded!Keys
<1>1. skey[c] \in ShardedKeys
  BY DEF Sharded!TypeOK
<1>2. Sharded!shard(c) \in Sharded!Shard
  BY <1>1, ShardOf DEF Sharded!shard
<1>3. \A s \in Sharded!Shard : \A k \in maps[s] : Sharded!getShard(k) = s
  BY DEF Sharded!TypeOK
<1>4. QED BY <1>1, <1>2, <1>3 DEF Sharded!Present, Sharded!Keys, Sharded!shard

\* changing one key of a shard changes that key of the map
LEMMA KeysChange ==
    ASSUME Sharded!TypeOK, NEW c \in Callers, NEW K \in SUBSET ShardedKeys,
           maps' = [maps EXCEPT ![Sharded!shard(c)] = K],
           \/ K = maps[Sharded!shard(c)] \cup {skey[c]}
           \/ K = maps[Sharded!shard(c)] \ {skey[c]}
    PROVE  /\ maps' \in [Sharded!Shard -> SUBSET ShardedKeys]
           /\ \A s \in Sharded!Shard : \A k \in maps'[s] : Sharded!getShard(k) = s
           /\ K = maps[Sharded!shard(c)] \cup {skey[c]}
                  => Sharded!Keys' = Sharded!Keys \cup {skey[c]}
           /\ K = maps[Sharded!shard(c)] \ {skey[c]}
                  => Sharded!Keys' = Sharded!Keys \ {skey[c]}
<1> DEFINE s0 == Sharded!shard(c)
           k0 == skey[c]
<1>1. k0 \in ShardedKeys /\ s0 \in Sharded!Shard /\ s0 = Sharded!getShard(k0)
  BY PresentIsAKey DEF Sharded!shard
<1>2. /\ maps \in [Sharded!Shard -> SUBSET ShardedKeys]
      /\ \A s \in Sharded!Shard : \A k \in maps[s] : Sharded!getShard(k) = s
  BY DEF Sharded!TypeOK
<1>3. maps' \in [Sharded!Shard -> SUBSET ShardedKeys]
  BY <1>1, <1>2
<1>4. maps'[s0] = K /\ \A s \in Sharded!Shard : s # s0 => maps'[s] = maps[s]
  BY <1>1, <1>2
<1>5. \A s \in Sharded!Shard : \A k \in maps'[s] : Sharded!getShard(k) = s
  BY <1>1, <1>2, <1>4
<1>6. \A s \in Sharded!Shard : s # s0 => k0 \notin maps[s]
  BY <1>1, <1>2
<1>7. Sharded!Keys' = UNION {maps'[s] : s \in Sharded!Shard}
  BY DEF Sharded!Keys
<1>8. ASSUME K = maps[s0] \cup {k0} PROVE Sharded!Keys' = Sharded!Keys \cup {k0}
  BY <1>1, <1>4, <1>7, <1>8 DEF Sharded!Keys
<1>9. ASSUME K = maps[s0] \ {k0} PROVE Sharded!Keys' = Sharded!Keys \ {k0}
  BY <1>1, <1>4, <1>6, <1>7, <1>9 DEF Sharded!Keys
<1>10. QED BY <1>3, <1>5, <1>8, <1>9

-----------------------------------------------------------------------------
(* The inductive invariant of a ShardedMap.                                 *)

\* Whoever is about to change a shard, or has changed it, holds its lock.
HoldsShard ==
    \A c \in Callers :
        spc[c] \in {"change", "count", "unlock"} => locks[Sharded!shard(c)] = c

\* Load never gets past the first look, and what waits to be counted is done.
AboutToCount ==
    \A c \in Callers :
        /\ spc[c] \in {"lock", "change", "count"} => op[c] # "Load"
        /\ spc[c] = "count" => (Sharded!Present(c) <=> op[c] = "LoadOrStore")

\* The counter, the keys and the callers that have not counted add up.
Counted ==
    size = Cardinality(Sharded!Keys) - Cardinality(Sharded!Uncounted("LoadOrStore"))
                                     + Cardinality(Sharded!Uncounted("LoadAndDelete"))

ShardedIInv ==
    /\ Sharded!TypeOK
    /\ HoldsShard
    /\ AboutToCount
    /\ IsFiniteSet(Sharded!Keys)
    /\ Counted

LEMMA UncountedIsFinite ==
    ASSUME NEW o
    PROVE  /\ IsFiniteSet(Sharded!Uncounted(o))
           /\ Cardinality(Sharded!Uncounted(o)) \in Nat
<1>1. Sharded!Uncounted(o) \in SUBSET Callers
  BY DEF Sharded!Uncounted
<1>2. QED BY <1>1, CallersAreFinite, FS_Subset, FS_CardinalityType

LEMMA ShardedInit == Sharded!Init => ShardedIInv
<1>1. SUFFICES ASSUME Sharded!Init PROVE ShardedIInv
  OBVIOUS
<1>2. /\ maps = [s \in Sharded!Shard |-> {}] /\ locks = [s \in Sharded!Shard |-> NoCaller]
      /\ size = 0 /\ spc = [c \in Callers |-> "idle"] /\ op = [c \in Callers |-> "Load"]
      /\ skey = [c \in Callers |-> Sharded!FirstKey] /\ ok = [c \in Callers |-> FALSE]
  BY <1>1 DEF Sharded!Init
<1>3. Sharded!FirstKey \in ShardedKeys
  BY KeysAreNats DEF Sharded!FirstKey
<1>4. Sharded!TypeOK
  BY <1>2, <1>3 DEF Sharded!TypeOK, Sharded!Ops
<1>5. HoldsShard /\ AboutToCount
  BY <1>2 DEF HoldsShard, AboutToCount
<1>6. Sharded!Keys = {} /\ \A o : Sharded!Uncounted(o) = {}
  BY <1>2 DEF Sharded!Keys, Sharded!Uncounted
<1>7. IsFiniteSet(Sharded!Keys) /\ Counted
  BY <1>2, <1>6, FS_EmptySet DEF Counted
<1>8. QED BY <1>4, <1>5, <1>7 DEF ShardedIInv

\* the steps that change neither the shards nor the counter, and leave those
\* that count as they are
LEMMA CountedStays ==
    ASSUME ShardedIInv, maps' = maps, size' = size,
           \A c \in Callers : \/ spc'[c] # "count" /\ spc[c] # "count"
                              \/ spc'[c] = spc[c] /\ op'[c] = op[c]
    PROVE  IsFiniteSet(Sharded!Keys') /\ Counted'
<1>1. Sharded!Keys' = Sharded!Keys
  BY DEF Sharded!Keys
<1>2. \A o : Sharded!Uncounted(o)' = Sharded!Uncounted(o)
  BY DEF Sharded!Uncounted
<1>3. QED BY <1>1, <1>2 DEF ShardedIInv, Counted

LEMMA ShardedCall ==
    ASSUME ShardedIInv, NEW c \in Callers, NEW o \in Sharded!Ops, NEW k \in ShardedKeys,
           Sharded!Call(c, o, k)
    PROVE  ShardedIInv'
<1>1. /\ spc[c] = "idle" /\ spc' = [spc EXCEPT ![c] = "look"]
      /\ op' = [op EXCEPT ![c] = o] /\ skey' = [skey EXCEPT ![c] = k]
      /\ UNCHANGED <<maps, locks, size, ok>>
  BY DEF Sharded!Call
<1>2. Sharded!TypeOK
  BY DEF ShardedIInv
<1>3. Sharded!TypeOK'
  BY <1>1, <1>2 DEF Sharded!TypeOK
<1>4. /\ \A d \in Callers : d # c => spc'[d] = spc[d] /\ op'[d] = op[d] /\ skey'[d] = skey[d]
      /\ spc'[c] = "look"
  BY <1>1, <1>2 DEF Sharded!TypeOK
<1>5. HoldsShard' /\ AboutToCount'
  BY <1>1, <1>4 DEF ShardedIInv, HoldsShard, AboutToCount, Sharded!shard, Sharded!Present
<1>6. QED BY <1>1, <1>3, <1>4, <1>5, CountedStays DEF ShardedIInv

LEMMA ShardedLook ==
    ASSUME ShardedIInv, NEW c \in Callers, Sharded!Look(c) PROVE ShardedIInv'
<1>1. /\ spc[c] = "look"
      /\ spc' = [spc EXCEPT ![c] = IF Sharded!Decided(c) THEN "return" ELSE "lock"]
      /\ ok' = [ok EXCEPT ![c] = Sharded!Present(c)]
      /\ UNCHANGED <<maps, locks, size, op, skey>>
  BY DEF Sharded!Look
<1>2. Sharded!TypeOK
  BY DEF ShardedIInv
<1>3. Sharded!Present(c) \in BOOLEAN
  BY DEF Sharded!Present
<1>4. Sharded!TypeOK'
  BY <1>1, <1>2, <1>3 DEF Sharded!TypeOK
<1>5. /\ \A d \in Callers : d # c => spc'[d] = spc[d]
      /\ spc'[c] \in {"return", "lock"} /\ (spc'[c] = "lock" => op[c] # "Load")
  BY <1>1, <1>2 DEF Sharded!TypeOK, Sharded!Decided
<1>6. HoldsShard' /\ AboutToCount'
  BY <1>1, <1>5 DEF ShardedIInv, HoldsShard, AboutToCount, Sharded!shard, Sharded!Present
<1>7. QED BY <1>1, <1>4, <1>5, <1>6, CountedStays DEF ShardedIInv

LEMMA ShardedLock ==
    ASSUME ShardedIInv, NEW c \in Callers, Sharded!Lock(c) PROVE ShardedIInv'
<1>1. /\ spc[c] = "lock" /\ locks[Sharded!shard(c)] = NoCaller
      /\ locks' = [locks EXCEPT ![Sharded!shard(c)] = c]
      /\ spc' = [spc EXCEPT ![c] = "change"]
      /\ UNCHANGED <<maps, size, op, skey, ok>>
  BY DEF Sharded!Lock
<1>2. Sharded!TypeOK
  BY DEF ShardedIInv
<1>3. Sharded!TypeOK'
  BY <1>1, <1>2 DEF Sharded!TypeOK
<1>4. (\A d \in Callers : d # c => spc'[d] = spc[d]) /\ spc'[c] = "change"
  BY <1>1, <1>2 DEF Sharded!TypeOK
<1>5. ASSUME NEW d \in Callers, spc'[d] \in {"change", "count", "unlock"}
      PROVE  locks'[Sharded!shard(d)] = d
  <2>1. CASE d = c
    BY <1>1, <1>2, <2>1, PresentIsAKey DEF Sharded!TypeOK
  <2>2. CASE d # c
    <3>1. locks[Sharded!shard(d)] = d
      BY <1>4, <1>5, <2>2 DEF ShardedIInv, HoldsShard
    <3>2. Sharded!shard(d) # Sharded!shard(c)
      BY <1>1, <3>1, NoCallerIsNone
    <3>3. QED BY <1>1, <1>2, <3>1, <3>2, PresentIsAKey DEF Sharded!TypeOK
  <2>3. QED BY <2>1, <2>2
<1>6. HoldsShard'
  BY <1>1, <1>5 DEF HoldsShard, Sharded!shard
<1>7. AboutToCount'
  BY <1>1, <1>4 DEF ShardedIInv, AboutToCount, Sharded!shard, Sharded!Present
<1>8. QED BY <1>1, <1>3, <1>4, <1>6, <1>7, CountedStays DEF ShardedIInv

\* while a caller works on its shard no other does
LEMMA OneInAShard ==
    ASSUME ShardedIInv, NEW c \in Callers, NEW d \in Callers,
           spc[c] \in {"change", "count", "unlock"}, spc[d] \in {"change", "count", "unlock"},
           Sharded!shard(c) = Sharded!shard(d)
    PROVE  c = d
BY DEF ShardedIInv, HoldsShard

LEMMA ShardedChange ==
    ASSUME ShardedIInv, NEW c \in Callers, Sharded!Change(c) PROVE ShardedIInv'
<1>1. Sharded!TypeOK
  BY DEF ShardedIInv
<1>2. /\ spc[c] = "change" /\ ok' = [ok EXCEPT ![c] = Sharded!Present(c)]
      /\ UNCHANGED <<locks, size, op, skey>> /\ Sharded!Present(c) \in BOOLEAN
      /\ op[c] \in {"LoadOrStore", "LoadAndDelete"}
  BY <1>1 DEF Sharded!Change, Sharded!Present, ShardedIInv, AboutToCount, Sharded!TypeOK, Sharded!Ops
<1>3. CASE Sharded!Decided(c) /\ spc' = [spc EXCEPT ![c] = "unlock"] /\ UNCHANGED maps
  <2>1. Sharded!TypeOK'
    BY <1>1, <1>2, <1>3 DEF Sharded!TypeOK
  <2>2. (\A d \in Callers : d # c => spc'[d] = spc[d]) /\ spc'[c] = "unlock"
    BY <1>1, <1>3 DEF Sharded!TypeOK
  <2>3. HoldsShard' /\ AboutToCount'
    BY <1>2, <1>3, <2>2 DEF ShardedIInv, HoldsShard, AboutToCount, Sharded!shard, Sharded!Present
  <2>4. QED BY <1>2, <1>3, <2>1, <2>2, <2>3, CountedStays DEF ShardedIInv
<1>4. CASE ~Sharded!Decided(c) /\ spc' = [spc EXCEPT ![c] = "count"]
           /\ maps' = [maps EXCEPT ![Sharded!shard(c)] =
                           IF op[c] = "LoadOrStore" THEN @ \cup {skey[c]} ELSE @ \ {skey[c]}]
  <2> DEFINE s0 == Sharded!shard(c)
             K == IF op[c] = "LoadOrStore" THEN maps[s0] \cup {skey[c]} ELSE maps[s0] \ {skey[c]}
  <2>1. skey[c] \in ShardedKeys /\ s0 \in Sharded!Shard /\ maps[s0] \in SUBSET ShardedKeys
    BY <1>1, PresentIsAKey DEF Sharded!TypeOK
  <2>2. /\ K \in SUBSET ShardedKeys /\ maps' = [maps EXCEPT ![s0] = K]
        /\ K = maps[s0] \cup {skey[c]} \/ K = maps[s0] \ {skey[c]}
    BY <1>4, <2>1
  <2>3. /\ maps' \in [Sharded!Shard -> SUBSET ShardedKeys]
        /\ \A s \in Sharded!Shard : \A k \in maps'[s] : Sharded!getShard(k) = s
        /\ op[c] = "LoadOrStore" => Sharded!Keys' = Sharded!Keys \cup {skey[c]}
        /\ op[c] # "LoadOrStore" => Sharded!Keys' = Sharded!Keys \ {skey[c]}
    BY <1>1, <2>2, KeysChange
  <2>4. Sharded!TypeOK'
    BY <1>1, <1>2, <1>4, <2>3 DEF Sharded!TypeOK
  <2>5. (\A d \in Callers : d # c => spc'[d] = spc[d]) /\ spc'[c] = "count"
    BY <1>1, <1>4 DEF Sharded!TypeOK
  <2>6. HoldsShard'
    BY <1>2, <2>5 DEF ShardedIInv, HoldsShard, Sharded!shard
  <2>7. maps'[s0] = K /\ \A s \in Sharded!Shard : s # s0 => maps'[s] = maps[s]
    BY <1>1, <2>1, <2>2 DEF Sharded!TypeOK
  <2>8. ASSUME NEW d \in Callers, spc'[d] = "count"
        PROVE  Sharded!Present(d)' <=> op[d] = "LoadOrStore"
    <3>1. CASE d = c
      BY <1>2, <2>7, <3>1 DEF Sharded!Present, Sharded!shard
    <3>2. CASE d # c
      <4>1. spc[d] = "count"
        BY <2>5, <2>8, <3>2
      <4>2. Sharded!shard(d) # s0 /\ Sharded!shard(d) \in Sharded!Shard
        BY <1>1, <1>2, <3>2, <4>1, OneInAShard, PresentIsAKey
      <4>3. Sharded!Present(d)' <=> Sharded!Present(d)
        BY <1>2, <2>7, <4>2 DEF Sharded!Present, Sharded!shard
      <4>4. QED BY <4>1, <4>3 DEF ShardedIInv, AboutToCount
    <3>3. QED BY <3>1, <3>2
  <2>9. AboutToCount'
    BY <1>2, <2>5, <2>8 DEF ShardedIInv, AboutToCount
  <2>10. IsFiniteSet(Sharded!Keys) /\ Counted /\ Cardinality(Sharded!Keys) \in Nat
    BY FS_CardinalityType DEF ShardedIInv
  <2>11. ASSUME NEW o, o = op[c]
         PROVE  /\ Cardinality(Sharded!Uncounted(o)') = Cardinality(Sharded!Uncounted(o)) + 1
                /\ Cardinality(Sharded!Uncounted(o)) \in Nat
    <3>1. c \notin Sharded!Uncounted(o) /\ Sharded!Uncounted(o)' = Sharded!Uncounted(o) \cup {c}
      BY <1>2, <2>5, <2>11 DEF Sharded!Uncounted
    <3>2. QED BY <3>1, UncountedIsFinite, FS_AddElement
  <2>12. ASSUME NEW o, o # op[c]
         PROVE  Sharded!Uncounted(o)' = Sharded!Uncounted(o)
    BY <1>2, <2>5, <2>12 DEF Sharded!Uncounted
  <2>13. CASE op[c] = "LoadOrStore"
    <3>1. skey[c] \notin Sharded!Keys
      BY <1>1, <1>4, <2>13, PresentIsAKey DEF Sharded!Decided
    <3>2. /\ IsFiniteSet(Sharded!Keys')
          /\ Cardinality(Sharded!Keys') = Cardinality(Sharded!Keys) + 1
      BY <2>3, <2>10, <2>13, <3>1, FS_AddElement
    <3>3. /\ Sharded!Uncounted("LoadAndDelete")' = Sharded!Uncounted("LoadAndDelete")
          /\ Cardinality(Sharded!Uncounted("LoadOrStore")') = Cardinality(Sharded!Uncounted("LoadOrStore")) + 1
          /\ Cardinality(Sharded!Uncounted("LoadOrStore")) \in Nat
      BY <2>11, <2>12, <2>13
    <3>4. Counted'
      BY <1>2, <2>3, <2>10, <2>13, <3>2, <3>3, UncountedIsFinite DEF Counted
    <3>5. QED BY <2>4, <2>6, <2>9, <3>2, <3>4 DEF ShardedIInv
  <2>14. CASE op[c] = "LoadAndDelete"
    <3>1. skey[c] \in Sharded!Keys
      BY <1>1, <1>4, <2>14, PresentIsAKey DEF Sharded!Decided
    <3>2. /\ IsFiniteSet(Sharded!Keys')
          /\ Cardinality(Sharded!Keys') = Cardinality(Sharded!Keys) - 1
      BY <2>3, <2>10, <2>14, <3>1, FS_RemoveElement
    <3>3. /\ Sharded!Uncounted("LoadOrStore")' = Sharded!Uncounted("LoadOrStore")
          /\ Cardinality(Sharded!Uncounted("LoadAndDelete")') = Cardinality(Sharded!Uncounted("LoadAndDelete")) + 1
          /\ Cardinality(Sharded!Uncounted("LoadAndDelete")) \in Nat
      BY <2>11, <2>12, <2>14
    <3>4. Counted'
      BY <1>2, <2>3, <2>10, <2>14, <3>2, <3>3, UncountedIsFinite DEF Counted
    <3>5. QED BY <2>4, <2>6, <2>9, <3>2, <3>4 DEF ShardedIInv
  <2>15. QED BY <1>2, <2>13, <2>14
<1>5. QED BY <1>3, <1>4 DEF Sharded!Change

LEMMA ShardedCount ==
    ASSUME ShardedIInv, NEW c \in Callers, Sharded!Count(c) PROVE ShardedIInv'
<1>1. Sharded!TypeOK
  BY DEF ShardedIInv
<1>2. /\ spc[c] = "count" /\ spc' = [spc EXCEPT ![c] = "unlock"]
      /\ size' = size + (IF op[c] = "LoadOrStore" THEN 1 ELSE -1)
      /\ UNCHANGED <<maps, locks, op, skey, ok>>
  BY DEF Sharded!Count
<1>3. size' \in Int
  BY <1>1, <1>2 DEF Sharded!TypeOK
<1>4. Sharded!TypeOK'
  BY <1>1, <1>2, <1>3 DEF Sharded!TypeOK
<1>5. (\A d \in Callers : d # c => spc'[d] = spc[d]) /\ spc'[c] = "unlock"
  BY <1>1, <1>2 DEF Sharded!TypeOK
<1>6. HoldsShard' /\ AboutToCount'
  BY <1>2, <1>5 DEF ShardedIInv, HoldsShard, AboutToCount, Sharded!shard, Sharded!Present
<1>7. Sharded!Keys' = Sharded!Keys
  BY <1>2 DEF Sharded!Keys
<1>8. c \in Sharded!Uncounted(op[c]) /\ op[c] \in {"LoadOrStore", "LoadAndDelete"}
  BY <1>1, <1>2 DEF Sharded!Uncounted, ShardedIInv, AboutToCount, Sharded!TypeOK, Sharded!Ops
<1>9. /\ Sharded!Uncounted(op[c])' = Sharded!Uncounted(op[c]) \ {c}
      /\ \A o : o # op[c] => Sharded!Uncounted(o)' = Sharded!Uncounted(o)
  BY <1>2, <1>5 DEF Sharded!Uncounted
<1>10. /\ Cardinality(Sharded!Uncounted(op[c])') = Cardinality(Sharded!Uncounted(op[c])) - 1
       /\ Cardinality(Sharded!Uncounted(op[c])) \in Nat
  BY <1>8, <1>9, UncountedIsFinite, FS_RemoveElement
<1>11. IsFiniteSet(Sharded!Keys) /\ Counted /\ Cardinality(Sharded!Keys) \in Nat
  BY FS_CardinalityType DEF ShardedIInv
<1>12. CASE op[c] = "LoadOrStore"
  <2>1. /\ Sharded!Uncounted("LoadAndDelete")' = Sharded!Uncounted("LoadAndDelete")
        /\ Cardinality(Sharded!Uncounted("LoadOrStore")') = Cardinality(Sharded!Uncounted("LoadOrStore")) - 1
        /\ size' = size + 1
    BY <1>2, <1>9, <1>10, <1>12
  <2>2. Counted'
    BY <1>7, <1>11, <2>1, UncountedIsFinite DEF Counted
  <2>3. QED BY <1>4, <1>6, <1>7, <1>11, <2>2 DEF ShardedIInv
<1>13. CASE op[c] = "LoadAndDelete"
  <2>1. /\ Sharded!Uncounted("LoadOrStore")' = Sharded!Uncounted("LoadOrStore")
        /\ Cardinality(Sharded!Uncounted("LoadAndDelete")') = Cardinality(Sharded!Uncounted("LoadAndDelete")) - 1
        /\ size' = size - 1
    BY <1>1, <1>2, <1>9, <1>10, <1>13 DEF Sharded!TypeOK
  <2>2. Counted'
    BY <1>7, <1>11, <2>1, UncountedIsFinite DEF Counted
  <2>3. QED BY <1>4, <1>6, <1>7, <1>11, <2>2 DEF ShardedIInv
<1>14. QED BY <1>8, <1>12, <1>13

LEMMA ShardedUnlock ==
    ASSUME ShardedIInv, NEW c \in Callers, Sharded!Unlock(c) PROVE ShardedIInv'
<1>1. Sharded!TypeOK
  BY DEF ShardedIInv
<1>2. /\ spc[c] = "unlock" /\ spc' = [spc EXCEPT ![c] = "return"]
      /\ locks' = [locks EXCEPT ![Sharded!shard(c)] = NoCaller]
      /\ UNCHANGED <<maps, size, op, skey, ok>>
  BY DEF Sharded!Unlock
<1>3. Sharded!TypeOK'
  BY <1>1, <1>2 DEF Sharded!TypeOK
<1>4. (\A d \in Callers : d # c => spc'[d] = spc[d]) /\ spc'[c] = "return"
  BY <1>1, <1>2 DEF Sharded!TypeOK
<1>5. ASSUME NEW d \in Callers, spc'[d] \in {"change", "count", "unlock"}
      PROVE  locks'[Sharded!shard(d)] = d
  <2>1. d # c /\ spc[d] \in {"change", "count", "unlock"}
    BY <1>4, <1>5
  <2>2. Sharded!shard(d) # Sharded!shard(c) /\ locks[Sharded!shard(d)] = d
    BY <1>2, <2>1, OneInAShard DEF ShardedIInv, HoldsShard
  <2>3. QED BY <1>1, <1>2, <2>2, PresentIsAKey DEF Sharded!TypeOK
<1>6. HoldsShard'
  BY <1>2, <1>5 DEF HoldsShard, Sharded!shard
<1>7. AboutToCount'
  BY <1>2, <1>4 DEF ShardedIInv, AboutToCount, Sharded!shard, Sharded!Present
<1>8. QED BY <1>2, <1>3, <1>4, <1>6, <1>7, CountedStays DEF ShardedIInv

LEMMA ShardedReturn ==
    ASSUME ShardedIInv, NEW c \in Callers, Sharded!Return(c) PROVE ShardedIInv'
<1>1. Sharded!TypeOK
  BY DEF ShardedIInv
<1>2. /\ spc[c] = "return" /\ spc' = [spc EXCEPT ![c] = "idle"]
      /\ op' = [op EXCEPT ![c] = "Load"] /\ skey' = [skey EXCEPT ![c] = Sharded!FirstKey]
      /\ ok' = [ok EXCEPT ![c] = FALSE] /\ UNCHANGED <<maps, locks, size>>
  BY DEF Sharded!Return
<1>3. Sharded!FirstKey \in ShardedKeys
  BY KeysAreNats DEF Sharded!FirstKey
<1>4. Sharded!TypeOK'
  BY <1>1, <1>2, <1>3 DEF Sharded!TypeOK, Sharded!Ops
<1>5. /\ \A d \in Callers : d # c => spc'[d] = spc[d] /\ op'[d] = op[d] /\ skey'[d] = skey[d]
      /\ spc'[c] = "idle"
  BY <1>1, <1>2 DEF Sharded!TypeOK
<1>6. HoldsShard' /\ AboutToCount'
  BY <1>2, <1>5 DEF ShardedIInv, HoldsShard, AboutToCount, Sharded!shard, Sharded!Present
<1>7. QED BY <1>2, <1>4, <1>5, <1>6, CountedStays DEF ShardedIInv

LEMMA ShardedStutter == ASSUME ShardedIInv, UNCHANGED Sharded!vars PROVE ShardedIInv'
<1>1. UNCHANGED <<maps, locks, size, spc, op, skey, ok>>
  BY DEF Sharded!vars
<1>2. Sharded!TypeOK'
  BY <1>1 DEF ShardedIInv, Sharded!TypeOK
<1>3. HoldsShard' /\ AboutToCount'
  BY <1>1 DEF ShardedIInv, HoldsShard, AboutToCount, Sharded!shard, Sharded!Present
<1>4. QED BY <1>1, <1>2, <1>3, CountedStays DEF ShardedIInv

\* The inductive invariant of a ShardedMap holds in every state.
THEOREM ShardedInductive == Sharded!Spec => []ShardedIInv
<1>1. ShardedIInv /\ [Sharded!Next]_(Sharded!vars) => ShardedIInv'
  BY ShardedCall, ShardedLook, ShardedLock, ShardedChange, ShardedCount, ShardedUnlock,
     ShardedReturn, ShardedStutter DEF Sharded!Next
<1>2. QED BY ShardedInit, <1>1, PTL DEF Sharded!Spec

\* The callers that stored a key and have not counted it stored different keys, which
\* are all there: so the counter is not negative.
LEMMA SizeIsNatural == ShardedIInv => size >= 0
<1>1. SUFFICES ASSUME ShardedIInv PROVE size >= 0
  OBVIOUS
<1> DEFINE U == Sharded!Uncounted("LoadOrStore")
           f == [c \in U |-> skey[c]]
<1>2. Sharded!TypeOK
  BY <1>1 DEF ShardedIInv
<1>3. \A c \in U : c \in Callers /\ spc[c] = "count" /\ op[c] = "LoadOrStore"
  BY DEF Sharded!Uncounted
<1>4. \A c \in U : skey[c] \in Sharded!Keys
  BY <1>1, <1>2, <1>3, PresentIsAKey DEF ShardedIInv, AboutToCount
<1>5. \A c, d \in U : skey[c] = skey[d] => c = d
  BY <1>1, <1>3, OneInAShard DEF Sharded!shard
<1>6. f \in Injection(U, Sharded!Keys)
  BY <1>4, <1>5 DEF Injection, IsInjective
<1>7. IsFiniteSet(Sharded!Keys) /\ Counted
  BY <1>1 DEF ShardedIInv
<1>8. Cardinality(U) <= Cardinality(Sharded!Keys)
  BY <1>6, <1>7, FS_Injection
<1>9. QED BY <1>7, <1>8, UncountedIsFinite, FS_CardinalityType DEF Counted

\* However the calls interleave, Size is off by the calls that changed a shard and have
\* not counted it yet, by nothing else, and is never negative.
THEOREM SizeIsAlwaysCount == Sharded!Spec => []SizeIsCount
<1>1. ShardedIInv => SizeIsCount
  BY SizeIsNatural DEF ShardedIInv, Counted, SizeIsCount, Sharded!SizeIsCount,
                       Sharded!Cardinality, Cardinality
<1>2. QED BY <1>1, ShardedInductive, PTL

-----------------------------------------------------------------------------
(* A ShardedMap implements a set with atomic calls.  A call of the set is   *)
(* called until its deciding look: the first, or the one under the lock.    *)

CallOf(c) ==
    CASE spc[c] = "idle" -> [at |-> "idle"]
      [] spc[c] \in {"look", "lock", "change"} ->
             [at |-> "called", op |-> op[c], key |-> skey[c]]
      [] OTHER -> [at |-> "done", ok |-> ok[c]]

AbstractCalls == [c \in Callers |-> CallOf(c)]

\* the deciding look takes effect
LEMMA DecidingLook ==
    ASSUME ShardedIInv, NEW c \in Callers,
           spc[c] \in {"look", "change"}, spc'[c] \in {"return", "unlock", "count"},
           ok'[c] = Sharded!Present(c),
           \A d \in Callers \ {c} : CallOf(d)' = CallOf(d),
           Sharded!Keys' = CASE op[c] = "Load"          -> Sharded!Keys
                             [] op[c] = "LoadOrStore"   -> Sharded!Keys \cup {skey[c]}
                             [] op[c] = "LoadAndDelete" -> Sharded!Keys \ {skey[c]}
    PROVE  Sharded!Abstract!TakeEffect(c)
<1>1. Sharded!Present(c) = (skey[c] \in Sharded!Keys)
  BY PresentIsAKey DEF ShardedIInv, Sharded!Present
<1>2. CallOf(c) = [at |-> "called", op |-> op[c], key |-> skey[c]]
  BY DEF CallOf
<1>3. CallOf(c)' = [at |-> "done", ok |-> skey[c] \in Sharded!Keys]
  BY <1>1 DEF CallOf
<1>4. AbstractCalls[c] = CallOf(c)
  BY DEF AbstractCalls
<1>5. AbstractCalls' = [AbstractCalls EXCEPT ![c] = [at |-> "done", ok |-> skey[c] \in Sharded!Keys]]
  BY <1>3 DEF AbstractCalls
<1>6. QED BY <1>2, <1>4, <1>5 DEF Sharded!Abstract!TakeEffect, AbstractCalls, CallOf

LEMMA AbstractInit == Sharded!Init => Sharded!Abstract!Init
<1>1. SUFFICES ASSUME Sharded!Init PROVE Sharded!Abstract!Init
  OBVIOUS
<1>2. maps = [s \in Sharded!Shard |-> {}] /\ spc = [c \in Callers |-> "idle"]
  BY <1>1 DEF Sharded!Init
<1>3. Sharded!Keys = {}
  BY <1>2 DEF Sharded!Keys
<1>4. QED BY <1>2, <1>3 DEF Sharded!Abstract!Init, Sharded!Abstract!Idle

\* the steps that the set does not see
LEMMA SetStutters ==
    ASSUME Sharded!Keys' = Sharded!Keys, \A c \in Callers : CallOf(c)' = CallOf(c)
    PROVE  UNCHANGED Sharded!Abstract!vars
<1>1. AbstractCalls' = AbstractCalls
  BY DEF AbstractCalls
<1>2. QED BY <1>1 DEF Sharded!Abstract!vars, AbstractCalls, CallOf

LEMMA AbstractStep ==
    ShardedIInv /\ [Sharded!Next]_(Sharded!vars)
        => [Sharded!Abstract!Next]_(Sharded!Abstract!vars)
<1>1. SUFFICES ASSUME ShardedIInv, [Sharded!Next]_(Sharded!vars)
               PROVE  [Sharded!Abstract!Next]_(Sharded!Abstract!vars)
  OBVIOUS
<1>2. Sharded!TypeOK
  BY <1>1 DEF ShardedIInv
<1>3. ASSUME NEW c \in Callers, NEW o \in Sharded!Ops, NEW k \in ShardedKeys,
             Sharded!Call(c, o, k)
      PROVE  Sharded!Abstract!Call(c)
  <2>1. /\ spc[c] = "idle" /\ Sharded!Keys' = Sharded!Keys
        /\ spc'[c] = "look" /\ op'[c] = o /\ skey'[c] = k
        /\ \A d \in Callers \ {c} :
             spc'[d] = spc[d] /\ op'[d] = op[d] /\ skey'[d] = skey[d] /\ ok'[d] = ok[d]
    BY <1>2, <1>3 DEF Sharded!Call, Sharded!TypeOK, Sharded!Keys
  <2>2. CallOf(c) = [at |-> "idle"] /\ CallOf(c)' = [at |-> "called", op |-> o, key |-> k]
    BY <2>1 DEF CallOf
  <2>3. \A d \in Callers \ {c} : CallOf(d)' = CallOf(d)
    BY <2>1 DEF CallOf
  <2>4. AbstractCalls[c].at = "idle"
    BY <2>2 DEF AbstractCalls
  <2>5. AbstractCalls' = [AbstractCalls EXCEPT ![c] = [at |-> "called", op |-> o, key |-> k]]
    BY <2>2, <2>3 DEF AbstractCalls
  <2>6. QED BY <2>1, <2>4, <2>5 DEF Sharded!Abstract!Call, AbstractCalls, CallOf
<1>4. ASSUME NEW c \in Callers, Sharded!Look(c)
      PROVE  Sharded!Abstract!TakeEffect(c) \/ UNCHANGED Sharded!Abstract!vars
  <2>1. /\ spc[c] = "look" /\ spc'[c] = (IF Sharded!Decided(c) THEN "return" ELSE "lock")
        /\ ok'[c] = Sharded!Present(c) /\ Sharded!Keys' = Sharded!Keys
        /\ op' = op /\ skey' = skey
        /\ \A d \in Callers \ {c} : spc'[d] = spc[d] /\ ok'[d] = ok[d]
    BY <1>2, <1>4 DEF Sharded!Look, Sharded!TypeOK, Sharded!Keys
  <2>2. \A d \in Callers \ {c} : CallOf(d)' = CallOf(d)
    BY <2>1 DEF CallOf
  <2>3. CASE Sharded!Decided(c)
    <3>1. /\ op[c] = "LoadOrStore" => Sharded!Keys = Sharded!Keys \cup {skey[c]}
          /\ op[c] = "LoadAndDelete" => Sharded!Keys = Sharded!Keys \ {skey[c]}
          /\ op[c] \in {"Load", "LoadOrStore", "LoadAndDelete"}
      BY <1>2, <2>3, PresentIsAKey DEF Sharded!Decided, Sharded!TypeOK, Sharded!Ops
    <3>2. QED BY <1>1, <2>1, <2>2, <2>3, <3>1, DecidingLook
  <2>4. CASE ~Sharded!Decided(c)
    <3>1. CallOf(c)' = CallOf(c)
      BY <2>1, <2>4 DEF CallOf
    <3>2. QED BY <2>1, <2>2, <3>1, SetStutters
  <2>5. QED BY <2>3, <2>4
<1>5. ASSUME NEW c \in Callers, Sharded!Lock(c) PROVE UNCHANGED Sharded!Abstract!vars
  <2>1. /\ spc[c] = "lock" /\ spc'[c] = "change" /\ Sharded!Keys' = Sharded!Keys
        /\ op' = op /\ skey' = skey /\ ok' = ok
        /\ \A d \in Callers \ {c} : spc'[d] = spc[d]
    BY <1>2, <1>5 DEF Sharded!Lock, Sharded!TypeOK, Sharded!Keys
  <2>2. \A d \in Callers : CallOf(d)' = CallOf(d)
    BY <2>1 DEF CallOf
  <2>3. QED BY <2>1, <2>2, SetStutters
<1>6. ASSUME NEW c \in Callers, Sharded!Change(c) PROVE Sharded!Abstract!TakeEffect(c)
  <2>1. /\ spc[c] = "change" /\ spc'[c] \in {"unlock", "count"}
        /\ ok'[c] = Sharded!Present(c) /\ op' = op /\ skey' = skey
        /\ op[c] \in {"LoadOrStore", "LoadAndDelete"}
        /\ \A d \in Callers \ {c} : spc'[d] = spc[d] /\ ok'[d] = ok[d]
    BY <1>1, <1>2, <1>6 DEF Sharded!Change, Sharded!TypeOK, Sharded!Ops, ShardedIInv, AboutToCount
  <2>2. \A d \in Callers \ {c} : CallOf(d)' = CallOf(d)
    BY <2>1 DEF CallOf
  <2>3. /\ op[c] = "LoadOrStore" => Sharded!Keys' = Sharded!Keys \cup {skey[c]}
        /\ op[c] = "LoadAndDelete" => Sharded!Keys' = Sharded!Keys \ {skey[c]}
    <3>1. CASE Sharded!Decided(c)
      <4>1. Sharded!Keys' = Sharded!Keys
        BY <1>6, <3>1 DEF Sharded!Change, Sharded!Keys
      <4>2. QED BY <1>2, <2>1, <3>1, <4>1, PresentIsAKey DEF Sharded!Decided
    <3>2. CASE ~Sharded!Decided(c)
      <4> DEFINE s0 == Sharded!shard(c)
                 K == IF op[c] = "LoadOrStore" THEN maps[s0] \cup {skey[c]}
                                               ELSE maps[s0] \ {skey[c]}
      <4>1. maps' = [maps EXCEPT ![s0] = K]
        BY <1>2, <1>6, <3>2, PresentIsAKey DEF Sharded!Change, Sharded!TypeOK
      <4>2. /\ K \in SUBSET ShardedKeys
            /\ K = maps[s0] \cup {skey[c]} \/ K = maps[s0] \ {skey[c]}
        BY <1>2, PresentIsAKey DEF Sharded!TypeOK
      <4>3. QED BY <1>2, <2>1, <4>1, <4>2, KeysChange
    <3>3. QED BY <3>1, <3>2
  <2>4. QED BY <1>1, <2>1, <2>2, <2>3, DecidingLook
<1>7. ASSUME NEW c \in Callers, Sharded!Count(c) \/ Sharded!Unlock(c)
      PROVE  UNCHANGED Sharded!Abstract!vars
  <2>1. /\ spc[c] \in {"count", "unlock"} /\ spc'[c] \in {"unlock", "return"}
        /\ Sharded!Keys' = Sharded!Keys /\ op' = op /\ skey' = skey /\ ok' = ok
        /\ \A d \in Callers \ {c} : spc'[d] = spc[d]
    BY <1>2, <1>7 DEF Sharded!Count, Sharded!Unlock, Sharded!TypeOK, Sharded!Keys
  <2>2. \A d \in Callers : CallOf(d)' = CallOf(d)
    BY <2>1 DEF CallOf
  <2>3. QED BY <2>1, <2>2, SetStutters
<1>8. ASSUME NEW c \in Callers, Sharded!Return(c) PROVE Sharded!Abstract!Return(c)
  <2>1. /\ spc[c] = "return" /\ spc'[c] = "idle" /\ Sharded!Keys' = Sharded!Keys
        /\ \A d \in Callers \ {c} :
             spc'[d] = spc[d] /\ op'[d] = op[d] /\ skey'[d] = skey[d] /\ ok'[d] = ok[d]
    BY <1>2, <1>8 DEF Sharded!Return, Sharded!TypeOK, Sharded!Keys
  <2>2. CallOf(c) = [at |-> "done", ok |-> ok[c]] /\ CallOf(c)' = [at |-> "idle"]
    BY <2>1 DEF CallOf
  <2>3. \A d \in Callers \ {c} : CallOf(d)' = CallOf(d)
    BY <2>1 DEF CallOf
  <2>4. AbstractCalls[c].at = "done"
    BY <2>2 DEF AbstractCalls
  <2>5. AbstractCalls' = [AbstractCalls EXCEPT ![c] = [at |-> "idle"]]
    BY <2>2, <2>3 DEF AbstractCalls
  <2>6. QED BY <2>1, <2>4, <2>5 DEF Sharded!Abstract!Return, Sharded!Abstract!Idle,
                                    AbstractCalls, CallOf
<1>9. CASE UNCHANGED Sharded!vars
  <2>1. Sharded!Keys' = Sharded!Keys /\ \A c \in Callers : CallOf(c)' = CallOf(c)
    BY <1>9 DEF Sharded!vars, Sharded!Keys, CallOf
  <2>2. QED BY <2>1, SetStutters
<1>10. QED
  BY <1>1, <1>3, <1>4, <1>5, <1>6, <1>7, <1>8, <1>9 DEF Sharded!Next, Sharded!Abstract!Next

\* The calls of a ShardedMap are atomic calls of a set, for any number of callers, keys
\* and shards: what the first look saw is looked at again where it may be stale.
THEOREM CallsAreAlwaysAtomic == Sharded!Spec => CallsAreAtomic
<1>1. Sharded!Spec => Sharded!Abstract!Spec
  BY AbstractInit, AbstractStep, ShardedInductive, PTL DEF Sharded!Spec, Sharded!Abstract!Spec
<1>2. QED BY <1>1 DEF CallsAreAtomic, Sharded!CallsAreAtomic
=============================================================================
