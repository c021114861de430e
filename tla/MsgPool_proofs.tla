--------------------------- MODULE MsgPool_proofs ---------------------------
(***************************************************************************)
(* The reference count is the number of references, for any number of      *)
(* holders, objects and sizes.                                             *)
(***************************************************************************)
EXTENDS MsgPool, FiniteSetTheorems, TLAPS

\* A holder in the middle of an operation has a message.
Busy == \A h \in Holders : pc[h] # "idle" => ref[h] \in Msgs

\* What is pooled is referenced by nobody.
Unshared == \A m \in Msgs : m \in pool => \A h \in Holders : ref[h] # m

\* What is on its way in or out of a pool is in one hand.
InHand ==
  \A h, g \in Holders : pc[h] \in {"got", "zero"} /\ ref[g] = ref[h] => g = h

IInv == TypeOK /\ Busy /\ Unshared /\ InHand /\ CountIsHolders /\ NoPanic

-----------------------------------------------------------------------------

\* A size fits the capacity of its class, so Msg.Init does not panic.
LEMMA ClassFits ==
  ASSUME NEW size \in Nat
  PROVE  /\ ClassCap(ClassOf(size)) \in Int
         /\ size <= ClassCap(ClassOf(size))
<1>1. Block \in Nat /\ Block > 0
  BY BlockAssumption
<1>2. size <= ((size + Block - 1) \div Block + 1) * Block
  BY <1>1
<1>3. (size + Block - 1) \div Block \in Int
  BY <1>1
<1> QED BY <1>1, <1>2, <1>3 DEF ClassCap, ClassOf

\* The holders of a message are finitely many.
LEMMA HoldersFinite ==
  ASSUME NEW m
  PROVE  /\ IsFiniteSet(HoldersOf(m))
         /\ Cardinality(HoldersOf(m)) \in Nat
<1>1. HoldersOf(m) \in SUBSET Holders
  BY DEF HoldersOf
<1> QED BY <1>1, HoldersAssumption, FS_Subset, FS_CardinalityType

\* The holders the next state has.
LEMMA HoldersFiniteNext ==
  ASSUME NEW m
  PROVE  IsFiniteSet(HoldersOf(m)')
<1>1. HoldersOf(m)' \in SUBSET Holders
  BY DEF HoldersOf
<1> QED BY <1>1, HoldersAssumption, FS_Subset

\* One holder more is one more in the count, and one fewer is one less.
LEMMA OneMore ==
  ASSUME NEW m, NEW h, h \notin HoldersOf(m), HoldersOf(m)' = HoldersOf(m) \cup {h}
  PROVE  Cardinality(HoldersOf(m)') = Cardinality(HoldersOf(m)) + 1
BY HoldersFinite, FS_AddElement

LEMMA OneLess ==
  ASSUME NEW m, NEW h, h \in HoldersOf(m), HoldersOf(m)' = HoldersOf(m) \ {h}
  PROVE  Cardinality(HoldersOf(m)') = Cardinality(HoldersOf(m)) - 1
BY HoldersFinite, FS_RemoveElement

\* The count is zero only when there is no holder.
LEMMA NoHolder ==
  ASSUME NEW m, Cardinality(HoldersOf(m)) = 0
  PROVE  HoldersOf(m) = {}
BY HoldersFinite, FS_EmptySet

\* A single holder is the only one.
LEMMA OnlyHolder ==
  ASSUME NEW m, NEW h \in HoldersOf(m), Cardinality(HoldersOf(m)) = 1
  PROVE  HoldersOf(m) = {h}
BY HoldersFinite, FS_Singleton

-----------------------------------------------------------------------------
(* How the actions change the holders *)

\* A step that changes only holder h, which held nothing before and holds
\* message m after, or the other way round.
LEMMA Gains ==
  ASSUME NEW h \in Holders, NEW m \in Msgs, ~Holds(h, m), Holds(h, m)',
         \A g \in Holders \ {h} : ref'[g] = ref[g] /\ pc'[g] = pc[g]
  PROVE  Cardinality(HoldersOf(m)') = Cardinality(HoldersOf(m)) + 1
<1>1. h \notin HoldersOf(m) /\ HoldersOf(m)' = HoldersOf(m) \cup {h}
  BY DEF HoldersOf, Holds
<1> QED BY <1>1, OneMore

LEMMA Loses ==
  ASSUME NEW h \in Holders, NEW m \in Msgs, Holds(h, m), ~Holds(h, m)',
         \A g \in Holders \ {h} : ref'[g] = ref[g] /\ pc'[g] = pc[g]
  PROVE  Cardinality(HoldersOf(m)') = Cardinality(HoldersOf(m)) - 1
<1>1. h \in HoldersOf(m) /\ HoldersOf(m)' = HoldersOf(m) \ {h}
  BY DEF HoldersOf, Holds
<1> QED BY <1>1, OneLess

\* A message whose holding does not change keeps its holders.
LEMMA Keeps ==
  ASSUME NEW m, \A g \in Holders : Holds(g, m)' <=> Holds(g, m)
  PROVE  HoldersOf(m)' = HoldersOf(m)
BY DEF HoldersOf

-----------------------------------------------------------------------------
(* Every step preserves the invariant *)

LEMMA InitIInv == Init => IInv
<1> SUFFICES ASSUME Init PROVE IInv
  OBVIOUS
<1>1. TypeOK /\ Busy /\ Unshared /\ InHand /\ NoPanic
  BY NoneAssumption DEF Init, TypeOK, Pcs, Busy, Unshared, InHand, NoPanic, None
<1>2. \A m \in Msgs : HoldersOf(m) = {}
  BY NoneAssumption DEF Init, HoldersOf, Holds, None
<1>3. CountIsHolders
  BY <1>2, FS_EmptySet DEF CountIsHolders, Init
<1> QED BY <1>1, <1>3 DEF IInv

\* Nobody holds a message that nobody refers to.
LEMMA Unheld ==
  ASSUME NEW m, \A h \in Holders : ref[h] = m => pc[h] \notin {"idle", "clone"}
  PROVE  Cardinality(HoldersOf(m)) = 0
<1>1. HoldersOf(m) = {}
  BY DEF HoldersOf, Holds
<1> QED BY <1>1, FS_EmptySet

\* GetMsg outside the pools.
LEMMA GetFreshStep ==
  ASSUME IInv, NEW h \in Holders, NEW m \in Msgs, NEW size \in Sizes, GetFresh(h, m, size)
  PROVE  IInv'
<1> DEFINE cap == ClassCap(ClassOf(size))
<1>1. size \in Nat /\ cap \in Int /\ size <= cap
  BY SizesAssumption, ClassFits
<1> HIDE DEF cap
<1>2. /\ Size' = [Size EXCEPT ![m] = size] /\ RefCount' = [RefCount EXCEPT ![m] = 1]
      /\ pc' = [pc EXCEPT ![h] = "idle"] /\ ref' = [ref EXCEPT ![h] = m]
      /\ m \notin pool /\ Cap' = [Cap EXCEPT ![m] = cap]
      /\ pooled' = [pooled EXCEPT ![m] = FALSE] /\ UNCHANGED <<isOpen, pool>>
  BY <1>1 DEF GetFresh, InitMsg, Make, Goto, cap
<1>3. ref[h] = None /\ pc[h] = "idle" /\ \A g \in Holders : ref[g] # m
  BY DEF GetFresh, Free, At, Make
<1>4. TypeOK'
  BY <1>1, <1>2 DEF IInv, TypeOK, Pcs
<1>5. Busy' /\ Unshared' /\ InHand' /\ NoPanic'
  BY <1>2, <1>3, NoneAssumption
     DEF IInv, TypeOK, Pcs, Busy, Unshared, InHand, NoPanic, None
<1>6. ASSUME NEW x \in Msgs PROVE RefCount'[x] = Cardinality(HoldersOf(x)')
  <2>1. CASE x = m
    <3>1. Cardinality(HoldersOf(m)) = 0
      BY <1>3, Unheld
    <3>2. Cardinality(HoldersOf(m)') = Cardinality(HoldersOf(m)) + 1
      <4>1. ~Holds(h, m) /\ Holds(h, m)'
        BY <1>2, <1>3 DEF Holds, IInv, TypeOK
      <4>2. \A g \in Holders \ {h} : ref'[g] = ref[g] /\ pc'[g] = pc[g]
        BY <1>2 DEF IInv, TypeOK
      <4> QED BY <4>1, <4>2, Gains
    <3> QED BY <1>2, <2>1, <3>1, <3>2 DEF IInv, TypeOK
  <2>2. CASE x # m
    <3>1. \A g \in Holders : Holds(g, x)' <=> Holds(g, x)
      BY <1>2, <1>3, <2>2, NoneAssumption DEF Holds, IInv, TypeOK, None
    <3> QED BY <1>2, <2>2, <3>1, Keeps DEF IInv, TypeOK, CountIsHolders
  <2> QED BY <2>1, <2>2
<1> QED BY <1>4, <1>5, <1>6 DEF IInv, CountIsHolders

\* GetMsg takes a message from a pool or allocates one for it.
LEMMA GetTakeStep ==
  ASSUME IInv, NEW h \in Holders, NEW m \in Msgs, NEW size \in Sizes, GetTake(h, m, size)
  PROVE  IInv'
<1> DEFINE cap == ClassCap(ClassOf(size))
<1>1. cap \in Int
  BY SizesAssumption, ClassFits
<1> HIDE DEF cap
<1>2. /\ pc' = [pc EXCEPT ![h] = "got"] /\ ref' = [ref EXCEPT ![h] = m]
      /\ UNCHANGED <<isOpen, RefCount, Size>>
      /\ \/ m \in pool /\ pool' = pool \ {m} /\ UNCHANGED <<Cap, pooled>>
         \/ /\ m \notin pool /\ (\A g \in Holders : ref[g] # m) /\ UNCHANGED pool
            /\ Cap' = [Cap EXCEPT ![m] = cap] /\ pooled' = [pooled EXCEPT ![m] = TRUE]
  BY DEF GetTake, Make, Goto, objVars, cap
<1>3. ref[h] = None /\ pc[h] = "idle" /\ \A g \in Holders : ref[g] # m
  BY <1>2 DEF GetTake, Free, At, IInv, Unshared
<1>4. TypeOK'
  BY <1>1, <1>2 DEF IInv, TypeOK, Pcs
<1>5. Busy' /\ Unshared' /\ InHand' /\ NoPanic'
  BY <1>2, <1>3, NoneAssumption
     DEF IInv, TypeOK, Pcs, Busy, Unshared, InHand, NoPanic, None
<1>6. ASSUME NEW x \in Msgs PROVE RefCount'[x] = Cardinality(HoldersOf(x)')
  <2>1. \A g \in Holders : Holds(g, x)' <=> Holds(g, x)
    BY <1>2, <1>3, NoneAssumption DEF Holds, IInv, TypeOK, None
  <2> QED BY <1>2, <2>1, Keeps DEF IInv, CountIsHolders
<1> QED BY <1>4, <1>5, <1>6 DEF IInv, CountIsHolders

\* GetMsg initialises what it has in hand.
LEMMA GetInitStep ==
  ASSUME IInv, NEW h \in Holders, NEW size \in Sizes, GetInit(h, size)
  PROVE  IInv'
<1>0. PICK m \in Msgs : m = ref[h]
  BY DEF GetInit, At, IInv, Busy
<1>1. pc[h] = "got" /\ \A g \in Holders : ref[g] = m => g = h
  BY <1>0 DEF GetInit, At, IInv, InHand
<1>2. Cardinality(HoldersOf(m)) = 0
  BY <1>0, <1>1, Unheld
<1>3. RefCount[m] = 0
  BY <1>0, <1>1, <1>2 DEF IInv, CountIsHolders
<1>4. size \in Nat /\ size <= Cap[m]
  BY <1>0, SizesAssumption, ClassFits DEF GetInit
<1>5. /\ Size' = [Size EXCEPT ![m] = size] /\ RefCount' = [RefCount EXCEPT ![m] = 1]
      /\ pc' = [pc EXCEPT ![h] = "idle"]
      /\ UNCHANGED <<isOpen, Cap, pooled, pool, ref>>
  <2>1. /\ InitMsg(h, m, Cap[m], size)
        /\ UNCHANGED <<isOpen, Cap, pooled, pool, ref>>
    BY <1>0, <1>3 DEF GetInit, objVars
  <2>2. Cap[m] \in Int
    BY <1>0, <1>1 DEF IInv, TypeOK
  <2> QED BY <2>1, <2>2, <1>4 DEF InitMsg, Goto
<1>6. TypeOK'
  BY <1>0, <1>1, <1>4, <1>5 DEF IInv, TypeOK, Pcs
<1>7. Busy' /\ Unshared' /\ InHand' /\ NoPanic'
  BY <1>0, <1>1, <1>5 DEF IInv, TypeOK, Pcs, Busy, Unshared, InHand, NoPanic
<1>8. ASSUME NEW x \in Msgs PROVE RefCount'[x] = Cardinality(HoldersOf(x)')
  <2>1. CASE x = m
    <3>1. ~Holds(h, m) /\ Holds(h, m)'
      BY <1>0, <1>1, <1>5 DEF Holds, IInv, TypeOK
    <3>2. \A g \in Holders \ {h} : ref'[g] = ref[g] /\ pc'[g] = pc[g]
      BY <1>5 DEF IInv, TypeOK
    <3>3. Cardinality(HoldersOf(m)') = Cardinality(HoldersOf(m)) + 1
      BY <1>0, <1>1, <3>1, <3>2, Gains
    <3> QED BY <1>0, <1>1, <1>2, <1>5, <2>1, <3>3 DEF IInv, TypeOK
  <2>2. CASE x # m
    <3>1. \A g \in Holders : Holds(g, x)' <=> Holds(g, x)
      BY <1>0, <1>1, <1>5, <2>2 DEF Holds, IInv, TypeOK
    <3> QED BY <1>5, <2>2, <3>1, Keeps DEF IInv, TypeOK, CountIsHolders
  <2> QED BY <2>1, <2>2
<1> QED BY <1>6, <1>7, <1>8 DEF IInv, CountIsHolders

\* NewMsgFromBytes.
LEMMA FromBytesStep ==
  ASSUME IInv, NEW h \in Holders, NEW m \in Msgs, NEW size \in Sizes, FromBytes(h, m, size)
  PROVE  IInv'
<1>1. size \in Nat
  BY SizesAssumption
<1>2. /\ Size' = [Size EXCEPT ![m] = size] /\ RefCount' = [RefCount EXCEPT ![m] = 1]
      /\ ref' = [ref EXCEPT ![h] = m] /\ m \notin pool
      /\ Cap' = [Cap EXCEPT ![m] = size] /\ pooled' = [pooled EXCEPT ![m] = FALSE]
      /\ UNCHANGED <<isOpen, pool, pc>>
  BY DEF FromBytes, Make
<1>3. ref[h] = None /\ pc[h] = "idle" /\ \A g \in Holders : ref[g] # m
  BY DEF FromBytes, Free, At, Make
<1>4. TypeOK'
  BY <1>1, <1>2 DEF IInv, TypeOK, Pcs
<1>5. Busy' /\ Unshared' /\ InHand' /\ NoPanic'
  BY <1>2, <1>3, NoneAssumption
     DEF IInv, TypeOK, Pcs, Busy, Unshared, InHand, NoPanic, None
<1>6. ASSUME NEW x \in Msgs PROVE RefCount'[x] = Cardinality(HoldersOf(x)')
  <2>1. CASE x = m
    <3>1. Cardinality(HoldersOf(m)) = 0
      BY <1>3, Unheld
    <3>2. ~Holds(h, m) /\ Holds(h, m)'
      BY <1>2, <1>3 DEF Holds, IInv, TypeOK
    <3>3. \A g \in Holders \ {h} : ref'[g] = ref[g] /\ pc'[g] = pc[g]
      BY <1>2 DEF IInv, TypeOK
    <3>4. Cardinality(HoldersOf(m)') = Cardinality(HoldersOf(m)) + 1
      BY <3>2, <3>3, Gains
    <3> QED BY <1>2, <2>1, <3>1, <3>4 DEF IInv, TypeOK
  <2>2. CASE x # m
    <3>1. \A g \in Holders : Holds(g, x)' <=> Holds(g, x)
      BY <1>2, <1>3, <2>2, NoneAssumption DEF Holds, IInv, TypeOK, None
    <3> QED BY <1>2, <2>2, <3>1, Keeps DEF IInv, TypeOK, CountIsHolders
  <2> QED BY <2>1, <2>2
<1> QED BY <1>4, <1>5, <1>6 DEF IInv, CountIsHolders

\* GetData finds a reference counted.
LEMMA Counted ==
  ASSUME IInv, NEW h \in Holders, ref[h] \in Msgs, pc[h] \in {"idle", "clone"}
  PROVE  RefCount[ref[h]] \in Int /\ RefCount[ref[h]] > 0
<1>1. h \in HoldersOf(ref[h])
  BY DEF HoldersOf, Holds
<1>2. Cardinality(HoldersOf(ref[h])) \in Nat /\ Cardinality(HoldersOf(ref[h])) # 0
  BY <1>1, HoldersFinite, NoHolder
<1> QED BY <1>2 DEF IInv, CountIsHolders

\* Reading the data, and Clone's test.
LEMMA TestStep ==
  ASSUME IInv, NEW h \in Holders, GetData(h) \/ CloneTest(h)
  PROVE  IInv'
<1>1. ref[h] \in Msgs /\ pc[h] = "idle"
  BY DEF GetData, CloneTest, At, IInv, TypeOK
<1>2. RefCount[ref[h]] \in Int /\ RefCount[ref[h]] > 0
  BY <1>1, Counted
<1>3. /\ pc' = [pc EXCEPT ![h] = "clone"] \/ pc' = pc
      /\ UNCHANGED <<isOpen, Cap, pooled, RefCount, Size, pool, ref>>
  BY <1>2 DEF GetData, CloneTest, Goto, objVars
<1>4. TypeOK' /\ Busy' /\ Unshared' /\ InHand' /\ NoPanic'
  BY <1>1, <1>3 DEF IInv, TypeOK, Pcs, Busy, Unshared, InHand, NoPanic
<1>5. ASSUME NEW x \in Msgs PROVE RefCount'[x] = Cardinality(HoldersOf(x)')
  <2>1. \A g \in Holders : Holds(g, x)' <=> Holds(g, x)
    BY <1>1, <1>3 DEF Holds, IInv, TypeOK
  <2> QED BY <1>3, <2>1, Keeps DEF IInv, CountIsHolders
<1> QED BY <1>4, <1>5 DEF IInv, CountIsHolders

\* Clone adds a holder to a message that has one.
LEMMA CloneAddStep ==
  ASSUME IInv, NEW h \in Holders, NEW g \in Holders, CloneAdd(h, g)
  PROVE  IInv'
<1>0. PICK m \in Msgs : m = ref[h]
  BY DEF CloneAdd, At, IInv, Busy
<1>1. /\ pc[h] = "clone" /\ ref[g] = None /\ pc[g] = "idle" /\ g # h
      /\ RefCount' = [RefCount EXCEPT ![m] = @ + 1]
      /\ ref' = [ref EXCEPT ![g] = m] /\ pc' = [pc EXCEPT ![h] = "idle"]
      /\ UNCHANGED <<isOpen, Cap, pooled, Size, pool>>
  BY <1>0 DEF CloneAdd, At, Free, Goto, objVars
<1>2. TypeOK' /\ Busy' /\ NoPanic'
  BY <1>0, <1>1 DEF IInv, TypeOK, Pcs, Busy, NoPanic
<1>3. Unshared' /\ InHand'
  BY <1>0, <1>1, NoneAssumption DEF IInv, TypeOK, Pcs, Busy, Unshared, InHand, None
<1>4. ASSUME NEW x \in Msgs PROVE RefCount'[x] = Cardinality(HoldersOf(x)')
  <2>1. CASE x = m
    <3>1. g \notin HoldersOf(m) /\ HoldersOf(m)' = HoldersOf(m) \cup {g}
      BY <1>0, <1>1, NoneAssumption DEF HoldersOf, Holds, IInv, TypeOK, None
    <3>2. Cardinality(HoldersOf(m)') = Cardinality(HoldersOf(m)) + 1
      BY <3>1, OneMore
    <3> QED BY <1>1, <2>1, <3>2 DEF IInv, TypeOK, CountIsHolders
  <2>2. CASE x # m
    <3>1. \A k \in Holders : Holds(k, x)' <=> Holds(k, x)
      BY <1>0, <1>1, <2>2, NoneAssumption DEF Holds, IInv, TypeOK, None
    <3> QED BY <1>1, <2>2, <3>1, Keeps DEF IInv, TypeOK, CountIsHolders
  <2> QED BY <2>1, <2>2
<1> QED BY <1>2, <1>3, <1>4 DEF IInv, CountIsHolders

\* Put takes a holder away; when it was the last, nobody refers to the message.
LEMMA PutDropStep ==
  ASSUME IInv, NEW h \in Holders, PutDrop(h)
  PROVE  IInv'
<1>0. PICK m \in Msgs : m = ref[h]
  BY DEF PutDrop, IInv, TypeOK
<1> DEFINE n == RefCount[m] - 1
<1>1. pc[h] = "idle" /\ RefCount[m] \in Int /\ n >= 0 /\ h \in HoldersOf(m)
  BY <1>0, Counted DEF PutDrop, At, HoldersOf, Holds
<1>2. RefCount' = [RefCount EXCEPT ![m] = n] /\ RefCount'[m] = n
  BY <1>0 DEF PutDrop, IInv, TypeOK
<1>3. /\ \/ /\ n = 0 /\ pc' = [pc EXCEPT ![h] = "zero"] /\ UNCHANGED ref
         \/ ref' = [ref EXCEPT ![h] = None] /\ UNCHANGED pc
      /\ UNCHANGED <<isOpen, Cap, pooled, Size, pool>>
  BY <1>0, <1>1, <1>2 DEF PutDrop, Goto, objVars
<1> HIDE DEF n
<1>4. n = 0 => \A g \in Holders : ref[g] = m => g = h
  <2>1. n = 0 => HoldersOf(m) = {h}
    BY <1>1, OnlyHolder DEF IInv, CountIsHolders, n
  <2>2. \A g \in Holders : ref[g] = m => pc[g] \in {"idle", "clone"}
    BY <1>0, <1>1 DEF IInv, TypeOK, Pcs, InHand, NoPanic
  <2> QED BY <2>1, <2>2 DEF HoldersOf, Holds
<1>5. m \notin pool
  BY <1>0 DEF IInv, Unshared
<1>6. TypeOK' /\ Busy' /\ NoPanic'
  <2>1. n \in Int
    BY <1>1 DEF n
  <2>2. RefCount' \in [Msgs -> Int]
    BY <1>2, <2>1 DEF IInv, TypeOK
  <2>3. pc' \in [Holders -> Pcs] /\ ref' \in [Holders -> Msgs \cup {None}]
    BY <1>3 DEF IInv, TypeOK, Pcs
  <2>4. pool' \subseteq Msgs
    BY <1>3 DEF IInv, TypeOK
  <2>5. TypeOK'
    BY <1>3, <2>2, <2>3, <2>4 DEF IInv, TypeOK
  <2> QED BY <1>0, <1>1, <1>3, <2>5 DEF IInv, TypeOK, Busy, NoPanic
<1>7. Unshared'
  BY <1>0, <1>3, <1>4, <1>5, NoneAssumption DEF IInv, TypeOK, Unshared, None
<1>8. InHand'
  BY <1>0, <1>1, <1>3, <1>4, NoneAssumption DEF IInv, TypeOK, Busy, InHand, None
<1>9. ASSUME NEW x \in Msgs PROVE RefCount'[x] = Cardinality(HoldersOf(x)')
  <2>1. CASE x = m
    <3>1. HoldersOf(m)' = HoldersOf(m) \ {h}
      BY <1>0, <1>1, <1>3, NoneAssumption DEF HoldersOf, Holds, IInv, TypeOK, None
    <3>2. Cardinality(HoldersOf(m)') = Cardinality(HoldersOf(m)) - 1
      BY <1>1, <3>1, OneLess
    <3> QED BY <1>2, <2>1, <3>2 DEF IInv, CountIsHolders, n
  <2>2. CASE x # m
    <3>1. \A k \in Holders : Holds(k, x)' <=> Holds(k, x)
      BY <1>0, <1>1, <1>3, <2>2, NoneAssumption DEF Holds, IInv, TypeOK, None
    <3> QED BY <1>2, <2>2, <3>1, Keeps DEF IInv, TypeOK, CountIsHolders
  <2> QED BY <2>1, <2>2
<1> QED BY <1>6, <1>7, <1>8, <1>9 DEF IInv, CountIsHolders

\* Pool.Put takes what nobody else refers to.
LEMMA PutPoolStep ==
  ASSUME IInv, NEW h \in Holders, PutPool(h)
  PROVE  IInv'
<1>0. PICK m \in Msgs : m = ref[h]
  BY DEF PutPool, At, IInv, Busy
<1>1. /\ pc[h] = "zero" /\ ref' = [ref EXCEPT ![h] = None] /\ pc' = [pc EXCEPT ![h] = "idle"]
      /\ pool' = pool \cup {m} /\ UNCHANGED <<isOpen, Cap, pooled, RefCount, Size>>
  BY <1>0 DEF PutPool, At, Goto, objVars
<1>2. \A g \in Holders : ref[g] = m => g = h
  BY <1>0, <1>1 DEF IInv, InHand
<1>3. TypeOK' /\ Busy' /\ NoPanic'
  BY <1>0, <1>1, <1>2 DEF IInv, TypeOK, Pcs, Busy, NoPanic
<1>4. Unshared' /\ InHand'
  BY <1>0, <1>1, <1>2, NoneAssumption DEF IInv, TypeOK, Busy, Unshared, InHand, None
<1>5. ASSUME NEW x \in Msgs PROVE RefCount'[x] = Cardinality(HoldersOf(x)')
  <2>1. \A g \in Holders : Holds(g, x)' <=> Holds(g, x)
    BY <1>0, <1>1, NoneAssumption DEF Holds, IInv, TypeOK, None
  <2> QED BY <1>1, <2>1, Keeps DEF IInv, CountIsHolders
<1> QED BY <1>3, <1>4, <1>5 DEF IInv, CountIsHolders

\* The garbage collector, the flag and a stutter change no reference.
LEMMA OtherStep ==
  ASSUME IInv, SetMsgPoolFlag \/ (\E m \in Msgs : Collect(m)) \/ UNCHANGED vars
  PROVE  IInv'
<1>1. UNCHANGED <<Cap, pooled, RefCount, Size, ref, pc>> /\ pool' \subseteq pool
  BY DEF SetMsgPoolFlag, Collect, objVars, holdVars, vars
<1>2. TypeOK'
  BY <1>1 DEF SetMsgPoolFlag, Collect, vars, IInv, TypeOK
<1>3. Busy' /\ InHand' /\ NoPanic'
  BY <1>1 DEF IInv, Busy, InHand, NoPanic
<1>4. Unshared'
  BY <1>1 DEF SetMsgPoolFlag, Collect, vars, IInv, Unshared
<1>5. \A x \in Msgs : HoldersOf(x)' = HoldersOf(x)
  BY <1>1 DEF HoldersOf, Holds
<1>6. CountIsHolders'
  BY <1>1, <1>5 DEF IInv, CountIsHolders
<1> QED BY <1>2, <1>3, <1>4, <1>6 DEF IInv

\* Every step preserves the invariant.
LEMMA NextIInv == IInv /\ [Next]_vars => IInv'
BY GetFreshStep, GetTakeStep, GetInitStep, FromBytesStep, TestStep, CloneAddStep,
   PutDropStep, PutPoolStep, OtherStep DEF Next

\* The strengthened invariant holds of every reachable state.
THEOREM Inductive == Spec => []IInv
<1>1. Init => IInv
  BY InitIInv
<1>2. IInv /\ [Next]_vars => IInv'
  BY NextIInv
<1> QED BY <1>1, <1>2, PTL DEF Spec

-----------------------------------------------------------------------------
(* What follows *)

\* Every variable keeps its type.
THEOREM TypeCorrect == Spec => []TypeOK
<1>1. IInv => TypeOK
  BY DEF IInv
<1> QED BY <1>1, Inductive, PTL

\* RefCount counts the references, whatever goroutines Clone and Put.
THEOREM CountIsExact == Spec => []CountIsHolders
<1>1. IInv => CountIsHolders
  BY DEF IInv
<1> QED BY <1>1, Inductive, PTL

\* What is pooled, or on its way in or out of a pool, is referenced by nobody else.
THEOREM PooledIsNobodys == Spec => []IdleIsUnshared
<1>1. IInv => IdleIsUnshared
  BY DEF IInv, Unshared, InHand, IdleIsUnshared
<1> QED BY <1>1, Inductive, PTL

\* Holders that keep to the contract never make the package panic.
THEOREM ContractNeverPanics == Spec => []NoPanic
<1>1. IInv => NoPanic
  BY DEF IInv
<1> QED BY <1>1, Inductive, PTL

\* No GetMsg initialises a message while somebody holds a reference to it.
THEOREM HeldDataStays == Spec => DataStable
<1> DEFINE Stays(m) == ~Inits(m) /\ Size'[m] = Size[m] /\ Cap'[m] = Cap[m]
           Stable == \A h \in Holders : \A m \in Msgs : Holds(h, m) /\ Holds(h, m)' => Stays(m)
<1>1. IInv /\ [Next]_vars => Stable
  <2> SUFFICES ASSUME IInv, [Next]_vars, NEW h \in Holders, NEW m \in Msgs, Holds(h, m)
               PROVE  Stays(m)
    OBVIOUS
  <2>1. ref[h] = m /\ pc[h] \in {"idle", "clone"} /\ m \notin pool
    BY DEF Holds, IInv, Unshared
  <2>2. ~Inits(m)
    BY <2>1 DEF Inits, IInv, InHand
  <2>3. ASSUME NEW g \in Holders, NEW x \in Msgs, NEW size \in Sizes,
               GetFresh(g, x, size) \/ GetTake(g, x, size) \/ FromBytes(g, x, size)
        PROVE  Size'[m] = Size[m] /\ Cap'[m] = Cap[m]
    <3>1. x # m => /\ Size' = Size \/ \E s : Size' = [Size EXCEPT ![x] = s]
                   /\ Cap' = Cap \/ \E c : Cap' = [Cap EXCEPT ![x] = c]
      BY <2>3 DEF GetFresh, GetTake, FromBytes, Make, InitMsg, objVars
    <3>2. x = m => Size' = Size /\ Cap' = Cap
      BY <2>1, <2>3 DEF GetFresh, GetTake, FromBytes, Make, objVars
    <3> QED BY <3>1, <3>2 DEF IInv, TypeOK
  <2>4. ASSUME NEW g \in Holders, NEW size \in Sizes, GetInit(g, size)
        PROVE  Size'[m] = Size[m] /\ Cap'[m] = Cap[m]
    <3>1. ref[g] # m
      BY <2>1, <2>4 DEF GetInit, At, IInv, InHand
    <3>2. /\ Size' = Size \/ \E s : Size' = [Size EXCEPT ![ref[g]] = s]
          /\ Cap' = Cap
      BY <2>4 DEF GetInit, InitMsg, objVars
    <3> QED BY <3>1, <3>2 DEF IInv, TypeOK
  <2>5. ASSUME \/ SetMsgPoolFlag \/ (\E x \in Msgs : Collect(x)) \/ UNCHANGED vars
               \/ \E g \in Holders : GetData(g) \/ CloneTest(g) \/ PutDrop(g) \/ PutPool(g)
               \/ \E g, k \in Holders : CloneAdd(g, k)
        PROVE  Size'[m] = Size[m] /\ Cap'[m] = Cap[m]
    BY <2>5 DEF SetMsgPoolFlag, Collect, GetData, CloneTest, PutDrop, PutPool, CloneAdd,
                objVars, vars
  <2> QED BY <2>2, <2>3, <2>4, <2>5 DEF Next
<1> QED BY <1>1, Inductive, PTL DEF Spec, DataStable

=============================================================================
