------------------------------ MODULE MsgPool ------------------------------
(***************************************************************************)
(* The reference-counted message pools of msgPool                          *)
(* (src/rivetxcore/msgPool/msg.go).  A message is shared by the goroutines *)
(* that hold a reference to it: GetMsg and NewMsgFromBytes make the first  *)
(* reference, Clone another one, and Put gives one back; the last Put      *)
(* returns the message to the sync.Pool of its size class, from which      *)
(* another GetMsg takes it.  RefCount is atomic, but Clone tests it and    *)
(* adds to it in two steps, and Put and GetMsg touch it and the pool in    *)
(* two steps.                                                              *)
(*                                                                         *)
(* A holder is a place that can keep one reference: a local variable of a  *)
(* goroutine or a slot of a channel.  Holders obey the contract of the     *)
(* package: only a holder of a message calls Clone, GetData and Put on it, *)
(* and it gives up its reference with Put.                                 *)
(***************************************************************************)
EXTENDS Integers, FiniteSets

CONSTANTS
  Holders,   \* places for a reference
  Msgs,      \* identities of Msg objects
  Sizes,     \* the sizes GetMsg is asked for
  Block,     \* msgPoolsBlock
  PoolCount  \* len(msgPools)

ASSUME HoldersAssumption == IsFiniteSet(Holders)
ASSUME NoneAssumption == "none" \notin Msgs
ASSUME SizesAssumption == Sizes \subseteq Nat
ASSUME BlockAssumption == Block \in Nat \ {0} /\ PoolCount \in Nat

None == "none"

VARIABLES
  isOpen,    \* isOpenMsgPool
  Cap,       \* the length of Datas
  pooled,    \* whether its Pool is not nil
  RefCount,
  Size,
  pool,      \* the objects that are in the sync.Pool of their class
  ref,       \* the message each holder keeps
  pc         \* the operation each holder is in the middle of

objVars == <<Cap, pooled>>
holdVars == <<ref, pc>>
vars == <<isOpen, objVars, RefCount, Size, pool, holdVars>>

\* index := (size + msgPoolsBlock - 1) / msgPoolsBlock, the size class.
ClassOf(size) == (size + Block - 1) \div Block

\* The capacity of the objects of class i.
ClassCap(i) == (i + 1) * Block

Init ==
  /\ isOpen = TRUE
  /\ pool = {}
  /\ Cap = [m \in Msgs |-> 0] /\ pooled = [m \in Msgs |-> FALSE]
  /\ RefCount = [m \in Msgs |-> 0] /\ Size = [m \in Msgs |-> 0]
  /\ ref = [h \in Holders |-> None] /\ pc = [h \in Holders |-> "idle"]

Holds(h, m) == ref[h] = m /\ pc[h] \in {"idle", "clone"}
HoldersOf(m) == {h \in Holders : Holds(h, m)}

At(h, l) == pc[h] = l
Free(h) == ref[h] = None /\ At(h, "idle")
Goto(h, l) == pc' = [pc EXCEPT ![h] = l]
Panic(h) == Goto(h, "panicked")

\* NewMsg: an object is allocated, which is none that can still be reached.
Make(m, cap, p) ==
  /\ m \notin pool /\ \A h \in Holders : ref[h] # m
  /\ Cap' = [Cap EXCEPT ![m] = cap]
  /\ pooled' = [pooled EXCEPT ![m] = p]

SetMsgPoolFlag ==
  /\ isOpen' \in BOOLEAN
  /\ UNCHANGED <<objVars, RefCount, Size, pool, holdVars>>

\* Mutation: the first reference is not counted.
InitMsgUncounted(h, m, cap, size) ==
  IF size > cap
  THEN Panic(h) /\ UNCHANGED <<Size, RefCount>>
  ELSE /\ Size' = [Size EXCEPT ![m] = size]
       /\ Goto(h, "idle")
       /\ UNCHANGED RefCount

\* Msg.Init: Size, and RefCount stored, not added.
InitMsg(h, m, cap, size) ==
  IF size > cap
  THEN Panic(h) /\ UNCHANGED <<Size, RefCount>>
  ELSE /\ Size' = [Size EXCEPT ![m] = size]
       /\ RefCount' = [RefCount EXCEPT ![m] = 1]
       /\ Goto(h, "idle")

UsesPool(size) == isOpen /\ ClassOf(size) < PoolCount

\* GetMsg without a pool: the class is too large, or pools are switched off.
GetFresh(h, m, size) ==
  /\ Free(h)
  /\ ~UsesPool(size)
  /\ Make(m, ClassCap(ClassOf(size)), FALSE)
  /\ ref' = [ref EXCEPT ![h] = m]
  /\ InitMsg(h, m, ClassCap(ClassOf(size)), size)
  /\ UNCHANGED <<isOpen, pool>>

\* GetMsg: sync.Pool's Get hands out any pooled message of the class, or a new one.
GetTake(h, m, size) ==
  /\ Free(h)
  /\ UsesPool(size)
  /\ \/ /\ m \in pool /\ Cap[m] = ClassCap(ClassOf(size))
        /\ pool' = pool \ {m}
        /\ UNCHANGED objVars
     \/ /\ Make(m, ClassCap(ClassOf(size)), TRUE)
        /\ UNCHANGED pool
  /\ ref' = [ref EXCEPT ![h] = m]
  /\ Goto(h, "got")
  /\ UNCHANGED <<isOpen, RefCount, Size>>

\* GetMsg panics on a message that is referenced, and else initialises it.
GetInit(h, size) ==
  /\ At(h, "got") /\ ClassCap(ClassOf(size)) = Cap[ref[h]]
  /\ IF RefCount[ref[h]] > 0
     THEN Panic(h) /\ UNCHANGED <<Size, RefCount>>
     ELSE InitMsg(h, ref[h], Cap[ref[h]], size)
  /\ UNCHANGED <<isOpen, objVars, pool, ref>>

\* NewMsgFromBytes: outside every pool, as large as its data.
FromBytes(h, m, size) ==
  /\ Free(h)
  /\ Make(m, size, FALSE)
  /\ RefCount' = [RefCount EXCEPT ![m] = 1]
  /\ Size' = [Size EXCEPT ![m] = size]
  /\ ref' = [ref EXCEPT ![h] = m]
  /\ UNCHANGED <<isOpen, pool, pc>>

\* GetData panics on a message nobody references, and else only reads.
GetData(h) ==
  /\ At(h, "idle") /\ ref[h] # None
  /\ IF RefCount[ref[h]] <= 0 THEN Panic(h) ELSE UNCHANGED pc
  /\ UNCHANGED <<isOpen, objVars, RefCount, Size, pool, ref>>

\* Clone: the test ...
CloneTest(h) ==
  /\ At(h, "idle") /\ ref[h] # None
  /\ IF RefCount[ref[h]] <= 0 THEN Panic(h) ELSE Goto(h, "clone")
  /\ UNCHANGED <<isOpen, objVars, RefCount, Size, pool, ref>>

\* Mutation: the new reference is not counted.
CloneAddNothing(h, g) ==
  /\ At(h, "clone") /\ Free(g)
  /\ ref' = [ref EXCEPT ![g] = ref[h]]
  /\ Goto(h, "idle")
  /\ UNCHANGED <<isOpen, objVars, RefCount, Size, pool>>

\* ... and the addition; g keeps the new reference.
CloneAdd(h, g) ==
  /\ At(h, "clone") /\ Free(g)
  /\ RefCount' = [RefCount EXCEPT ![ref[h]] = @ + 1]
  /\ ref' = [ref EXCEPT ![g] = ref[h]]
  /\ Goto(h, "idle")
  /\ UNCHANGED <<isOpen, objVars, Size, pool>>

\* Put: the subtraction.  What is left decides: back to the pool, garbage,
\* still in use, or a panic.
PutDrop(h) ==
  /\ At(h, "idle") /\ ref[h] # None
  /\ RefCount' = [RefCount EXCEPT ![ref[h]] = @ - 1]
  /\ IF RefCount'[ref[h]] < 0
     THEN Panic(h) /\ UNCHANGED ref
     ELSE IF RefCount'[ref[h]] = 0 /\ pooled[ref[h]]
     THEN Goto(h, "zero") /\ UNCHANGED ref
     ELSE ref' = [ref EXCEPT ![h] = None] /\ UNCHANGED pc
  /\ UNCHANGED <<isOpen, objVars, Size, pool>>

\* msg.Pool.Put
PutPool(h) ==
  /\ At(h, "zero")
  /\ pool' = pool \cup {ref[h]}
  /\ ref' = [ref EXCEPT ![h] = None]
  /\ Goto(h, "idle")
  /\ UNCHANGED <<isOpen, objVars, RefCount, Size>>

\* The garbage collector empties sync.Pools at will.
Collect(m) ==
  /\ m \in pool
  /\ pool' = pool \ {m}
  /\ UNCHANGED <<isOpen, objVars, RefCount, Size, holdVars>>

Next ==
  \/ SetMsgPoolFlag
  \/ \E h \in Holders, size \in Sizes :
       \/ \E m \in Msgs : GetFresh(h, m, size) \/ GetTake(h, m, size) \/ FromBytes(h, m, size)
       \/ GetInit(h, size)
  \/ \E h \in Holders : GetData(h) \/ CloneTest(h) \/ PutDrop(h) \/ PutPool(h)
  \/ \E h, g \in Holders : CloneAdd(h, g)
  \/ \E m \in Msgs : Collect(m)

Spec == Init /\ [][Next]_vars

-----------------------------------------------------------------------------
(* Properties *)

Pcs == {"idle", "got", "clone", "zero", "panicked"}

\* Every variable has its type.
TypeOK ==
  /\ isOpen \in BOOLEAN
  /\ pool \subseteq Msgs
  /\ Cap \in [Msgs -> Int] /\ pooled \in [Msgs -> BOOLEAN]
  /\ RefCount \in [Msgs -> Int] /\ Size \in [Msgs -> Nat]
  /\ ref \in [Holders -> Msgs \cup {None}] /\ pc \in [Holders -> Pcs]

\* RefCount is the number of references: no Clone or Put of any goroutine is
\* lost or counted twice, whatever its steps are interleaved with.
CountIsHolders == \A m \in Msgs : RefCount[m] = Cardinality(HoldersOf(m))

\* A message in a pool is referenced by nobody, and one that is on its way in
\* or out of it is in one place only.
IdleIsUnshared ==
  \A m \in Msgs :
    LET inHand == {h \in Holders : ref[h] = m /\ pc[h] \in {"got", "zero"}}
    IN  /\ m \in pool => \A h \in Holders : ref[h] # m
        /\ \A h \in inHand : \A g \in Holders : ref[g] = m => g = h

\* No holder that keeps to the contract makes GetMsg, Init, GetData, Clone or
\* Put panic.
NoPanic == \A h \in Holders : pc[h] # "panicked"

\* In this step GetMsg initialises m, which it has from a pool.
Inits(m) == \E g \in Holders : ref[g] = m /\ pc[g] = "got" /\ pc'[g] = "idle"

\* The data a holder reads is not taken from under it: as long as it keeps its
\* reference, no GetMsg initialises the message again, not even for as many
\* bytes, and its length and capacity stay.
DataStable ==
  [][\A h \in Holders : \A m \in Msgs :
       Holds(h, m) /\ Holds(h, m)' => ~Inits(m) /\ Size'[m] = Size[m] /\ Cap'[m] = Cap[m]]_vars
=============================================================================
