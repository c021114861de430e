----------------------------- MODULE LinkedMap -----------------------------
(* LinkedMap (rivetxcore/linkedmap/linked_map.go): a sync.Map beside a list *)
(* of the keys in the order they were added, the oldest of which is evicted *)
(* when the list grows past maxSize.  The map is read and written without   *)
(* the mutex that protects the list: the two are never changed together.    *)
(* The steps of Add are those another goroutine can see between: the        *)
(* LoadOrStore, the lock, the work on the list under it, the Delete from    *)
(* the map (readers of the map take no lock), the unlock.                   *)
EXTENDS Naturals, FiniteSets, Sequences, SequencesExt

CONSTANTS
    Key,        \* the keys callers add
    Callers,    \* the goroutines that share the map
    MaxSize,    \* NewLinkedMap's maxSize; 0 means without limit
    NoKey,      \* no key
    NoCaller    \* the mutex is free

ASSUME MaxSizeIsNat == MaxSize \in Nat
ASSUME NoKeyIsNone == NoKey \notin Key
ASSUME NoCallerIsNone == NoCaller \notin Callers

VARIABLES
    Map,        \* m.Map: the keys present (their values are left out)
    Keys,       \* m.Keys
    Mutex,      \* m.Mutex: the caller that holds it
    pc,         \* where each caller stands in Add
    key,        \* the key each caller is adding
    removed     \* the key each caller took off the list and not yet off the map

vars == <<Map, Keys, Mutex, pc, key, removed>>

Init ==
    /\ Map = {}
    /\ Keys = <<>>
    /\ Mutex = NoCaller
    /\ pc = [c \in Callers |-> "idle"]
    /\ key = [c \in Callers |-> NoKey]
    /\ removed = [c \in Callers |-> NoKey]

-----------------------------------------------------------------------------
\* a mutant: Load and Store in two steps, which lets a second caller store a
\* key that is in the map and not yet on the list
StoreTwice(c, k) ==
    /\ pc[c] = "idle"
    /\ k \notin ToSet(Keys)
    /\ Map' = Map \cup {k}
    /\ pc' = [pc EXCEPT ![c] = "lock"]
    /\ key' = [key EXCEPT ![c] = k]
    /\ UNCHANGED <<Keys, Mutex, removed>>

\* LoadOrStore stores a key that is not in the map
StoreNew(c, k) ==
    /\ pc[c] = "idle"
    /\ k \notin Map
    /\ Map' = Map \cup {k}
    /\ pc' = [pc EXCEPT ![c] = "lock"]
    /\ key' = [key EXCEPT ![c] = k]
    /\ UNCHANGED <<Keys, Mutex, removed>>

\* LoadOrStore finds the key, or Load is called: nothing changes
Find(c, k) ==
    /\ pc[c] = "idle"
    /\ k \in Map
    /\ UNCHANGED vars

Lock(c) ==
    /\ pc[c] = "lock"
    /\ Mutex = NoCaller
    /\ Mutex' = c
    /\ pc' = [pc EXCEPT ![c] = "list"]
    /\ UNCHANGED <<Map, Keys, key, removed>>

Outgrown(ks) == MaxSize > 0 /\ Len(ks) > MaxSize

\* a mutant: Remove(Back()), the key just pushed
EvictBack(c) ==
    LET pushed == Append(Keys, key[c])
    IN /\ pc[c] = "list"
       /\ Outgrown(pushed)
       /\ Keys' = Front(pushed)
       /\ removed' = [removed EXCEPT ![c] = key[c]]
       /\ pc' = [pc EXCEPT ![c] = "delete"]
       /\ UNCHANGED <<Map, Mutex, key>>

(* PushBack makes the list longer than maxSize, and Remove(Front()) takes   *)
(* its oldest key: one step, for only the mutex's holder sees the list.     *)
PushAndEvict(c) ==
    LET pushed == Append(Keys, key[c])
    IN /\ pc[c] = "list"
       /\ Outgrown(pushed)
       /\ Keys' = Tail(pushed)
       /\ removed' = [removed EXCEPT ![c] = Head(pushed)]
       /\ pc' = [pc EXCEPT ![c] = "delete"]
       /\ UNCHANGED <<Map, Mutex, key>>

PushBack(c) ==
    LET pushed == Append(Keys, key[c])
    IN /\ pc[c] = "list"
       /\ ~Outgrown(pushed)
       /\ Keys' = pushed
       /\ pc' = [pc EXCEPT ![c] = "unlock"]
       /\ UNCHANGED <<Map, Mutex, key, removed>>

\* m.Map.Delete(removed)
MapDelete(c) ==
    /\ pc[c] = "delete"
    /\ Map' = Map \ {removed[c]}
    /\ removed' = [removed EXCEPT ![c] = NoKey]
    /\ pc' = [pc EXCEPT ![c] = "unlock"]
    /\ UNCHANGED <<Keys, Mutex, key>>

\* the deferred Unlock: Add returns true
Unlock(c) ==
    /\ pc[c] = "unlock"
    /\ Mutex' = NoCaller
    /\ pc' = [pc EXCEPT ![c] = "idle"]
    /\ key' = [key EXCEPT ![c] = NoKey]
    /\ UNCHANGED <<Map, Keys, removed>>

Next ==
    \E c \in Callers :
        \/ \E k \in Key : StoreNew(c, k) \/ Find(c, k)
        \/ Lock(c)
        \/ PushAndEvict(c)
        \/ PushBack(c)
        \/ MapDelete(c)
        \/ Unlock(c)

Spec == Init /\ [][Next]_vars

-----------------------------------------------------------------------------
(* Types; and the list never outgrows maxSize where another goroutine can   *)
(* see it (linked_map_test.go: "internal list length should never exceed    *)
(* maxSize").                                                               *)
TypeOK ==
    /\ Map \subseteq Key
    /\ Keys \in Seq(Key)
    /\ MaxSize > 0 => Len(Keys) <= MaxSize
    /\ Mutex \in Callers \cup {NoCaller}
    /\ pc \in [Callers -> {"idle", "lock", "list", "delete", "unlock"}]
    /\ key \in [Callers -> Key \cup {NoKey}]
    /\ removed \in [Callers -> Key \cup {NoKey}]

\* a caller that stored its key and has not pushed it
Pushing(c) == pc[c] \in {"lock", "list"}

(* A key on the list is in the map, once; a key in the map that is not on   *)
(* the list is one a caller is about to push or about to delete.  So when   *)
(* no Add is running the map and the list have the same keys, and no key is *)
(* in the map for ever because nothing will evict it.                       *)
ListMirrorsMap ==
    /\ IsInjective(Keys)
    /\ ToSet(Keys) \subseteq Map
    /\ \A k \in Map \ ToSet(Keys) :
           \E c \in Callers : \/ Pushing(c) /\ key[c] = k
                              \/ pc[c] = "delete" /\ removed[c] = k

(* A key whose Add is going to answer true is in the map until that answer, *)
(* whatever the other callers evict meanwhile: eviction takes older keys.   *)
AddedIsFound == \A c \in Callers : pc[c] # "idle" => key[c] \in Map
=============================================================================
