----------------------------- MODULE ShardedMap -----------------------------
(* ShardedMap (rivetxcore/shardedmap/sharded_map.go): a set of integers in  *)
(* shards, each under a read-write lock, with the number of keys in one     *)
(* atomic counter that no lock protects.  LoadOrStore and LoadAndDelete     *)
(* look under the read lock first and again under the write lock.           *)
(*                                                                          *)
(* A look under the read lock is one step: it changes nothing, and the lock *)
(* keeps writers of that shard out of it.                                   *)
EXTENDS Integers, FiniteSets

CONSTANTS
    Key,        \* the keys, natural numbers
    Callers,    \* the goroutines that share the map
    MinShards,  \* the size NewShardedMap is asked for
    NoCaller    \* a lock is free

Ops == {"Load", "LoadOrStore", "LoadAndDelete"}

\* the doubling loop of nextPowerOfTwo, which starts at 1
nextPowerOfTwo(n) ==
    LET double[p \in Nat] == IF p < n THEN double[2 * p] ELSE p
    IN double[1]

Shards == nextPowerOfTwo(MinShards)
Shard == 0 .. Shards - 1

\* key & mask, the remainder of the key as Shards is a power of two
getShard(k) == k % Shards

FirstKey == CHOOSE k \in Key : TRUE   \* what a caller outside a call has in key

VARIABLES
    maps,   \* the keys of each shard
    locks,  \* the caller that holds each shard's lock for writing
    size,   \* the atomic counter
    pc,     \* where each caller stands
    op,     \* the operation, the key and the answer of each caller
    key,
    ok

vars == <<maps, locks, size, pc, op, key, ok>>

Init ==
    /\ maps = [s \in Shard |-> {}]
    /\ locks = [s \in Shard |-> NoCaller]
    /\ size = 0
    /\ pc = [c \in Callers |-> "idle"]
    /\ op = [c \in Callers |-> "Load"]
    /\ key = [c \in Callers |-> FirstKey]
    /\ ok = [c \in Callers |-> FALSE]

shard(c) == getShard(key[c])
Present(c) == key[c] \in maps[shard(c)]

-----------------------------------------------------------------------------
Call(c, o, k) ==
    /\ pc[c] = "idle"
    /\ pc' = [pc EXCEPT ![c] = "look"]
    /\ op' = [op EXCEPT ![c] = o]
    /\ key' = [key EXCEPT ![c] = k]
    /\ UNCHANGED <<maps, locks, size, ok>>

\* what the first look decides: Load, LoadOrStore of a key that is there,
\* LoadAndDelete of one that is not
Decided(c) ==
    \/ op[c] = "Load"
    \/ op[c] = "LoadOrStore" /\ Present(c)
    \/ op[c] = "LoadAndDelete" /\ ~Present(c)

\* RLock, the look, RUnlock
Look(c) ==
    /\ pc[c] = "look"
    /\ locks[shard(c)] = NoCaller
    /\ pc' = [pc EXCEPT ![c] = IF Decided(c) THEN "return" ELSE "lock"]
    /\ ok' = [ok EXCEPT ![c] = Present(c)]
    /\ UNCHANGED <<maps, locks, size, op, key>>

Lock(c) ==
    /\ pc[c] = "lock"
    /\ locks[shard(c)] = NoCaller
    /\ locks' = [locks EXCEPT ![shard(c)] = c]
    /\ pc' = [pc EXCEPT ![c] = "change"]
    /\ UNCHANGED <<maps, size, op, key, ok>>

\* a mutant: what the first look saw is taken for granted under the lock
ChangeUnchecked(c) ==
    /\ pc[c] = "change"
    /\ maps' = [maps EXCEPT ![shard(c)] =
                   IF op[c] = "LoadOrStore" THEN @ \cup {key[c]} ELSE @ \ {key[c]}]
    /\ pc' = [pc EXCEPT ![c] = "count"]
    /\ UNCHANGED <<locks, size, op, key, ok>>

\* the look under the write lock, and the change to the shard it calls for
Change(c) ==
    /\ pc[c] = "change"
    /\ ok' = [ok EXCEPT ![c] = Present(c)]
    /\ \/ /\ Decided(c)
          /\ pc' = [pc EXCEPT ![c] = "unlock"]
          /\ UNCHANGED maps
       \/ /\ ~Decided(c)
          /\ maps' = [maps EXCEPT ![shard(c)] =
                         IF op[c] = "LoadOrStore" THEN @ \cup {key[c]}
                                                  ELSE @ \ {key[c]}]
          /\ pc' = [pc EXCEPT ![c] = "count"]
    /\ UNCHANGED <<locks, size, op, key>>

\* s.size.Add: atomic, and other shards' callers count at the same time
Count(c) ==
    /\ pc[c] = "count"
    /\ size' = size + (IF op[c] = "LoadOrStore" THEN 1 ELSE -1)
    /\ pc' = [pc EXCEPT ![c] = "unlock"]
    /\ UNCHANGED <<maps, locks, op, key, ok>>

\* the deferred Unlock
Unlock(c) ==
    /\ pc[c] = "unlock"
    /\ locks' = [locks EXCEPT ![shard(c)] = NoCaller]
    /\ pc' = [pc EXCEPT ![c] = "return"]
    /\ UNCHANGED <<maps, size, op, key, ok>>

Return(c) ==
    /\ pc[c] = "return"
    /\ pc' = [pc EXCEPT ![c] = "idle"]
    /\ op' = [op EXCEPT ![c] = "Load"]
    /\ key' = [key EXCEPT ![c] = FirstKey]
    /\ ok' = [ok EXCEPT ![c] = FALSE]
    /\ UNCHANGED <<maps, locks, size>>

Next ==
    \E c \in Callers :
        \/ \E o \in Ops, k \in Key : Call(c, o, k)
        \/ Look(c) \/ Lock(c) \/ Change(c) \/ Count(c) \/ Unlock(c) \/ Return(c)

Spec == Init /\ [][Next]_vars

-----------------------------------------------------------------------------
Keys == UNION {maps[s] : s \in Shard}
Uncounted(o) == {c \in Callers : pc[c] = "count" /\ op[c] = o}

(* Types; and a key is in its own shard.                                    *)
TypeOK ==
    /\ maps \in [Shard -> SUBSET Key]
    /\ locks \in [Shard -> Callers \cup {NoCaller}]
    /\ size \in Int
    /\ pc \in [Callers ->
                  {"idle", "look", "lock", "change", "count", "unlock", "return"}]
    /\ op \in [Callers -> Ops]
    /\ key \in [Callers -> Key]
    /\ ok \in [Callers -> BOOLEAN]
    /\ \A s \in Shard : \A k \in maps[s] : getShard(k) = s

(* Size, which takes no lock, is off by the calls that changed a shard and  *)
(* have not counted it yet, and by nothing else.  It is never negative: the *)
(* deletion of a key is not counted before its insertion, as both count     *)
(* before they give up the shard's lock.                                    *)
SizeIsCount ==
    /\ size = Cardinality(Keys) - Cardinality(Uncounted("LoadOrStore"))
                                + Cardinality(Uncounted("LoadAndDelete"))
    /\ size >= 0

(* The double-checked calls are atomic: LoadOrStore answers FALSE to one of *)
(* the callers that race for a key, LoadAndDelete TRUE to one, and each     *)
(* answer is right at an instant between call and return.                   *)
Abstract ==
    INSTANCE ConcurrentSet WITH
        set <- Keys,
        call <- [c \in Callers |->
                    CASE pc[c] = "idle" -> [at |-> "idle"]
                      [] pc[c] \in {"look", "lock", "change"} ->
                             [at |-> "called", op |-> op[c], key |-> key[c]]
                      [] OTHER -> [at |-> "done", ok |-> ok[c]]]

CallsAreAtomic == Abstract!Spec
=============================================================================
