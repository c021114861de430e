-------------------------------- MODULE Maps --------------------------------
(* The two maps that goroutines share, LinkedMap and ShardedMap.  Each      *)
(* alone: which says whose turn this behavior is.                           *)
EXTENDS LinkedMap, Integers

CONSTANTS
    ShardedKeys,   \* the keys of the ShardedMap, natural numbers
    MinShards      \* the size it is asked for

VARIABLES which, maps, locks, size, spc, op, skey, ok

sharded == <<maps, locks, size, spc, op, skey, ok>>

Sharded == INSTANCE ShardedMap WITH Key <- ShardedKeys, pc <- spc, key <- skey

ASSUME CallersAreFinite == IsFiniteSet(Callers)
ASSUME KeysAreNats == ShardedKeys \subseteq Nat /\ ShardedKeys # {}
\* there are shards to put them in
ASSUME ShardsArePositive == Sharded!Shards \in Nat \ {0}

BenchInit == which \in {"linked", "sharded"} /\ Init /\ Sharded!Init

BenchNext ==
    \/ which = "linked" /\ Next /\ UNCHANGED <<which, sharded>>
    \/ which = "sharded" /\ Sharded!Next /\ UNCHANGED <<which, vars>>

benchVars == <<which, vars, sharded>>

BenchSpec == BenchInit /\ [][BenchNext]_benchVars

\* ShardedMap: Size is off by the calls that have not counted yet, and by nothing else.
SizeIsCount == Sharded!SizeIsCount
\* ShardedMap: the double-checked calls are atomic calls of a set.
CallsAreAtomic == Sharded!CallsAreAtomic
=============================================================================
