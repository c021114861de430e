------------------------------- MODULE MCMaps -------------------------------
(* LinkedMap: three callers on a list of two keys.  ShardedMap: three       *)
(* callers on two shards, one of keys 0 and 2, the other of key 1.          *)
EXTENDS Maps, Bitwise, TLC

\* nextPowerOfTwo is the least power of two that is no smaller than its argument
Powers == {1, 2, 4, 8, 16, 32, 64}
ASSUME PowerOfTwo ==
    \A n \in -2 .. 64 :
        /\ Sharded!nextPowerOfTwo(n) \in Powers
        /\ n <= Sharded!nextPowerOfTwo(n)
        /\ \A p \in Powers : n <= p => Sharded!nextPowerOfTwo(n) <= p

\* the mask of getShard, key & (actualSize - 1), is a remainder
ASSUME MaskIsModulo == \A n \in Powers, k \in 0 .. 130 : k & (n - 1) = k % n

Symmetry == Permutations(Callers)
=============================================================================
