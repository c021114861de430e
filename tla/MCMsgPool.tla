----------------------------- MODULE MCMsgPool -----------------------------
(* Three holders and two objects; two blocks of size classes, the last of   *)
(* which has no pool.                                                       *)
EXTENDS MsgPool, TLC

CONSTANTS h1, h2, h3, m1, m2

HolderSymmetry == Permutations({h1, h2, h3}) \cup Permutations({m1, m2})
=============================================================================
