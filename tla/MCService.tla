------------------------------- MODULE MCService -------------------------------
(* Two listeners that are given the same Config, each closed by one         *)
(* goroutine, or by none; connections that they accept or that are dialled. *)
EXTENDS Service

CONSTANTS s1, s2, c1, c2, k1
=============================================================================
