------------------------------- MODULE MCConn -------------------------------
(* Instances of ConnService for TLC, with channels of capacity one: three   *)
(* callers of the write channel, one of them non-blocking; a caller of each *)
(* channel with the ReadChan goroutine; and one caller, fairly scheduled.   *)
EXTENDS ConnService, TLC

CONSTANTS w1, w2, w3, r1, r2

WriterSymmetry == Permutations({w1, w2})
=============================================================================
