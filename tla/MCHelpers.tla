----------------------------- MODULE MCHelpers -----------------------------
(* Values for the helpers that a configuration file cannot write.           *)
EXTENDS Helpers, TLC

\* Checks every two ticks, a read timeout of two intervals, a write timeout that
\* is no multiple of an interval.
Timeouts == "read" :> 4 @@ "write" :> 3

ReturnCodes == {-1, 0, 1}
=============================================================================
