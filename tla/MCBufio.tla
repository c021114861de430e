------------------------------- MODULE MCBufio -------------------------------
(* The Writer: a buffer of three bytes under writes of up to five.  The     *)
(* Reader: a buffer of three bytes over inputs of five.                     *)
EXTENDS Bufio

\* Lines that end in one and in two bytes, with carriage returns that can be the
\* last of a full buffer; runes of two bytes and a first byte alone.
SomeInputs == {<<"plain", "plain", "cr", "lf", "plain">>,
               <<"plain", "cr", "cr", "cr", "lf">>,
               <<"lead", "cont", "cr", "lead", "lf">>}
=============================================================================
