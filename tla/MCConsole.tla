----------------------------- MODULE MCConsole ------------------------------
(* A line of two characters, one printable byte besides the space.         *)
EXTENDS Console

CONSTANT a
MCChars == {a}
=============================================================================
