--------------------------- MODULE MCSymbolTable ----------------------------
(* Four names over three slots: three names whose chains start at the last *)
(* slot and wrap around, one that starts inside their chain.               *)
EXTENDS SymbolTable

CONSTANTS a, b, c, d, v1, v2

MCNames == {a, b, c, d}
MCValues == {v1, v2}
MCHash == [n \in MCNames |-> IF n = d THEN 0 ELSE 2]
=============================================================================
