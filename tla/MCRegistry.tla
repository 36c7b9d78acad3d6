----------------------------- MODULE MCRegistry -----------------------------
(* Small instances of the capability engine for TLC: GPIOA (bit 0), the    *)
(* superuser bit (31, last of word 0), an id in a second word (32), and an *)
(* id past the last word (256).                                            *)
EXTENDS Registry

CONSTANTS d1, d2

MCDrivers == {d1, d2}
MCResources == {0, 31, 32, 256}
MCMaxGrants == 3
=============================================================================
