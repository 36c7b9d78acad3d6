----------------------------- MODULE BoundedMap -----------------------------
(***************************************************************************)
(* What the compiler's symbol table promises: a map from names to values   *)
(* that holds at most Capacity names.  `let` binds a new name or rebinds   *)
(* an old one; it is refused only when the name is new and the map full.   *)
(***************************************************************************)
EXTENDS FiniteSets, Naturals

CONSTANTS Names, Values, Capacity, Unbound

VARIABLES binding,  \* what each name is bound to
          answer    \* of the last let: "ok", "full", or "none" before any

Bound == {n \in Names : binding[n] # Unbound}

MapInit ==
    /\ binding = [n \in Names |-> Unbound]
    /\ answer = "none"

Bind(n, v) ==
    /\ n \in Bound \/ Cardinality(Bound) < Capacity
    /\ binding' = [binding EXCEPT ![n] = v]
    /\ answer' = "ok"

Refuse(n) ==
    /\ n \notin Bound
    /\ Cardinality(Bound) >= Capacity
    /\ answer' = "full"
    /\ UNCHANGED binding

MapNext == \E n \in Names : Refuse(n) \/ \E v \in Values : Bind(n, v)

MapSpec == MapInit /\ [][MapNext]_<<binding, answer>>
=============================================================================
