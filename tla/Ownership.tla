----------------------------- MODULE Ownership -----------------------------
(***************************************************************************)
(* What the capability engine promises its clients, with no bit in sight:  *)
(* every hardware resource is free, owned by exactly one context, or lost  *)
(* (claimed by nobody that could still release it).  A context becomes the *)
(* owner only of a resource nobody owns, and only an owner gives a         *)
(* resource back.  Registry.tla is shown to implement this.                *)
(***************************************************************************)
CONSTANTS Resources,  \* hardware resources, by registry id
          Contexts    \* software contexts that may hold a token

VARIABLE owner

(* Neither is a context (Registry.tla assumes so of its drivers).          *)
Free == "free"
Lost == "lost"

OwnershipTypeOK == owner \in [Resources -> Contexts \cup {Free, Lost}]

OwnershipInit == owner \in [Resources -> {Free, Lost}]

(* A context is granted a resource that no context owns.                   *)
Take(c, r) ==
    /\ owner[r] \notin Contexts
    /\ owner' = [owner EXCEPT ![r] = c]

(* The owner gives the resource back.                                      *)
GiveBack(c, r) ==
    /\ owner[r] = c
    /\ owner' = [owner EXCEPT ![r] = Free]

(* The owner loses its token without giving the resource back.             *)
Lose(c, r) ==
    /\ owner[r] = c
    /\ owner' = [owner EXCEPT ![r] = Lost]

(* A reset destroys every token; the registry keeps its claims.            *)
LoseAll ==
    owner' = [r \in Resources |-> IF owner[r] \in Contexts THEN Lost ELSE owner[r]]

OwnershipNext ==
    \/ \E c \in Contexts, r \in Resources : Take(c, r) \/ GiveBack(c, r) \/ Lose(c, r)
    \/ LoseAll

OwnershipSpec == OwnershipInit /\ [][OwnershipNext]_owner
=============================================================================
