------------------------------ MODULE Registry ------------------------------
(***************************************************************************)
(* The capability engine: the bitfield registry of                         *)
(* src/src/capabilities/registry.rs, the linear tokens Cap<T> that         *)
(* src/src/capabilities/tokens.rs mints from it, and the REPL's cap_claim  *)
(* and cap_drop (src/src/drivers/repl.rs), which use the registry without  *)
(* tokens.                                                                 *)
(*                                                                         *)
(* Every atomic read-modify-write of a registry word is one step, so that  *)
(* contexts (driver code, interrupt handlers, the REPL) interleave exactly *)
(* between those instructions.                                             *)
(***************************************************************************)
EXTENDS Integers

CONSTANTS Resources,   \* the RESOURCE_IDs in use; 256 and above are out of range
          Drivers,     \* contexts that use the token API
          MaxGrants    \* bound on the superuser grants of one session

WORDS == 8
Words == 0 .. WORDS - 1
Bits == 0 .. 31
SuperUserCap == 31     \* RESOURCE_ID of the superuser token
Nobody == -1           \* the REPL is not in the middle of a cap_drop

ASSUME ResourcesAssumption == Resources \subseteq Nat /\ SuperUserCap \in Resources
ASSUME DriversAssumption == "free" \notin Drivers /\ "lost" \notin Drivers
ASSUME MaxGrantsAssumption == MaxGrants \in Nat

VARIABLES
    bits,        \* REGISTRY_BITS: per word, the set of its bits that are 1
    live,        \* live[c][r]: number of live Cap<r> values context c holds
    granting,    \* drivers inside grant_superuser, between claim and fetch_add
    dropping,    \* the id do_drop has found claimed and is about to release
    auditCount,  \* SUPERUSER_AUDIT_COUNT
    grants       \* history: successful claims of the superuser bit since boot

vars == <<bits, live, granting, dropping, auditCount, grants>>

-----------------------------------------------------------------------------
(* The bitfield.                                                           *)

Word(r) == r \div 32
Bit(r) == r % 32
InRange(r) == Word(r) \in Words

available(r) == InRange(r) /\ Bit(r) \notin bits[Word(r)]
is_claimed(r) == ~available(r)

(* fetch_or and fetch_and on the word of r; an id past the last word is    *)
(* answered by `get` with None and changes nothing.                        *)
(* Mutant: the word index is not bounds-checked.                           *)
FetchOrUnchecked(r) ==
    bits' = [w \in Words \cup {Word(r)} |->
                (IF w \in Words THEN bits[w] ELSE {}) \cup (IF w = Word(r) THEN {Bit(r)} ELSE {})]

FetchOr(r) ==
    bits' = IF InRange(r) THEN [bits EXCEPT ![Word(r)] = @ \cup {Bit(r)}] ELSE bits
(* Mutant: release stores 0 to the whole word.                             *)
FetchAndWord(r) ==
    bits' = IF InRange(r) THEN [bits EXCEPT ![Word(r)] = {}] ELSE bits

FetchAnd(r) ==
    bits' = IF InRange(r) THEN [bits EXCEPT ![Word(r)] = @ \ {Bit(r)}] ELSE bits

(* Mutant: acquire looks at the word after the fetch_or.                   *)
AcquiredAfter(r) == InRange(r)

(* acquire answers TRUE exactly when the bit was 0 before the fetch_or.    *)
Acquired(r) == available(r)

-----------------------------------------------------------------------------
(* Boot.  The registry lives in the NOLOAD section .capability_registry,   *)
(* which init_data_bss neither copies nor zeroes: at power-on any bit may  *)
(* read 1.  No token exists and .bss (the audit counter) is zero.          *)

NoTokens == [c \in Drivers |-> [r \in Resources |-> 0]]

BitsOf(S) == [w \in Words |-> {b \in Bits : w * 32 + b \in S}]

Init ==
    /\ \E garbage \in SUBSET Resources : bits = BitsOf(garbage)
    /\ live = NoTokens
    /\ granting = {}
    /\ dropping = Nobody
    /\ auditCount = 0
    /\ grants = 0

(* A warm reset reruns init_data_bss and boot: SRAM outside .data and .bss *)
(* survives.                                                               *)
Reset ==
    /\ live' = NoTokens
    /\ granting' = {}
    /\ dropping' = Nobody
    /\ auditCount' = 0
    /\ grants' = 0
    /\ UNCHANGED bits

-----------------------------------------------------------------------------
(* The token API.                                                          *)

Held(r) == \E c \in Drivers : live[c][r] > 0

Mint(c, r) == live' = [live EXCEPT ![c][r] = @ + 1]
Consume(c, r) == live[c][r] > 0 /\ live' = [live EXCEPT ![c][r] = @ - 1]

CountGrant(r) ==
    /\ r = SuperUserCap => grants < MaxGrants
    /\ grants' = IF r = SuperUserCap THEN grants + 1 ELSE grants

(* claim::<T>(): a token when acquire won, None otherwise.                 *)
claim(c, r) ==
    /\ c \notin granting
    /\ FetchOr(r)
    /\ IF Acquired(r) THEN Mint(c, r) /\ CountGrant(r) ELSE UNCHANGED <<live, grants>>
    /\ UNCHANGED <<granting, dropping, auditCount>>

(* Mutant: drop_cap borrows the token instead of consuming it.             *)
drop_cap_borrowed(c, r) ==
    /\ c \notin granting
    /\ live[c][r] > 0
    /\ FetchAnd(r)
    /\ UNCHANGED <<live, granting, dropping, auditCount, grants>>

(* drop_cap(cap) consumes the token and clears the bit.                    *)
drop_cap(c, r) ==
    /\ c \notin granting
    /\ Consume(c, r)
    /\ FetchAnd(r)
    /\ UNCHANGED <<granting, dropping, auditCount, grants>>

(* A token that goes out of scope: Cap has no Drop impl, the bit stays.    *)
Forget(c, r) ==
    /\ c \notin granting
    /\ Consume(c, r)
    /\ UNCHANGED <<bits, granting, dropping, auditCount, grants>>

(* Mutant: steal mints a token without marking the bit.                    *)
steal_unmarked(c, r) ==
    /\ c \notin granting
    /\ ~Held(r)
    /\ Mint(c, r)
    /\ CountGrant(r)
    /\ UNCHANGED <<bits, granting, dropping, auditCount>>

(* unsafe steal::<T>(): ignores what acquire answers.  The guard is its    *)
(* safety contract, "no other live token for T exists".                    *)
steal(c, r) ==
    /\ c \notin granting
    /\ ~Held(r)
    /\ FetchOr(r)
    /\ Mint(c, r)
    /\ CountGrant(r)
    /\ UNCHANGED <<granting, dropping, auditCount>>

(* Mutant: the audit counter counts attempts, not grants.                  *)
grant_superuser_attempts(c) ==
    /\ c \notin granting
    /\ FetchOr(SuperUserCap)
    /\ IF Acquired(SuperUserCap)
         THEN Mint(c, SuperUserCap) /\ CountGrant(SuperUserCap)
         ELSE UNCHANGED <<live, grants>>
    /\ granting' = granting \cup {c}
    /\ UNCHANGED <<dropping, auditCount>>

(* grant_superuser(): claim, then fetch_add on the audit counter.          *)
grant_superuser(c) ==
    /\ c \notin granting
    /\ FetchOr(SuperUserCap)
    /\ IF Acquired(SuperUserCap)
         THEN /\ Mint(c, SuperUserCap)
              /\ CountGrant(SuperUserCap)
              /\ granting' = granting \cup {c}
         ELSE UNCHANGED <<live, grants, granting>>
    /\ UNCHANGED <<dropping, auditCount>>

CountSuperuserGrant(c) ==
    /\ c \in granting
    /\ granting' = granting \ {c}
    /\ auditCount' = auditCount + 1
    /\ UNCHANGED <<bits, live, dropping, grants>>

-----------------------------------------------------------------------------
(* The REPL commands.  The REPL holds no Cap: it reads and writes the bits *)
(* of the ids resolve_name answers, which are all in range.                *)

ShellResources == {r \in Resources : r \in (0 .. 6) \cup {SuperUserCap}}

do_claim(r) ==
    /\ dropping = Nobody
    /\ FetchOr(r)
    /\ IF Acquired(r) THEN CountGrant(r) ELSE UNCHANGED grants
    /\ UNCHANGED <<live, granting, dropping, auditCount>>

(* do_drop tests the bit first and releases in a second step; nothing asks *)
(* who set the bit.                                                        *)
do_drop_check(r) ==
    /\ dropping = Nobody
    /\ is_claimed(r)
    /\ dropping' = r
    /\ UNCHANGED <<bits, live, granting, auditCount, grants>>

do_drop_release ==
    /\ dropping # Nobody
    /\ FetchAnd(dropping)
    /\ dropping' = Nobody
    /\ UNCHANGED <<live, granting, auditCount, grants>>

-----------------------------------------------------------------------------
(* Two systems: token users only, and token users with the REPL.           *)

TokenStep ==
    \/ \E c \in Drivers, r \in Resources :
          \/ claim(c, r)
          \/ drop_cap(c, r)
          \/ Forget(c, r)
          \/ steal(c, r)
    \/ \E c \in Drivers : grant_superuser(c) \/ CountSuperuserGrant(c)

ShellStep ==
    \/ \E r \in ShellResources : do_claim(r) \/ do_drop_check(r)
    \/ do_drop_release

TokenNext == TokenStep \/ Reset
SystemNext == TokenStep \/ ShellStep \/ Reset

TokenSpec == Init /\ [][TokenNext]_vars
SystemSpec == Init /\ [][SystemNext]_vars

-----------------------------------------------------------------------------
(* Properties.                                                             *)

(* Type invariant: every word stays a 32-bit word and no word is added.    *)
TypeOK ==
    /\ bits \in [Words -> SUBSET Bits]
    /\ live \in [Drivers -> [Resources -> Nat]]
    /\ granting \in SUBSET Drivers
    /\ dropping \in Resources \cup {Nobody}
    /\ auditCount \in Nat
    /\ grants \in Nat

(* "A hardware resource capability can only exist once across the entire   *)
(* system": at most one live Cap<T> per resource, however claims, drops,   *)
(* thefts and resets interleave.                                           *)
TokensUnique ==
    \A r \in Resources : \A c, d \in Drivers :
        live[c][r] > 0 /\ live[d][r] > 0 => c = d /\ live[c][r] = 1

(* While a token is live its bit is set, so every competing claim fails.   *)
HeldIsClaimed ==
    \A r \in Resources : Held(r) => is_claimed(r)

(* The superuser counter never gets ahead of the grants: a grant_superuser *)
(* still on its way to the fetch_add holds the one superuser token and its *)
(* grant is not counted yet, whatever runs between its two steps.          *)
AuditNeverOvercounts ==
    \A c \in granting : auditCount < grants /\ live[c][SuperUserCap] = 1

(* One registry call changes the bit of one resource: no word or mask      *)
(* mistake reaches a neighbour's bit.                                      *)
OneBitPerStep ==
    [][\A r, s \in Resources :
          available(r)' # available(r) /\ available(s)' # available(s) => r = s]_vars

(* A claimed resource that no token stands for (garbage, forgotten, or     *)
(* claimed before a reset) is never handed out again by claim: only steal, *)
(* which ignores the bit, mints a token for it.                            *)
LostStaysLost ==
    [][\A r \in Resources :
          is_claimed(r) /\ ~Held(r) /\ Held(r)' => \E c \in Drivers : steal(c, r)]_vars

(* The ownership the bits and tokens stand for.                            *)
OwnerOf(r) ==
    IF Held(r) THEN CHOOSE c \in Drivers : live[c][r] > 0
    ELSE IF available(r) THEN "free" ELSE "lost"

Owners == INSTANCE Ownership WITH
              Contexts <- Drivers,
              owner <- [r \in Resources |-> OwnerOf(r)]

(* The token API implements exclusive ownership.                           *)
TokensImplementOwnership == Owners!OwnershipSpec
=============================================================================
