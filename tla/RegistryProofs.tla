--------------------------- MODULE RegistryProofs ---------------------------
(***************************************************************************)
(* Proofs about the capability engine, for every set of drivers and every  *)
(* set of resource ids (in range or not).                                  *)
(***************************************************************************)
EXTENDS Registry, TLAPS

(* A resource id is determined by its word and its bit.                    *)
LEMMA WordBitInjective ==
    ASSUME NEW r \in Nat, NEW s \in Nat, Word(r) = Word(s), Bit(r) = Bit(s)
    PROVE  r = s
  BY DEF Word, Bit

(* Word and bit of an id have the types of the registry's index and mask.  *)
LEMMA WordBitType ==
    ASSUME NEW r \in Resources
    PROVE  r \in Nat /\ Word(r) \in Nat /\ Bit(r) \in Bits
  BY ResourcesAssumption DEF Word, Bit, Bits

(* What fetch_or does, for the bit of r and for every other bit.           *)
LEMMA FetchOrEffect ==
    ASSUME bits \in [Words -> SUBSET Bits], NEW r \in Resources, FetchOr(r)
    PROVE  /\ bits' \in [Words -> SUBSET Bits]
           /\ ~available(r)'
           /\ \A s \in Resources : s # r => (available(s)' <=> available(s))
  <1>1. /\ r \in Nat
        /\ Bit(r) \in Bits
    BY WordBitType
  <1>2. \A s \in Resources : s # r => Word(s) # Word(r) \/ Bit(s) # Bit(r)
    BY WordBitInjective, ResourcesAssumption
  <1> QED
    BY <1>1, <1>2 DEF FetchOr, available, InRange

(* What fetch_and does, for the bit of r and for every other bit.          *)
LEMMA FetchAndEffect ==
    ASSUME bits \in [Words -> SUBSET Bits], NEW r \in Resources, FetchAnd(r)
    PROVE  /\ bits' \in [Words -> SUBSET Bits]
           /\ available(r)' <=> InRange(r)
           /\ \A s \in Resources : s # r => (available(s)' <=> available(s))
  <1>1. /\ r \in Nat
        /\ Bit(r) \in Bits
    BY WordBitType
  <1>2. \A s \in Resources : s # r => Word(s) # Word(r) \/ Bit(s) # Bit(r)
    BY WordBitInjective, ResourcesAssumption
  <1> QED
    BY <1>1, <1>2 DEF FetchAnd, available, InRange

-----------------------------------------------------------------------------
(* The type invariant, for the tokens and the REPL together.               *)

LEMMA InitType == Init => TypeOK
  <1> SUFFICES ASSUME Init PROVE TypeOK
    OBVIOUS
  <1>1. bits \in [Words -> SUBSET Bits]
    BY DEF Init, BitsOf
  <1>2. live \in [Drivers -> [Resources -> Nat]]
    BY DEF Init, NoTokens
  <1> QED
    BY <1>1, <1>2 DEF Init, TypeOK

LEMMA StepType == TypeOK /\ [SystemNext]_vars => TypeOK'
  <1> SUFFICES ASSUME TypeOK, [SystemNext]_vars PROVE TypeOK'
    OBVIOUS
  <1> USE DEF TypeOK
  <1>0. SuperUserCap \in Resources
    BY ResourcesAssumption
  <1>1. ASSUME NEW c \in Drivers, NEW r \in Resources, claim(c, r)
        PROVE  TypeOK'
    BY <1>1, FetchOrEffect DEF claim, Mint, CountGrant
  <1>2. ASSUME NEW c \in Drivers, NEW r \in Resources, drop_cap(c, r)
        PROVE  TypeOK'
    BY <1>2, FetchAndEffect DEF drop_cap, Consume
  <1>3. ASSUME NEW c \in Drivers, NEW r \in Resources, Forget(c, r)
        PROVE  TypeOK'
    BY <1>3 DEF Forget, Consume
  <1>4. ASSUME NEW c \in Drivers, NEW r \in Resources, steal(c, r)
        PROVE  TypeOK'
    BY <1>4, FetchOrEffect DEF steal, Mint, CountGrant
  <1>5. ASSUME NEW c \in Drivers, grant_superuser(c)
        PROVE  TypeOK'
    BY <1>5, <1>0, FetchOrEffect DEF grant_superuser, Mint, CountGrant
  <1>6. ASSUME NEW c \in Drivers, CountSuperuserGrant(c)
        PROVE  TypeOK'
    BY <1>6 DEF CountSuperuserGrant
  <1>7. ASSUME NEW r \in ShellResources, do_claim(r)
        PROVE  TypeOK'
    BY <1>7, FetchOrEffect DEF do_claim, CountGrant, ShellResources
  <1>8. ASSUME NEW r \in ShellResources, do_drop_check(r)
        PROVE  TypeOK'
    BY <1>8 DEF do_drop_check, ShellResources
  <1>9. ASSUME do_drop_release
        PROVE  TypeOK'
    BY <1>9, FetchAndEffect DEF do_drop_release
  <1>10. CASE Reset
    BY <1>10 DEF Reset, NoTokens
  <1>11. CASE UNCHANGED vars
    BY <1>11 DEF vars
  <1> QED
    BY <1>1, <1>2, <1>3, <1>4, <1>5, <1>6, <1>7, <1>8, <1>9, <1>10, <1>11
    DEF SystemNext, TokenStep, ShellStep

(* Every reachable state of tokens and REPL together is well typed: the    *)
(* registry stays eight words of 32 bits whatever ids are passed in.       *)
THEOREM SystemTypeCorrect == SystemSpec => []TypeOK
  BY InitType, StepType, PTL DEF SystemSpec

-----------------------------------------------------------------------------
(* Exclusive ownership under the token API.  TokensUnique alone is not     *)
(* inductive: a claim is safe only because a live token implies a set bit. *)

Exclusive ==
    /\ TypeOK
    /\ TokensUnique
    /\ HeldIsClaimed

LEMMA InitExclusive == Init => Exclusive
  BY InitType DEF Init, Exclusive, TokensUnique, HeldIsClaimed, Held, NoTokens

LEMMA StepExclusive == Exclusive /\ [TokenNext]_vars => Exclusive'
  <1> SUFFICES ASSUME Exclusive, [TokenNext]_vars PROVE Exclusive'
    OBVIOUS
  <1> USE DEF Exclusive
  <1>T. TypeOK'
    BY StepType DEF TokenNext, SystemNext
  <1>B. /\ bits \in [Words -> SUBSET Bits]
        /\ live \in [Drivers -> [Resources -> Nat]]
        /\ SuperUserCap \in Resources
    BY ResourcesAssumption DEF TypeOK
  <1>M. ASSUME NEW c \in Drivers, NEW r \in Resources, ~Held(r), Mint(c, r), FetchOr(r)
        PROVE  TokensUnique' /\ HeldIsClaimed'
    <2>1. /\ live'[c][r] = 1
          /\ \A d \in Drivers : \A s \in Resources :
                 d # c \/ s # r => live'[d][s] = live[d][s]
      BY <1>M, <1>B DEF Held, Mint
    <2>2. TokensUnique'
      BY <2>1, <1>M, <1>B DEF TokensUnique, Held
    <2>3. ~available(r)' /\ \A s \in Resources : s # r => (available(s)' <=> available(s))
      BY <1>M, <1>B, FetchOrEffect
    <2>4. HeldIsClaimed'
      BY <2>1, <2>3, <1>B DEF HeldIsClaimed, Held, is_claimed
    <2> QED
      BY <2>2, <2>4
  <1>N. ASSUME NEW r \in Resources, UNCHANGED live, FetchOr(r)
        PROVE  TokensUnique' /\ HeldIsClaimed'
    <2>1. ~available(r)' /\ \A s \in Resources : s # r => (available(s)' <=> available(s))
      BY <1>N, <1>B, FetchOrEffect
    <2> QED
      BY <2>1, <1>N DEF TokensUnique, HeldIsClaimed, Held, is_claimed
  <1>C. ASSUME NEW c \in Drivers, NEW r \in Resources, Consume(c, r)
        PROVE  /\ TokensUnique'
               /\ \A s \in Resources : Held(s)' => Held(s) /\ s # r
    <2>1. /\ live[c][r] = 1
          /\ live'[c][r] = 0
          /\ \A d \in Drivers : \A s \in Resources :
                 d # c \/ s # r => live'[d][s] = live[d][s]
      BY <1>C, <1>B DEF Consume, TokensUnique
    <2>2. \A d \in Drivers : d # c => ~(live[d][r] > 0)
      BY <1>C, <1>B DEF Consume, TokensUnique
    <2>3. TokensUnique'
      BY <2>1, <2>2, <1>B DEF TokensUnique
    <2>4. \A s \in Resources : Held(s)' => Held(s) /\ s # r
      BY <2>1, <2>2, <1>B DEF Held
    <2> QED
      BY <2>3, <2>4
  <1>F. \A r \in Resources : Acquired(r) => ~Held(r)
    BY DEF Acquired, HeldIsClaimed, is_claimed
  <1>1. ASSUME NEW c \in Drivers, NEW r \in Resources, claim(c, r)
        PROVE  TokensUnique' /\ HeldIsClaimed'
    <2>1. CASE Acquired(r)
      BY <2>1, <1>1, <1>F, <1>M DEF claim
    <2>2. CASE ~Acquired(r)
      BY <2>2, <1>1, <1>N DEF claim
    <2> QED
      BY <2>1, <2>2
  <1>2. ASSUME NEW c \in Drivers, NEW r \in Resources, drop_cap(c, r)
        PROVE  TokensUnique' /\ HeldIsClaimed'
    <2>1. \A s \in Resources : s # r => (available(s)' <=> available(s))
      BY <1>2, <1>B, FetchAndEffect DEF drop_cap
    <2>2. TokensUnique' /\ \A s \in Resources : Held(s)' => Held(s) /\ s # r
      BY <1>2, <1>C DEF drop_cap
    <2> QED
      BY <2>1, <2>2 DEF HeldIsClaimed, is_claimed
  <1>3. ASSUME NEW c \in Drivers, NEW r \in Resources, Forget(c, r)
        PROVE  TokensUnique' /\ HeldIsClaimed'
    <2>1. TokensUnique' /\ \A s \in Resources : Held(s)' => Held(s) /\ s # r
      BY <1>3, <1>C DEF Forget
    <2> QED
      BY <2>1, <1>3 DEF Forget, HeldIsClaimed, is_claimed, available
  <1>4. ASSUME NEW c \in Drivers, NEW r \in Resources, steal(c, r)
        PROVE  TokensUnique' /\ HeldIsClaimed'
    BY <1>4, <1>M DEF steal
  <1>5. ASSUME NEW c \in Drivers, grant_superuser(c)
        PROVE  TokensUnique' /\ HeldIsClaimed'
    <2>1. CASE Acquired(SuperUserCap)
      BY <2>1, <1>5, <1>B, <1>F, <1>M DEF grant_superuser
    <2>2. CASE ~Acquired(SuperUserCap)
      BY <2>2, <1>5, <1>B, <1>N DEF grant_superuser
    <2> QED
      BY <2>1, <2>2
  <1>6. ASSUME NEW c \in Drivers, CountSuperuserGrant(c)
        PROVE  TokensUnique' /\ HeldIsClaimed'
    BY <1>6 DEF CountSuperuserGrant, TokensUnique, HeldIsClaimed, Held, is_claimed, available
  <1>7. CASE Reset
    BY <1>7, <1>T DEF Reset, NoTokens, TokensUnique, HeldIsClaimed, Held
  <1>8. CASE UNCHANGED vars
    BY <1>8, <1>T DEF vars, TokensUnique, HeldIsClaimed, Held, is_claimed, available
  <1> QED
    BY <1>T, <1>1, <1>2, <1>3, <1>4, <1>5, <1>6, <1>7, <1>8 DEF TokenNext, TokenStep

LEMMA TokenSpecExclusive == TokenSpec => []Exclusive
  BY InitExclusive, StepExclusive, PTL DEF TokenSpec

(* No two live tokens for one resource, whatever the drivers, the          *)
(* interrupt handlers and resets do.                                       *)
THEOREM TokensAreUnique == TokenSpec => []TokensUnique
  BY TokenSpecExclusive, PTL DEF Exclusive

(* A resource with a live token is never available to a competing claim.   *)
THEOREM HeldResourcesAreClaimed == TokenSpec => []HeldIsClaimed
  BY TokenSpecExclusive, PTL DEF Exclusive

-----------------------------------------------------------------------------
(* Steps of the registry words.                                            *)

(* Only the bit of r changes.                                              *)
OnlyBitOf(r) == \A s \in Resources : s # r => (available(s)' <=> available(s))

(* Every step of tokens and REPL leaves the registry alone or is one       *)
(* read-modify-write, of the bit of one resource.                          *)
LEMMA StepOneBit ==
    ASSUME TypeOK, [SystemNext]_vars
    PROVE  (\A r \in Resources : available(r)' <=> available(r)) \/ \E r \in Resources : OnlyBitOf(r)
  <1>B. bits \in [Words -> SUBSET Bits] /\ SuperUserCap \in Resources
    BY ResourcesAssumption DEF TypeOK
  <1>1. ASSUME NEW r \in Resources, FetchOr(r) \/ FetchAnd(r)
        PROVE  \E s \in Resources : OnlyBitOf(s)
    <2>1. OnlyBitOf(r)
      BY <1>1, <1>B, FetchOrEffect, FetchAndEffect DEF OnlyBitOf
    <2> QED
      BY <2>1
  <1>2. ASSUME UNCHANGED bits
        PROVE  \A r \in Resources : available(r)' <=> available(r)
    BY <1>2 DEF available
  <1>3. CASE \E c \in Drivers, r \in Resources : claim(c, r) \/ drop_cap(c, r) \/ steal(c, r)
    BY <1>3, <1>1 DEF claim, drop_cap, steal
  <1>4. CASE \E c \in Drivers : grant_superuser(c)
    BY <1>4, <1>1, <1>B DEF grant_superuser
  <1>5. CASE \E r \in ShellResources : do_claim(r)
    BY <1>5, <1>1 DEF do_claim, ShellResources
  <1>6. CASE do_drop_release
    <2>1. dropping \in Resources
      BY <1>6 DEF TypeOK, do_drop_release
    <2> QED
      BY <2>1, <1>6, <1>1 DEF do_drop_release
  <1>7. CASE \/ \E c \in Drivers, r \in Resources : Forget(c, r)
             \/ \E c \in Drivers : CountSuperuserGrant(c)
             \/ \E r \in ShellResources : do_drop_check(r)
             \/ Reset
             \/ UNCHANGED vars
    BY <1>7, <1>2 DEF Forget, CountSuperuserGrant, do_drop_check, Reset, vars
  <1> QED
    BY <1>3, <1>4, <1>5, <1>6, <1>7 DEF SystemNext, TokenStep, ShellStep

(* No step of tokens or REPL touches the bits of two resources, whatever   *)
(* ids are in use: word and bit index identify an id.                      *)
THEOREM StepsChangeOneBit == SystemSpec => OneBitPerStep
  <1>1. TypeOK /\ [SystemNext]_vars =>
            [\A r, s \in Resources :
                available(r)' # available(r) /\ available(s)' # available(s) => r = s]_vars
    <2>1. \A r \in Resources : available(r) \in BOOLEAN /\ available(r)' \in BOOLEAN
      BY DEF available
    <2> QED
      BY <2>1, StepOneBit DEF OnlyBitOf
  <1> QED
    BY <1>1, SystemTypeCorrect, PTL DEF SystemSpec, OneBitPerStep

-----------------------------------------------------------------------------
(* The superuser audit counter.  A grant on its way to the fetch_add holds *)
(* the one superuser token, so no second grant can be on its way with it.  *)

AuditInv ==
    /\ Exclusive
    /\ auditCount <= grants
    /\ AuditNeverOvercounts

LEMMA InitAudit == Init => AuditInv
  BY InitExclusive DEF Init, AuditInv, AuditNeverOvercounts

LEMMA StepAudit == AuditInv /\ [TokenNext]_vars => AuditInv'
  <1> SUFFICES ASSUME AuditInv, [TokenNext]_vars PROVE AuditInv'
    OBVIOUS
  <1>E. Exclusive'
    BY StepExclusive DEF AuditInv
  <1>B. /\ live \in [Drivers -> [Resources -> Nat]]
        /\ granting \subseteq Drivers
        /\ auditCount \in Nat /\ grants \in Nat
        /\ SuperUserCap \in Resources
    BY ResourcesAssumption DEF AuditInv, Exclusive, TypeOK
  <1>I. auditCount <= grants /\ \A c \in granting : auditCount < grants /\ live[c][SuperUserCap] = 1
    BY DEF AuditInv, AuditNeverOvercounts
  <1>U. \A c, d \in Drivers : live[c][SuperUserCap] > 0 /\ live[d][SuperUserCap] > 0 => c = d
    BY <1>B DEF AuditInv, Exclusive, TokensUnique
  <1>H. Held(SuperUserCap) => ~Acquired(SuperUserCap)
    BY <1>B DEF AuditInv, Exclusive, HeldIsClaimed, is_claimed, Acquired
  (* A context outside the grants moves a token of its own.                *)
  <1>O. ASSUME NEW c \in Drivers, NEW r \in Resources, c \notin granting,
               Mint(c, r) \/ Consume(c, r), UNCHANGED <<granting, auditCount>>,
               grants' = grants \/ grants' = grants + 1
        PROVE  auditCount' <= grants' /\ AuditNeverOvercounts'
    <2>1. \A d \in granting : live'[d] = live[d]
      BY <1>O, <1>B DEF Mint, Consume
    <2> QED
      BY <2>1, <1>O, <1>B, <1>I DEF AuditNeverOvercounts
  (* The counts and the tokens stay as they are.                           *)
  <1>S. ASSUME UNCHANGED <<live, granting, auditCount, grants>>
        PROVE  auditCount' <= grants' /\ AuditNeverOvercounts'
    BY <1>S, <1>I DEF AuditNeverOvercounts
  <1>1. ASSUME NEW c \in Drivers, NEW r \in Resources, claim(c, r)
        PROVE  auditCount' <= grants' /\ AuditNeverOvercounts'
    <2>1. CASE Acquired(r)
      BY <2>1, <1>1, <1>O DEF claim, CountGrant
    <2>2. CASE ~Acquired(r)
      BY <2>2, <1>1, <1>S DEF claim
    <2> QED
      BY <2>1, <2>2
  <1>2. ASSUME NEW c \in Drivers, NEW r \in Resources,
               drop_cap(c, r) \/ Forget(c, r) \/ steal(c, r)
        PROVE  auditCount' <= grants' /\ AuditNeverOvercounts'
    BY <1>2, <1>O DEF drop_cap, Forget, steal, CountGrant
  <1>3. ASSUME NEW c \in Drivers, grant_superuser(c)
        PROVE  auditCount' <= grants' /\ AuditNeverOvercounts'
    <2>1. CASE Acquired(SuperUserCap)
      <3>1. granting = {}
        BY <2>1, <1>B, <1>I, <1>H DEF Held
      <3>2. granting' = {c} /\ auditCount' = auditCount /\ grants' = grants + 1
        BY <3>1, <2>1, <1>3 DEF grant_superuser, CountGrant
      <3>3. live'[c][SuperUserCap] = 1
        BY <2>1, <1>3, <1>B, <1>H DEF grant_superuser, Mint, Held
      <3> QED
        BY <3>2, <3>3, <1>B, <1>I DEF AuditNeverOvercounts
    <2>2. CASE ~Acquired(SuperUserCap)
      BY <2>2, <1>3, <1>S DEF grant_superuser
    <2> QED
      BY <2>1, <2>2
  <1>4. ASSUME NEW c \in Drivers, CountSuperuserGrant(c)
        PROVE  auditCount' <= grants' /\ AuditNeverOvercounts'
    <2>1. granting' = {}
      BY <1>4, <1>B, <1>I, <1>U DEF CountSuperuserGrant
    <2> QED
      BY <2>1, <1>4, <1>B, <1>I DEF CountSuperuserGrant, AuditNeverOvercounts
  <1>5. CASE Reset
    BY <1>5, <1>E DEF Reset, AuditInv, AuditNeverOvercounts
  <1>6. CASE UNCHANGED vars
    BY <1>6, <1>S, <1>E DEF vars, AuditInv
  <1> QED
    BY <1>E, <1>1, <1>2, <1>3, <1>4, <1>5, <1>6 DEF TokenNext, TokenStep, AuditInv

(* Whatever runs between the claim and the fetch_add of grant_superuser,   *)
(* the superuser counter never runs ahead of the grants.                   *)
THEOREM AuditIsNeverAhead == TokenSpec => []AuditNeverOvercounts
  BY InitAudit, StepAudit, PTL DEF TokenSpec, AuditInv

-----------------------------------------------------------------------------
(* Lost resources, and the refinement of Ownership.                        *)

(* What a minted token changes of who holds what.                          *)
LEMMA MintHolds ==
    ASSUME live \in [Drivers -> [Resources -> Nat]],
           NEW c \in Drivers, NEW r \in Resources, Mint(c, r)
    PROVE  \A s \in Resources : s # r => \A d \in Drivers : live'[d][s] = live[d][s]
  BY DEF Mint

LEMMA ConsumeHolds ==
    ASSUME live \in [Drivers -> [Resources -> Nat]],
           NEW c \in Drivers, NEW r \in Resources, Consume(c, r)
    PROVE  \A s \in Resources : s # r => \A d \in Drivers : live'[d][s] = live[d][s]
  BY DEF Consume

LEMMA StepLost ==
    ASSUME Exclusive, TokenNext, NEW r \in Resources, is_claimed(r), ~Held(r), Held(r)'
    PROVE  \E c \in Drivers : steal(c, r)
  <1>B. live \in [Drivers -> [Resources -> Nat]] /\ SuperUserCap \in Resources
    BY ResourcesAssumption DEF Exclusive, TypeOK
  <1>0. live' # live
    BY DEF Held
  <1>M. ASSUME NEW c \in Drivers, NEW s \in Resources, Mint(c, s) \/ Consume(c, s)
        PROVE  s = r
    BY <1>M, <1>B, MintHolds, ConsumeHolds DEF Held
  <1>1. ASSUME NEW c \in Drivers, NEW s \in Resources, claim(c, s)
        PROVE  FALSE
    BY <1>1, <1>0, <1>M DEF claim, Acquired, is_claimed
  <1>2. ASSUME NEW c \in Drivers, NEW s \in Resources, drop_cap(c, s) \/ Forget(c, s)
        PROVE  FALSE
    <2>1. Consume(c, s) /\ s = r
      BY <1>2, <1>M DEF drop_cap, Forget
    <2> QED
      BY <2>1 DEF Consume, Held
  <1>3. ASSUME NEW c \in Drivers, NEW s \in Resources, steal(c, s)
        PROVE  steal(c, r)
    <2>1. s = r
      BY <1>3, <1>M DEF steal
    <2> QED
      BY <2>1, <1>3
  <1>4. ASSUME NEW c \in Drivers, grant_superuser(c)
        PROVE  FALSE
    BY <1>4, <1>0, <1>B, <1>M DEF grant_superuser, Acquired, is_claimed
  <1>5. ASSUME NEW c \in Drivers, CountSuperuserGrant(c)
        PROVE  FALSE
    BY <1>5, <1>0 DEF CountSuperuserGrant
  <1>6. CASE Reset
    BY <1>6 DEF Reset, NoTokens, Held
  <1> QED
    BY <1>1, <1>2, <1>3, <1>4, <1>5, <1>6 DEF TokenNext, TokenStep

(* A resource that is claimed with no token for it (garbage at power-on,   *)
(* a forgotten token, a claim from before a reset) gets a token only from  *)
(* steal, never from claim or grant_superuser.                             *)
THEOREM LostResourcesStayLost == TokenSpec => LostStaysLost
  <1>1. Exclusive /\ [TokenNext]_vars =>
            [\A r \in Resources :
                is_claimed(r) /\ ~Held(r) /\ Held(r)' => \E c \in Drivers : steal(c, r)]_vars
    BY StepLost
  <1> QED
    BY <1>1, TokenSpecExclusive, PTL DEF TokenSpec, LostStaysLost

(* A holder is the owner; a resource nobody holds is free or lost.         *)
OwnersAreHolders ==
    \A r \in Resources :
        /\ \A c \in Drivers : live[c][r] > 0 => OwnerOf(r) = c
        /\ ~Held(r) => OwnerOf(r) = IF available(r) THEN "free" ELSE "lost"

LEMMA OwnerIsHolder == TokensUnique => OwnersAreHolders
  <1> SUFFICES ASSUME TokensUnique, NEW r \in Resources
               PROVE  /\ \A c \in Drivers : live[c][r] > 0 => OwnerOf(r) = c
                      /\ ~Held(r) => OwnerOf(r) = IF available(r) THEN "free" ELSE "lost"
    BY DEF OwnersAreHolders
  <1>1. ASSUME NEW c \in Drivers, live[c][r] > 0
        PROVE  OwnerOf(r) = c
    <2>1. Held(r)
      BY <1>1 DEF Held
    <2>2. (CHOOSE d \in Drivers : live[d][r] > 0) = c
      BY <1>1 DEF TokensUnique
    <2> QED
      BY <2>1, <2>2 DEF OwnerOf
  <1>2. ~Held(r) => OwnerOf(r) = IF available(r) THEN "free" ELSE "lost"
    BY DEF OwnerOf
  <1> QED
    BY <1>1, <1>2

LEMMA InitOwners == Init => Owners!OwnershipInit
  <1> SUFFICES ASSUME Init PROVE Owners!OwnershipInit
    OBVIOUS
  <1>1. \A r \in Resources : ~Held(r)
    BY DEF Init, NoTokens, Held
  <1>2. \A r \in Resources : OwnerOf(r) \in {"free", "lost"}
    BY <1>1 DEF OwnerOf
  <1> QED
    BY <1>2 DEF Owners!OwnershipInit, Owners!Free, Owners!Lost

LEMMA StepOwners ==
    Exclusive /\ Exclusive' /\ [TokenNext]_vars
      => [Owners!OwnershipNext]_[r \in Resources |-> OwnerOf(r)]
  <1> DEFINE owner == [r \in Resources |-> OwnerOf(r)]
  <1> SUFFICES ASSUME Exclusive, Exclusive', [TokenNext]_vars
               PROVE  [Owners!OwnershipNext]_owner
    OBVIOUS
  <1>B. /\ bits \in [Words -> SUBSET Bits]
        /\ live \in [Drivers -> [Resources -> Nat]]
        /\ live' \in [Drivers -> [Resources -> Nat]]
        /\ SuperUserCap \in Resources
    BY ResourcesAssumption DEF Exclusive, TypeOK
  (* Ownership before and after, in terms of live tokens.                  *)
  <1>O. \A r \in Resources :
            /\ \A c \in Drivers : live[c][r] > 0 => OwnerOf(r) = c
            /\ ~Held(r) => OwnerOf(r) = IF available(r) THEN "free" ELSE "lost"
            /\ OwnerOf(r) \in Drivers <=> Held(r)
    BY OwnerIsHolder, DriversAssumption DEF Exclusive, OwnersAreHolders, Held
  <1>P. \A r \in Resources :
            /\ \A c \in Drivers : live'[c][r] > 0 => OwnerOf(r)' = c
            /\ ~Held(r)' => OwnerOf(r)' = IF available(r)' THEN "free" ELSE "lost"
    <2>1. (TokensUnique => OwnersAreHolders)'
      BY OwnerIsHolder, PTL
    <2> QED
      BY <2>1 DEF Exclusive, OwnersAreHolders
  <1>S. ASSUME NEW s \in Resources, \A d \in Drivers : live'[d][s] = live[d][s],
               available(s)' <=> available(s)
        PROVE  OwnerOf(s)' = OwnerOf(s)
    <2>1. CASE Held(s)
      BY <2>1, <1>S, <1>O, <1>P DEF Held
    <2>2. CASE ~Held(s)
      BY <2>2, <1>S, <1>O, <1>P DEF Held
    <2> QED
      BY <2>1, <2>2
  <1>T. ASSUME NEW c \in Drivers, NEW r \in Resources, ~Held(r), Mint(c, r), FetchOr(r)
        PROVE  Owners!Take(c, r)
    <2>1. owner[r] \notin Drivers
      BY <1>T, <1>O
    <2>2. live'[c][r] > 0
      BY <1>T, <1>B DEF Mint
    <2>3. OwnerOf(r)' = c
      BY <2>2, <1>P
    <2>4. \A s \in Resources : s # r => OwnerOf(s)' = OwnerOf(s)
      BY <1>T, <1>B, <1>S, MintHolds, FetchOrEffect
    <2> QED
      BY <2>1, <2>3, <2>4 DEF Owners!Take
  <1>N. ASSUME NEW r \in Resources, ~Acquired(r), FetchOr(r), UNCHANGED live
        PROVE  owner' = owner
    <2>1. \A s \in Resources : available(s)' <=> available(s)
      BY <1>N, <1>B, FetchOrEffect DEF Acquired
    <2> QED
      BY <2>1, <1>N, <1>S
  <1>A. \A r \in Resources : Acquired(r) => ~Held(r)
    BY DEF Acquired, Exclusive, HeldIsClaimed, is_claimed
  <1>C. ASSUME NEW c \in Drivers, NEW r \in Resources, Consume(c, r)
        PROVE  /\ owner[r] = c
               /\ OwnerOf(r)' = IF available(r)' THEN "free" ELSE "lost"
    <2>1. live[c][r] > 0 /\ ~Held(r)'
      BY <1>C, <1>B DEF Consume, Held, Exclusive, TokensUnique
    <2> QED
      BY <2>1, <1>O, <1>P
  <1>1. ASSUME NEW c \in Drivers, NEW r \in Resources, claim(c, r)
        PROVE  Owners!Take(c, r) \/ owner' = owner
    <2>1. CASE Acquired(r)
      BY <2>1, <1>1, <1>A, <1>T DEF claim
    <2>2. CASE ~Acquired(r)
      BY <2>2, <1>1, <1>N DEF claim
    <2> QED
      BY <2>1, <2>2
  <1>2. ASSUME NEW c \in Drivers, NEW r \in Resources, drop_cap(c, r)
        PROVE  Owners!GiveBack(c, r) \/ Owners!Lose(c, r)
    <2>1. \A s \in Resources : s # r => OwnerOf(s)' = OwnerOf(s)
      BY <1>2, <1>B, <1>S, ConsumeHolds, FetchAndEffect DEF drop_cap
    <2>2. owner[r] = c /\ (OwnerOf(r)' = "free" \/ OwnerOf(r)' = "lost")
      BY <1>2, <1>C DEF drop_cap
    <2> QED
      BY <2>1, <2>2 DEF Owners!GiveBack, Owners!Lose, Owners!Free, Owners!Lost
  <1>3. ASSUME NEW c \in Drivers, NEW r \in Resources, Forget(c, r)
        PROVE  Owners!Lose(c, r)
    <2>1. \A s \in Resources : available(s)' <=> available(s)
      BY <1>3 DEF Forget, available
    <2>2. \A s \in Resources : s # r => OwnerOf(s)' = OwnerOf(s)
      BY <1>3, <2>1, <1>B, <1>S, ConsumeHolds DEF Forget
    <2>3. ~available(r)
      BY <1>3 DEF Forget, Consume, Exclusive, HeldIsClaimed, Held, is_claimed
    <2>4. owner[r] = c /\ OwnerOf(r)' = "lost"
      BY <1>3, <2>1, <2>3, <1>C DEF Forget
    <2> QED
      BY <2>2, <2>4 DEF Owners!Lose, Owners!Lost
  <1>4. ASSUME NEW c \in Drivers, NEW r \in Resources, steal(c, r)
        PROVE  Owners!Take(c, r)
    BY <1>4, <1>T DEF steal
  <1>5. ASSUME NEW c \in Drivers, grant_superuser(c)
        PROVE  Owners!Take(c, SuperUserCap) \/ owner' = owner
    <2>1. CASE Acquired(SuperUserCap)
      BY <2>1, <1>5, <1>B, <1>A, <1>T DEF grant_superuser
    <2>2. CASE ~Acquired(SuperUserCap)
      BY <2>2, <1>5, <1>B, <1>N DEF grant_superuser
    <2> QED
      BY <2>1, <2>2
  <1>6. ASSUME UNCHANGED <<bits, live>>
        PROVE  owner' = owner
    <2>1. \A s \in Resources : available(s)' <=> available(s)
      BY <1>6 DEF available
    <2> QED
      BY <2>1, <1>6, <1>S
  <1>7. ASSUME NEW c \in Drivers, CountSuperuserGrant(c)
        PROVE  owner' = owner
    BY <1>7, <1>6 DEF CountSuperuserGrant
  <1>8. CASE Reset
    <2>1. \A s \in Resources : ~Held(s)' /\ (available(s)' <=> available(s))
      BY <1>8 DEF Reset, NoTokens, Held, available
    <2>2. \A s \in Resources : Held(s) => ~available(s)
      BY DEF Exclusive, HeldIsClaimed, is_claimed
    <2>3. \A s \in Resources :
              OwnerOf(s)' = IF OwnerOf(s) \in Drivers THEN "lost" ELSE OwnerOf(s)
      BY <2>1, <2>2, <1>O, <1>P
    <2> QED
      BY <2>3 DEF Owners!OwnershipNext, Owners!LoseAll, Owners!Lost
  <1>9. CASE UNCHANGED vars
    BY <1>9, <1>6 DEF vars
  <1> QED
    BY <1>1, <1>2, <1>3, <1>4, <1>5, <1>7, <1>8, <1>9, <1>B
    DEF TokenNext, TokenStep, Owners!OwnershipNext

(* The bits and tokens of the code implement exclusive ownership: what two *)
(* atomic instructions per operation do, clients see as taking, giving     *)
(* back and losing whole resources.                                        *)
THEOREM TokensRefineOwnership == TokenSpec => TokensImplementOwnership
  BY InitOwners, StepOwners, TokenSpecExclusive, PTL
  DEF TokenSpec, TokensImplementOwnership, Owners!OwnershipSpec
=============================================================================
