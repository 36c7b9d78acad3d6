------------------------- MODULE SymbolTableProofs --------------------------
(***************************************************************************)
(* Proofs about the symbol table, for every number of slots, every set of  *)
(* names and every hash function.                                          *)
(***************************************************************************)
EXTENDS SymbolTable, FunctionTheorems, FiniteSetTheorems, TLAPS

(* A probe lands in the table.                                             *)
LEMMA ProbeInTable ==
    ASSUME NEW n \in Names, NEW step \in Slots
    PROVE  Probe(n, step) \in Slots
  <1>1. SYMBOL_SLOTS \in Nat /\ SYMBOL_SLOTS > 0 /\ hash[n] + step \in Nat
    BY SlotsAssumption, HashAssumption DEF Slots
  <1>2. (hash[n] + step) % SYMBOL_SLOTS \in 0 .. SYMBOL_SLOTS - 1
    BY <1>1
  <1> QED
    BY <1>2 DEF Probe, Slots

(* A probing stops at one step only.                                       *)
LEMMA StopUnique ==
    ASSUME NEW n \in Names, NEW s \in Slots, NEW t \in Slots,
           StopsFirst(n, s), StopsFirst(n, t)
    PROVE  s = t
  BY SlotsAssumption DEF StopsFirst, Slots

(* A slot that holds a name is used.                                       *)
LEMMA NamedIsUsed ==
    /\ EMPTY_SYMBOL.name = None
    /\ \A n \in Names, v \in Values : [name |-> n, value |-> v] # EMPTY_SYMBOL
  BY NoneAssumption DEF EMPTY_SYMBOL

LEMMA InitType == Init => TypeOK
  BY DEF Init, TypeOK, Symbol

LEMMA StepType == TypeOK /\ [Next]_vars => TypeOK'
  <1> SUFFICES ASSUME TypeOK, [Next]_vars PROVE TypeOK'
    OBVIOUS
  <1>1. ASSUME NEW n \in Names, NEW v \in Values, NEW step \in Slots, Write(n, v, step)
        PROVE  TypeOK'
    BY <1>1, ProbeInTable DEF Write, TypeOK, Symbol
  <1>2. ASSUME NEW n \in Names, Full(n)
        PROVE  TypeOK'
    BY <1>2 DEF Full, TypeOK
  <1>3. CASE UNCHANGED vars
    BY <1>3 DEF vars, TypeOK
  <1> QED
    BY <1>1, <1>2, <1>3 DEF Next, insert_symbol

(* Every reachable table is well typed.                                    *)
THEOREM TypeCorrect == Spec => []TypeOK
  BY InitType, StepType, PTL DEF Spec

-----------------------------------------------------------------------------
(* Reachable is inductive once the table is well typed.                    *)

ReachableAt(i) ==
    \E step \in Slots :
        /\ Probe(symbols[i].name, step) = i
        /\ StopsFirst(symbols[i].name, step)

LEMMA InitReachable == Init => Reachable
  BY DEF Init, Reachable, used

(* What a write leaves of the probing of a name whose stop it is not.      *)
LEMMA WriteKeepsSlots ==
    ASSUME TypeOK, NEW n \in Names, NEW v \in Values, NEW step \in Slots, Write(n, v, step)
    PROVE  /\ symbols'[Probe(n, step)] = [name |-> n, value |-> v]
           /\ \A j \in Slots : j # Probe(n, step) => symbols'[j] = symbols[j]
           /\ used(Probe(n, step)) => symbols[Probe(n, step)].name = n
  BY ProbeInTable DEF TypeOK, Write, StopsFirst, Stops

LEMMA StepReachable == TypeOK /\ Reachable /\ [Next]_vars => Reachable'
  <1> SUFFICES ASSUME TypeOK, Reachable, [Next]_vars PROVE Reachable'
    OBVIOUS
  <1>1. ASSUME NEW n \in Names, NEW v \in Values, NEW step \in Slots, Write(n, v, step)
        PROVE  Reachable'
    <2> DEFINE p == Probe(n, step)
    <2>1. /\ p \in Slots
          /\ symbols'[p] = [name |-> n, value |-> v]
          /\ \A j \in Slots : j # p => symbols'[j] = symbols[j]
          /\ used(p) => symbols[p].name = n
      BY <1>1, ProbeInTable, WriteKeepsSlots
    <2>2. StopsFirst(n, step)
      BY <1>1 DEF Write
    <2> HIDE DEF p
    <2>S. \A m, k : Stops(m, k)' <=>
              symbols'[Probe(m, k)] = EMPTY_SYMBOL \/ symbols'[Probe(m, k)].name = m
      BY DEF Stops, used, Probe
    <2>F. \A m, k : StopsFirst(m, k)' <=>
              Stops(m, k)' /\ \A j \in 0 .. k - 1 : ~Stops(m, j)'
      BY DEF StopsFirst
    <2>R. \A i, m, k : k \in Slots /\ symbols'[i].name = m /\ Probe(m, k) = i /\ StopsFirst(m, k)'
              => ReachableAt(i)'
      BY DEF ReachableAt, StopsFirst, Stops, used, Probe
    <2> SUFFICES ASSUME NEW i \in Slots, used(i)' PROVE ReachableAt(i)'
      BY DEF Reachable, ReachableAt
    <2>3. CASE i = p
      <3>1. \A k \in 0 .. step - 1 : k \in Slots /\ Probe(n, k) \in Slots /\ ~Stops(n, k)
        BY <2>2, ProbeInTable, SlotsAssumption DEF StopsFirst, Slots
      <3>2. \A k \in 0 .. step - 1 : Probe(n, k) # p
        BY <3>1, <2>1, <2>2 DEF Stops, StopsFirst, p
      <3>3. \A k \in 0 .. step - 1 : ~Stops(n, k)'
        BY <3>1, <3>2, <2>1, <2>S DEF Stops, used
      <3>4. Stops(n, step)'
        BY <2>1, <2>S DEF p
      <3>5. symbols'[i].name = n /\ Probe(n, step) = i
        BY <2>1, <2>3 DEF p
      <3> QED
        BY <3>3, <3>4, <3>5, <2>F, <2>R
    <2>4. CASE i # p
      <3>1. symbols'[i] = symbols[i] /\ used(i)
        BY <2>1, <2>4 DEF used
      <3>2. PICK m \in Names : m = symbols[i].name
        BY <3>1 DEF TypeOK, Symbol, used
      <3>3. PICK k \in Slots : Probe(m, k) = i /\ StopsFirst(m, k)
        BY <3>1, <3>2 DEF Reachable
      <3>4. m # n
        BY <2>2, <2>4, <3>3, StopUnique DEF p
      <3>5. \A j \in 0 .. k - 1 : j \in Slots /\ Probe(m, j) \in Slots /\ ~Stops(m, j)
        BY <3>3, ProbeInTable, SlotsAssumption DEF StopsFirst, Slots
      <3>6. \A j \in 0 .. k - 1 : ~Stops(m, j)'
        <4> SUFFICES ASSUME NEW j \in 0 .. k - 1 PROVE ~Stops(m, j)'
          OBVIOUS
        <4>1. CASE Probe(m, j) = p
          BY <4>1, <2>1, <2>S, <3>4, NamedIsUsed
        <4>2. CASE Probe(m, j) # p
          BY <4>2, <2>1, <2>S, <3>5 DEF Stops, used
        <4> QED
          BY <4>1, <4>2
      <3>7. Stops(m, k)'
        BY <3>1, <3>2, <3>3, <2>S
      <3>8. symbols'[i].name = m
        BY <3>1, <3>2
      <3> QED
        BY <3>3, <3>6, <3>7, <3>8, <2>F, <2>R
    <2> QED
      BY <2>3, <2>4
  <1>2. ASSUME NEW n \in Names, Full(n)
        PROVE  Reachable'
    BY <1>2 DEF Full, Reachable, used, StopsFirst, Stops, Probe
  <1>3. CASE UNCHANGED vars
    BY <1>3 DEF vars, Reachable, used, StopsFirst, Stops, Probe
  <1> QED
    BY <1>1, <1>2, <1>3 DEF Next, insert_symbol

(* Every stored symbol can be found by probing, after any sequence of      *)
(* lets, collisions and wrap-arounds.                                      *)
THEOREM StoredSymbolsReachable == Spec => []Reachable
  <1>1. Init => TypeOK /\ Reachable
    BY InitType, InitReachable
  <1>2. TypeOK /\ Reachable /\ [Next]_vars => (TypeOK /\ Reachable)'
    BY StepType, StepReachable
  <1> QED
    BY <1>1, <1>2, PTL DEF Spec

(* Two slots of one name would both be where its probing first stops.      *)
LEMMA ReachableNoDuplicates == TypeOK /\ Reachable => NoDuplicates
  <1> SUFFICES ASSUME TypeOK, Reachable,
                      NEW i \in Slots, NEW j \in Slots, used(i), used(j),
                      symbols[i].name = symbols[j].name
               PROVE  i = j
    BY DEF NoDuplicates
  <1>1. symbols[i].name \in Names
    BY DEF TypeOK, Symbol, used
  <1>2. PICK s \in Slots : Probe(symbols[i].name, s) = i /\ StopsFirst(symbols[i].name, s)
    BY DEF Reachable
  <1>3. PICK t \in Slots : Probe(symbols[i].name, t) = j /\ StopsFirst(symbols[i].name, t)
    BY DEF Reachable
  <1> QED
    BY <1>1, <1>2, <1>3, StopUnique

(* A name never occupies two slots: rebinding it leaves no stale value.    *)
THEOREM NamesUnique == Spec => []NoDuplicates
  BY TypeCorrect, StoredSymbolsReachable, ReachableNoDuplicates, PTL

-----------------------------------------------------------------------------
(* The refinement of the bounded map.                                      *)

Consistent == TypeOK /\ Reachable

LEMMA SystemConsistent == Spec => []Consistent
  BY TypeCorrect, StoredSymbolsReachable, PTL DEF Consistent

(* Probing visits every slot.                                              *)
LEMMA ProbeVisits ==
    ASSUME NEW n \in Names, NEW i \in Slots
    PROVE  \E step \in Slots : Probe(n, step) = i
  <1> DEFINE h == hash[n]
  <1>1. h \in 0 .. SYMBOL_SLOTS - 1 /\ SYMBOL_SLOTS \in Nat \ {0} /\ i \in 0 .. SYMBOL_SLOTS - 1
    BY SlotsAssumption, HashAssumption DEF Slots
  <1> HIDE DEF h
  <1>2. CASE i >= h
    <2>1. i - h \in Slots /\ h + (i - h) = i /\ i % SYMBOL_SLOTS = i
      BY <1>1, <1>2 DEF Slots
    <2> QED
      BY <2>1 DEF Probe, h
  <1>3. CASE i < h
    <2>1. i + SYMBOL_SLOTS - h \in Slots
      BY <1>1, <1>3 DEF Slots
    <2>2. h + (i + SYMBOL_SLOTS - h) = i + SYMBOL_SLOTS /\ (i + SYMBOL_SLOTS) % SYMBOL_SLOTS = i
      BY <1>1, <1>3
    <2> QED
      BY <2>1, <2>2 DEF Probe, h
  <1> QED
    BY <1>1, <1>2, <1>3

(* lookup_symbol answers the value in the slot of a name, or None.         *)
LEMMA LookupIs ==
    ASSUME Consistent, NEW n \in Names
    PROVE  /\ \A i \in Slots : used(i) /\ symbols[i].name = n =>
                  lookup_symbol(n) = symbols[i].value /\ lookup_symbol(n) \in Values
           /\ (\A i \in Slots : ~(used(i) /\ symbols[i].name = n)) => lookup_symbol(n) = None
           /\ lookup_symbol(n) # None => \E i \in Slots : used(i) /\ symbols[i].name = n
  <1>1. ASSUME NEW i \in Slots, used(i), symbols[i].name = n
        PROVE  lookup_symbol(n) = symbols[i].value /\ lookup_symbol(n) \in Values
    <2>1. PICK s \in Slots : Probe(n, s) = i /\ StopsFirst(n, s)
      BY <1>1 DEF Consistent, Reachable
    <2>2. (CHOOSE step \in Slots : StopsFirst(n, step)) = s
      BY <2>1, StopUnique
    <2>3. symbols[i].value \in Values
      BY <1>1 DEF Consistent, TypeOK, Symbol, used
    <2> QED
      BY <2>1, <2>2, <2>3, <1>1 DEF lookup_symbol
  <1>2. ASSUME \A i \in Slots : ~(used(i) /\ symbols[i].name = n)
        PROVE  lookup_symbol(n) = None
    <2>1. \A step \in Slots : ~(StopsFirst(n, step) /\ used(Probe(n, step)))
      BY <1>2, ProbeInTable DEF StopsFirst, Stops
    <2> QED
      BY <2>1 DEF lookup_symbol
  <1> QED
    BY <1>1, <1>2

Bound == {n \in Names : lookup_symbol(n) # None}

(* The names that are bound are those in the table.                        *)
LEMMA BoundIs ==
    ASSUME Consistent
    PROVE  Bound = {symbols[i].name : i \in {i \in Slots : used(i)}}
  <1>1. \A i \in Slots : used(i) => symbols[i].name \in Names
    BY DEF Consistent, TypeOK, Symbol, used
  <1> QED
    BY <1>1, LookupIs, NoneAssumption DEF Bound

(* Names in the table and used slots correspond one to one.                *)
LEMMA BoundCount ==
    ASSUME Consistent
    PROVE  /\ IsFiniteSet(Bound)
           /\ Cardinality(Bound) \in Nat
           /\ Cardinality(Bound) < SYMBOL_SLOTS <=> \E i \in Slots : ~used(i)
  <1> DEFINE U == {i \in Slots : used(i)}
             f == [i \in U |-> symbols[i].name]
  <1>1. IsFiniteSet(Slots) /\ Cardinality(Slots) = SYMBOL_SLOTS
    <2>1. SYMBOL_SLOTS \in Nat \ {0} /\ 0 \in Int /\ SYMBOL_SLOTS - 1 \in Int
      BY SlotsAssumption
    <2>2. Cardinality(0 .. SYMBOL_SLOTS - 1) = SYMBOL_SLOTS - 1 - 0 + 1 /\ IsFiniteSet(0 .. SYMBOL_SLOTS - 1)
      BY <2>1, FS_Interval
    <2> QED
      BY <2>1, <2>2 DEF Slots
  <1>2. f \in [U -> Bound]
    BY BoundIs
  <1>3. \A b \in Bound : \E i \in U : f[i] = b
    BY BoundIs
  <1>4. \A i, j \in U : f[i] = f[j] => i = j
    BY ReachableNoDuplicates DEF Consistent, NoDuplicates
  <1>5. f \in Bijection(U, Bound)
    BY <1>2, <1>3, <1>4 DEF Bijection, Injection, IsInjective, Surjection
  <1>6. IsFiniteSet(U) /\ Cardinality(U) <= Cardinality(Slots)
        /\ (Cardinality(Slots) = Cardinality(U) => Slots = U)
    BY <1>1, FS_Subset
  <1>7. IsFiniteSet(Bound) /\ Cardinality(Bound) = Cardinality(U)
    BY <1>5, <1>6, FS_Bijection DEF ExistsBijection
  <1>8. Cardinality(U) \in Nat /\ SYMBOL_SLOTS \in Nat
    BY <1>6, FS_CardinalityType, SlotsAssumption
  <1>9. Cardinality(U) < SYMBOL_SLOTS <=> U # Slots
    BY <1>1, <1>6, <1>8
  <1>10. U # Slots <=> \E i \in Slots : ~used(i)
    OBVIOUS
  <1> QED
    BY <1>7, <1>8, <1>9, <1>10

(* The answers of lookup_symbol are those of the slots; the same of the    *)
(* state after a step.                                                     *)
LookupSound ==
    \A m \in Names :
        /\ \A i \in Slots : used(i) /\ symbols[i].name = m =>
              lookup_symbol(m) = symbols[i].value
        /\ (\A i \in Slots : ~(used(i) /\ symbols[i].name = m)) => lookup_symbol(m) = None

LEMMA LookupIsNext == Consistent' => LookupSound'
  <1>1. Consistent => LookupSound
    BY LookupIs DEF LookupSound
  <1> QED
    BY <1>1, PTL

(* A write binds its name and no other.                                    *)
LEMMA WriteBinds ==
    ASSUME Consistent, Consistent', NEW n \in Names, NEW v \in Values, NEW step \in Slots,
           Write(n, v, step)
    PROVE  /\ lookup_symbol(n)' = v
           /\ \A m \in Names : m # n => lookup_symbol(m)' = lookup_symbol(m)
  <1> DEFINE p == Probe(n, step)
  <1>1. /\ p \in Slots
        /\ symbols'[p] = [name |-> n, value |-> v]
        /\ \A j \in Slots : j # p => symbols'[j] = symbols[j]
        /\ used(p) => symbols[p].name = n
    BY ProbeInTable, WriteKeepsSlots DEF Consistent
  <1> HIDE DEF p
  <1>2. used(p)'
    BY <1>1, NamedIsUsed DEF used
  <1>L. \A m \in Names :
            /\ \A i \in Slots : used(i)' /\ symbols'[i].name = m =>
                  lookup_symbol(m)' = symbols'[i].value
            /\ (\A i \in Slots : ~(used(i)' /\ symbols'[i].name = m)) => lookup_symbol(m)' = None
    BY LookupIsNext DEF LookupSound
  <1>3. lookup_symbol(n)' = v
    BY <1>1, <1>2, <1>L
  <1>4. ASSUME NEW m \in Names, m # n
        PROVE  lookup_symbol(m)' = lookup_symbol(m)
    <2>1. CASE \E i \in Slots : used(i) /\ symbols[i].name = m
      <3>1. PICK i \in Slots : used(i) /\ symbols[i].name = m
        BY <2>1
      <3>2. i # p
        BY <1>1, <1>4, <3>1
      <3>3. used(i)' /\ symbols'[i] = symbols[i]
        BY <1>1, <3>1, <3>2 DEF used
      <3> QED
        BY <3>1, <3>3, <1>L, LookupIs
    <2>2. CASE \A i \in Slots : ~(used(i) /\ symbols[i].name = m)
      <3>1. \A i \in Slots : ~(used(i)' /\ symbols'[i].name = m)
        BY <1>1, <1>4, <2>2 DEF used
      <3> QED
        BY <3>1, <2>2, <1>L, LookupIs
    <2> QED
      BY <2>1, <2>2
  <1> QED
    BY <1>3, <1>4

Abstract == [n \in Names |-> lookup_symbol(n)]

LEMMA AbstractBound ==
    Bindings!Bound = Bound /\ Bindings!Cardinality(Bound) = Cardinality(Bound)
  <1>1. Bindings!Bound = Bound
    BY DEF Bindings!Bound, Bound
  <1>2. Bindings!Cardinality(Bound) = Cardinality(Bound)
    BY DEF Bindings!Cardinality, Cardinality
  <1> QED
    BY <1>1, <1>2

LEMMA InitRefinesMap == Init /\ Consistent => Bindings!MapInit
  BY LookupIs DEF Init, Bindings!MapInit, used

LEMMA StepRefinesMap ==
    Consistent /\ Consistent' /\ [Next]_vars => [Bindings!MapNext]_<<Abstract, answer>>
  <1> SUFFICES ASSUME Consistent, Consistent', [Next]_vars
               PROVE  [Bindings!MapNext]_<<Abstract, answer>>
    OBVIOUS
  <1>1. ASSUME NEW n \in Names, NEW v \in Values, NEW step \in Slots, Write(n, v, step)
        PROVE  Bindings!Bind(n, v)
    <2>1. Abstract' = [Abstract EXCEPT ![n] = v]
      BY <1>1, WriteBinds DEF Abstract
    <2>2. n \in Bound \/ Cardinality(Bound) < SYMBOL_SLOTS
      <3>1. CASE used(Probe(n, step))
        <4>1. lookup_symbol(n) \in Values
          <5>1. Probe(n, step) \in Slots /\ symbols[Probe(n, step)].name = n
            BY <1>1, <3>1, ProbeInTable DEF Write, StopsFirst, Stops
          <5> QED
            BY <5>1, <3>1, LookupIs
        <4> QED
          BY <4>1, NoneAssumption DEF Bound
      <3>2. CASE ~used(Probe(n, step))
        BY <3>2, ProbeInTable, BoundCount
      <3> QED
        BY <3>1, <3>2
    <2> QED
      BY <1>1, <2>1, <2>2, AbstractBound DEF Write, Abstract, Bindings!Bind
  <1>2. ASSUME NEW n \in Names, Full(n)
        PROVE  Bindings!Refuse(n)
    <2>1. \A i \in Slots : used(i) /\ symbols[i].name # n
      BY <1>2, ProbeVisits DEF Full, Stops
    <2>2. n \notin Bound
      BY <2>1, LookupIs DEF Bound
    <2>3. Cardinality(Bound) >= SYMBOL_SLOTS
      BY <2>1, BoundCount, SlotsAssumption
    <2>4. Abstract' = Abstract /\ answer' = "full"
      BY <1>2 DEF Full, Abstract, lookup_symbol, StopsFirst, Stops, used, Probe
    <2> QED
      BY <2>2, <2>3, <2>4, AbstractBound DEF Bindings!Refuse, Abstract
  <1>3. CASE UNCHANGED vars
    BY <1>3 DEF vars, Abstract, lookup_symbol, StopsFirst, Stops, used, Probe
  <1> QED
    BY <1>1, <1>2, <1>3 DEF Next, insert_symbol, Bindings!MapNext

(* insert_symbol and lookup_symbol implement a map that holds one name per *)
(* slot and refuses only a new name, only when every slot is taken.        *)
THEOREM TableRefinesMap == Spec => TableImplementsMap
  <1>1. Init /\ Consistent => Bindings!MapInit
    BY InitRefinesMap
  <1>2. Consistent /\ Consistent' /\ [Next]_vars => [Bindings!MapNext]_<<Abstract, answer>>
    BY StepRefinesMap
  <1> QED
    BY <1>1, <1>2, SystemConsistent, PTL DEF Spec, TableImplementsMap, Bindings!MapSpec, Abstract
=============================================================================
