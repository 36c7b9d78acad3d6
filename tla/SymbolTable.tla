---------------------------- MODULE SymbolTable -----------------------------
(***************************************************************************)
(* The compiler's symbol table (src/src/compiler/parser.rs): open          *)
(* addressing with linear probing over SYMBOL_SLOTS slots, no deletion.    *)
(* The hash is any function from names to slots; only what probing makes   *)
(* of collisions, wrap-around and a full table is at stake here.           *)
(***************************************************************************)
EXTENDS Naturals

CONSTANTS Names,         \* identifiers that fit in NAME_MAX bytes
          Values,        \* 32-bit words
          SYMBOL_SLOTS,  \* slots of the table
          hash,          \* slot where the probing of a name starts
          None           \* no value

Slots == 0 .. SYMBOL_SLOTS - 1

ASSUME SlotsAssumption == SYMBOL_SLOTS \in Nat \ {0}
ASSUME HashAssumption == hash \in [Names -> Slots]
ASSUME NoneAssumption == None \notin Values /\ None \notin Names

VARIABLES symbols,  \* the slots
          answer    \* what the last `let` was answered

vars == <<symbols, answer>>

(* A slot that was never written: used = false.                            *)
EMPTY_SYMBOL == [name |-> None, value |-> None]
Symbol == {EMPTY_SYMBOL} \cup [name : Names, value : Values]

used(i) == symbols[i] # EMPTY_SYMBOL

Probe(n, step) == (hash[n] + step) % SYMBOL_SLOTS

(* Mutant: the name of an occupied slot is not compared.                   *)
StopsAtEmpty(n, step) == ~used(Probe(n, step))

(* The probing of n stops at the first slot that is empty or holds n.      *)
Stops(n, step) == ~used(Probe(n, step)) \/ symbols[Probe(n, step)].name = n
StopsFirst(n, step) == Stops(n, step) /\ \A k \in 0 .. step - 1 : ~Stops(n, k)

lookup_symbol(n) ==
    IF \E step \in Slots : StopsFirst(n, step) /\ used(Probe(n, step))
    THEN symbols[Probe(n, CHOOSE step \in Slots : StopsFirst(n, step))].value
    ELSE None

Init ==
    /\ symbols = [i \in Slots |-> EMPTY_SYMBOL]
    /\ answer = "none"

(* Mutant: the slot is marked used without storing the name.               *)
WriteNameless(n, v, step) ==
    /\ StopsFirst(n, step)
    /\ symbols' = [symbols EXCEPT ![Probe(n, step)] = [name |-> None, value |-> v]]
    /\ answer' = "ok"

(* Mutant: the write lands one probe after the stop.                       *)
WriteLate(n, v, step) ==
    /\ StopsFirst(n, step)
    /\ symbols' = [symbols EXCEPT ![Probe(n, step + 1)] = [name |-> n, value |-> v]]
    /\ answer' = "ok"

(* insert_symbol: write the slot where the probing stops, whether it is    *)
(* empty or already bound to the name.                                     *)
Write(n, v, step) ==
    /\ StopsFirst(n, step)
    /\ symbols' = [symbols EXCEPT ![Probe(n, step)] = [name |-> n, value |-> v]]
    /\ answer' = "ok"

(* Mutant: a collision at the home slot is taken for a full table.         *)
FullAtHome(n) ==
    /\ ~Stops(n, 0)
    /\ answer' = "full"
    /\ UNCHANGED symbols

(* SymbolTableFull: the whole table was probed in vain.                    *)
Full(n) ==
    /\ \A step \in Slots : ~Stops(n, step)
    /\ answer' = "full"
    /\ UNCHANGED symbols

insert_symbol(n, v) == Full(n) \/ \E step \in Slots : Write(n, v, step)

Next == \E n \in Names, v \in Values : insert_symbol(n, v)

Spec == Init /\ [][Next]_vars

-----------------------------------------------------------------------------
(* Type invariant.                                                         *)
TypeOK ==
    /\ symbols \in [Slots -> Symbol]
    /\ answer \in {"none", "ok", "full"}

(* Every symbol in the table is found where its own probing stops: no      *)
(* empty slot and no other slot of the same name comes before it.  This is *)
(* what "an empty slot ends the chain" in lookup_symbol relies on.         *)
Reachable ==
    \A i \in Slots : used(i) =>
        \E step \in Slots :
            /\ Probe(symbols[i].name, step) = i
            /\ StopsFirst(symbols[i].name, step)

(* No name occupies two slots, so a rebinding cannot leave a stale value   *)
(* behind for a later lookup.                                              *)
NoDuplicates ==
    \A i, j \in Slots : used(i) /\ used(j) /\ symbols[i].name = symbols[j].name => i = j

(* The table implements a map of at most SYMBOL_SLOTS names that refuses a *)
(* new name only when it is full.                                          *)
Bindings == INSTANCE BoundedMap WITH
                Capacity <- SYMBOL_SLOTS,
                Unbound <- None,
                binding <- [n \in Names |-> lookup_symbol(n)]

TableImplementsMap == Bindings!MapSpec
=============================================================================
