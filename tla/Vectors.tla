------------------------------ MODULE Vectors -------------------------------
(***************************************************************************)
(* Exceptions and interrupts on ARM (src/src/kernel/interrupt.rs): the     *)
(* boot copies the flash vector table into a RAM table that no reset       *)
(* clears, then moves VTOR; drivers attach handlers to interrupt lines,    *)
(* one of them the receive interrupt of the UART, whose ring the main      *)
(* program empties (RxRing).                                               *)
(*                                                                         *)
(* Nothing in the repository calls attach_jit_irq or enables a line: the   *)
(* driver that does is held to the safety comments.                        *)
(***************************************************************************)
EXTENDS RxRing

CONSTANTS
    FLASH_VECTORS,   \* the words from __vector_start on
    Exceptions,      \* the slots the processor may take a fault through
    IRQ_BASE,        \* slot of the first entry of irq_handlers (16)
    IRQ_LINES,       \* entries of irq_handlers (32)
    TRAMPOLINE_LINE, \* the line whose handler the trampoline calls (16)
    NoHandler        \* None in an entry of irq_handlers

ASSUME VectorsAssumption ==
    /\ IRQ_BASE \in Nat /\ DOMAIN FLASH_VECTORS = 0 .. IRQ_BASE - 1
    /\ Exceptions \subseteq {e \in 0 .. IRQ_BASE - 1 : FLASH_VECTORS[e] = "fault_hang"}
    /\ IRQ_LINES \in Nat /\ TRAMPOLINE_LINE \in 0 .. IRQ_LINES - 1
    /\ NoHandler \notin {"irq_handler", "jit", "trampoline"}

VARIABLES
    pc,        \* the main program: "copy", "run", "parked" or, somewhere, "wild"
    copied,    \* words copied so far
    table,     \* RAM_VECTOR_TABLE
    vtor,      \* the table the processor fetches from
    enabled,   \* lines enabled in the NVIC
    attached   \* history: the last handler attached to a line since the reset

vectorVars == <<pc, copied, table, vtor, enabled, attached>>
vars == <<ringVars, vectorVars>>

Lines == 0 .. IRQ_LINES - 1
Handlers == {"irq_handler", "jit", "trampoline"}
TableSlots == 0 .. IRQ_BASE + IRQ_LINES - 1
TableWords ==
    {FLASH_VECTORS[e] : e \in DOMAIN FLASH_VECTORS} \cup Handlers \cup {"junk", NoHandler}

(* The processor's vector fetch.                                           *)
Fetch(slot) ==
    IF vtor = "ram" THEN table[slot]
    ELSE IF slot \in DOMAIN FLASH_VECTORS THEN FLASH_VECTORS[slot] ELSE "junk"

Unattached == [n \in Lines |-> NoHandler]

(* RAM_VECTOR_TABLE is in a NOLOAD section: its initialiser is never       *)
(* stored, and what it holds at power-on is arbitrary.                     *)
PowerOnTables == {[s \in TableSlots |-> w] : w \in {"junk", NoHandler, "jit"}}

Init ==
    /\ RingInit
    /\ pc = "copy"
    /\ copied = 0
    /\ table \in PowerOnTables
    /\ vtor = "flash"
    /\ enabled = {}
    /\ attached = Unattached

(* boot_relocate_vectors, word by word.                                    *)
CopyWord ==
    /\ pc = "copy" /\ copied < IRQ_BASE
    /\ table' = [table EXCEPT ![copied] = FLASH_VECTORS[copied]]
    /\ copied' = copied + 1
    /\ UNCHANGED <<ringVars, pc, vtor, enabled, attached>>

(* Mutant: VTOR is written before the copy is complete.                    *)
RelocateEarly ==
    /\ pc = "copy" /\ vtor = "flash"
    /\ vtor' = "ram"
    /\ pc' = IF copied = IRQ_BASE THEN "run" ELSE "copy"
    /\ UNCHANGED <<ringVars, copied, table, enabled, attached>>

(* Mutant: the table is copied, but VTOR stays where it is.                *)
RelocateNowhere ==
    /\ pc = "copy" /\ copied = IRQ_BASE
    /\ pc' = "run"
    /\ UNCHANGED <<ringVars, copied, table, vtor, enabled, attached>>

Relocate ==
    /\ pc = "copy" /\ copied = IRQ_BASE
    /\ vtor' = "ram"
    /\ pc' = "run"
    /\ UNCHANGED <<ringVars, copied, table, enabled, attached>>

(* A fault in whatever runs: the handler announces it and parks the core.  *)
TakeException(e) ==
    /\ pc \in {"copy", "run"}
    /\ Fetch(e) = "fault_hang"
    /\ pc' = "parked"
    /\ UNCHANGED <<ringVars, copied, table, vtor, enabled, attached>>

(* Mutant: the index counts from the start of the table.                   *)
EntryAtStart(n) == n

Entry(n) == IRQ_BASE + n

(* attach_jit_irq: an index past the table is ignored; any handler may go  *)
(* on any line, the trampoline on its own included.                        *)
attach_jit_irq(n, h) ==
    /\ pc = "run"
    /\ IF n \in Lines
       THEN /\ table' = [table EXCEPT ![Entry(n)] = h]
            /\ attached' = [attached EXCEPT ![n] = h]
       ELSE UNCHANGED <<table, attached>>
    /\ UNCHANGED <<ringVars, pc, copied, vtor, enabled>>

(* A driver enables its line once it has attached a handler.               *)
EnableLine(n) ==
    /\ pc = "run" /\ attached[n] # NoHandler
    /\ enabled' = enabled \cup {n}
    /\ UNCHANGED <<ringVars, pc, copied, table, vtor, attached>>

(* What a handler does to the ring: the receive interrupt puts the byte it *)
(* finds, if any.                                                          *)
Handle(h) ==
    IF h = "irq_handler" THEN UNCHANGED ringVars \/ \E b \in Bytes : irq_handler(b)
    ELSE UNCHANGED ringVars

(* The line whose entry serves line n, and what is called there:           *)
(* generic_irq_trampoline_ch16 calls the handler of its own line, if any.  *)
Serving(n) == IF Fetch(IRQ_BASE + n) = "trampoline" THEN TRAMPOLINE_LINE ELSE n
Called(n) ==
    IF Fetch(IRQ_BASE + n) = "trampoline" THEN table[Entry(TRAMPOLINE_LINE)]
    ELSE Fetch(IRQ_BASE + n)

(* A handler comes back: one in flash, or code generated in this session.  *)
(* A word nobody attached, code of a session before and the trampoline     *)
(* calling itself do not.                                                  *)
Returns(n) ==
    \/ Called(n) \in {"irq_handler", NoHandler}
    \/ Called(n) = "jit" /\ attached[Serving(n)] # NoHandler

(* An interrupt between two steps of the main program.                     *)
TakeInterrupt(n) ==
    /\ pc = "run" /\ n \in enabled
    /\ Returns(n) /\ Handle(Called(n))
    /\ UNCHANGED vectorVars

RunWild(n) ==
    /\ pc = "run" /\ n \in enabled
    /\ ~ Returns(n)
    /\ pc' = "wild"
    /\ UNCHANGED <<ringVars, copied, table, vtor, enabled, attached>>

MainProgram == pc = "run" /\ ring_pop /\ UNCHANGED vectorVars

(* A reset disables every line and points VTOR back at flash; the RAM      *)
(* table keeps the handlers of the session before, or what wild code has   *)
(* left of them.                                                           *)
Reset ==
    /\ RingReset
    /\ pc' = "copy"
    /\ copied' = 0
    /\ vtor' = "flash"
    /\ enabled' = {}
    /\ attached' = Unattached
    /\ IF pc = "wild" THEN table' \in PowerOnTables ELSE UNCHANGED table

Next ==
    \/ CopyWord \/ Relocate \/ MainProgram \/ Reset
    \/ \E e \in Exceptions : TakeException(e)
    \/ \E n \in 0 .. IRQ_LINES, h \in Handlers : attach_jit_irq(n, h)
    \/ \E n \in Lines : EnableLine(n) \/ TakeInterrupt(n) \/ RunWild(n)

Spec == Init /\ [][Next]_vars

-----------------------------------------------------------------------------
(* Type invariant of the table and the ring.                               *)
TypeOK ==
    /\ RingTypeOK
    /\ pc \in {"copy", "run", "parked", "wild"}
    /\ copied \in 0 .. IRQ_BASE
    /\ table \in [TableSlots -> TableWords]
    /\ vtor \in {"flash", "ram"}
    /\ enabled \in SUBSET Lines
    /\ attached \in [Lines -> Handlers \cup {NoHandler}]

(* Whenever a fault strikes, during the boot, in the middle of the copy,   *)
(* after any attachment, in the session after a reset, the processor       *)
(* fetches fault_hang and not a word nobody has written.                   *)
FaultsPark == pc # "wild" => \A e \in Exceptions : Fetch(e) = "fault_hang"

(* What runs when an enabled line fires is what this session attached      *)
(* last: on the line itself or, when that is the trampoline, on the        *)
(* trampoline's line, whichever of the two was attached or replaced first. *)
LinesServed ==
    \A n \in enabled :
        LET m == IF attached[n] = "trampoline" THEN TRAMPOLINE_LINE ELSE n
        IN  attached[m] # NoHandler => Called(n) = attached[m]

(* Code nobody attached, or code that never ends, takes over by one way    *)
(* only: the trampoline on an enabled line while its own line has no       *)
(* handler of this session, or has the trampoline itself.  No order of     *)
(* boot, attachments, replacements and resets leads an interrupt astray    *)
(* otherwise.                                                              *)
WildThroughTrampoline ==
    pc = "wild" =>
        \E n \in enabled : /\ attached[n] = "trampoline"
                          /\ attached[TRAMPOLINE_LINE] \in {NoHandler, "trampoline"}
=============================================================================
