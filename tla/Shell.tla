------------------------------- MODULE Shell --------------------------------
(***************************************************************************)
(* The REPL session: a line is compiled (src/src/compiler/parser.rs) and   *)
(* its outcome executed (src/src/drivers/repl.rs) against the memory, the  *)
(* capability registry and the audit log, through the enforced accesses of *)
(* src/src/kernel/memory.rs or through a compiled stream (StreamOps).      *)
(*                                                                         *)
(* A line is its syntax tree.  An expression is one term, which stands for *)
(* the value, the bus read or the error the whole expression comes to; the *)
(* "bad" term is any lexical, syntax or division error.  The symbol table  *)
(* is the bounded map SymbolTable.tla implements.                          *)
(***************************************************************************)
EXTENDS StreamOps

CONSTANTS
    Names,             \* identifiers of symbols and functions
    NoValue,           \* an unbound symbol
    Caps,              \* resources resolve_name knows, SUPERUSER among them
    SUPERUSER,
    NoCap,             \* addr_to_cap_id answers None
    CapOf,             \* addr_to_cap_id, as a function on addresses
    RamFlash,          \* addresses inside the RAM and flash ranges
    Lines,             \* lines the user may enter
    InitialMemory,     \* memory at power-on
    MAX_FNS, FN_BODY_WORDS, MAX_STREAM_WORDS, SYMBOL_SLOTS,
    AUDIT_SLOTS, COUNT_MAX,
    WORD_BITS,         \* bits of a word
    OverflowChecks,    \* dev profile: an oversized shift panics
    MaxEvents          \* bound on the audit events of one session

(* Terms, statements of a body and lines, as the parser builds them.       *)
Terms == [t : {"lit", "peek"}, v : Values] \cup [t : {"sym"}, n : Names] \cup [t : {"bad"}]

Statements ==
    [s : {"poke"}, addr : Terms, val : Terms, ended : BOOLEAN]
      \cup [s : {"peek"}, addr : Terms, ended : BOOLEAN]
      \cup [s : {"expr"}, expr : Terms, ended : BOOLEAN]
      \cup [s : {"call"}, name : Names, ended : BOOLEAN]

IsLine(l) ==
    \/ l.cmd \in {"cap_claim", "cap_drop", "sys_audit", "bad"}
    \/ l.cmd = "call" /\ l.name \in Names
    \/ l.cmd = "let" /\ l.name \in Names /\ l.expr \in Terms /\ l.ended \in BOOLEAN
    \/ l.cmd = "expr" /\ l.expr \in Terms /\ l.ended \in BOOLEAN
    \/ l.cmd = "peek" /\ l.addr \in Terms /\ l.ended \in BOOLEAN
    \/ l.cmd \in {"poke", "set_bit", "clr_bit"}
         /\ l.addr \in Terms /\ l.val \in Terms /\ l.ended \in BOOLEAN
    \/ l.cmd = "fn" /\ l.name \in Names /\ l.body \in Seq(Statements) /\ l.closed \in BOOLEAN

ASSUME LinesAssumption == \A l \in Lines : IsLine(l)
ASSUME CapsAssumption ==
    SUPERUSER \in Caps /\ NoCap \notin Caps /\ CapOf \in [Values -> Caps \cup {NoCap}]
ASSUME ShellAssumption ==
    /\ RamFlash \subseteq {a \in Values : CapOf[a] = NoCap}
    /\ InitialMemory \in [Values -> Values]
    /\ NoValue \notin Values
    /\ 0 \in Values /\ AUDIT_SLOTS \in Nat \ {0} /\ COUNT_MAX \in Nat /\ MaxEvents \in Nat
    /\ MAX_FNS \in Nat /\ FN_BODY_WORDS \in Nat /\ MAX_STREAM_WORDS \in Nat

VARIABLES
    phase,      \* state of the REPL loop, the fn-body loop, or "halted"
    line,       \* the line being evaluated
    stmt,       \* index of the next statement of the fn body
    stream,     \* the compiler's scratch stream
    granted,    \* history: for each primitive of stream, the address its
                \* statement was granted when it was compiled, if any
    pending,    \* the outcome handed from Evaluating to Printing
    binding,    \* symbols
    fns,        \* fn_names, fn_body_lens and fn_bodies, in slot order, each
                \* with the grants of its stream
    claimed,    \* REGISTRY_BITS
    mem,        \* memory and device registers
    audit, recorded,  \* the audit log and its history (AuditLog.tla)
    stored,     \* history: the writes enforced_poke_u32 has put on the bus
                \* under SUPERUSER since boot, in order
    trace,      \* bus accesses of the last step, in order
    before      \* history: the session state when the line was entered

session == <<binding, fns, claimed, mem, audit>>
vars == <<phase, line, stmt, stream, granted, pending, binding, fns, claimed, mem, audit,
          recorded, stored, trace, before>>

Log == INSTANCE AuditLog WITH Words <- Values

NoLine == [cmd |-> "none"]
Error(e) == [out |-> "error", err |-> e]
Nothing == [out |-> "nothing"]

-----------------------------------------------------------------------------
(* Capability checks.                                                      *)

is_superuser_active == SUPERUSER \in claimed

(* check_access, asked by the parser: fail-closed outside RAM and flash.   *)
check_access(a) ==
    \/ is_superuser_active
    \/ CapOf[a] # NoCap /\ CapOf[a] \in claimed
    \/ CapOf[a] = NoCap /\ a \in RamFlash

(* The gate of enforced_poke_u32 and enforced_peek_u32: what addr_to_cap_id *)
(* does not know is unrestricted.                                          *)
enforced_allows(a) ==
    is_superuser_active \/ CapOf[a] = NoCap \/ CapOf[a] \in claimed

-----------------------------------------------------------------------------
(* Terms.  A result is a value with the reads made to find it, an error,   *)
(* or a bus fault that stopped the core.                                   *)

Ok(v, reads) == [st |-> "ok", val |-> v, err |-> "none", reads |-> reads]
Err(e, reads) == [st |-> "error", val |-> 0, err |-> e, reads |-> reads]
Fault == [st |-> "fault", val |-> 0, err |-> "none", reads |-> <<>>]

(* Mutant: an unbound symbol is used as if it were bound.                  *)
EvalUnbound(t) ==
    CASE t.t = "lit" -> Ok(t.v, <<>>)
      [] t.t = "bad" -> Err("Syntax", <<>>)
      [] t.t = "sym" -> Ok(binding[t.n], <<>>)
      [] t.t = "peek" ->
            IF t.v \in Faulting THEN Fault
            ELSE Ok(mem[t.v], <<<<"read", t.v, mem[t.v]>>>>)

(* eval_expr / parse_atomic_term: `peek A` reads memory at compile time.   *)
Eval(t) ==
    CASE t.t = "lit" -> Ok(t.v, <<>>)
      [] t.t = "bad" -> Err("Syntax", <<>>)
      [] t.t = "sym" ->
            IF binding[t.n] = NoValue THEN Err("UnknownSymbol", <<>>)
            ELSE Ok(binding[t.n], <<>>)
      [] t.t = "peek" ->
            IF t.v \in Faulting THEN Fault
            ELSE Ok(mem[t.v], <<<<"read", t.v, mem[t.v]>>>>)

(* The second term is evaluated only when the first gave a value.          *)
Then(r, s) ==
    IF r.st # "ok" THEN r ELSE [s EXCEPT !.reads = r.reads \o @]

Semicolon(r, ended) ==
    IF r.st = "ok" /\ ~ended THEN Err("MissingSemicolon", r.reads) ELSE r

Check(r, a) ==
    IF r.st = "ok" /\ ~check_access(a) THEN Err("CapabilityViolation", r.reads) ELSE r

(* Mutants: the capability of the address is not checked.                  *)
AddressUnchecked(s) == Semicolon(Eval(s.addr), s.ended)
AddressAndValueUnchecked(s) == Semicolon(Then(Eval(s.addr), Eval(s.val)), s.ended)

(* A statement with an address term (and a value term): both terms, the    *)
(* semicolon, then the capability of the address.                          *)
AddressOnly(s) == Check(Semicolon(Eval(s.addr), s.ended), Eval(s.addr).val)
AddressAndValue(s) ==
    Check(Semicolon(Then(Eval(s.addr), Eval(s.val)), s.ended), Eval(s.addr).val)

-----------------------------------------------------------------------------
(* Steps of the REPL loop.                                                 *)

Init ==
    /\ phase = "reading"
    /\ line = NoLine
    /\ stmt = 1
    /\ stream = <<>>
    /\ granted = <<>>
    /\ pending = Nothing
    /\ binding = [n \in Names |-> NoValue]
    /\ fns = <<>>
    /\ claimed \in SUBSET Caps     \* NOLOAD: see Registry.tla
    /\ mem = InitialMemory
    /\ Log!AuditInit
    /\ stored = <<>>
    /\ trace = <<>>
    /\ before = <<>>

(* Reading: CR completes the line.                                         *)
EnterLine ==
    /\ phase = "reading"
    /\ Len(recorded) < MaxEvents
    /\ line' \in Lines
    /\ phase' = "evaluating"
    /\ before' = session
    /\ trace' = <<>>
    /\ UNCHANGED <<stmt, stream, granted, pending, binding, fns, claimed, mem, audit, recorded, stored>>

(* A bus fault or a panic parks the core until a reset.                    *)
Halted == phase' = "halted" /\ before' = <<>> /\ line' = NoLine /\ pending' = Nothing

(* The parser is done with the line: its outcome waits to be printed.      *)
Answer(outcome) ==
    /\ phase' = "printing"
    /\ pending' = outcome
    /\ UNCHANGED <<line, before>>

(* Errors and faults end every parser function alike; r is its verdict.    *)
FailWith(r) ==
    /\ IF r.st = "fault" THEN Halted ELSE Answer(Error(r.err))
    /\ trace' = r.reads
    /\ UNCHANGED <<stmt, stream, granted, binding, fns, claimed, mem, audit, recorded, stored>>

Bound == {n \in Names : binding[n] # NoValue}
HasRoom(n) == n \in Bound \/ Cardinality(Bound) < SYMBOL_SLOTS

(* Mutant: the symbol is inserted before the semicolon is expected.        *)
parse_let_early ==
    /\ phase = "evaluating" /\ line.cmd = "let"
    /\ LET r == Eval(line.expr)
       IN  IF r.st # "ok" THEN FailWith(r)
           ELSE IF ~HasRoom(line.name) THEN FailWith(Err("SymbolTableFull", r.reads))
           ELSE /\ binding' = [binding EXCEPT ![line.name] = r.val]
                /\ Answer(IF line.ended THEN [out |-> "bound", name |-> line.name, val |-> r.val]
                          ELSE Error("MissingSemicolon"))
                /\ trace' = r.reads
                /\ UNCHANGED <<stmt, stream, granted, fns, claimed, mem, audit, recorded, stored>>

parse_let ==
    /\ phase = "evaluating" /\ line.cmd = "let"
    /\ LET r == Semicolon(Eval(line.expr), line.ended)
       IN  IF r.st # "ok" THEN FailWith(r)
           ELSE IF ~HasRoom(line.name) THEN FailWith(Err("SymbolTableFull", r.reads))
           ELSE /\ binding' = [binding EXCEPT ![line.name] = r.val]
                /\ Answer([out |-> "bound", name |-> line.name, val |-> r.val])
                /\ trace' = r.reads
                /\ UNCHANGED <<stmt, stream, granted, fns, claimed, mem, audit, recorded, stored>>

(* fn NAME() {: the body is compiled statement by statement.               *)
parse_fn ==
    /\ phase = "evaluating" /\ line.cmd = "fn"
    /\ phase' = "body"
    /\ stream' = <<>>
    /\ granted' = <<>>
    /\ stmt' = 1
    /\ trace' = <<>>
    /\ UNCHANGED <<line, pending, binding, fns, claimed, mem, audit, recorded, stored, before>>

Defined(n) == \E i \in DOMAIN fns : fns[i].name = n
FnOf(n) == fns[CHOOSE i \in DOMAIN fns : fns[i].name = n]
BodyOf(n) == FnOf(n).body

(* What a statement of a body is compiled to.                              *)
StatementVerdict(s) ==
    CASE s.s = "poke" -> AddressAndValue(s)
      [] s.s = "peek" -> AddressOnly(s)
      [] s.s = "expr" -> Semicolon(Eval(s.expr), s.ended)
      [] s.s = "call" -> IF ~s.ended THEN Err("MissingSemicolon", <<>>)
                         ELSE IF Defined(s.name) THEN Ok(0, <<>>) ELSE Err("UnknownSymbol", <<>>)

StatementCode(s) ==
    CASE s.s = "poke" -> PokeCode(Eval(s.addr).val, Eval(s.val).val)
      [] s.s = "peek" -> PeekCode(Eval(s.addr).val)
      [] s.s = "expr" -> <<>>
      [] s.s = "call" -> BodyOf(s.name)      \* splice_call: no check here

(* What check_access grants a statement as it is compiled, on each of its  *)
(* primitives; a splice brings the grants its primitives were stored with. *)
StatementGrants(s) ==
    IF s.s = "call" THEN FnOf(s.name).granted
    ELSE [k \in DOMAIN StatementCode(s) |-> {a \in {Eval(s.addr).val} : check_access(a)}]

parse_body_stmt ==
    /\ phase = "body" /\ stmt <= Len(line.body)
    /\ LET s == line.body[stmt]
           r == StatementVerdict(s)
       IN  IF r.st # "ok" THEN FailWith(r)
           ELSE IF WordCount(stream \o StatementCode(s)) > MAX_STREAM_WORDS
           THEN FailWith(Err("StreamFull", r.reads))
           ELSE /\ stream' = stream \o StatementCode(s)
                /\ granted' = granted \o StatementGrants(s)
                /\ stmt' = stmt + 1
                /\ trace' = r.reads
                /\ UNCHANGED <<phase, line, pending, binding, fns, claimed, mem, audit,
                               recorded, stored, before>>

(* Mutant: alloc_fn_slot does not look for a live fn of the same name.     *)
FnErrorNoDuplicates ==
    IF ~line.closed THEN "UnexpectedToken"
    ELSE IF WordCount(stream) > FN_BODY_WORDS THEN "StreamFull"
    ELSE IF Len(fns) = MAX_FNS THEN "FnTableFull"
    ELSE "none"

(* The closing brace: length check, alloc_fn_slot, store.                  *)
FnError ==
    IF ~line.closed THEN "UnexpectedToken"
    ELSE IF WordCount(stream) > FN_BODY_WORDS THEN "StreamFull"
    ELSE IF Defined(line.name) THEN "DuplicateFn"
    ELSE IF Len(fns) = MAX_FNS THEN "FnTableFull"
    ELSE "none"

NewFn == [name |-> line.name, body |-> stream, granted |-> granted]

(* Mutant: the slot is filled before the definition is known to be good.   *)
EndFnEarly ==
    /\ phase = "body" /\ stmt > Len(line.body)
    /\ fns' = Append(fns, NewFn)
    /\ Answer(IF FnError # "none" THEN Error(FnError) ELSE [out |-> "fn", name |-> line.name])
    /\ trace' = <<>>
    /\ UNCHANGED <<stmt, stream, granted, binding, claimed, mem, audit, recorded, stored>>

(* Mutant: a redefinition takes the slot of the old function.              *)
EndFnReplaces ==
    /\ phase = "body" /\ stmt > Len(line.body)
    /\ IF FnError \notin {"none", "DuplicateFn"} THEN FailWith(Err(FnError, <<>>))
       ELSE /\ fns' = Append(SelectSeq(fns, LAMBDA fn : fn.name # line.name),
                             NewFn)
            /\ Answer([out |-> "fn", name |-> line.name])
            /\ trace' = <<>>
            /\ UNCHANGED <<stmt, stream, granted, binding, claimed, mem, audit, recorded, stored>>

EndFn ==
    /\ phase = "body" /\ stmt > Len(line.body)
    /\ IF FnError # "none" THEN FailWith(Err(FnError, <<>>))
       ELSE /\ fns' = Append(fns, NewFn)
            /\ Answer([out |-> "fn", name |-> line.name])
            /\ trace' = <<>>
            /\ UNCHANGED <<stmt, stream, granted, binding, claimed, mem, audit, recorded, stored>>

(* peek, poke, reg_set_bit and reg_clr_bit as commands.                    *)
CommandVerdict(l) ==
    IF l.cmd = "peek" THEN AddressOnly(l) ELSE AddressAndValue(l)

ParseAccess ==
    /\ phase = "evaluating" /\ line.cmd \in {"peek", "poke", "set_bit", "clr_bit"}
    /\ LET r == CommandVerdict(line)
           a == Eval(line.addr).val
       IN  IF r.st # "ok" THEN FailWith(r)
           ELSE /\ Answer([out |-> line.cmd, addr |-> a, val |-> r.val])
                /\ trace' = r.reads
                /\ UNCHANGED <<stmt, stream, granted, binding, fns, claimed, mem, audit,
                               recorded, stored>>

(* cap_claim NAME and cap_drop NAME; commands without arguments.           *)
ParseSimple ==
    /\ phase = "evaluating" /\ line.cmd \in {"cap_claim", "cap_drop", "sys_audit", "bad"}
    /\ IF line.cmd = "bad" THEN Answer(Error("Syntax"))
       ELSE Answer([out |-> line.cmd, name |-> line.name])
    /\ trace' = <<>>
    /\ UNCHANGED <<stmt, stream, granted, binding, fns, claimed, mem, audit, recorded, stored>>

(* NAME(): the stored body and a halt become the program.                  *)
build_call_program ==
    /\ phase = "evaluating" /\ line.cmd = "call"
    /\ IF ~Defined(line.name) THEN FailWith(Err("UnknownSymbol", <<>>))
       ELSE /\ stream' = Append(BodyOf(line.name), Halt)
            /\ Answer([out |-> "run", code |-> stream', yields_value |-> FALSE])
            /\ trace' = <<>>
            /\ UNCHANGED <<stmt, granted, binding, fns, claimed, mem, audit, recorded, stored>>

(* A bare expression: its value becomes a one-literal program.             *)
build_value_program ==
    /\ phase = "evaluating" /\ line.cmd = "expr"
    /\ LET r == Semicolon(Eval(line.expr), line.ended)
       IN  IF r.st # "ok" THEN FailWith(r)
           ELSE /\ stream' = <<Lit(r.val), Halt>>
                /\ Answer([out |-> "run", code |-> stream', yields_value |-> TRUE])
                /\ trace' = r.reads
                /\ UNCHANGED <<stmt, granted, binding, fns, claimed, mem, audit, recorded, stored>>

Evaluate ==
    \/ parse_let \/ parse_fn \/ parse_body_stmt \/ EndFn
    \/ ParseAccess \/ ParseSimple
    \/ build_call_program \/ build_value_program

-----------------------------------------------------------------------------
(* Printing: execute the outcome, then prompt.                             *)

(* Mutant: the loop stays in its Printing state.                           *)
PromptAgain == phase' = "printing" /\ line' = NoLine /\ pending' = Nothing /\ before' = <<>>

Prompt == phase' = "reading" /\ line' = NoLine /\ pending' = Nothing /\ before' = <<>>

(* Leave the printing state after the bus accesses of b.                   *)
After(b) ==
    /\ mem' = b.mem
    /\ trace' = b.trace
    /\ IF b.fault THEN Halted ELSE Prompt

(* The access is refused; what its argument read has been read.            *)
Refused(b) == After(b) /\ UNCHANGED <<audit, recorded, stored>>

(* A word has been put on the bus for enforced_poke_u32.                   *)
Stores(b, a, v) ==
    /\ After(BusWrite(b, a, v))
    /\ stored' = IF is_superuser_active THEN Append(stored, [addr |-> a, val |-> v]) ELSE stored

(* Mutant: the write comes first, and a record is made if it went through. *)
enforced_poke_then_log(b, a, v) ==
    IF ~enforced_allows(a) THEN Refused(b)
    ELSE /\ Stores(b, a, v)
         /\ IF is_superuser_active /\ ~Faults(a) THEN Log!record_event(a, v)
            ELSE UNCHANGED <<audit, recorded>>

(* enforced_poke_u32, on the bus b its argument was computed on, up to the *)
(* write: the capability, or SUPERUSER and the audit record.               *)
enforced_poke(b, a, v) ==
    IF ~enforced_allows(a) THEN Refused(b)
    ELSE /\ IF is_superuser_active THEN Log!record_event(a, v) ELSE UNCHANGED <<audit, recorded>>
         /\ phase' = "storing"
         /\ pending' = [out |-> "store", addr |-> a, val |-> v]
         /\ trace' = b.trace
         /\ UNCHANGED <<line, mem, stored, before>>

(* Its volatile write: a fault or a reset may come between record and it.  *)
StoreWord ==
    /\ phase = "storing"
    /\ Stores(BusOn(mem), pending.addr, pending.val)
    /\ UNCHANGED <<stmt, stream, granted, binding, fns, claimed, audit, recorded>>

enforced_peek(a) ==
    IF ~enforced_allows(a) THEN Refused(BusOn(mem))
    ELSE After(BusRead(BusOn(mem), a)) /\ UNCHANGED <<audit, recorded, stored>>

(* The word v with bit b set to on.                                        *)
BitIsSet(v, b) == (v \div 2^b) % 2 = 1
WithBit(v, b, on) ==
    CASE on /\ ~BitIsSet(v, b) -> v + 2^b
      [] ~on /\ BitIsSet(v, b) -> v - 2^b
      [] OTHER -> v

(* Setting or clearing a bit of a word yields a word.                      *)
ASSUME BitsAssumption == WORD_BITS \in Nat \ {0} /\ Values \subseteq Nat
ASSUME WordsAssumption ==
    \A v \in Values, b \in 0 .. WORD_BITS - 1, on \in BOOLEAN : WithBit(v, b, on) \in Values

(* 1u32 << bit: masked in release, a panic under overflow checks.  The     *)
(* register is read, unchecked, before enforced_poke_u32 is asked.         *)
modify_bit(a, bit, on) ==
    LET b == BusRead(BusOn(mem), a)
        v == WithBit(b.mem[a], bit % WORD_BITS, on)
    IN  IF b.fault THEN After(b) /\ UNCHANGED <<audit, recorded, stored>>
        ELSE IF bit >= WORD_BITS /\ OverflowChecks
        THEN Halted /\ trace' = b.trace /\ UNCHANGED <<mem, audit, recorded, stored>>
        ELSE enforced_poke(b, a, v)

ExecuteAccess ==
    /\ phase = "printing" /\ pending.out \in {"peek", "poke", "set_bit", "clr_bit"}
    /\ CASE pending.out = "peek" -> enforced_peek(pending.addr)
         [] pending.out = "poke" -> enforced_poke(BusOn(mem), pending.addr, pending.val)
         [] OTHER -> modify_bit(pending.addr, pending.val, pending.out = "set_bit")
    /\ UNCHANGED <<stmt, stream, granted, binding, fns, claimed>>

(* StreamProgram::run: no capability is asked for and nothing is recorded. *)
ExecuteProgram ==
    /\ phase = "printing" /\ pending.out = "run"
    /\ \E b \in {RunProgram(pending.code, mem)} : After(b)
    /\ UNCHANGED <<stmt, stream, granted, binding, fns, claimed, audit, recorded, stored>>

(* do_claim and do_drop; a name resolve_name does not know changes nothing. *)
ExecuteCap ==
    /\ phase = "printing" /\ pending.out \in {"cap_claim", "cap_drop"}
    /\ claimed' = IF pending.out = "cap_claim" THEN claimed \cup ({pending.name} \cap Caps)
                  ELSE claimed \ {pending.name}
    /\ Prompt
    /\ trace' = <<>>
    /\ UNCHANGED <<stmt, stream, granted, binding, fns, mem, audit, recorded, stored>>

(* Everything that only prints.                                            *)
PrintOnly ==
    /\ phase = "printing" /\ pending.out \in {"error", "bound", "fn", "sys_audit"}
    /\ Prompt
    /\ trace' = <<>>
    /\ UNCHANGED <<stmt, stream, granted, binding, fns, claimed, mem, audit, recorded, stored>>

Printing == ExecuteAccess \/ StoreWord \/ ExecuteProgram \/ ExecuteCap \/ PrintOnly

(* A reset zeroes .bss (compiler, audit log, line) and reboots; the        *)
(* registry and the rest of the memory keep what they hold.                *)
Reset ==
    /\ phase' = "reading"
    /\ line' = NoLine
    /\ stmt' = 1
    /\ stream' = <<>>
    /\ granted' = <<>>
    /\ pending' = Nothing
    /\ binding' = [n \in Names |-> NoValue]
    /\ fns' = <<>>
    /\ Log!AuditReset
    /\ stored' = <<>>
    /\ trace' = <<>>
    /\ before' = <<>>
    /\ UNCHANGED <<claimed, mem>>

-----------------------------------------------------------------------------
Next == EnterLine \/ Evaluate \/ Printing \/ Reset

(* The REPL loop never stops polling; the user need not type nor reset.    *)
Spec == Init /\ [][Next]_vars /\ WF_vars(Evaluate) /\ WF_vars(Printing)

-----------------------------------------------------------------------------
(* Properties.                                                             *)

(* Type invariant of a session.                                            *)
TypeOK ==
    /\ phase \in {"reading", "evaluating", "body", "printing", "storing", "halted"}
    /\ line \in Lines \cup {NoLine}
    /\ stmt \in Nat \ {0}
    /\ stream \in Seq(Primitives)
    /\ granted \in Seq(SUBSET Values)
    /\ binding \in [Names -> Values \cup {NoValue}]
    /\ fns \in Seq([name : Names, body : Seq(Primitives), granted : Seq(SUBSET Values)])
    /\ claimed \in SUBSET Caps
    /\ mem \in [Values -> Values]
    /\ Log!AuditTypeOK
    /\ stored \in Seq(Log!Entry)

(* The function table never holds more than its MAX_FNS slots of           *)
(* FN_BODY_WORDS words, no name twice, and no body that was cut off inside *)
(* a statement: a body always ends a load or a write.                      *)
FnTableSound ==
    /\ Len(fns) <= MAX_FNS
    /\ \A i, j \in DOMAIN fns : fns[i].name = fns[j].name => i = j
    /\ \A i \in DOMAIN fns :
          /\ WordCount(fns[i].body) <= FN_BODY_WORDS
          /\ fns[i].body # <<>> => Last(fns[i].body) \in {LoadReg, WriteReg}

(* A line that is answered with an error changed nothing of the session:   *)
(* symbols, functions, claims, memory and audit log are what they were     *)
(* when it was entered, however far its parsing (several statements of a   *)
(* body, compile-time reads) had got.                                      *)
ErrorsChangeNothing ==
    phase = "printing" /\ pending.out = "error" => session = before

(* "Reject redefinition of a live fn": a stored function keeps its slot    *)
(* and its body until the reset, whatever lines follow.                    *)
FnsKept == [][Reset \/ \A i \in DOMAIN fns : i \in DOMAIN fns' /\ fns'[i] = fns[i]]_vars

(* Definition-time enforcement: every address a stored body loads from or  *)
(* writes to was granted by check_access when the statement it stands in   *)
(* was compiled, or, in a spliced call, when the statement of the called   *)
(* function was, whatever has been claimed and dropped since.              *)
(* The address of a load or write is its statement's first literal.        *)
AddressLiterals(code) ==
    {k \in DOMAIN code : code[k].op = "lit" /\ code[k + 1].op \in {"load_reg", "lit"}}

AllGranted(code, grants) == \A k \in AddressLiterals(code) : code[k].arg \in grants[k]

StoredCodeAuthorised == \A i \in DOMAIN fns : AllGranted(fns[i].body, fns[i].granted)

(* The check of the parser and the check of the enforced access agree: an  *)
(* access that waits to be executed is still granted when it is executed,  *)
(* so the second refusal in memory.rs never contradicts the first.         *)
CheckStillValid ==
    (\/ phase = "printing" /\ pending.out \in {"peek", "poke", "set_bit", "clr_bit"}
     \/ phase = "storing") =>
        check_access(pending.addr) /\ enforced_allows(pending.addr)

(* The record comes before the write: under SUPERUSER the writes commands  *)
(* have put on the bus are in the log in order and with their values, the  *)
(* one about to be made included, so that a write that stops the core or   *)
(* is cut off by a reset has been recorded; nothing else ever is.          *)
LogLeadsWrites ==
    recorded = IF phase = "storing" /\ is_superuser_active
               THEN Append(stored, [addr |-> pending.addr, val |-> pending.val])
               ELSE stored

(* The log agrees with the history of the session: the ring holds the      *)
(* latest events, newest first from its head, zero entries where no event  *)
(* has been since the reset, and the count never wraps to a small number.  *)
LogIsHistory == Log!RingHoldsLatest /\ Log!CountSaturates

(* sys_audit prints every one of the latest events whose address is not 0, *)
(* and nothing else.                                                       *)
DumpIsRecent == Log!DumpIsRecent

(* No command reaches a peripheral register whose capability is free: what *)
(* a command reads or writes when executed was granted at that instant.    *)
CommandsGated ==
    [][pending.out # "run" /\ phase \in {"printing", "storing"} =>
          \A i \in DOMAIN trace' : check_access(trace'[i][2])]_vars

(* Every line is answered, and the REPL reads again or the core halts.     *)
LineAnswered == phase = "evaluating" ~> phase \in {"reading", "halted"}

-----------------------------------------------------------------------------
(* What documents and comments of the repository say and the code does     *)
(* not do.                                                                 *)

(* memory.rs: "enforced_* variants gate every MMIO access": also the reads *)
(* an expression makes while the line is compiled.                         *)
EveryReadGated ==
    [][phase = "evaluating" \/ phase = "body" =>
          \A i \in DOMAIN trace' : check_access(trace'[i][2])]_vars

InLog(access, events) ==
    \E k \in DOMAIN events : events[k] = [addr |-> access[2], val |-> access[3]]

(* memory.rs: "SuperUserCap bypasses all peripheral checks but every write *)
(* is logged to the audit ring buffer": also the writes of a function.     *)
EveryWriteLogged ==
    [][is_superuser_active =>
          \A i \in DOMAIN trace' : trace'[i][1] = "write" => InLog(trace'[i], recorded')]_vars
=============================================================================
