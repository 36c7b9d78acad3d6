# Holy Rust in TLA+

Holy Rust is a bare-metal REPL firmware (ARM Cortex-M4, RISC-V FE310): one Ring-0 loop reads a
line from the UART, compiles it in a single pass, and executes the outcome against memory and
device registers under a registry of hardware capabilities. This directory models the parts of
it that decide what such a session may do, checks them with TLC and proves the central
invariants and refinements with TLAPS. Paths below are relative to the repository.

## 1. Inventory

| Component | Source | State | Operations | What makes it correct |
|---|---|---|---|---|
| Capability registry | `src/capabilities/registry.rs` | `REGISTRY_BITS`, 8 atomic words in a NOLOAD section | `acquire`, `release`, `available`, `is_claimed`, `check_access` | one bit per call; the winner of a race is unique |
| Linear tokens | `src/capabilities/tokens.rs` | live `Cap<T>` values, `SUPERUSER_AUDIT_COUNT` | `claim`, `drop_cap`, `steal`, `grant_superuser`, pin leases | at most one live token per resource, its bit set while it lives |
| Audit log | `src/capabilities/audit.rs` | 16-entry ring, head, saturating count | `record_event`, `entries`, `total_audits` | holds the latest events, never loses count by wrapping |
| Enforced accesses | `src/kernel/memory.rs` | memory | `enforced_poke_u32`, `enforced_peek_u32`, raw `peek`/`poke`, `init_data_bss` | no access without its capability, superuser writes logged |
| Symbol table | `src/compiler/parser.rs` 595-637 | 32 slots, open addressing | `insert_symbol`, `lookup_symbol` | a map that refuses a new name only when full |
| Parser and function table | `src/compiler/parser.rs` | 2 function slots, scratch stream | `parse_let`, `parse_fn`, `parse_body_stmt`, `parse_command`, ... | a failed line changes nothing; stored bodies were checked |
| Threaded interpreter | `src/kernel/exec.rs`, `src/compiler/primitives.rs` | operand stack | `vm_push`, `vm_pop`, dispatch | never loses a value silently |
| Native code generator | `src/compiler/native.rs` | `EXEC_BUFFER`, `acc_loaded` | `compile_and_run` | does what the interpreter would do |
| Instruction encoders | `src/compiler/emitter.rs` | none | `emit_mov_imm`, `emit_store`, `emit_load`, `encode_*` | the processor decodes what the emitter is named for, for every immediate |
| Lexer | `src/compiler/lexer.rs` | cursor | `next_token`, `parse_identifier`, `parse_literal` | longest tokens, no literal wraps |
| Expressions | `src/compiler/parser.rs` (`eval_expr`, `parse_atomic_term`, `resolve_term`) | none | evaluation while parsing, with compile-time `peek` | the value and the reads the grammar says |
| REPL | `src/drivers/repl.rs` | loop state, line buffer, pending outcome | `run`, `feed`, `compile`, `execute`, `do_claim`, `do_drop`, `handle_audit` | the screen shows the line that is evaluated; every line is answered |
| UART | `src/drivers/uart.rs` | receive register, receive ring | `init`, `put_byte`, `poll_get_byte`, `irq_handler`, `ring_pop` | nothing a waiting typist sends is lost; no byte put is dropped where the driver waits (ARM); the ring is a FIFO |
| Vectors, faults | `src/kernel/interrupt.rs` | RAM vector table, VTOR, `irq_handlers` | `boot_relocate_vectors`, `attach_jit_irq`, `generic_irq_trampoline_ch16`, `fault_hang` | a fault parks the core; what a line runs is what was attached last |
| Boot, layout | `src/main.rs`, `memory-layout.x` | sections | `Reset`, `init_data_bss` | what a reset clears and keeps |

How they interact: the REPL calls the parser; the parser asks the registry (`check_access`) and
reads memory at compile time; the REPL executes an outcome through the enforced accesses, which
ask the registry again and write the audit log, or through a stream, which asks nobody. Tokens and
the REPL commands share only the registry bits. Interrupt handlers may run between any two
instructions: the registry's read-modify-writes are its atomic steps, and the receive interrupt
writes the ring between two accesses of `ring_pop`. The processor finds handlers through the
vector table, which boot copies and drivers write while exceptions may strike. The console loop
shares the receive register with whoever types.

The hard behaviours: contexts racing for a registry bit; bits that survive a reset that destroys
every token; capability checks made when a line is compiled and used when it is executed, or when
a function stored earlier is called; a definition that fails halfway; the register allocation of
the code generator across statements; immediates scattered over instruction fields and sign
extended by the processor; faults before, during and after the vector copy; bytes that arrive
while the loop is busy, and bytes put while the transmitter is; rings, tables, lines and stacks at
their limits. `PROJECT.json` lists each one at its line under `hazards`, with the properties that cover it.

## 2. Modules

| Module | Models | Remarks |
|---|---|---|
| `Ownership` | what the token API promises: free, owned by one context, or lost | abstract specification |
| `Registry` | bits, tokens and `cap_claim`/`cap_drop`, one step per atomic instruction | `TokenSpec`: drivers only; `SystemSpec`: drivers and REPL, used by two theorems |
| `RegistryProofs` | theorems about `Registry` | |
| `BoundedMap` | what the symbol table promises | abstract specification |
| `SymbolTable` | linear probing for an arbitrary hash function | |
| `SymbolTableProofs` | theorems about `SymbolTable` | |
| `Encodings` | the encoders of both targets bit by bit, and the processors' decoders | a word is the set of its 1 bits |
| `StreamOps` | token streams, the interpreter, the code generator and a processor that decodes `Encodings`, as pure operators | `RunProgram` is `StreamProgram::run` in one step |
| `StreamEngine` | the same run step by step: emission, fallback, machine instructions, primitives | |
| `StreamOpsProofs` | what runs of streams of any length yield; theorems about `Encodings`: every immediate, load and store arrives | |
| `StreamEngineProofs` | theorems about `StreamEngine` | extends `StreamOpsProofs` |
| `AuditLog` | the ring and its dump | instantiated by `Shell` |
| `Shell` | the session: lines are parsed and executed against symbols, functions, registry, memory and log | composes `StreamOps`, `AuditLog` and the bounded map |
| `Lexer` | the loops of the lexer, one iteration per step, and what a token is | |
| `Expressions` | the lexer's tokens evaluated as they are parsed, and what the grammar says | extends `Lexer` |
| `ExpressionsProofs` | theorems about `Lexer` and `Expressions` | |
| `Console` | the loop of `run()` byte by byte, receive register, transmitter, terminal, reset | |
| `BoundedFifo` | a queue that drops when full | abstract specification |
| `RxRing` | `irq_handler` and `ring_pop`, one step per shared access | |
| `Vectors` | boot copy, VTOR, attachment, dispatch, trampoline and faults, with the ring's interrupt dispatched through the table | extends `RxRing` |
| `VectorsProofs` | theorems about `RxRing` and `Vectors` | |
| `MC...` | the finite instances | |

Operators whose comment begins with "Mutant" are deliberate mistakes, one per plausible bug of
the definition after them; nothing in the specifications uses them.

### State and actions against the code

**Registry.** `bits[w]` is the set of 1-bits of word `w`. `live[c][r]` counts the `Cap` values a
context holds; moving and consuming a Rust value is what `Consume` does, so the model does not
assume that tokens are unique. `grant_superuser` is two steps (the claim and the `fetch_add`),
`do_drop` is two (the test and the release). `steal` carries its safety contract as a guard.
`Forget` is a token that goes out of scope (`Cap` has no `Drop`). `Init` lets every bit be
arbitrary and `Reset` keeps the bits, because the section is NOLOAD and `init_data_bss` only
touches `.data` and `.bss`.

**SymbolTable.** A slot is a record or `EMPTY_SYMBOL`; `StopsFirst(n, k)` says that the probing of
`n` ends after `k` steps, which is the loop's exit. The FNV hash is any function.

**Streams.** A literal and its inline word are one primitive; `WordCount` counts both. The
parser folds expressions, so streams hold only `lit`, `load_reg`, `write_reg` and `halt`. A bus
access to a faulting address stops the core. What `compile_and_run` emits is machine code: a
sequence of halfwords (ARM) or words (RISC-V) built by the operators of `Encodings`, which the
processor decodes again at its program counter. `EXEC_CAPACITY` counts these units. `Encodings`
has the encoders as the code writes them and the decoders as the architecture manuals do, so a
wrong shift shows as a wrong access (run `StreamRiscv`). The decoders are the external part of
the model, with the C `fn` call replaced by starting at unit 1.

**Shell.** One step per parser function that can fail on its own: `parse_fn`, each
`parse_body_stmt` and `EndFn` (the closing brace) are separate steps of one line, so that a reset
can fall between them and a failure leaves what it leaves. `FailWith` stands for every `?` on an
error: the scratch stream a failing statement half filled is not tracked, since each of its
readers resets it first. Printing steps execute the outcome. `trace` holds the bus accesses of the
last step; `granted`, `recorded`, `stored` and `before` are history variables that no outcome depends
on (`EnterLine` reads the length of `recorded` for its bound only). `granted` says of each primitive of
`stream` what `check_access` granted the statement it was compiled for, and goes into the function slot
with it. `enforced_poke` is the gate and the audit record; the volatile write behind it is a step of its
own (`StoreWord`, phase "storing"), so that a fault or a reset can come between the two.

**Console.** `Poll` is `poll_get_byte` answering a byte and the whole of `feed`; `PollEmpty` is
`None`. A step that prints leaves its bytes in `out` and its continuation in `after`, and
`put_byte` hands them to the transmitter one by one: on ARM it waits for TXE; on RISC-V it stores to
TXDATA at once, and a byte that finds the queue full is gone (`dropped`). `target` is the build.
`uart_init` enables the UART on ARM and does nothing on RISC-V, where it may be on or off. `Boot`,
`Drain`, `Drained` are `uart::init`, the banner and the start of `run()`. `Arrive` is the person
or the program at the other end; `Transmitted` shows a byte on the terminal, which interprets
backspace as moving the cursor; from the first dropped byte to the next reset only the prompt on it is
followed. `Evaluate` and `Printing` abstract `Shell`: an outcome with a
text, one without, or a fault.

**Ring and vectors.** `irq_handler` is one step (nothing preempts it); `ring_pop` is three, its
comparison, its load and its store. `Waiting`, `Slot` and `QueueOf` read a queue out of the
indices for the refinement of `BoundedFifo`. In `Vectors` the main program is `ring_pop`; a step
`TakeInterrupt(n)` fetches the handler through VTOR and runs it. Any handler may be attached to any
line, the trampoline on its own included, as `attach_jit_irq` allows: when the processor is led to a
word this session never attached, to code of an earlier session, or round in a circle, it runs wild
(`RunWild`), and only a reset ends that. `CopyWord` is one iteration of
`boot_relocate_vectors`. The table is in a NOLOAD section: `Init` fills it with junk, zeros or stale
handlers, and `Reset` keeps it.

**Lexer and expressions.** `Scan` is one turn of `next_token`; the three loops behind it
(`Identifier`, a literal's digits, the rest of a literal that has overflowed) are steps of their
own. The tokens are collected and `eval_expr`, `parse_atomic_term` and `resolve_term` are
operators over them with the names of the code. The cursor of the parser is a position k among the
tokens; since the three functions call each other for later positions only, they take the function
`term` of what `parse_atomic_term` finds at each position, and `Terms` is that function. A turn of
`eval_expr`'s loop is `Operate`. An outcome carries the reads that were made before it, errors
included, because a peek has happened when the parser meets the error behind it.
`IsRefToken`, `Tokenised` and `Meanings` say
independently what the longest tokens of a text and the readings of an expression are: the value of
a literal, which the loop accumulates from the left, is for `Numeral` the sum of digits times the
weights of their places, counted from the right; and the meanings of tokens i to j are the outcomes
of all the ways to divide them as the grammar allows, which knows no cursor and no loop.

## 3. Runs

| Run | Instance | Shows |
|---|---|---|
| RegistryTokens | 2 contexts; ids 0, 31, 32, 256 (both ends of word 0, the next word, out of range); at most 3 superuser grants | uniqueness of tokens, set bits for live ones, the audit counter never ahead, one bit per step, lost resources stay lost, refinement of `Ownership` |
| SymbolTable | 4 names, 2 values, 3 slots, three names that hash to the last slot | every stored name is reachable and unique; refinement of `BoundedMap` |
| StreamNative | words 0, 0x85A7, 0xC0019A3F and the faulting 0xFFFFFFFF; stack of 3, room for 9 units; all programs of one statement and up to two peeks; both targets, on RISC-V the words a single ADDI loads | decoded machine code and interpreter make the same accesses and answers; fallback on overflow is clean; every run ends |
| ShellFunctions | definitions, calls and claims; 2 function slots, bodies of 10 words | function table sound; errors change nothing; stored addresses were granted to the statements they stand in; stored functions stay; every line is answered |
| ShellAccess | access, binding and claim lines; 1 symbol slot, 2 audit slots, count saturating at 2, overflow checks on | the parse-time and the run-time check agree; log and dump are the history's end after wrap and saturation; superuser writes of commands are in the log before they are made; commands stay inside their capabilities |
| Console | both targets; lines of 2 bytes, a register of 1, a transmitter of 2, one reset; typist or paste | the screen shows exactly the line, on RISC-V while no byte has been dropped; a waiting typist loses nothing; a prompt comes back |
| Vectors | the shipped 16-word flash table, 2 lines, ring of 3 slots, 2 byte values | a fault parks, unless code nobody attached has taken over; what a line runs is what was attached last, on it or behind the trampoline; only the trampoline leads astray; ring refines `BoundedFifo` under dispatched interrupts |
| Expressions | words of 4 bits; all texts of at most 4 of 8 characters for the lexer, of at most 5 of 8 for the parser, and nine longer ones | longest tokens and no wrapped literal; values and reads are those of the grammar; the lexer ends |

Four further runs end in a violation: each states what a document or a comment says of the program
and the code does not do (section 6).

**Bounds.** `MaxGrants`, `MaxEvents` and `MaxResets` cap history counters. The tables are smaller
than the shipped ones (32 symbols, 32-word bodies, 64-deep stack, 16 audit entries, 256-byte ring,
1024-byte or 4096-byte `EXEC_BUFFER`) so that each is filled, overfilled and wrapped within a few
steps; every limit is a constant the definitions are parametric in. At the shipped sizes a
33-word program cannot overflow `EXEC_BUFFER` and the fallback is not taken; the model takes it to
show that it would be sound. The words of `StreamNative` are full 32-bit patterns that set bits in
every field of the scattered immediates and both sign positions; the words of `Shell` are 0..3,
each also an address: one RAM word, one register with a capability, one register without, one
faulting address. A line of two bytes is enough to overfill, rub out and kill a line, and a
reset in the middle of any of it is one reset; the six bytes of a `^U` on it overrun a transmitter
of two. The FE310's holds eight. A ring of three slots has its empty, partly filled, full and wrapped
states. With 4-bit words two digits overflow in the multiplication and in the addition, and a third
one follows the overflow. A fault is terminal on both targets: ARM faults reach `fault_hang` through
the relocated table (`FaultsPark`), RISC-V traps `_trap_hang` (`interrupt.rs` 180-219), and both are
"halted" or "parked" here. RAM that holds the interpreter's own statics is
excluded (a poke into the compiler can break anything; Ring 0 promises nothing there).

**Fairness.** `StreamEngine` and `Expressions` assume `WF_vars(Next)`: the processor goes on
executing. `Shell` assumes weak fairness of `Evaluate` and of `Printing`: the loop in `repl::run`
takes the next turn without waiting for anybody in those states. `Console` assumes weak fairness
of the loop and of the transmitter, which no software stops, and strong fairness of `Drained`: a
poll takes a few cycles and a byte at the console's baud rate thousands, so the drain meets an empty register. The
user may never type, so `EnterLine` and `Arrive` have no fairness, nor has a reset.

Deadlock checking is off in the stream runs and in `Expressions`, because a run, or a line, ends,
and in `Console`, because a parked core stops.

## 4. Proofs

All proofs are checked by TLAPS for every value of the constants. The assumptions are the
`ASSUME`s of the modules:

* `Registry`: resource ids are naturals and include the superuser's; the names of contexts differ
  from the two abstract states;
* `SymbolTable`: at least one slot, the hash is a function into the slots, the null value is
  neither a name nor a value;
* `RxRing`: at least one slot; the zero of `.bss` is a byte and "no byte" is not;
* `Vectors`: the flash table has a word for every exception slot, those the processor may
  take a fault through hold `fault_hang`, the trampoline's line exists, and `None` is no handler;
* `Console`: the line, the receive register and the transmitter hold at least one byte;
* `StreamOps`: faulting addresses and 0 are values, the stack size and the buffer's capacity are
  naturals;
* `StreamEngine`: values and whatever registers held are 32-bit words, memories map values to
  values, a program is for one of the two targets and its stream ends with its only halt;
* `Expressions`: memory maps words to words, identifiers are bound to words, `peek` is not a keyword;
* `Lexer`: a word holds at least the values of one digit; texts are sequences of characters, none of
  them the mark that stands for the end of the input; letters are no digits, punctuation or blanks.

`Encodings` needs none.

**Registry.**

* `SystemTypeCorrect`: `TypeOK` under tokens, REPL and resets together. Inductive by itself, with
  two facts about the bitfield: an id in range has its word and bit in range (`WordBitType`), and
  a read-modify-write yields words again (`FetchOrEffect`, `FetchAndEffect`).
* `TokensAreUnique` and `HeldResourcesAreClaimed`, for clients of the token API. Neither is
  inductive alone: that a claim cannot mint a second token needs the bit of the first to be set;
  that the bit stays set when another resource is released needs `WordBitInjective`
  (two ids with the same word and bit are the same id); that releasing a resource leaves no
  token behind needs uniqueness. The invariant is their conjunction with `TypeOK`, proved action
  by action in `StepExclusive`. It holds for arbitrary initial bits, since no token exists then.
* `StepsChangeOneBit`: an action property of `SystemSpec`. Every primitive touches the bits of
  one id at most, and `WordBitInjective` says no other id shares them.
* `AuditIsNeverAhead`: what it says of a context between the claim and the `fetch_add` (it holds
  the superuser token, and its grant is not counted yet) is not inductive alone. `AuditInv` adds
  that the counter never exceeds the grants and `Exclusive`: with one token there is one such
  context, so one context's `fetch_add` cannot use up another's uncounted grant.
* `LostResourcesStayLost`: a resource whose bit is set with no token gets one only through
  `steal`. Each minting action claims first, and a claim of a set bit fails (`MintHolds`,
  `ConsumeHolds` say what minting and consuming leave alone).
* `TokensRefineOwnership`: the refinement mapping calls a resource free when its bit is clear,
  owned by the context whose token lives, lost otherwise. `Exclusive` makes the mapping a
  function (`OwnersAreHolders`); each action maps to an abstract one or to a stutter.

**Symbol table.** `TypeCorrect`, `StoredSymbolsReachable`, `NamesUnique`. Reachability is
preserved because a write fills the first slot where a probing stops, so a hole in the chain
of another name can only disappear; uniqueness follows from reachability: two slots with the
same name would both be the first stop of the same probing. `TableRefinesMap` maps the table to
the map of what `lookup_symbol` answers. A name is bound exactly when some slot holds it
(`BoundIs`), and since no two slots hold the same name, there are as many bound names as used
slots (`BoundCount`); a probing that went through the whole table has found them all used, which
is when the map is full and refuses too. An accepted write binds its name and no other
(`WriteBinds`).

**Encodings.** `ThumbImmediatesArrive`: whatever 32-bit immediate and register,
the code of `emit_mov_imm` is decoded, unit by unit, as moves that leave the immediate in that register. The proof
splits on the three forms and, for the wide moves, shows that the four fields of the immediate
are put and taken at the same places. `RiscvShortImmediatesArrive`: the same for constants one ADDI
loads, the sign extension included. For the others the statement is false (run `StreamRiscv`).
`ThumbAccessesArrive` and `RiscvAccessesArrive`: so are the registers and the offset of each load and
store, on ARM for every offset the encoder accepts, on RISC-V for those from -2048 to 2047; the
encoders accept some more, which 12 bits cannot hold (section 6).

**Ring and vectors.** The inductive invariant of the ring is `RingInv`: `RingTypeOK` and
`ConsumerOwnsTail`. `RingIsFifo` rests on two facts about the queue the indices stand for:
storing at the head appends (`PutIsAppend`), which needs that the ring is not full, and advancing
the tail drops the first byte (`TakeIsTail`), which needs that it is not empty; both avoid `%` by
splitting at the wrap. The steps of `Vectors` are steps of the ring or leave it
alone (`StepsOfRing`), so what is proved of the ring holds under dispatched interrupts
(`DispatchedRingIsFifo`, `DispatchLeavesConsumer`). Its own invariant `TableInv` says that the
words copied so far are those of flash, that VTOR moves only when all are (`CopySound`), and that the
entry of a line holds the handler attached to it (`AttachedSound`). It needs that entries of lines lie
behind all exceptions and differ from each other (`EntryIsOfLine`). `FaultsAlwaysPark`,
`LinesAreServed`, `WildIsExplained` and, with the ring's invariant, `VectorsTypeCorrect` follow.

**Streams.** What a run of the interpreter, of the emission and of the machine code yields is
defined by recursive functions over positions, and `StreamOpsProofs` says what they yield for
streams of any length (`ThreadedRun`, `EmissionRun`, `NativeRun`, `RunProgramType`): states of
the right shape, memory and accesses included. The library's induction theorems take an operator
as a parameter, which the backends cannot instantiate; the induction is done with the least
element of a set of naturals instead (`LeastMember`): the first position where a run is not what it should be
has a predecessor where it is (`RunStays`, `RunExists`).

`StreamEngineProofs` is about a run step by step, on either target. Its invariant `StreamInv` says
what holds in each phase.

* While code is emitted, the primitives before `ip` are laid out in `EXEC_BUFFER` one behind the
  other (`Layout`): instruction j begins at `starts[j]`, is one primitive j may be compiled to
  (`Compiled`), and its units are those of `Machine`. Emission keeps it or gives up
  (`CompileGrows`); a unit already emitted is never overwritten (`EmitMachineSound`).
* While code is executed, `ip` is some units into one of these instructions (`At`), at a place where
  the processor decodes what was encoded (`Places`; on ARM a decoding may look at the following
  halfword, `ThumbDecodeLocal`), and after a step at the next such place: the last instruction is the
  return, so the processor never leaves the buffer. That gives `OneEngine`, for every stream.
* For a stream that suits the code generator (`Suits`), bus and registers moreover follow the
  interpreter's run of the same stream (`Follows`): the bus is the interpreter's before primitive j,
  the scratch register holds the address or value the primitive will use and the accumulator what
  lies under it (`Ready`), and between MOVW and MOVT the lower half of the constant is in place
  (`Midway`). `StepKeepsUp` is one machine instruction. A return or a fault then finds the
  interpreter's last state, which gives `EnginesAlwaysAgree`.
* In the interpreter's phase the stack machine is where `RunThreaded` is, and its depth is
  that of the stream (`RunDepth`): nothing is lost when each literal finds a free slot and each other
  primitive its operands (`StackFits`). The streams the parser builds do so: `Parsed` says how their
  primitives follow each other, a literal costs two words and leaves one value, so that the depth never
  exceeds half the words (`ParsedFits`). `StackKeepsAll` is about every such stream whose words are at
  most twice the stack's slots, and `ProgramsFitStack` (in `ShellProofs`) says that a session runs no
  others, as long as a function body has fewer words than that: 32 as shipped, for a stack of 64.

`Suits` is about the stream alone: it fits the stack (`StackFits`), a load comes right behind
the literal that is its address, a write is the third primitive and comes behind two literals, a program that yields a value is one literal, and
on RISC-V each literal is one ADDI loads (`RegistersSuffice`). Every program of the run
`StreamNative` is of this form, a statement followed by any number of peeks. Without the clause on
writes the theorem is false (run `StreamTwoStatements`), without the one on ADDI as well (run `StreamRiscv`).
`StreamTypes` takes every 32-bit word for a value, as the code does; the instances of the runs
have four.

**Session.** Four layers of invariant, each using the one before:

* `CoreInv`: types, the ring of the log against the history (`LogInv`: the event of age k is the
  k-th last of the history, the count saturates), the shape of the line being parsed and, for the
  command about to be executed, that its address passed its check (`PendingShape`, and `StoringShape`
  between the record and the write). It gives
  `SessionTypeCorrect`, `LogFollowsHistory`, `DumpShowsRecent` and `ChecksAgree`: since only
  `cap_drop` takes a bit away and it is a line of its own, the check at run time answers as the
  one at parse time.
* `ErrorInv`: until a line's outcome is known, the session is what it was before the line.
  `ErrorsKeepSession` follows from it; without it an error in the third statement of a function
  body would have to be undone.
* `FnInv`: `FnTableSound`, and all stored bodies and the stream of the body being compiled consist of
  whole statements, which is what `Parsed` says of them. `TableStaysSound`, the action property
  `FunctionsStay`, and `ProgramsFitStack`, since a halt behind whole statements makes a program.
* `AuthInv`: in the stream being compiled and in all stored bodies, each address is among the grants of
  the statement it stands in. It needs `FnInv`: which words of a code are addresses depends on
  what follows them, so the addresses of two joined bodies are those of each, at their places, only if
  the first one ends whole (`GrantedConcat`). `StoredCodeWasGranted` follows.

`CommandsStayGated` is an action property: before its store a command has read at most the register of
its argument (`AccessTrace`), and the store is to the address that passed the check (`StoreTrace`).
`CommandWritesLogged` is inductive as it stands: between a record and its store the log is one event
ahead, and otherwise the log and the history of stores agree; a reset empties both.

**Lexer.** `LexerInv` says what the lexer has learned at every turn of every loop: the text before
the token being read is cut up rightly (`Tokenised(start)`), the characters read since are of its
kind (`RunSoFar`), and the value is that of the digits read; after an overflow those, or
those and the digit still under the cursor, come to more than a word (`ValueSoFar`). One more digit
multiplies the numeral by the base and adds the digit, one more underscore leaves it alone
(`NumeralStep`); this relates the loop's way of accumulating to the sum over places by an induction
that shifts every weight by one place. A numeral never shrinks when it goes on, which is why the
rest of an overflowing literal need not be looked at. A token ends where its kind does, so that it
is the longest (`TokenProduced`). `LexerTokens` and `LexerTypes` follow. `TokensAreUnique` says that
`TokensAreRight` leaves the lexer no choice: two sequences of tokens of one text that satisfy it are equal.

**Expressions.** First, that the model's recursion ends and says what it seems to say. What a term is
depends on terms behind it alone (`OperateLocal`, `ExpressionLocal`, `TermLocal`) and a value takes at
least one token (`Forward`), so a function that satisfies the parser's equations from a position on
extends to the position before (`TermsExist`); `ParserEnds` is the result. The turns of the loop are
a chain (`TurnsExist`) that stays where it is once no operator follows (`LoopEnds`).
In the same way the meanings of longer stretches of tokens exist because they are made of shorter
ones (`MeaningsExist`). `ValueCorrect` then has two halves.

* Whatever tokens i to j mean, the parser finds that at token i (`MeaningIsFound`): a term as it is,
  an expression as one of the loop's turns, for the loop may go on behind it. Induction on the length
  of the stretch; an operation whose right operand is the term behind the operator is the next turn
  (`ExpressionIsFound`), and a closing parenthesis stops the loop (`TermIsFound`).
* Whatever value the parser finds from token i to j is a meaning of these tokens, none of which is a
  semicolon (`FoundIsMeaning`). Induction on i from the end of the line.

The semicolon or the end behind the statement stops the loop. By the first half the line's value is
each meaning it has, so that it has one at most; by the second a line without a meaning is an error
(`ValueMeans`). The invariant of `Spec` joins this to the lexer's: what is in `result` is `Value` of
the tokens, which are a list of the lexer's tokens (`TokensAreList`). `ExpressionTypes`,
`ExpressionTokens` and `ValueCorrect` follow.

**Console.** `ScreenIsLine` speaks of the loop between two bytes; in the middle of an echo or a
rub-out the screen shows neither the old nor the new line. `LineInv` relates them at every step.
`Settled` is the screen once the transmitter is empty; `Synced` says it shows the line and blanks
behind it; `PendingInv` says, of the bytes still in `out`, how far the screen is from that: an echo
one character behind (`Echoing`), a `^H` or `^U` somewhere within one of its triples of backspace,
space and backspace (`Rubbing`). `RubByte`, `EchoByte` and `RuboutTail` are the steps between them.
The transmitter may hold any number of bytes: what the screen will be is their rows one after the other
(`RowsExist`, `ShowsFirst`, `ShowsOneMore`). All this holds until a byte is dropped, and on ARM
none is, which is the wait of `put_byte` (part of `BootInv`). `BootInv` also says that nothing typed before
the first prompt is still on its way. `ConsoleTypeCorrect`, `ScreenShowsLine` and
`WaitingTypistLosesNothing` follow, for lines and transmitters of any length.

TLC checks each of these invariants and refinements on the instances above as well (the ones of
`SystemSpec` for the clients of the token API only); of the immediates, the streams' runs decode
the four words of the instance. The strengthened invariants were TLC invariants before they were
proved, except `StreamInv`, which says that a layout exists and does not compute one.

**Only model-checked:** liveness (`RunEnds`, `LineAnswered`, `PromptComesBack`, `LineEvaluated`), which
is out of the prover's reach. `ParserEnds` is the part of `LineEvaluated` that is about data: the
parser's recursion is well founded.

## 5. What is abstracted or left out

* In `Shell` an expression is one term: a literal, a symbol, a `peek`, or an error; what an
  expression with operators, parentheses and several reads comes to is `Expressions`. The "bad"
  line is every line rejected without side effects; an empty line does as little as a line that
  only prints. Time stamps, `help` and the wording of texts are left out.
* In `Console` a text (banner, answer, prompt, `^C`, line end) is one byte of output, so on RISC-V
  longer answers drop more than the model shows. Once a byte has been dropped, what the row shows is
  not followed any more until the next reset.
* In `Vectors` code that runs wild does nothing but what its end, a reset, finds of the table.
* In `Lexer` white space is one character, lower-case hex digits and the line counter (which
  nobody reads) are left out.
* `Encodings` has the encoders the code generator reaches. The arithmetic ones are reached only
  from primitives the parser never emits; the `BadRegister` checks cannot fail, since registers are 0/1
  on ARM and 10/11 on RISC-V.
* The processor of `StreamOps` sees every store to `EXEC_BUFFER` at once: no cache, no prefetch.
* `PinGuard` leases borrow the token mutably, so that two of one port cannot exist, and no
  code creates one; `reg_set_bit`, `reg_clr_bit`, `execute_sram_buffer` and
  `configure_riscv_interrupts` are called by nobody. The RISC-V vectors are one `mtvec` write.
* The `.data` copy and the stack set-up run before the first Rust statement; resets are modelled by
  what they leave in each static.
* In `Shell` the REPL is the only registry client, as in the shipped firmware, and `do_drop` is
  one step; `Registry` has the two-step version and the other clients.
* The native registers start at 0 in `RunProgram`; in `StreamEngine` at any value.
* Number formatting (`write_hex_u32`, `write_dec_u32`), the `hros-hal` traits (interfaces without an
  implementation that keeps state) and the build scripts are not modelled.

## 6. Disagreements between code and prose

Each of these is a run in which TLC violates exactly the statement quoted.

| Run | Statement | Code |
|---|---|---|
| StreamTwoStatements | `parser.rs` 93: the run falls back to the interpreter for streams beyond the two-register compiler | `acc_loaded` is set by the load of a peek and never cleared: in `peek A; poke B V;` the address B goes to the scratch register, V overwrites it, and the store is to the word read from A |
| StreamRiscv | `emitter.rs` 341: LUI/ADDI pairing with rounding, so that the sign extension cancels exactly | `encode_lui` shifts the upper immediate to bit 20 instead of bit 12: a constant of more than 12 bits does not arrive |
| ShellCompileReads | `memory.rs` 7: every MMIO access is gated | `peek` in an expression reads raw at compile time |
| ShellSuperCalls | `memory.rs` 10: every superuser write is logged | stream writes are not |

Noticed while modelling, visible in the definitions, without a run of their own:

* `cap_claim SUPERUSER` (`do_claim`) does not touch `SUPERUSER_AUDIT_COUNT`, which `tokens.rs` 103
  says increments on every grant.
* A spliced body is not checked again (`StatementCode`, the "call" case), though Cookbook ch. 3
  says no illegal code can be stashed in a function.
* A second `let` of a name replaces its value (`Write`), though Books ch. 7 says bindings cannot be
  reassigned.
* `check_access` refuses unmapped addresses, which its own comment (`registry.rs` 88) calls
  unrestricted; `enforced_allows` lets them through.
* Boot does not clear the registry: its section is NOLOAD (`memory-layout.x` 62), though Cookbook
  ch. 9 (line 259) says all bits are zero after it. `Init` and `Reset` of `Registry` show it.
* `cap_drop` (`repl.rs` 268) frees the bit of a live token, after which it can be claimed again;
  CHAPTER_02 (line 55) says a capability can exist only once. `do_drop` in `Registry` shows it,
  and the uniqueness theorems are stated for the token API alone.
* `exec.rs` 166 asks for `flush_instruction_cache` before generated code runs, and Books ch. 4
  says it is done; `compile_and_run` does not call it.
* Cookbook ch. 8 (246-254) says pasted lines are buffered by the ring; `run()` polls the receive
  register and never calls `ring_pop`, so that a paste overruns it (`lost` in `Console`).
* `^U` rubs out the line and does not print the prompt again, though Books ch. 7 (line 152) says so.
* Text after the first `;` of a `let` is ignored (`expect_semicolon`).
* `audit.rs` 3 says every raw memory operation under SUPERUSER is recorded with its address and value;
  reads are not, neither those of `enforced_peek_u32` (`memory.rs` 111 says why) nor the raw read
  before a bit is set or cleared. `LogLeadsWrites` is about writes: it says nothing else is recorded.
* `uart.rs` 71 says `put_byte` blocks until the transmitter has room; its RISC-V branch stores without
  looking at the full flag, so that a `^U` on a line of three bytes already overruns a queue of
  eight (`dropped` in `Console`). The comment in the branch says that real silicon would have to poll.
* `interrupt.rs` 258 says a handler in the table is `None` or was attached. The table is in a NOLOAD
  section and its initialiser `None` is never stored: the trampoline on another line calls what entry
  16 happens to hold until something is attached there (`RunWild`).
* `interrupt.rs` 242 says the trampoline is called when line 16 fires and calls what is registered in
  slot 16. Both are the same word: attached there, it calls itself without end (`RunWild`).
* The range test of `encode_sw` and `encode_lw` accepts 0xFFFFF000 to 0xFFFFF7FF, which 12 bits
  cannot hold; `encode_sdiv` builds 0xF010 where SDIV is 0xF0F0; `emit_mul` clobbers its second
  operand when that is the destination. No reachable code uses them so.
* `uart::init` does not enable the RISC-V transmitter and receiver (`uart_init`); under QEMU they always run.

## 7. Plan

Done: capability engine, symbol table, audit log, stream engines with decoded machine code,
session, lexer and expressions, console, receive ring, vectors; every invariant, action property
and refinement that a passing run checks is a theorem.

Next modules, if the code grows into them: an `EXEC_BUFFER` with a fence and a handler attached into it;
two pin leases and the shared DIR read-modify-write, once something creates leases.
