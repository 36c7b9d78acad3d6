----------------------------- MODULE StreamOps ------------------------------
(***************************************************************************)
(* The two ways the firmware can run a token stream built by the parser:   *)
(* the threaded interpreter (src/src/kernel/exec.rs with the primitives of *)
(* src/src/compiler/primitives.rs) and the two-register code generator     *)
(* (src/src/compiler/native.rs).  Pure operators, one per primitive step,  *)
(* per emission step and per machine instruction.                          *)
(*                                                                         *)
(* A stream is a sequence of primitives, a literal carrying its inline     *)
(* word.  Expressions are folded by the parser, so the streams it builds   *)
(* contain lit, load_reg, write_reg and halt and no arithmetic primitive.  *)
(***************************************************************************)
EXTENDS Naturals, Sequences, FiniteSets, SequencesExt

CONSTANTS Values,           \* 32-bit words, addresses included
          ZERO,             \* the word 0
          Faulting,         \* addresses whose access raises a bus fault
          VM_STACK_SIZE,    \* depth of the threaded operand stack
          EXEC_CAPACITY     \* units of the target (halfwords, words) in EXEC_BUFFER

ASSUME FaultingAssumption == Faulting \subseteq Values /\ ZERO \in Values
ASSUME StackAssumption == VM_STACK_SIZE \in Nat /\ EXEC_CAPACITY \in Nat

-----------------------------------------------------------------------------
(* Streams.                                                                *)

Lit(v) == [op |-> "lit", arg |-> v]
LoadReg == [op |-> "load_reg", arg |-> ZERO]
WriteReg == [op |-> "write_reg", arg |-> ZERO]
Halt == [op |-> "halt", arg |-> ZERO]

Primitives == {Lit(v) : v \in Values} \cup {LoadReg, WriteReg, Halt}

PokeCode(a, v) == <<Lit(a), Lit(v), WriteReg>>
PeekCode(a) == <<Lit(a), LoadReg>>

(* A stream as the parser puts it together: pokes and peeks one after the  *)
(* other, then a halt, or a literal and a halt.  at[k] is how far          *)
(* primitive k has brought the statement it stands in.                     *)
Stages == {"whole", "address", "value", "end"}
Moves == {<<"whole", "lit", "address">>, <<"address", "load_reg", "whole">>,
          <<"address", "lit", "value">>, <<"value", "write_reg", "whole">>,
          <<"whole", "halt", "end">>, <<"address", "halt", "end">>}

Scan(code, at) ==
    /\ at \in [0 .. Len(code) -> Stages]
    /\ at[0] = "whole"
    /\ \A k \in DOMAIN code : <<at[k - 1], code[k].op, at[k]>> \in Moves

Parsed(code, place) == \E at \in [0 .. Len(code) -> Stages] : Scan(code, at) /\ at[Len(code)] = place

(* stream_len: a literal takes its opcode word and its inline word.        *)
WordCount(code) == Len(code) + Cardinality({i \in DOMAIN code : code[i].op = "lit"})

-----------------------------------------------------------------------------
(* The memory bus: a volatile access to a faulting address stops the core, *)
(* every other one is performed and remembered in order.  Nothing is       *)
(* mapped outside Values.                                                  *)

Faults(a) == a \in Faulting \/ a \notin Values

BusOn(mem) == [mem |-> mem, trace |-> <<>>, fault |-> FALSE]

BusRead(bus, a) ==
    IF Faults(a) THEN [bus EXCEPT !.fault = TRUE]
    ELSE [bus EXCEPT !.trace = Append(@, <<"read", a, bus.mem[a]>>)]

BusWrite(bus, a, v) ==
    IF Faults(a) THEN [bus EXCEPT !.fault = TRUE]
    ELSE [bus EXCEPT !.mem[a] = v, !.trace = Append(@, <<"write", a, v>>)]

(* The machine state s after one step: TLC evaluates s once, not once for  *)
(* every use the step makes of it.                                         *)
OneStep(Step(_), s) == CHOOSE t \in {Step(u) : u \in {s}} : TRUE

-----------------------------------------------------------------------------
(* The threaded interpreter.  `lost` remembers that vm_push dropped a      *)
(* value on a full stack or vm_pop answered 0 on an empty one.             *)

VmReset(mem) == [stack |-> <<>>, bus |-> BusOn(mem), lost |-> FALSE]

VmPush(vm, v) ==
    IF Len(vm.stack) >= VM_STACK_SIZE THEN [vm EXCEPT !.lost = TRUE]
    ELSE [vm EXCEPT !.stack = Append(@, v)]

VmTop(vm) == IF vm.stack = <<>> THEN ZERO ELSE Last(vm.stack)
VmPop(vm) ==
    IF vm.stack = <<>> THEN [vm EXCEPT !.lost = TRUE] ELSE [vm EXCEPT !.stack = Front(@)]

(* Mutant: the address stays on the stack under the loaded value.          *)
load_reg_keeps(vm) ==
    LET a == VmTop(vm)
        read == [vm EXCEPT !.bus = BusRead(@, a)]
    IN  IF read.bus.fault THEN read ELSE VmPush(read, vm.bus.mem[a])

load_reg_prim(vm) ==
    LET a == VmTop(vm)
        popped == [VmPop(vm) EXCEPT !.bus = BusRead(@, a)]
    IN  IF popped.bus.fault THEN popped ELSE VmPush(popped, vm.bus.mem[a])

write_reg_prim(vm) ==
    LET v == VmTop(vm)
        a == VmTop(VmPop(vm))
    IN  [VmPop(VmPop(vm)) EXCEPT !.bus = BusWrite(@, a, v)]

VmStep(vm, prim) ==
    IF vm.bus.fault THEN vm
    ELSE CASE prim.op = "lit"        -> VmPush(vm, prim.arg)
           [] prim.op = "load_reg"   -> load_reg_prim(vm)
           [] prim.op = "write_reg"  -> write_reg_prim(vm)
           [] prim.op = "halt"       -> vm

(* run_threaded_stream from a reset stack: the reference for both engines. *)
RunThreaded(code, mem) ==
    LET vm[k \in 0 .. Len(code)] ==
            IF k = 0 THEN VmReset(mem) ELSE OneStep(LAMBDA s : VmStep(s, code[k]), vm[k - 1])
    IN  vm[Len(code)]

-----------------------------------------------------------------------------
(* The code generator: accumulator and scratch register.                   *)

MovImm(reg, v) == [i |-> "mov", reg |-> reg, imm |-> v]
LdrAcc == [i |-> "ldr", reg |-> "acc", imm |-> ZERO]      \* acc := *scratch
StrScratch == [i |-> "str", reg |-> "scratch", imm |-> ZERO]  \* *acc := scratch
Ret == [i |-> "ret", reg |-> "none", imm |-> ZERO]

is_compilable(code) ==
    code # <<>> /\ \A k \in DOMAIN code : code[k] \in Primitives

NewEmitter == [code |-> <<>>, acc_loaded |-> FALSE, err |-> FALSE]

(* Mutant: push16/push32 without the capacity check.                       *)
EmitUnchecked(em, instr) == [em EXCEPT !.code = Append(@, instr)]

Emit(em, instr) ==
    IF Len(em.code) >= EXEC_CAPACITY THEN [em EXCEPT !.err = TRUE]
    ELSE [em EXCEPT !.code = Append(@, instr)]

(* Mutant: no look-ahead for the address of a load.                        *)
LitRegisterBlind(em, code, k) == IF em.acc_loaded THEN "scratch" ELSE "acc"

(* The literal right before a load or a write goes to the scratch          *)
(* register, another one to the accumulator unless that is loaded already. *)
LitRegister(em, code, k) ==
    LET addr_context == k < Len(code) /\ code[k + 1].op \in {"load_reg", "write_reg"}
    IN  IF addr_context \/ em.acc_loaded THEN "scratch" ELSE "acc"

(* The instruction primitive k of the stream is compiled to.               *)
Selected(em, code, k) ==
    CASE code[k].op = "lit"       -> MovImm(LitRegister(em, code, k), code[k].arg)
      [] code[k].op = "load_reg"  -> LdrAcc
      [] code[k].op = "write_reg" -> StrScratch

(* One turn of the emission loop, on primitive k of the stream.            *)
AccLoadedBy(em, instr) == [em EXCEPT !.acc_loaded = @ \/ instr.reg = "acc"]

EmitStep(em, code, k) ==
    IF em.err \/ code[k].op = "halt" THEN em
    ELSE LET instr == Selected(em, code, k) IN AccLoadedBy(Emit(em, instr), instr)

CompileNative(code) ==
    LET em[k \in 0 .. Len(code)] ==
            IF k = 0 THEN NewEmitter ELSE OneStep(LAMBDA s : EmitStep(s, code, k), em[k - 1])
    IN  Emit(em[Len(code)], Ret)

(* The machine: two registers and the bus.                                 *)
CpuOn(mem, acc, scratch) ==
    [acc |-> acc, scratch |-> scratch, bus |-> BusOn(mem), returned |-> FALSE]

CpuStep(cpu, instr) ==
    IF cpu.bus.fault \/ cpu.returned THEN cpu
    ELSE CASE instr.i = "mov" ->
                 IF instr.reg = "acc" THEN [cpu EXCEPT !.acc = instr.imm]
                 ELSE [cpu EXCEPT !.scratch = instr.imm]
           [] instr.i = "ldr" ->
                 LET bus == BusRead(cpu.bus, cpu.scratch)
                 IN  [cpu EXCEPT !.bus = bus,
                                 !.acc = IF bus.fault THEN @ ELSE bus.mem[cpu.scratch]]
           [] instr.i = "str" -> [cpu EXCEPT !.bus = BusWrite(@, cpu.acc, cpu.scratch)]
           [] instr.i = "ret" -> [cpu EXCEPT !.returned = TRUE]

RunNative(instrs, mem) ==
    LET cpu[k \in 0 .. Len(instrs)] ==
            IF k = 0 THEN CpuOn(mem, ZERO, ZERO) ELSE OneStep(LAMBDA s : CpuStep(s, instrs[k]), cpu[k - 1])
    IN  cpu[Len(instrs)]

(* StreamProgram::run: native code when the stream compiles, the threaded  *)
(* interpreter otherwise.  What a run leaves behind is its bus.            *)
RunProgram(code, mem) ==
    LET em == CompileNative(code)
    IN  IF is_compilable(code) /\ ~em.err
        THEN RunNative(em.code, mem).bus
        ELSE RunThreaded(code, mem).bus
=============================================================================
