---------------------------- MODULE StreamEngine ----------------------------
(***************************************************************************)
(* StreamProgram::run as a process: compile the stream into EXEC_BUFFER,   *)
(* encoded for the target, and execute what the processor decodes; when    *)
(* the code generator gives up, dispatch the threaded primitives instead.  *)
(* Words are sets of bits (Encodings); EXEC_CAPACITY counts the units the  *)
(* target emits, halfwords or words.                                       *)
(***************************************************************************)
EXTENDS StreamOps, Encodings

CONSTANTS Sessions,   \* what may be run where: [target, code, yields_value]
          Memories,   \* the memories a run may start from
          Garbage     \* what the registers may hold before

(* Words have 32 bits, and the parser ends every stream with its one halt. *)
ASSUME EngineAssumption ==
    /\ Values \subseteq Word /\ Garbage \subseteq Word
    /\ Memories \subseteq [Values -> Values]
    /\ \A s \in Sessions :
          /\ s.target \in {"arm", "riscv"} /\ s.yields_value \in BOOLEAN
          /\ s.code \in Seq(Primitives) /\ s.code # <<>>
          /\ \A k \in DOMAIN s.code : s.code[k].op = "halt" <=> k = Len(s.code)

VARIABLES
    program,  \* the StreamProgram and its target
    mem0,     \* memory when run() was called
    phase,    \* where run() is
    ip,       \* index of the next primitive or unit of machine code
    em,       \* emitter: EXEC_BUFFER contents and acc_loaded
    cpu,      \* registers and bus of the machine-code run
    vm,       \* operand stack and bus of the threaded run
    answer    \* Some(value) as <<value>>, None as <<>>

vars == <<program, mem0, phase, ip, em, cpu, vm, answer>>

Phases == {"reset", "emit", "native", "threaded", "done", "fault"}

-----------------------------------------------------------------------------
(* Registers: r0 and r1 on ARM, a0 and a1 on RISC-V.                       *)

RegNumber(target) ==
    IF target = "arm" THEN [acc |-> {}, scratch |-> {0}] ELSE [acc |-> {1, 3}, scratch |-> {0, 1, 3}]

HasName(n) == \E r \in {"acc", "scratch"} : RegNumber(program.target)[r] = n
RegName(n) == CHOOSE r \in {"acc", "scratch"} : RegNumber(program.target)[r] = n

(* The machine code an instruction of the two-register machine stands for. *)
Machine(target, instr) ==
    LET acc == RegNumber(target)["acc"]
        scratch == RegNumber(target)["scratch"]
        reg == RegNumber(target)[instr.reg]
    IN  IF target = "arm"
        THEN CASE instr.i = "mov" -> thumb_mov_imm(reg, instr.imm)
               [] instr.i = "ldr" -> encode_ldr_imm(acc, scratch, {})
               [] instr.i = "str" -> encode_str_imm(scratch, acc, {})
               [] instr.i = "ret" -> <<BX_LR>>
        ELSE CASE instr.i = "mov" -> riscv_mov_imm(reg, instr.imm)
               [] instr.i = "ldr" -> encode_lw(acc, scratch, {})
               [] instr.i = "str" -> encode_sw(scratch, acc, {})
               [] instr.i = "ret" -> <<RV32_RET>>

(* push16 / push32 one by one, up to the first that does not fit.          *)
EmitMachine(e, instr) ==
    LET units == Machine(program.target, instr)
        after[k \in 0 .. Len(units)] == IF k = 0 THEN e ELSE Emit(after[k - 1], units[k])
    IN  after[Len(units)]

(* x0 reads as 0 on RISC-V.                                                *)
Operand(c, n) == IF program.target = "riscv" /\ n = {} THEN {} ELSE c.regs[RegName(n)]

Undecodable(d) ==
    \/ d.i = "undefined"
    \/ d.i # "ret" /\ ~HasName(d.rd)
    \/ d.i \in {"load", "store", "addi"} /\ ~HasName(d.rs) /\ (program.target = "arm" \/ d.rs # {})

(* One decoded instruction; the offset of an access is its immediate.      *)
Execute(c, d) ==
    LET addr == Add(Operand(c, d.rs), d.imm)
        old == Operand(c, d.rd)
        set(v) == [c EXCEPT !.regs[RegName(d.rd)] = v]
        read == [c EXCEPT !.bus = BusRead(@, addr)]
    IN  CASE Undecodable(d)  -> [c EXCEPT !.bus.fault = TRUE]
          [] ~Undecodable(d) ->
             CASE d.i = "mov"   -> set(d.imm)
               [] d.i = "movt"  -> set((old \cap (0 .. 15)) \cup Shl(d.imm, 16))
               [] d.i = "addi"  -> set(addr)
               [] d.i = "load"  -> IF read.bus.fault THEN read
                                   ELSE [read EXCEPT !.regs[RegName(d.rd)] = c.bus.mem[addr]]
               [] d.i = "store" -> [c EXCEPT !.bus = BusWrite(@, addr, old)]
               [] d.i = "ret"   -> [c EXCEPT !.returned = TRUE]

Fetched == IF program.target = "arm" THEN ThumbDecode(em.code, ip) ELSE RiscvDecode(em.code[ip])

-----------------------------------------------------------------------------
(* The registers hold whatever the caller left in them.                    *)
Init ==
    /\ program \in Sessions
    /\ mem0 \in Memories
    /\ phase = "reset"
    /\ ip = 1
    /\ em = NewEmitter
    /\ \E r \in Garbage :
          cpu = [regs |-> [acc |-> r, scratch |-> r], bus |-> BusOn(mem0), returned |-> FALSE]
    /\ vm = VmReset(mem0)
    /\ answer = <<>>

(* vm_reset and the is_compilable scan.                                    *)
Start ==
    /\ phase = "reset"
    /\ vm' = VmReset(mem0)
    /\ phase' = IF is_compilable(program.code) THEN "emit" ELSE "threaded"
    /\ UNCHANGED <<program, mem0, ip, em, cpu, answer>>

EmitEnds == ip > Len(program.code) \/ program.code[ip].op = "halt"

(* Mutant: no return instruction after the last primitive.                 *)
EmitNextNoRet ==
    LET instr == Selected(em, program.code, ip)
    IN  IF EmitEnds THEN em ELSE AccLoadedBy(EmitMachine(em, instr), instr)

(* One turn of the emission loop, or the final return instruction.         *)
EmitNext ==
    LET instr == IF EmitEnds THEN Ret ELSE Selected(em, program.code, ip)
    IN  AccLoadedBy(EmitMachine(em, instr), instr)

Compile ==
    /\ phase = "emit"
    /\ em' = EmitNext
    /\ phase' = CASE em'.err -> "threaded" [] EmitEnds /\ ~em'.err -> "native" [] OTHER -> "emit"
    /\ ip' = IF phase' = "emit" THEN ip + 1 ELSE 1
    /\ UNCHANGED <<program, mem0, cpu, vm, answer>>

(* One machine instruction.                                                *)
ExecuteNative ==
    /\ phase = "native"
    /\ cpu' = Execute(cpu, Fetched)
    /\ ip' = ip + Fetched.len
    /\ phase' = CASE cpu'.bus.fault -> "fault" [] cpu'.returned -> "done" [] OTHER -> "native"
    /\ answer' = IF cpu'.returned /\ program.yields_value THEN <<cpu'.regs["acc"]>> ELSE answer
    /\ UNCHANGED <<program, mem0, em, vm>>

(* Mutant: the dispatch loop drops the ip its primitive answers.           *)
DispatchInPlace ==
    /\ phase = "threaded"
    /\ vm' = VmStep(vm, program.code[ip])
    /\ phase' = CASE vm'.bus.fault -> "fault"
                  [] program.code[ip].op = "halt" -> "done"
                  [] OTHER -> "threaded"
    /\ UNCHANGED <<program, mem0, ip, em, cpu, answer>>

(* One threaded primitive.                                                 *)
Dispatch ==
    /\ phase = "threaded"
    /\ vm' = VmStep(vm, program.code[ip])
    /\ ip' = ip + 1
    /\ phase' = CASE vm'.bus.fault -> "fault"
                  [] program.code[ip].op = "halt" -> "done"
                  [] OTHER -> "threaded"
    /\ answer' = IF phase' = "done" /\ program.yields_value THEN <<VmTop(vm')>> ELSE answer
    /\ UNCHANGED <<program, mem0, em, cpu>>

Next == Start \/ Compile \/ ExecuteNative \/ Dispatch

Spec == Init /\ [][Next]_vars /\ WF_vars(Next)

-----------------------------------------------------------------------------
Ended == phase \in {"done", "fault"}

(* Type invariant of a run: what is emitted are units of the target.       *)
Unit == IF program.target = "arm" THEN 0 .. 15 ELSE 0 .. 31

TypeOK ==
    /\ program \in Sessions
    /\ phase \in Phases
    /\ ip \in Nat \ {0}
    /\ \A k \in DOMAIN em.code : em.code[k] \subseteq Unit
    /\ Len(em.code) <= EXEC_CAPACITY
    /\ \A r \in DOMAIN cpu.regs : cpu.regs[r] \subseteq 0 .. 31
    /\ cpu.bus.mem \in [Values -> Values]
    /\ vm.stack \in Seq(Values)
    /\ vm.bus.mem \in [Values -> Values]

(* StreamProgram::run "falls back to the threaded interpreter for streams  *)
(* that exceed the two-register compiler's capacity": whichever engine     *)
(* ran, the volatile accesses and their order, the memory, the fault and   *)
(* the answer are those of the threaded interpreter.                       *)
Reference == RunThreaded(program.code, mem0)

EnginesAgree ==
    Ended =>
        LET bus == IF vm.bus.trace = <<>> /\ ~vm.bus.fault THEN cpu.bus ELSE vm.bus
        IN  /\ bus = Reference.bus
            /\ phase = "done" /\ program.yields_value => answer = <<VmTop(Reference)>>

(* vm_push drops silently and vm_pop invents a 0, so that the hot loop     *)
(* cannot panic: no stream the parser builds makes either happen.          *)
NoSilentStackLoss == ~vm.lost

(* A run that fell back to the interpreter executed no native instruction, *)
(* and a native run never executes past the instructions just emitted.     *)
OneEngineRuns ==
    /\ cpu.bus.trace = <<>> \/ vm.bus.trace = <<>>
    /\ phase = "native" => ip <= Len(em.code)
    /\ phase = "threaded" => ip <= Len(program.code)

(* Every run ends: it answers, or stops the core on a fault.               *)
RunEnds == <>Ended
=============================================================================
