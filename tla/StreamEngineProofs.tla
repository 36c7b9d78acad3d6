------------------------- MODULE StreamEngineProofs -------------------------
(***************************************************************************)
(* Theorems about StreamProgram::run: what it leaves in memory, registers  *)
(* and buffer is well typed, one engine runs, the interpreter's stack      *)
(* loses nothing, and machine code and interpreter agree, for every stream *)
(* the two registers suffice for.                                          *)
(***************************************************************************)
EXTENDS StreamEngine, StreamOpsProofs

(* Adding 0 never carries.                                                 *)
LEMMA NoCarry ==
    ASSUME NEW x \in Word, NEW y \in Word, x = {} \/ y = {}
    PROVE  Add(x, y) = x \cup y
  <1> DEFINE Body(g) == [k \in 0 .. 32 |->
                 IF k = 0 THEN FALSE
                 ELSE \/ k - 1 \in x /\ k - 1 \in y
                      \/ g[k - 1] /\ (k - 1 \in x \/ k - 1 \in y)]
             carry == CHOOSE g : g = Body(g)
             zero == [k \in 0 .. 32 |-> FALSE]
  <1>1. Add(x, y) = {k \in 0 .. 31 : Odd(k \in x, k \in y, carry[k])}
    BY Zenon DEF Add
  <1>2. carry = Body(carry)
    <2>1. zero = Body(zero)
      <3>1. \A k \in 1 .. 32 : zero[k - 1] = FALSE
        OBVIOUS
      <3> QED BY <3>1
    <2> HIDE DEF Body, zero
    <2> QED BY <2>1
  <1> HIDE DEF carry
  <1>3. carry[0] = FALSE /\ \A k \in 1 .. 32 : carry[k] <=> carry[k - 1] /\ (k - 1 \in x \/ k - 1 \in y)
    BY <1>2
  <1>4. \A k \in 0 .. 32 : ~carry[k]
    <2> DEFINE S == {k \in 0 .. 32 : ~carry[k]}
    <2>1. 0 \in S /\ \A k \in 1 .. 32 : k - 1 \in S => k \in S
      BY <1>3
    <2> HIDE DEF S
    <2>2. \A k \in 0 .. 32 : k \in S
      BY <2>1, UpTo
    <2> QED BY <2>2 DEF S
  <1>7. \A k \in 0 .. 32 : carry[k] \in BOOLEAN
    BY <1>2
  <1>5. ASSUME NEW k \in 0 .. 31
        PROVE  Odd(k \in x, k \in y, carry[k]) <=> k \in x \cup y
    <2>1. carry[k] = FALSE
      <3>1. k \in 0 .. 32
        OBVIOUS
      <3> QED BY <1>4, <1>7, <3>1
    <2>2. ~(k \in x /\ k \in y)
      OBVIOUS
    <2>3. Odd(TRUE, FALSE, FALSE) /\ Odd(FALSE, TRUE, FALSE) /\ ~Odd(FALSE, FALSE, FALSE)
      BY DEF Odd
    <2>4. CASE k \in x
      <3>1. (k \in x) = TRUE /\ (k \in y) = FALSE  BY <2>2, <2>4
      <3> QED BY <2>1, <2>3, <2>4, <3>1, Zenon
    <2>5. CASE k \in y
      <3>1. (k \in x) = FALSE /\ (k \in y) = TRUE  BY <2>2, <2>5
      <3> QED BY <2>1, <2>3, <2>5, <3>1, Zenon
    <2>6. CASE k \notin x /\ k \notin y
      <3>1. (k \in x) = FALSE /\ (k \in y) = FALSE  BY <2>6
      <3> QED BY <2>1, <2>3, <2>6, <3>1, Zenon
    <2> QED BY <2>4, <2>5, <2>6
  <1>6. \A k \in x \cup y : k \in 0 .. 31
    BY DEF Word
  <1> QED BY <1>1, <1>5, <1>6

LEMMA AddZero ==
    ASSUME NEW x \in Word
    PROVE  Add(x, {}) = x /\ Add({}, x) = x
  <1>1. {} \in Word
    BY DEF Word
  <1>2. Add(x, {}) = x \cup {} /\ Add({}, x) = {} \cup x
    BY <1>1, NoCarry
  <1> QED BY <1>2
-----------------------------------------------------------------------------
(* The machine code of one instruction.                                    *)

Units(t) == IF t = "arm" THEN Halfword ELSE Word
Targets == {"arm", "riscv"}

MachineInstrs == {MovImm(r, v) : r \in {"acc", "scratch"}, v \in Values} \cup {LdrAcc, StrScratch, Ret}

DecodeAt(t, code, k) == IF t = "arm" THEN ThumbDecode(code, k) ELSE RiscvDecode(code[k])

(* The places of an instruction where the processor stops between steps.   *)
Offsets(t, units) ==
    IF t = "arm" THEN {o \in {0, 2} : o < Len(units)} ELSE 0 .. Len(units) - 1

LEMMA RegNumbers ==
    ASSUME NEW t \in Targets, NEW r \in {"acc", "scratch"}
    PROVE  /\ t = "arm" => RegNumber(t)[r] \in SUBSET (0 .. 2)
           /\ t = "riscv" => RegNumber(t)[r] \in SUBSET (0 .. 4) /\ RegNumber(t)[r] # {}
           /\ RegNumber(t)["acc"] # RegNumber(t)["scratch"]
  BY DEF Targets, RegNumber

LEMMA InstrFields ==
    ASSUME NEW instr \in MachineInstrs
    PROVE  \/ /\ instr.i = "mov" /\ instr.reg \in {"acc", "scratch"} /\ instr.imm \in Values
              /\ instr = MovImm(instr.reg, instr.imm)
           \/ instr = LdrAcc \/ instr = StrScratch \/ instr = Ret
  BY DEF MachineInstrs, MovImm

(* What the processor makes of the units an instruction is compiled to.    *)
Decodes(t, instr) ==
    LET units == Machine(t, instr)
        acc == RegNumber(t)["acc"]
        scratch == RegNumber(t)["scratch"]
        reg == RegNumber(t)[instr.reg]
    IN  /\ instr.i = "mov" =>
             /\ t = "arm" => ThumbLoads(units, reg, instr.imm)
             /\ t = "riscv" /\ FitsAddi(instr.imm) =>
                  Len(units) = 1 /\ DecodeAt(t, units, 1) = Decoded("addi", reg, {}, instr.imm, 1)
        /\ instr.i = "ldr" =>
             Len(units) = 1 /\ DecodeAt(t, units, 1) = Decoded("load", acc, scratch, {}, 1)
        /\ instr.i = "str" =>
             Len(units) = 1 /\ DecodeAt(t, units, 1) = Decoded("store", scratch, acc, {}, 1)
        /\ instr.i = "ret" =>
             Len(units) = 1 /\ DecodeAt(t, units, 1) = Decoded("ret", {}, {}, {}, 1)

LEMMA MachineDecodes ==
    ASSUME NEW t \in Targets, NEW instr \in MachineInstrs
    PROVE  /\ Machine(t, instr) \in Seq(Units(t)) /\ Len(Machine(t, instr)) \in {1, 2, 4}
           /\ t = "riscv" => Len(Machine(t, instr)) \in {1, 2}
           /\ Decodes(t, instr)
  <1> DEFINE units == Machine(t, instr)
             acc == RegNumber(t)["acc"]
             scratch == RegNumber(t)["scratch"]
             reg == RegNumber(t)[instr.reg]
             v == instr.imm
  <1>1. /\ LdrAcc.i = "ldr" /\ StrScratch.i = "str" /\ Ret.i = "ret"
        /\ \A r, w : MovImm(r, w).i = "mov"
    BY DEF LdrAcc, StrScratch, Ret, MovImm
  <1>2. CASE t = "arm"
    <2>0. Units(t) = Halfword /\ t # "riscv" /\ \A c, k : DecodeAt(t, c, k) = ThumbDecode(c, k)
      BY <1>2 DEF Units, DecodeAt
    <2>1. acc \in SUBSET (0 .. 2) /\ scratch \in SUBSET (0 .. 2)
      BY <1>2, RegNumbers
    <2>2. CASE instr.i = "mov" /\ instr.reg \in {"acc", "scratch"} /\ v \in Values
      <3>1. reg \in SUBSET (0 .. 2) /\ v \in Word
        BY <1>2, <2>2, RegNumbers, EngineAssumption
      <3>2. units = thumb_mov_imm(reg, v)
        BY <1>2, <2>2 DEF Machine
      <3>3. reg \in SUBSET (0 .. 3)
        BY <3>1
      <3> HIDE DEF units, reg, v
      <3>4. units \in Seq(Halfword) /\ Len(units) \in {1, 2, 4} /\ ThumbLoads(units, reg, v)
        BY <3>1, <3>2, <3>3, ThumbMoveType, ThumbImmediatesArrive
      <3>5. Decodes(t, instr)
        BY <1>2, <2>2, <3>4 DEF Decodes, units, reg, v
      <3> QED BY <2>0, <3>4, <3>5 DEF units
    <2>3. CASE instr = LdrAcc
      <3>1. units = encode_ldr_imm(acc, scratch, {})
        BY <1>1, <1>2, <2>3 DEF Machine
      <3>2. {} \in SUBSET (2 .. 6)
        OBVIOUS
      <3> HIDE DEF units, acc, scratch
      <3>3. units \in Seq(Halfword) /\ Len(units) = 1
        BY <2>1, <3>1, AccessTypes
      <3>4. ThumbDecode(units, 1) = Decoded("load", acc, scratch, {}, 1)
        BY <2>1, <3>1, <3>2, ThumbAccessesArrive
      <3>5. Decodes(t, instr)
        BY <1>1, <2>0, <2>3, <3>3, <3>4 DEF Decodes, units, acc, scratch
      <3> QED BY <2>0, <3>3, <3>5 DEF units
    <2>4. CASE instr = StrScratch
      <3>1. units = encode_str_imm(scratch, acc, {})
        BY <1>1, <1>2, <2>4 DEF Machine
      <3>2. {} \in SUBSET (2 .. 6)
        OBVIOUS
      <3> HIDE DEF units, acc, scratch
      <3>3. units \in Seq(Halfword) /\ Len(units) = 1
        BY <2>1, <3>1, AccessTypes
      <3>4. ThumbDecode(units, 1) = Decoded("store", scratch, acc, {}, 1)
        BY <2>1, <3>1, <3>2, ThumbAccessesArrive
      <3>5. Decodes(t, instr)
        BY <1>1, <2>0, <2>4, <3>3, <3>4 DEF Decodes, units, acc, scratch
      <3> QED BY <2>0, <3>3, <3>5 DEF units
    <2>5. CASE instr = Ret
      <3>1. units = <<BX_LR>>
        BY <1>1, <1>2, <2>5 DEF Machine
      <3>2. units \in Seq(Halfword) /\ Len(units) = 1
        BY <3>1, ReturnTypes
      <3> HIDE DEF units
      <3>3. ThumbDecode(units, 1) = Decoded("ret", {}, {}, {}, 1)
        BY <3>1, ReturnsDecoded
      <3>4. Decodes(t, instr)
        BY <1>1, <2>0, <2>5, <3>2, <3>3 DEF Decodes, units
      <3> QED BY <2>0, <3>2, <3>4 DEF units
    <2> QED BY <2>2, <2>3, <2>4, <2>5, InstrFields
  <1>3. CASE t = "riscv"
    <2>0. Units(t) = Word /\ t # "arm" /\ \A c, k : DecodeAt(t, c, k) = RiscvDecode(c[k])
      BY <1>3 DEF Units, DecodeAt
    <2>1. acc \in SUBSET (0 .. 4) /\ scratch \in SUBSET (0 .. 4) /\ {} \in Word /\ FitsAddi({})
      BY <1>3, RegNumbers DEF Word, FitsAddi
    <2>2. CASE instr.i = "mov" /\ instr.reg \in {"acc", "scratch"} /\ v \in Values
      <3>1. reg \in SUBSET (0 .. 4) /\ v \in Word /\ {} \in SUBSET (0 .. 4)
        BY <1>3, <2>2, RegNumbers, EngineAssumption
      <3>2. units = riscv_mov_imm(reg, v)
        BY <1>3, <2>0, <2>2 DEF Machine
      <3> HIDE DEF units, reg, v
      <3>3. units \in Seq(Word) /\ Len(units) \in {1, 2}
        BY <3>1, <3>2, RiscvMoveType
      <3>4. ASSUME FitsAddi(v)
            PROVE  Len(units) = 1 /\ DecodeAt(t, units, 1) = Decoded("addi", reg, {}, v, 1)
        <4> DEFINE w == encode_addi(reg, {}, v)
        <4>1. units = <<w>>
          BY <3>2, <3>4 DEF riscv_mov_imm
        <4>2. RiscvDecode(w) = Decoded("addi", reg, {}, v, 1)
          BY <3>1, <3>4, RiscvShortImmediatesArrive
        <4> HIDE DEF w
        <4>3. units[1] = w /\ Len(units) = 1
          BY <4>1
        <4> QED BY <2>0, <4>2, <4>3
      <3>5. Decodes(t, instr)
        BY <2>0, <2>2, <3>4 DEF Decodes, units, reg, v
      <3> QED BY <2>0, <3>3, <3>5 DEF units
    <2>3. CASE instr = LdrAcc
      <3> DEFINE w == encode_lw(acc, scratch, {})[1]
      <3>1. units = encode_lw(acc, scratch, {})
        BY <1>1, <2>0, <1>3, <2>3 DEF Machine
      <3>2. encode_lw(acc, scratch, {}) = <<w>> /\ RiscvDecode(w) = Decoded("load", acc, scratch, {}, 1)
        <4> HIDE DEF acc, scratch
        <4> QED BY <2>1, RiscvAccessesArrive
      <3>3. w \in Word
        <4> HIDE DEF acc, scratch
        <4> QED BY <2>1, RiscvAccessTypes
      <3> HIDE DEF units, acc, scratch, w
      <3>4. units \in Seq(Word) /\ Len(units) = 1 /\ units[1] = w
        <4>1. units = <<w>>
          BY <3>1, <3>2, Zenon
        <4> QED BY <3>3, <4>1
      <3>5. Decodes(t, instr)
        BY <1>1, <2>0, <2>3, <3>2, <3>4 DEF Decodes, units, acc, scratch
      <3> QED BY <2>0, <3>4, <3>5 DEF units
    <2>4. CASE instr = StrScratch
      <3> DEFINE w == encode_sw(scratch, acc, {})[1]
      <3>1. units = encode_sw(scratch, acc, {})
        BY <1>1, <2>0, <1>3, <2>4 DEF Machine
      <3>2. encode_sw(scratch, acc, {}) = <<w>> /\ RiscvDecode(w) = Decoded("store", scratch, acc, {}, 1)
        <4> HIDE DEF acc, scratch
        <4> QED BY <2>1, RiscvAccessesArrive
      <3>3. w \in Word
        <4> HIDE DEF acc, scratch
        <4> QED BY <2>1, RiscvAccessTypes
      <3> HIDE DEF units, acc, scratch, w
      <3>4. units \in Seq(Word) /\ Len(units) = 1 /\ units[1] = w
        <4>1. units = <<w>>
          BY <3>1, <3>2, Zenon
        <4> QED BY <3>3, <4>1
      <3>5. Decodes(t, instr)
        BY <1>1, <2>0, <2>4, <3>2, <3>4 DEF Decodes, units, acc, scratch
      <3> QED BY <2>0, <3>4, <3>5 DEF units
    <2>5. CASE instr = Ret
      <3>1. units = <<RV32_RET>>
        BY <1>1, <2>0, <1>3, <2>5 DEF Machine
      <3>2. units \in Seq(Word) /\ Len(units) = 1 /\ units[1] = RV32_RET
        BY <3>1, ReturnTypes
      <3> HIDE DEF units
      <3>3. Decodes(t, instr)
        BY <1>1, <2>0, <2>5, <3>2, ReturnsDecoded DEF Decodes, units
      <3> QED BY <2>0, <3>2, <3>3 DEF units
    <2> QED BY <2>2, <2>3, <2>4, <2>5, InstrFields
  <1> QED BY <1>2, <1>3 DEF Targets
-----------------------------------------------------------------------------
(* push16 and push32, one by one.                                          *)

EmittersOf(t) == {e \in [code : Seq(Units(t)), acc_loaded : BOOLEAN, err : BOOLEAN] :
                     Len(e.code) <= EXEC_CAPACITY}

(* f is e with the first k units of a sequence behind its code.            *)
Extends(e, f, units, k) ==
    /\ Len(f.code) = Len(e.code) + k
    /\ \A i \in 1 .. Len(e.code) : f.code[i] = e.code[i]
    /\ \A o \in 1 .. k : f.code[Len(e.code) + o] = units[o]

LEMMA EmitterFields ==
    ASSUME NEW t, NEW e \in EmittersOf(t)
    PROVE  /\ e.code \in Seq(Units(t)) /\ Len(e.code) \in Nat /\ Len(e.code) <= EXEC_CAPACITY
           /\ e.acc_loaded \in BOOLEAN /\ e.err \in BOOLEAN
           /\ [e EXCEPT !.err = TRUE] \in EmittersOf(t)
           /\ \A b \in BOOLEAN : [e EXCEPT !.acc_loaded = b] \in EmittersOf(t)
           /\ \A c \in Seq(Units(t)) :
                 Len(c) <= EXEC_CAPACITY => [e EXCEPT !.code = c] \in EmittersOf(t)
  <1> DEFINE R == [code : Seq(Units(t)), acc_loaded : BOOLEAN, err : BOOLEAN]
  <1>1. e \in R /\ Len(e.code) <= EXEC_CAPACITY
    BY DEF EmittersOf
  <1>2. [e EXCEPT !.err = TRUE] \in R /\ [e EXCEPT !.err = TRUE].code = e.code
    BY <1>1
  <1>3. ASSUME NEW b \in BOOLEAN
        PROVE  [e EXCEPT !.acc_loaded = b] \in R /\ [e EXCEPT !.acc_loaded = b].code = e.code
    BY <1>1
  <1>4. ASSUME NEW c \in Seq(Units(t))
        PROVE  [e EXCEPT !.code = c] \in R /\ [e EXCEPT !.code = c].code = c
    BY <1>1
  <1>5. e.code \in Seq(Units(t)) /\ e.acc_loaded \in BOOLEAN /\ e.err \in BOOLEAN
    BY <1>1
  <1> QED BY <1>1, <1>2, <1>3, <1>4, <1>5 DEF EmittersOf

LEMMA EmitUnit ==
    ASSUME NEW t, NEW e \in EmittersOf(t), NEW u \in Units(t)
    PROVE  /\ Emit(e, u) \in EmittersOf(t)
           /\ Emit(e, u).acc_loaded = e.acc_loaded
           /\ ~Emit(e, u).err => ~e.err /\ Emit(e, u).code = Append(e.code, u)
  <1>1. e.code \in Seq(Units(t)) /\ Len(e.code) \in Nat /\ Len(e.code) <= EXEC_CAPACITY
        /\ EXEC_CAPACITY \in Nat
    BY EmitterFields, StackAssumption
  <1>2. CASE Len(e.code) >= EXEC_CAPACITY
    <2>1. Emit(e, u) = [e EXCEPT !.err = TRUE]
      BY <1>2 DEF Emit
    <2>2. e \in [code : Seq(Units(t)), acc_loaded : BOOLEAN, err : BOOLEAN]
      BY DEF EmittersOf
    <2>3. [e EXCEPT !.err = TRUE].err = TRUE /\ [e EXCEPT !.err = TRUE].acc_loaded = e.acc_loaded
      BY <2>2
    <2>4. [e EXCEPT !.err = TRUE] \in EmittersOf(t)
      BY EmitterFields
    <2>5. Emit(e, u).err = TRUE /\ Emit(e, u).acc_loaded = e.acc_loaded /\ Emit(e, u) \in EmittersOf(t)
      BY <2>1, <2>3, <2>4
    <2> QED BY <2>5, Zenon
  <1>3. CASE ~(Len(e.code) >= EXEC_CAPACITY)
    <2> DEFINE c == Append(e.code, u)
    <2>1. Emit(e, u) = [e EXCEPT !.code = c]
      BY <1>3 DEF Emit
    <2>2. c \in Seq(Units(t)) /\ Len(c) <= EXEC_CAPACITY
      BY <1>1, <1>3
    <2>3. e \in [code : Seq(Units(t)), acc_loaded : BOOLEAN, err : BOOLEAN]
      BY DEF EmittersOf
    <2> HIDE DEF c
    <2>4. /\ [e EXCEPT !.code = c].code = c /\ [e EXCEPT !.code = c].err = e.err
          /\ [e EXCEPT !.code = c].acc_loaded = e.acc_loaded
      BY <2>3
    <2>5. [e EXCEPT !.code = c] \in EmittersOf(t)
      BY <2>2, EmitterFields
    <2>6. Emit(e, u).code = c /\ Emit(e, u).err = e.err
      BY <2>1, <2>4
    <2> QED BY <2>1, <2>4, <2>5, <2>6 DEF c
  <1> QED BY <1>2, <1>3

LEMMA EmitMachineSound ==
    ASSUME NEW e \in EmittersOf(program.target), NEW instr,
           Machine(program.target, instr) \in Seq(Units(program.target))
    PROVE  LET f == EmitMachine(e, instr)
               units == Machine(program.target, instr)
           IN  /\ f \in EmittersOf(program.target)
               /\ f.acc_loaded = e.acc_loaded
               /\ ~f.err => ~e.err /\ Extends(e, f, units, Len(units))
  <1> DEFINE t == program.target
             D == EmittersOf(t)
             units == Machine(t, instr)
             m == Len(units)
             Body(g) == [k \in 0 .. m |-> IF k = 0 THEN e ELSE Emit(g[k - 1], units[k])]
             after == CHOOSE g : g = Body(g)
             F == [p \in (1 .. m) \X D |-> Emit(p[2], units[p[1]])]
  <1>1. EmitMachine(e, instr) = after[m]
    BY Zenon DEF EmitMachine
  <1>2. m \in Nat /\ \A k \in 1 .. m : units[k] \in Units(t)
    OBVIOUS
  <1> HIDE DEF m, units
  <1>3. F \in [(1 .. m) \X D -> D]
    BY <1>2, EmitUnit
  <1>4. PICK g : IsRun(D, e, F, m, g)
    <2> HIDE DEF F, D
    <2>1. e \in D
      BY DEF D
    <2> QED BY <1>2, <1>3, <2>1, RunExists DEF HasRun
  <1>5. g = Body(g)
    <2>1. \A k \in 1 .. m : <<k, g[k - 1]>> \in (1 .. m) \X D
      BY <1>2, <1>4 DEF IsRun
    <2>2. \A k \in 1 .. m : g[k] = Emit(g[k - 1], units[k])
      BY <1>4, <2>1 DEF IsRun
    <2> QED BY <1>2, <1>4, <2>2 DEF IsRun
  <1>6. after = Body(after)
    <2> HIDE DEF Body
    <2> QED BY <1>5
  <1> HIDE DEF after, F
  <1>7. after[0] = e /\ \A k \in 1 .. m : after[k] = Emit(after[k - 1], units[k])
    BY <1>2, <1>6
  <1> HIDE DEF Body
  <1> DEFINE Good(k) == /\ after[k] \in D
                        /\ after[k].acc_loaded = e.acc_loaded
                        /\ ~after[k].err => ~e.err /\ Extends(e, after[k], units, k)
             S == {k \in 0 .. m : Good(k)}
  <1>8. 0 \in S
    <2>1. Len(e.code) \in Nat
      BY EmitterFields
    <2>2. Extends(e, e, units, 0)
      BY <2>1 DEF Extends
    <2> QED BY <1>2, <1>7, <2>2
  <1>9. ASSUME NEW k \in 1 .. m, k - 1 \in S
        PROVE  k \in S
    <2> DEFINE a == after[k - 1]
               b == after[k]
               u == units[k]
    <2>1. a \in D /\ a.acc_loaded = e.acc_loaded /\ (~a.err => ~e.err /\ Extends(e, a, units, k - 1))
      BY <1>9
    <2>2. b = Emit(a, u) /\ u \in Units(t)
      BY <1>2, <1>7
    <2> HIDE DEF a, b, u
    <2>3. b \in D /\ b.acc_loaded = a.acc_loaded /\ (~b.err => ~a.err /\ b.code = Append(a.code, u))
      BY <2>1, <2>2, EmitUnit
    <2>4. a.code \in Seq(Units(t)) /\ Len(e.code) \in Nat
      BY <2>1, EmitterFields
    <2>5. ASSUME b.code = Append(a.code, u), Extends(e, a, units, k - 1)
          PROVE  Extends(e, b, units, k)
      <3>1. Len(a.code) = Len(e.code) + (k - 1)
        BY <2>5 DEF Extends
      <3>2. Len(b.code) = Len(e.code) + k
        BY <2>4, <2>5, <3>1
      <3>3. \A i \in 1 .. Len(a.code) : b.code[i] = a.code[i]
        BY <2>4, <2>5
      <3>4. b.code[Len(e.code) + k] = u
        BY <2>4, <2>5, <3>1
      <3>5. \A i \in 1 .. Len(e.code) : b.code[i] = e.code[i]
        BY <2>4, <2>5, <3>1, <3>3 DEF Extends
      <3>6. ASSUME NEW o \in 1 .. k
            PROVE  b.code[Len(e.code) + o] = units[o]
        <4>1. CASE o = k
          BY <3>4, <4>1 DEF u
        <4>2. CASE o \in 1 .. k - 1
          <5>1. Len(e.code) + o \in 1 .. Len(a.code)
            BY <2>4, <3>1, <4>2
          <5> QED BY <2>5, <3>3, <4>2, <5>1 DEF Extends
        <4> QED BY <4>1, <4>2
      <3> QED BY <3>2, <3>5, <3>6 DEF Extends
    <2>6. k \in 0 .. m
      BY <1>2
    <2> QED BY <2>1, <2>3, <2>5, <2>6 DEF b
  <1>10. Good(m)
    <2> HIDE DEF S
    <2>1. \A k \in 0 .. m : k \in S
      BY <1>2, <1>8, <1>9, UpTo
    <2> QED BY <1>2, <2>1 DEF S
  <1> QED BY <1>1, <1>10 DEF m, units
-----------------------------------------------------------------------------
(* The emitted code: one instruction after the other.                      *)

Addresses(code, k) == k < Len(code) /\ code[k + 1].op \in {"load_reg", "write_reg"}

(* What primitive k of a stream may be compiled to.                        *)
Compiled(code, k) ==
    {instr \in MachineInstrs :
        /\ code[k].op = "lit" =>
             \E r \in {"acc", "scratch"} :
                /\ instr = MovImm(r, code[k].arg)
                /\ Addresses(code, k) => r = "scratch"
                /\ k = 1 /\ ~Addresses(code, k) => r = "acc"
        /\ code[k].op = "load_reg" => instr = LdrAcc
        /\ code[k].op = "write_reg" => instr = StrScratch
        /\ code[k].op = "halt" => instr = Ret}

(* The units of an instruction lie at a and before b.                      *)
Placed(t, units, instr, a, b) ==
    /\ a \in Nat \ {0} /\ b = a + Len(Machine(t, instr)) /\ b <= Len(units) + 1
    /\ \A o \in 1 .. Len(Machine(t, instr)) : units[a + o - 1] = Machine(t, instr)[o]

(* The first m primitives of a stream, instruction j at starts[j].         *)
Layout(t, code, units, instrs, starts, m) ==
    /\ starts[1] = 1 /\ starts[m + 1] = Len(units) + 1
    /\ \A j \in 1 .. m : /\ instrs[j] \in Compiled(code, j)
                         /\ Placed(t, units, instrs[j], starts[j], starts[j + 1])

LEMMA PrimitiveFields ==
    ASSUME NEW p \in Primitives
    PROVE  p.op \in {"lit", "load_reg", "write_reg", "halt"} /\ p.arg \in Values
  BY FaultingAssumption DEF Primitives, Lit, LoadReg, WriteReg, Halt

LEMMA SelectedCompiled ==
    ASSUME NEW e, NEW code \in Seq(Primitives), NEW k \in 1 .. Len(code), code[k].op # "halt",
           k = 1 => ~e.acc_loaded
    PROVE  Selected(e, code, k) \in Compiled(code, k)
  <1>1. code[k] \in Primitives
    OBVIOUS
  <1>2. code[k].op \in {"lit", "load_reg", "write_reg"} /\ code[k].arg \in Values
    BY <1>1, PrimitiveFields
  <1>3. CASE code[k].op = "lit"
    <2> DEFINE r == LitRegister(e, code, k)
    <2>1. /\ r \in {"acc", "scratch"}
          /\ Addresses(code, k) => r = "scratch"
          /\ k = 1 /\ ~Addresses(code, k) => r = "acc"
      BY DEF LitRegister, Addresses
    <2>2. Selected(e, code, k) = MovImm(r, code[k].arg)
      BY <1>3 DEF Selected
    <2> HIDE DEF r
    <2>3. MovImm(r, code[k].arg) \in MachineInstrs
      BY <1>2, <2>1 DEF MachineInstrs
    <2> QED BY <1>3, <2>1, <2>2, <2>3 DEF Compiled
  <1>4. CASE code[k].op = "load_reg"
    BY <1>4 DEF Selected, Compiled, MachineInstrs
  <1>5. CASE code[k].op = "write_reg"
    BY <1>5 DEF Selected, Compiled, MachineInstrs
  <1> QED BY <1>2, <1>3, <1>4, <1>5

LEMMA LayoutGrows ==
    ASSUME NEW t \in Targets, NEW code, NEW m \in Nat, NEW instrs, NEW starts,
           NEW e \in EmittersOf(t), NEW f \in EmittersOf(t),
           Layout(t, code, e.code, instrs, starts, m),
           NEW instr \in Compiled(code, m + 1),
           Extends(e, f, Machine(t, instr), Len(Machine(t, instr)))
    PROVE  \E is, ss : Layout(t, code, f.code, is, ss, m + 1)
  <1> DEFINE units == Machine(t, instr)
             end == Len(f.code) + 1
             is == [j \in 1 .. m + 1 |-> IF j <= m THEN instrs[j] ELSE instr]
             ss == [j \in 1 .. m + 2 |-> IF j <= m + 1 THEN starts[j] ELSE end]
  <1>1. Len(e.code) \in Nat /\ Len(f.code) \in Nat
    BY EmitterFields
  <1>2. instr \in MachineInstrs
    BY DEF Compiled
  <1>3. Len(units) \in {1, 2, 4}
    BY <1>2, MachineDecodes
  <1>4. Len(f.code) = Len(e.code) + Len(units)
    BY DEF Extends
  <1> HIDE DEF units
  <1>5. /\ starts[1] = 1 /\ starts[m + 1] = Len(e.code) + 1
        /\ \A j \in 1 .. m : /\ instrs[j] \in Compiled(code, j)
                             /\ Placed(t, e.code, instrs[j], starts[j], starts[j + 1])
    BY DEF Layout
  <1>6. ss[1] = 1 /\ ss[m + 1] = Len(e.code) + 1 /\ ss[m + 2] = end
    BY <1>5
  <1>7. ASSUME NEW j \in 1 .. m
        PROVE  is[j] \in Compiled(code, j) /\ Placed(t, f.code, is[j], ss[j], ss[j + 1])
    <2> DEFINE i == instrs[j]
               a == starts[j]
               b == starts[j + 1]
               us == Machine(t, i)
    <2>1. is[j] = i /\ ss[j] = a /\ ss[j + 1] = b
      OBVIOUS
    <2>2. i \in Compiled(code, j) /\ Placed(t, e.code, i, a, b)
      BY <1>5
    <2>3. i \in MachineInstrs
      BY <2>2 DEF Compiled
    <2>4. Len(us) \in {1, 2, 4}
      BY <2>3, MachineDecodes
    <2> HIDE DEF is, ss, i, a, b
    <2>5. Placed(t, f.code, i, a, b)
      <3>1. /\ a \in Nat \ {0} /\ b = a + Len(us) /\ b <= Len(e.code) + 1
            /\ \A o \in 1 .. Len(us) : e.code[a + o - 1] = us[o]
        BY <2>2 DEF Placed
      <3> HIDE DEF us
      <3>2. b <= Len(f.code) + 1
        BY <1>1, <1>3, <1>4, <2>4, <3>1
      <3>3. ASSUME NEW o \in 1 .. Len(us)
            PROVE  f.code[a + o - 1] = us[o]
        <4>1. a + o - 1 \in 1 .. Len(e.code)
          BY <1>1, <2>4, <3>1
        <4>2. f.code[a + o - 1] = e.code[a + o - 1]
          BY <4>1 DEF Extends
        <4> QED BY <3>1, <4>2
      <3> QED BY <3>1, <3>2, <3>3 DEF Placed, us
    <2> QED BY <2>1, <2>2, <2>5
  <1>8. Placed(t, f.code, instr, ss[m + 1], ss[m + 2])
    <2>1. /\ ss[m + 1] \in Nat \ {0} /\ ss[m + 2] = ss[m + 1] + Len(units)
          /\ ss[m + 2] <= Len(f.code) + 1
      <3> HIDE DEF is, ss
      <3> QED BY <1>1, <1>3, <1>4, <1>6
    <2>2. ASSUME NEW o \in 1 .. Len(units)
          PROVE  f.code[ss[m + 1] + o - 1] = units[o]
      <3>1. ss[m + 1] + o - 1 = Len(e.code) + o
        BY <1>1, <1>3, <1>6
      <3>2. f.code[Len(e.code) + o] = units[o]
        BY DEF Extends, units
      <3> QED BY <3>1, <3>2
    <2> HIDE DEF ss
    <2> QED BY <2>1, <2>2 DEF Placed, units
  <1>9. is[m + 1] = instr
    OBVIOUS
  <1> HIDE DEF is, ss
  <1>10. \A j \in 1 .. m + 1 : is[j] \in Compiled(code, j) /\ Placed(t, f.code, is[j], ss[j], ss[j + 1])
    <2>1. m + 1 + 1 = m + 2
      OBVIOUS
    <2> TAKE j \in 1 .. m + 1
    <2>2. j \in 1 .. m \/ j = m + 1
      OBVIOUS
    <2> QED BY <1>7, <1>8, <1>9, <2>1, <2>2
  <1>11. ss[m + 1 + 1] = Len(f.code) + 1
    BY <1>6
  <1> QED BY <1>6, <1>10, <1>11 DEF Layout
-----------------------------------------------------------------------------
(* The processor goes through an instruction's units and finds the next    *)
(* instruction behind them.                                                *)

LEMMA ThumbPlaces ==
    ASSUME NEW instr \in MachineInstrs, NEW o \in Offsets("arm", Machine("arm", instr))
    PROVE  LET units == Machine("arm", instr)
               d == ThumbDecode(units, o + 1)
           IN  /\ o \in {0, 2} /\ o < Len(units) /\ d # Undefined
               /\ o + d.len = Len(units) \/ o + d.len \in Offsets("arm", units)
  <1> DEFINE units == Machine("arm", instr)
             reg == RegNumber("arm")[instr.reg]
             d == ThumbDecode(units, o + 1)
  <1>1. o \in {0, 2} /\ o < Len(units) /\ units \in Seq(Halfword) /\ Decodes("arm", instr)
    BY MachineDecodes DEF Offsets, Targets, Units
  <1>2. \A i, rd, rs, imm, len : i # "undefined" => Decoded(i, rd, rs, imm, len) # Undefined
    BY DEF Decoded, Undefined
  <1>3. \A c, k : DecodeAt("arm", c, k) = ThumbDecode(c, k)
    BY DEF DecodeAt
  <1>4. \A p \in {0, 2} : p < Len(units) => p \in Offsets("arm", units)
    BY DEF Offsets
  <1>5. instr.i \in {"mov", "ldr", "str", "ret"}
    BY InstrFields DEF LdrAcc, StrScratch, Ret
  <1>6. CASE instr.i # "mov"
    <2>1. Len(units) = 1
      BY <1>1, <1>5, <1>6 DEF Decodes
    <2>2. o = 0 /\ o + 1 = 1
      <3> HIDE DEF units
      <3> QED BY <1>1, <2>1
    <2>3. \E i, rd, rs : i # "undefined" /\ ThumbDecode(units, 1) = Decoded(i, rd, rs, {}, 1)
      BY <1>1, <1>3, <1>5, <1>6 DEF Decodes
    <2>4. d # Undefined /\ d.len = 1
      BY <1>2, <2>2, <2>3, DecodedFields
    <2> HIDE DEF d, units
    <2> QED BY <1>1, <2>1, <2>2, <2>4 DEF d, units
  <1>7. CASE instr.i = "mov"
    <2>1. ThumbLoads(units, reg, instr.imm)
      BY <1>1, <1>7 DEF Decodes
    <2> HIDE DEF units, reg
    <2>2. CASE Len(units) = 1 /\ ThumbDecode(units, 1) = Decoded("mov", reg, {}, instr.imm, 1)
      <3>1. o = 0 /\ o + 1 = 1
        BY <1>1, <2>2
      <3>2. d # Undefined /\ d.len = 1
        BY <1>2, <2>2, <3>1, DecodedFields
      <3>3. o + d.len = Len(units)
        BY <2>2, <3>1, <3>2
      <3> QED BY <1>1, <3>2, <3>3 DEF units
    <2>3. CASE Len(units) = 2 /\ ThumbDecode(units, 1) = Decoded("mov", reg, {}, instr.imm, 2)
      <3>1. o = 0 /\ o + 1 = 1
        BY <1>1, <2>3
      <3>2. d # Undefined /\ d.len = 2
        BY <1>2, <2>3, <3>1, DecodedFields
      <3>3. o + d.len = Len(units)
        BY <2>3, <3>1, <3>2
      <3> QED BY <1>1, <3>2, <3>3 DEF units
    <2>4. CASE /\ Len(units) = 4
               /\ \E low, high \in SUBSET (0 .. 15) :
                     /\ ThumbDecode(units, 1) = Decoded("mov", reg, {}, low, 2)
                     /\ ThumbDecode(units, 3) = Decoded("movt", reg, {}, high, 2)
      <3>1. ThumbDecode(units, 1) # Undefined /\ ThumbDecode(units, 1).len = 2
        BY <1>2, <2>4, DecodedFields
      <3>2. ThumbDecode(units, 3) # Undefined /\ ThumbDecode(units, 3).len = 2
        BY <1>2, <2>4, DecodedFields
      <3>3. o = 0 => o + 1 = 1 /\ o + 2 \in Offsets("arm", units)
        BY <1>4, <2>4
      <3>4. o = 2 => o + 1 = 3 /\ o + 2 = Len(units)
        BY <2>4
      <3>5. d # Undefined /\ d.len = 2
        BY <1>1, <3>1, <3>2, <3>3, <3>4
      <3> HIDE DEF d
      <3> QED BY <1>1, <3>3, <3>4, <3>5 DEF d, units
    <2> QED BY <2>1, <2>2, <2>3, <2>4 DEF ThumbLoads
  <1> QED BY <1>6, <1>7

LEMMA Places ==
    ASSUME NEW t \in Targets, NEW units \in Seq(Units(t)), NEW instr \in MachineInstrs,
           NEW a, NEW b, Placed(t, units, instr, a, b),
           NEW o \in Offsets(t, Machine(t, instr))
    PROVE  LET d == DecodeAt(t, units, a + o)
           IN  /\ a + o \in 1 .. Len(units) /\ o \in Nat
               /\ Instruction(d)
               /\ d = DecodeAt(t, Machine(t, instr), o + 1)
               /\ o + d.len = Len(Machine(t, instr)) \/ o + d.len \in Offsets(t, Machine(t, instr))
  <1> DEFINE us == Machine(t, instr)
             d == DecodeAt(t, units, a + o)
  <1>1. us \in Seq(Units(t)) /\ Len(us) \in {1, 2, 4} /\ Len(units) \in Nat
    BY MachineDecodes
  <1>2. /\ a \in Nat \ {0} /\ a + Len(us) <= Len(units) + 1
        /\ \A p \in 1 .. Len(us) : units[a + p - 1] = us[p]
    BY DEF Placed
  <1>3. o \in 0 .. Len(us) - 1
    BY <1>1 DEF Offsets
  <1> HIDE DEF us
  <1>4. a + o \in 1 .. Len(units) /\ o \in Nat
    BY <1>1, <1>2, <1>3
  <1>5. units[a + o] = us[o + 1]
    <2>1. o + 1 \in 1 .. Len(us) /\ a + (o + 1) - 1 = a + o
      BY <1>1, <1>2, <1>3
    <2> QED BY <1>2, <2>1
  <1>6. CASE t = "arm"
    <2>1. d = ThumbDecode(units, a + o) /\ DecodeAt(t, us, o + 1) = ThumbDecode(us, o + 1)
      BY <1>6 DEF DecodeAt
    <2>2. ThumbDecode(us, o + 1) # Undefined
          /\ (o + ThumbDecode(us, o + 1).len = Len(us) \/ o + ThumbDecode(us, o + 1).len \in Offsets(t, us))
      BY <1>6, ThumbPlaces DEF us
    <2>3. o + 1 + 1 \in DOMAIN us => a + o + 1 \in DOMAIN units /\ units[a + o + 1] = us[o + 1 + 1]
      <3>1. o + 1 + 1 \in DOMAIN us => o + 2 \in 1 .. Len(us) /\ a + (o + 2) - 1 = a + o + 1 /\ o + 1 + 1 = o + 2
        BY <1>1, <1>2, <1>3
      <3>2. o + 1 + 1 \in DOMAIN us => a + o + 1 \in 1 .. Len(units)
        BY <1>1, <1>2, <3>1
      <3> QED BY <1>1, <1>2, <3>1, <3>2
    <2>4. ThumbDecode(units, a + o) = ThumbDecode(us, o + 1)
      BY <1>5, <2>2, <2>3, ThumbDecodeLocal
    <2>5. Instruction(ThumbDecode(units, a + o))
      <3>1. units \in Seq(Halfword)
        BY <1>6 DEF Units
      <3> QED BY <1>4, <3>1, ThumbDecodedType
    <2> QED BY <1>4, <2>1, <2>2, <2>4, <2>5 DEF us
  <1>7. CASE t = "riscv"
    <2>1. d = RiscvDecode(units[a + o]) /\ DecodeAt(t, us, o + 1) = RiscvDecode(us[o + 1])
          /\ Offsets(t, us) = 0 .. Len(us) - 1
      BY <1>7 DEF DecodeAt, Offsets
    <2>2. units[a + o] \in Word
      <3>1. units \in Seq(Word)
        BY <1>7 DEF Units
      <3> QED BY <1>4, <3>1
    <2>3. Instruction(RiscvDecode(units[a + o])) /\ RiscvDecode(units[a + o]).len = 1
      BY <2>2, RiscvDecodedType
    <2>4. o + 1 = Len(us) \/ o + 1 \in 0 .. Len(us) - 1
      BY <1>1, <1>3
    <2> HIDE DEF d
    <2> QED BY <1>4, <1>5, <2>1, <2>3, <2>4 DEF us, d
  <1> QED BY <1>6, <1>7 DEF Targets
-----------------------------------------------------------------------------
(* One machine instruction: whatever is decoded, registers and memory hold *)
(* words afterwards; what the emitted instructions do to them.             *)

Registers == {"acc", "scratch"}
RawBuses == [mem : [Values -> Word], trace : Seq({"read", "write"} \X Values \X Word), fault : BOOLEAN]
MachineStates == [regs : [Registers -> Word], bus : RawBuses, returned : BOOLEAN]

LEMMA RawRead ==
    ASSUME NEW b \in RawBuses, NEW a
    PROVE  /\ BusRead(b, a) \in RawBuses
           /\ BusRead(b, a).fault \/ (b.mem[a] \in Word)
  <1>1. b.mem \in [Values -> Word] /\ b.fault \in BOOLEAN
        /\ b.trace \in Seq({"read", "write"} \X Values \X Word)
    BY DEF RawBuses
  <1>2. CASE Faults(a)
    <2>1. BusRead(b, a) = [b EXCEPT !.fault = TRUE]
      BY <1>2 DEF BusRead
    <2> QED BY <2>1 DEF RawBuses
  <1>3. CASE ~Faults(a)
    <2>1. a \in Values
      BY <1>3 DEF Faults
    <2> DEFINE tr == Append(b.trace, <<"read", a, b.mem[a]>>)
    <2>2. BusRead(b, a) = [b EXCEPT !.trace = tr]
      BY <1>3 DEF BusRead
    <2>3. b.mem[a] \in Word
      BY <1>1, <2>1
    <2>4. tr \in Seq({"read", "write"} \X Values \X Word)
      <3>1. <<"read", a, b.mem[a]>> \in {"read", "write"} \X Values \X Word
        BY <2>1, <2>3
      <3> DEFINE D == {"read", "write"} \X Values \X Word
                 x == <<"read", a, b.mem[a]>>
      <3>2. x \in D /\ b.trace \in Seq(D)
        BY <1>1, <3>1
      <3> HIDE DEF D, x
      <3>3. Append(b.trace, x) \in Seq(D)
        BY <3>2
      <3> QED BY <3>3 DEF D, x
    <2> HIDE DEF tr
    <2>5. [b EXCEPT !.trace = tr] \in RawBuses
      BY <2>4 DEF RawBuses
    <2> QED BY <2>2, <2>3, <2>5
  <1> QED BY <1>2, <1>3

LEMMA RawWrite ==
    ASSUME NEW b \in RawBuses, NEW a, NEW v \in Word
    PROVE  BusWrite(b, a, v) \in RawBuses
  <1>1. b.mem \in [Values -> Word] /\ b.fault \in BOOLEAN
        /\ b.trace \in Seq({"read", "write"} \X Values \X Word)
    BY DEF RawBuses
  <1>2. CASE Faults(a)
    <2>1. BusWrite(b, a, v) = [b EXCEPT !.fault = TRUE]
      BY <1>2 DEF BusWrite
    <2> QED BY <2>1 DEF RawBuses
  <1>3. CASE ~Faults(a)
    <2>1. a \in Values
      BY <1>3 DEF Faults
    <2> DEFINE tr == Append(b.trace, <<"write", a, v>>)
               me == [b.mem EXCEPT ![a] = v]
    <2>2. BusWrite(b, a, v) = [b EXCEPT !.mem = me, !.trace = tr]
      BY <1>3 DEF BusWrite
    <2>3. me \in [Values -> Word]
      BY <1>1, <2>1
    <2>4. tr \in Seq({"read", "write"} \X Values \X Word)
      <3> DEFINE D == {"read", "write"} \X Values \X Word
                 x == <<"write", a, v>>
      <3>1. x \in D /\ b.trace \in Seq(D)
        BY <1>1, <2>1
      <3> HIDE DEF D, x
      <3>2. Append(b.trace, x) \in Seq(D)
        BY <3>1
      <3> QED BY <3>2 DEF D, x
    <2> HIDE DEF tr, me
    <2>5. [b EXCEPT !.mem = me, !.trace = tr] \in RawBuses
      BY <2>3, <2>4 DEF RawBuses
    <2> QED BY <2>2, <2>5
  <1> QED BY <1>2, <1>3

LEMMA MachineFields ==
    ASSUME NEW c \in MachineStates
    PROVE  /\ c.regs \in [Registers -> Word] /\ c.bus \in RawBuses /\ c.returned \in BOOLEAN
           /\ \A b \in RawBuses : [c EXCEPT !.bus = b] \in MachineStates
           /\ \A r \in Registers, v \in Word : [c EXCEPT !.regs[r] = v] \in MachineStates
           /\ [c EXCEPT !.returned = TRUE] \in MachineStates
  <1>1. c.regs \in [Registers -> Word] /\ c.bus \in RawBuses /\ c.returned \in BOOLEAN
    BY DEF MachineStates
  <1>2. ASSUME NEW b \in RawBuses
        PROVE  [c EXCEPT !.bus = b] \in MachineStates
    BY DEF MachineStates
  <1>3. ASSUME NEW r \in Registers, NEW v \in Word
        PROVE  [c EXCEPT !.regs[r] = v] \in MachineStates
    <2> DEFINE q == [c.regs EXCEPT ![r] = v]
    <2>1. q \in [Registers -> Word]
      BY <1>1
    <2>2. [c EXCEPT !.regs[r] = v] = [c EXCEPT !.regs = q]
      OBVIOUS
    <2> HIDE DEF q
    <2> QED BY <2>1, <2>2 DEF MachineStates
  <1>4. [c EXCEPT !.returned = TRUE] \in MachineStates
    BY DEF MachineStates
  <1> QED BY <1>1, <1>2, <1>3, <1>4

LEMMA RegNames ==
    ASSUME program.target \in Targets, NEW r \in Registers
    PROVE  HasName(RegNumber(program.target)[r]) /\ RegName(RegNumber(program.target)[r]) = r
  <1> DEFINE N == RegNumber(program.target)
  <1>1. N["acc"] # N["scratch"]
    BY RegNumbers
  <1>2. \A q \in Registers : N[q] = N[r] => q = r
    BY <1>1 DEF Registers
  <1> QED BY <1>2 DEF HasName, RegName, Registers

LEMMA NamedRegister ==
    ASSUME NEW k, HasName(k)
    PROVE  RegName(k) \in Registers
  BY DEF HasName, RegName, Registers

LEMMA ExecuteType ==
    ASSUME NEW c \in MachineStates, NEW d, Instruction(d)
    PROVE  Execute(c, d) \in MachineStates
  <1> DEFINE addr == Add(Operand(c, d.rs), d.imm)
             old == Operand(c, d.rd)
             read == [c EXCEPT !.bus = BusRead(@, addr)]
  <1>1. c.regs \in [Registers -> Word] /\ c.bus \in RawBuses /\ d.imm \in Word
    BY MachineFields DEF Instruction
  <1>2. addr \in Word
    BY AddType
  <1>3. BusRead(c.bus, addr) \in RawBuses /\ (BusRead(c.bus, addr).fault \/ c.bus.mem[addr] \in Word)
    BY <1>1, RawRead
  <1>4. read \in MachineStates /\ read.bus = BusRead(c.bus, addr)
    <2> DEFINE b == BusRead(c.bus, addr)
    <2>1. b \in RawBuses
      BY <1>3
    <2>2. read = [c EXCEPT !.bus = b]
      OBVIOUS
    <2> HIDE DEF b, read
    <2>3. read \in MachineStates
      BY <2>1, <2>2, MachineFields
    <2>4. read.bus = b
      BY <2>2 DEF MachineStates
    <2> QED BY <2>3, <2>4 DEF b
  <1>5. CASE Undecodable(d)
    <2>1. Execute(c, d) = [c EXCEPT !.bus.fault = TRUE]
      BY <1>5 DEF Execute
    <2> DEFINE b == [c.bus EXCEPT !.fault = TRUE]
    <2>2. b \in RawBuses
      BY <1>1 DEF RawBuses
    <2>3. [c EXCEPT !.bus.fault = TRUE] = [c EXCEPT !.bus = b]
      OBVIOUS
    <2> HIDE DEF addr, old, read, b
    <2>4. [c EXCEPT !.bus = b] \in MachineStates
      BY <2>2, MachineFields
    <2> QED BY <2>1, <2>3, <2>4
  <1>6. CASE ~Undecodable(d)
    <2>1. d.i \in {"mov", "movt", "addi", "load", "store", "ret"}
      BY <1>6 DEF Undecodable, Instruction
    <2>2. d.i # "ret" => RegName(d.rd) \in Registers
      BY <1>6, NamedRegister DEF Undecodable
    <2>3. d.i # "ret" => old \in Word
      <3>1. {} \in Word
        BY DEF Word
      <3> QED BY <1>1, <2>2, <3>1 DEF Operand
    <2> HIDE DEF addr, old, read
    <2>4. CASE d.i = "mov"
      <3>1. Execute(c, d) = [c EXCEPT !.regs[RegName(d.rd)] = d.imm]
        BY <1>6, <2>4 DEF Execute
      <3>2. RegName(d.rd) \in Registers
        BY <2>2, <2>4
      <3>3. [c EXCEPT !.regs[RegName(d.rd)] = d.imm] \in MachineStates
        BY <1>1, <3>2, MachineFields
      <3> QED BY <3>1, <3>3
    <2>5. CASE d.i = "movt"
      <3> DEFINE v == (old \cap (0 .. 15)) \cup Shl(d.imm, 16)
      <3>1. Execute(c, d) = [c EXCEPT !.regs[RegName(d.rd)] = v]
        BY <1>6, <2>5 DEF Execute, old
      <3>2. d.imm \in SUBSET (0 .. 15)
        BY <2>5 DEF Instruction, Halfword
      <3>3. ASSUME NEW k \in Shl(d.imm, 16)
            PROVE  k \in 0 .. 31
        <4>1. d.imm \in SUBSET Nat
          BY <3>2
        <4>2. k \in Nat /\ k >= 16 /\ k - 16 \in 0 .. 15
          BY <3>2, <4>1, ShlBit
        <4> QED BY <4>2
      <3>4. v \in Word
        BY <2>3, <2>5, <3>3 DEF Word
      <3> HIDE DEF v
      <3>5. RegName(d.rd) \in Registers
        BY <2>2, <2>5
      <3>6. [c EXCEPT !.regs[RegName(d.rd)] = v] \in MachineStates
        BY <3>4, <3>5, MachineFields
      <3> QED BY <3>1, <3>6
    <2>6. CASE d.i = "addi"
      <3>1. Execute(c, d) = [c EXCEPT !.regs[RegName(d.rd)] = addr]
        BY <1>6, <2>6 DEF Execute, addr
      <3>2. RegName(d.rd) \in Registers
        BY <2>2, <2>6
      <3>3. [c EXCEPT !.regs[RegName(d.rd)] = addr] \in MachineStates
        BY <1>2, <3>2, MachineFields
      <3> QED BY <3>1, <3>3
    <2>7. CASE d.i = "load"
      <3>1. Execute(c, d) = IF read.bus.fault THEN read
                            ELSE [read EXCEPT !.regs[RegName(d.rd)] = c.bus.mem[addr]]
        BY <1>6, <2>7 DEF Execute, addr, read
      <3>2. ~read.bus.fault => c.bus.mem[addr] \in Word
        BY <1>3, <1>4
      <3>3. RegName(d.rd) \in Registers
        BY <2>2, <2>7
      <3>4. ~read.bus.fault => [read EXCEPT !.regs[RegName(d.rd)] = c.bus.mem[addr]] \in MachineStates
        BY <1>4, <3>2, <3>3, MachineFields
      <3> QED BY <1>4, <3>1, <3>4
    <2>8. CASE d.i = "store"
      <3> DEFINE b == BusWrite(c.bus, addr, old)
      <3>1. Execute(c, d) = [c EXCEPT !.bus = b]
        BY <1>6, <2>8 DEF Execute, addr, old
      <3>2. b \in RawBuses
        BY <1>1, <2>3, <2>8, RawWrite
      <3> HIDE DEF b
      <3>3. [c EXCEPT !.bus = b] \in MachineStates
        BY <3>2, MachineFields
      <3> QED BY <3>1, <3>3
    <2>9. CASE d.i = "ret"
      <3>1. Execute(c, d) = [c EXCEPT !.returned = TRUE]
        BY <1>6, <2>9 DEF Execute
      <3>2. [c EXCEPT !.returned = TRUE] \in MachineStates
        BY MachineFields
      <3> QED BY <3>1, <3>2
    <2> QED BY <2>1, <2>4, <2>5, <2>6, <2>7, <2>8, <2>9
  <1> QED BY <1>5, <1>6

LEMMA OperandOf ==
    ASSUME program.target \in Targets, NEW c, NEW r \in Registers
    PROVE  Operand(c, RegNumber(program.target)[r]) = c.regs[r]
  <1>1. RegName(RegNumber(program.target)[r]) = r
    BY RegNames
  <1>2. program.target = "riscv" => RegNumber(program.target)[r] # {}
    BY RegNumbers DEF Registers
  <1> QED BY <1>1, <1>2 DEF Operand

LEMMA ExecuteMoves ==
    ASSUME program.target \in Targets, NEW c \in MachineStates, NEW r \in Registers,
           NEW v \in Word, NEW len
    PROVE  LET reg == RegNumber(program.target)[r]
           IN  /\ Execute(c, Decoded("mov", reg, {}, v, len)) = [c EXCEPT !.regs[r] = v]
               /\ Execute(c, Decoded("movt", reg, {}, v, len))
                     = [c EXCEPT !.regs[r] = (c.regs[r] \cap (0 .. 15)) \cup Shl(v, 16)]
               /\ program.target = "riscv" =>
                     Execute(c, Decoded("addi", reg, {}, v, len)) = [c EXCEPT !.regs[r] = v]
  <1> DEFINE reg == RegNumber(program.target)[r]
             mov == Decoded("mov", reg, {}, v, len)
             movt == Decoded("movt", reg, {}, v, len)
             addi == Decoded("addi", reg, {}, v, len)
  <1>1. HasName(reg) /\ RegName(reg) = r /\ Operand(c, reg) = c.regs[r]
    BY RegNames, OperandOf
  <1>2. /\ mov.i = "mov" /\ mov.rd = reg /\ mov.imm = v
        /\ movt.i = "movt" /\ movt.rd = reg /\ movt.imm = v
        /\ addi.i = "addi" /\ addi.rd = reg /\ addi.rs = {} /\ addi.imm = v
    BY DecodedFields
  <1> HIDE DEF reg, mov, movt, addi
  <1>3. ~Undecodable(mov) /\ ~Undecodable(movt)
    BY <1>1, <1>2 DEF Undecodable
  <1>4. Execute(c, mov) = [c EXCEPT !.regs[r] = v]
    BY <1>1, <1>2, <1>3 DEF Execute
  <1>5. Execute(c, movt) = [c EXCEPT !.regs[r] = (c.regs[r] \cap (0 .. 15)) \cup Shl(v, 16)]
    BY <1>1, <1>2, <1>3 DEF Execute
  <1>6. ASSUME program.target = "riscv"
        PROVE  Execute(c, addi) = [c EXCEPT !.regs[r] = v]
    <2>1. ~Undecodable(addi)
      BY <1>1, <1>2, <1>6 DEF Undecodable
    <2>2. Operand(c, addi.rs) = {}
      BY <1>2, <1>6 DEF Operand
    <2>3. Add(Operand(c, addi.rs), addi.imm) = v
      BY <1>2, <2>2, AddZero
    <2> QED BY <1>1, <1>2, <2>1, <2>3 DEF Execute
  <1> QED BY <1>4, <1>5, <1>6 DEF reg, mov, movt, addi

LEMMA ExecuteAccesses ==
    ASSUME program.target \in Targets, NEW c \in MachineStates, NEW len
    PROVE  LET acc == RegNumber(program.target)["acc"]
               scratch == RegNumber(program.target)["scratch"]
               read == BusRead(c.bus, c.regs["scratch"])
           IN  /\ Execute(c, Decoded("load", acc, scratch, {}, len)) =
                     IF read.fault THEN [c EXCEPT !.bus = read]
                     ELSE [c EXCEPT !.bus = read, !.regs["acc"] = c.bus.mem[c.regs["scratch"]]]
               /\ Execute(c, Decoded("store", scratch, acc, {}, len)) =
                     [c EXCEPT !.bus = BusWrite(c.bus, c.regs["acc"], c.regs["scratch"])]
               /\ Execute(c, Decoded("ret", {}, {}, {}, len)) = [c EXCEPT !.returned = TRUE]
  <1> DEFINE acc == RegNumber(program.target)["acc"]
             scratch == RegNumber(program.target)["scratch"]
             load == Decoded("load", acc, scratch, {}, len)
             store == Decoded("store", scratch, acc, {}, len)
             ret == Decoded("ret", {}, {}, {}, len)
             a == c.regs["acc"]
             s == c.regs["scratch"]
  <1>0. "acc" \in Registers /\ "scratch" \in Registers
    BY DEF Registers
  <1>1. /\ HasName(acc) /\ RegName(acc) = "acc" /\ Operand(c, acc) = a
        /\ HasName(scratch) /\ RegName(scratch) = "scratch" /\ Operand(c, scratch) = s
    BY <1>0, RegNames, OperandOf
  <1>2. /\ load.i = "load" /\ load.rd = acc /\ load.rs = scratch /\ load.imm = {}
        /\ store.i = "store" /\ store.rd = scratch /\ store.rs = acc /\ store.imm = {}
        /\ ret.i = "ret"
    BY DecodedFields
  <1>3. a \in Word /\ s \in Word
    BY <1>0, MachineFields
  <1>4. Add(a, {}) = a /\ Add(s, {}) = s
    BY <1>3, AddZero
  <1> HIDE DEF acc, scratch, load, store, ret, a, s
  <1>5. ~Undecodable(load) /\ ~Undecodable(store) /\ ~Undecodable(ret)
    BY <1>1, <1>2 DEF Undecodable
  <1>6. Execute(c, load) =
            IF BusRead(c.bus, s).fault THEN [c EXCEPT !.bus = BusRead(c.bus, s)]
            ELSE [c EXCEPT !.bus = BusRead(c.bus, s), !.regs["acc"] = c.bus.mem[s]]
    <2> DEFINE b == BusRead(c.bus, s)
               read == [c EXCEPT !.bus = b]
    <2>1. read.bus = b
      BY DEF MachineStates
    <2>2. Execute(c, load) =
              IF read.bus.fault THEN read ELSE [read EXCEPT !.regs["acc"] = c.bus.mem[s]]
      BY <1>1, <1>2, <1>4, <1>5 DEF Execute
    <2> HIDE DEF b
    <2>3. [read EXCEPT !.regs["acc"] = c.bus.mem[s]] = [c EXCEPT !.bus = b, !.regs["acc"] = c.bus.mem[s]]
      BY DEF MachineStates
    <2> QED BY <2>1, <2>2, <2>3 DEF b
  <1>7. Execute(c, store) = [c EXCEPT !.bus = BusWrite(c.bus, a, s)]
    BY <1>1, <1>2, <1>4, <1>5 DEF Execute
  <1>8. Execute(c, ret) = [c EXCEPT !.returned = TRUE]
    BY <1>2, <1>5 DEF Execute
  <1> QED BY <1>6, <1>7, <1>8 DEF acc, scratch, load, store, ret, a, s
-----------------------------------------------------------------------------
(* The interpreter's run of a stream, state by state.                      *)

IsReference(code, mem, R) ==
    /\ R \in [0 .. Len(code) -> VmStates]
    /\ R[0] = VmReset(mem)
    /\ \A k \in 1 .. Len(code) : R[k] = VmStep(R[k - 1], code[k])
    /\ RunThreaded(code, mem) = R[Len(code)]
Run(code, mem) == CHOOSE R : IsReference(code, mem, R)

LEMMA RunIs ==
    ASSUME NEW code \in Seq(Primitives), NEW mem \in [Values -> Values]
    PROVE  IsReference(code, mem, Run(code, mem))
  <1>1. \E R : IsReference(code, mem, R)
    BY ThreadedRun DEF IsReference
  <1> QED BY <1>1 DEF Run

LEMMA RunAt ==
    ASSUME NEW code \in Seq(Primitives), NEW mem \in [Values -> Values], NEW k \in 1 .. Len(code)
    PROVE  LET R == Run(code, mem)
           IN  /\ R[k - 1] \in VmStates /\ R[k] \in VmStates
               /\ R[k] = VmStep(R[k - 1], code[k])
               /\ code[k] \in Primitives
  <1>1. IsReference(code, mem, Run(code, mem))
    BY RunIs
  <1>2. k - 1 \in 0 .. Len(code) /\ k \in 0 .. Len(code)
    OBVIOUS
  <1> QED BY <1>1, <1>2 DEF IsReference

LEMMA Pushed ==
    ASSUME NEW s \in VmStates, NEW v \in Values, Len(s.stack) < VM_STACK_SIZE
    PROVE  LET p == VmPush(s, v)
           IN  /\ p.stack = Append(s.stack, v) /\ p.bus = s.bus /\ p.lost = s.lost
               /\ VmTop(p) = v
               /\ VmTop(VmPop(p)) = VmTop(s)
  <1> DEFINE st == Append(s.stack, v)
             p == [s EXCEPT !.stack = st]
  <1>1. s.stack \in Seq(Values)
    BY VmFields
  <1>2. VmPush(s, v) = p
    BY <1>1, StackAssumption DEF VmPush
  <1>3. p.stack = st /\ p.bus = s.bus /\ p.lost = s.lost
    BY DEF VmStates
  <1>4. st # <<>> /\ Last(st) = v /\ Front(st) = s.stack
    <2>1. st \in Seq(Values) /\ Len(st) = Len(s.stack) + 1 /\ st[Len(st)] = v
          /\ \A i \in 1 .. Len(s.stack) : st[i] = s.stack[i]
      BY <1>1
    <2>2. st # <<>>
      BY <1>1, <2>1
    <2> HIDE DEF st
    <2>3. Last(st) = v
      BY <2>1 DEF Last
    <2>4. Front(st) = s.stack
      <3>1. Front(st) \in Seq(Values) /\ Len(Front(st)) = Len(s.stack)
            /\ \A i \in 1 .. Len(s.stack) : Front(st)[i] = s.stack[i]
        BY <1>1, <2>1 DEF Front
      <3> QED BY <1>1, <3>1, SeqEqual
    <2> QED BY <2>2, <2>3, <2>4
  <1> HIDE DEF st
  <1>5. VmTop(p) = v
    BY <1>3, <1>4 DEF VmTop
  <1>6. VmPop(p).stack = s.stack
    <2>1. VmPop(p) = [p EXCEPT !.stack = s.stack]
      BY <1>3, <1>4 DEF VmPop
    <2> QED BY <2>1 DEF VmStates
  <1>7. VmTop(VmPop(p)) = VmTop(s)
    BY <1>6 DEF VmTop
  <1> QED BY <1>2, <1>3, <1>5, <1>7 DEF st

LEMMA Popped ==
    ASSUME NEW s \in VmStates, s.stack # <<>>
    PROVE  /\ VmPop(s) \in VmStates /\ Len(VmPop(s).stack) = Len(s.stack) - 1
           /\ VmPop(s).lost = s.lost /\ VmPop(s).bus = s.bus
  <1>1. s.stack \in Seq(Values)
    BY VmFields
  <1>2. VmPop(s) = [s EXCEPT !.stack = Front(s.stack)]
    BY DEF VmPop
  <1>3. Len(Front(s.stack)) = Len(s.stack) - 1
    BY <1>1 DEF Front
  <1>4. VmPop(s).stack = Front(s.stack) /\ VmPop(s).lost = s.lost
    BY <1>2 DEF VmStates
  <1> QED BY <1>3, <1>4, VmPopType

(* What one primitive does to the bus and to the depth of the stack.       *)
LEMMA LoadStep ==
    ASSUME NEW s \in VmStates
    PROVE  /\ load_reg_prim(s).bus = BusRead(s.bus, VmTop(s))
           /\ s.stack # <<>> /\ ~s.lost /\ Len(s.stack) <= VM_STACK_SIZE =>
                 /\ ~load_reg_prim(s).lost
                 /\ load_reg_prim(s).bus.fault \/ Len(load_reg_prim(s).stack) = Len(s.stack)
  <1> DEFINE a == VmTop(s)
             b == BusRead(s.bus, a)
             pop == VmPop(s)
             popped == [pop EXCEPT !.bus = b]
             v == s.bus.mem[a]
  <1>1. s.bus \in Buses /\ pop \in VmStates /\ pop.bus = s.bus /\ s.stack \in Seq(Values)
    BY VmPopType, VmFields
  <1>2. b \in Buses /\ (~b.fault => a \in Values)
    BY <1>1, BusReadType
  <1>3. ~b.fault => v \in Values
    BY <1>1, <1>2 DEF Buses
  <1>4. load_reg_prim(s) = IF popped.bus.fault THEN popped ELSE VmPush(popped, v)
    BY <1>1 DEF load_reg_prim
  <1>5. s.stack # <<>> => Len(pop.stack) = Len(s.stack) - 1 /\ pop.lost = s.lost
    BY Popped
  <1> HIDE DEF a, b, pop, v
  <1>6. popped \in VmStates /\ popped.bus = b /\ popped.stack = pop.stack /\ popped.lost = pop.lost
    <2>1. popped \in VmStates
      BY <1>1, <1>2, VmFields
    <2> QED BY <1>1, <2>1 DEF VmStates
  <1> HIDE DEF popped
  <1>7. VmPush(popped, v).bus = b
    <2>1. popped \in [stack : Seq(Values), bus : Buses, lost : BOOLEAN]
      BY <1>6 DEF VmStates
    <2> QED BY <1>6, <2>1 DEF VmPush
  <1>8. load_reg_prim(s).bus = b
    BY <1>4, <1>6, <1>7
  <1>9. ASSUME s.stack # <<>>, ~s.lost, Len(s.stack) <= VM_STACK_SIZE
        PROVE  /\ ~load_reg_prim(s).lost
               /\ load_reg_prim(s).bus.fault \/ Len(load_reg_prim(s).stack) = Len(s.stack)
    <2>1. popped.stack \in Seq(Values) /\ Len(popped.stack) = Len(s.stack) - 1 /\ ~popped.lost
      BY <1>5, <1>6, <1>9, VmFields
    <2>2. CASE b.fault
      BY <1>4, <1>6, <2>1, <2>2
    <2>3. CASE ~b.fault
      <3>1. Len(s.stack) \in Nat /\ VM_STACK_SIZE \in Nat
        BY <1>1, StackAssumption
      <3>2. Len(popped.stack) < VM_STACK_SIZE
        BY <1>9, <2>1, <3>1
      <3>3. VmPush(popped, v).stack = Append(popped.stack, v) /\ VmPush(popped, v).lost = popped.lost
        BY <1>3, <1>6, <2>3, <3>2, Pushed
      <3>4. Len(Append(popped.stack, v)) = Len(s.stack)
        BY <2>1, <3>1
      <3>5. load_reg_prim(s) = VmPush(popped, v)
        BY <1>4, <1>6, <2>3
      <3> QED BY <2>1, <3>3, <3>4, <3>5
    <2> QED BY <2>2, <2>3
  <1> QED BY <1>8, <1>9 DEF a, b

LEMMA WriteStep ==
    ASSUME NEW s \in VmStates
    PROVE  /\ write_reg_prim(s).bus = BusWrite(s.bus, VmTop(VmPop(s)), VmTop(s))
           /\ Len(s.stack) > 1 /\ ~s.lost =>
                 ~write_reg_prim(s).lost /\ Len(write_reg_prim(s).stack) = Len(s.stack) - 2
  <1> DEFINE p == VmPop(s)
             q == VmPop(p)
             b == BusWrite(s.bus, VmTop(p), VmTop(s))
  <1>1. p \in VmStates /\ p.bus = s.bus /\ q \in VmStates /\ q.bus = s.bus
    BY VmPopType
  <1>2. write_reg_prim(s) = [q EXCEPT !.bus = b]
    BY <1>1 DEF write_reg_prim
  <1> HIDE DEF b
  <1>3. /\ [q EXCEPT !.bus = b].bus = b /\ [q EXCEPT !.bus = b].stack = q.stack
        /\ [q EXCEPT !.bus = b].lost = q.lost
    BY <1>1 DEF VmStates
  <1>4. ASSUME Len(s.stack) > 1, ~s.lost
        PROVE  ~q.lost /\ Len(q.stack) = Len(s.stack) - 2
    <2>1. s.stack \in Seq(Values) /\ p.stack \in Seq(Values)
      BY <1>1, VmFields
    <2>2. s.stack # <<>>
      BY <1>4, <2>1
    <2>3. Len(p.stack) = Len(s.stack) - 1 /\ ~p.lost
      BY <1>4, <2>2, Popped
    <2>4. p.stack # <<>>
      BY <1>4, <2>1, <2>3
    <2>5. Len(q.stack) = Len(p.stack) - 1 /\ q.lost = p.lost
      BY <1>1, <2>4, Popped
    <2> QED BY <2>1, <2>3, <2>5
  <1> QED BY <1>2, <1>3, <1>4 DEF b, p

LEMMA StepBus ==
    ASSUME NEW s \in VmStates, ~s.bus.fault, NEW prim \in Primitives
    PROVE  /\ prim.op = "lit" => VmStep(s, prim).bus = s.bus /\ VmStep(s, prim) = VmPush(s, prim.arg)
           /\ prim.op = "load_reg" => VmStep(s, prim).bus = BusRead(s.bus, VmTop(s))
           /\ prim.op = "write_reg" => VmStep(s, prim).bus = BusWrite(s.bus, VmTop(VmPop(s)), VmTop(s))
           /\ prim.op = "halt" => VmStep(s, prim) = s
  <1>1. VmPush(s, prim.arg).bus = s.bus
    BY DEF VmPush, VmStates
  <1>2. prim.op = "lit" => VmStep(s, prim) = VmPush(s, prim.arg)
    BY DEF VmStep
  <1>3. prim.op = "load_reg" => VmStep(s, prim) = load_reg_prim(s)
    BY DEF VmStep
  <1>4. prim.op = "write_reg" => VmStep(s, prim) = write_reg_prim(s)
    BY DEF VmStep
  <1>5. prim.op = "halt" => VmStep(s, prim) = s
    BY DEF VmStep
  <1> QED BY <1>1, <1>2, <1>3, <1>4, <1>5, LoadStep, WriteStep

LEMMA StepDepth ==
    ASSUME NEW s \in VmStates, NEW prim \in Primitives, ~s.lost,
           NEW depth \in 0 .. VM_STACK_SIZE,
           s.bus.fault \/ Len(s.stack) = depth, FindsOperands(prim.op, depth)
    PROVE  /\ ~VmStep(s, prim).lost
           /\ VmStep(s, prim).bus.fault \/ Len(VmStep(s, prim).stack) = DepthAfter(prim.op, depth)
  <1>1. prim.op \in {"lit", "load_reg", "write_reg", "halt"} /\ prim.arg \in Values
    BY PrimitiveFields
  <1>2. s.stack \in Seq(Values) /\ depth \in Nat /\ VM_STACK_SIZE \in Nat /\ depth <= VM_STACK_SIZE
    <2>1. s.stack \in Seq(Values)
      BY VmFields
    <2>2. depth \in Nat /\ depth <= VM_STACK_SIZE
      BY StackAssumption
    <2> QED BY <2>1, <2>2, StackAssumption
  <1>3. CASE s.bus.fault
    <2>1. VmStep(s, prim) = s
      BY <1>3 DEF VmStep
    <2> QED BY <1>3, <2>1
  <1>4. CASE ~s.bus.fault
    <2>0. Len(s.stack) = depth
      BY <1>4
    <2>1. CASE prim.op = "lit"
      <3>1. Len(s.stack) < VM_STACK_SIZE
        BY <2>0, <2>1 DEF FindsOperands
      <3>2. VmStep(s, prim) = VmPush(s, prim.arg)
        BY <1>4, <2>1, StepBus
      <3>3. VmStep(s, prim).stack = Append(s.stack, prim.arg) /\ VmStep(s, prim).lost = s.lost
        BY <1>1, <3>1, <3>2, Pushed
      <3>4. Len(Append(s.stack, prim.arg)) = depth + 1
        BY <1>2, <2>0
      <3> QED BY <2>1, <3>3, <3>4 DEF DepthAfter
    <2>2. CASE prim.op = "load_reg"
      <3>1. VmStep(s, prim) = load_reg_prim(s)
        BY <1>4, <2>2 DEF VmStep
      <3>2. s.stack # <<>> /\ Len(s.stack) <= VM_STACK_SIZE
        BY <1>2, <2>0, <2>2 DEF FindsOperands
      <3>3. DepthAfter(prim.op, depth) = depth
        BY <2>2 DEF DepthAfter
      <3> QED BY <2>0, <3>1, <3>2, <3>3, LoadStep
    <2>3. CASE prim.op = "write_reg"
      <3>1. VmStep(s, prim) = write_reg_prim(s)
        BY <1>4, <2>3 DEF VmStep
      <3>2. Len(s.stack) > 1
        BY <1>2, <2>0, <2>3 DEF FindsOperands
      <3>3. DepthAfter(prim.op, depth) = depth - 2
        BY <2>3 DEF DepthAfter
      <3> QED BY <2>0, <3>1, <3>2, <3>3, WriteStep
    <2>4. CASE prim.op = "halt"
      <3>1. VmStep(s, prim) = s
        BY <1>4, <2>4, StepBus
      <3> QED BY <2>0, <2>4, <3>1 DEF DepthAfter
    <2> QED BY <1>1, <2>1, <2>2, <2>3, <2>4
  <1> QED BY <1>3, <1>4

LEMMA RunDepth ==
    ASSUME NEW code \in Seq(Primitives), NEW mem \in [Values -> Values], StackFits(code)
    PROVE  \A k \in 0 .. Len(code) :
              LET s == Run(code, mem)[k]
              IN  /\ ~s.lost
                  /\ k < Len(code) => s.bus.fault \/ (code[k + 1].op = "lit" => Len(s.stack) < VM_STACK_SIZE)
  <1> DEFINE n == Len(code)
             R == Run(code, mem)
  <1>1. PICK depth \in [0 .. n -> 0 .. VM_STACK_SIZE] :
            /\ depth[0] = 0
            /\ \A k \in 1 .. n : /\ FindsOperands(code[k].op, depth[k - 1])
                                 /\ depth[k] = DepthAfter(code[k].op, depth[k - 1])
    BY DEF StackFits
  <1>2. n \in Nat
    OBVIOUS
  <1> DEFINE Good(k) == ~R[k].lost /\ (R[k].bus.fault \/ Len(R[k].stack) = depth[k])
             S == {k \in 0 .. n : Good(k)}
  <1>3. 0 \in S
    <2>1. R[0] = VmReset(mem)
      BY RunIs DEF IsReference
    <2> QED BY <1>1, <1>2, <2>1 DEF VmReset
  <1>4. ASSUME NEW k \in 1 .. n, k - 1 \in S
        PROVE  k \in S
    <2> DEFINE s == R[k - 1]
               p == code[k]
               d == depth[k - 1]
    <2>1. s \in VmStates /\ R[k] = VmStep(s, p) /\ p \in Primitives
      BY RunAt
    <2>2. ~s.lost /\ (s.bus.fault \/ Len(s.stack) = d) /\ d \in 0 .. VM_STACK_SIZE
      BY <1>1, <1>4
    <2>3. FindsOperands(p.op, d) /\ depth[k] = DepthAfter(p.op, d)
      BY <1>1
    <2> HIDE DEF s, p, d, R
    <2>4. /\ ~VmStep(s, p).lost
          /\ VmStep(s, p).bus.fault \/ Len(VmStep(s, p).stack) = DepthAfter(p.op, d)
      BY <2>1, <2>2, <2>3, StepDepth
    <2> QED BY <2>1, <2>3, <2>4
  <1> HIDE DEF S
  <1>5. \A k \in 0 .. n : k \in S
    BY <1>2, <1>3, <1>4, UpTo
  <1>6. ASSUME NEW k \in 0 .. n, k < n
        PROVE  R[k].bus.fault \/ (code[k + 1].op = "lit" => Len(R[k].stack) < VM_STACK_SIZE)
    <2>1. k + 1 \in 1 .. n /\ (k + 1) - 1 = k
      OBVIOUS
    <2>2. FindsOperands(code[k + 1].op, depth[k])
      BY <1>1, <2>1
    <2>3. Good(k)
      BY <1>5 DEF S
    <2> HIDE DEF R
    <2> QED BY <2>2, <2>3 DEF FindsOperands
  <1>7. \A k \in 0 .. n : ~R[k].lost
    BY <1>5 DEF S
  <1> QED BY <1>6, <1>7

(* A stopped core stays stopped.                                           *)
LEMMA FaultStays ==
    ASSUME NEW code \in Seq(Primitives), NEW mem \in [Values -> Values],
           NEW k \in 0 .. Len(code), Run(code, mem)[k].bus.fault
    PROVE  Run(code, mem)[Len(code)] = Run(code, mem)[k]
  <1> DEFINE n == Len(code)
             R == Run(code, mem)
             S == {j \in 0 .. n : j < k \/ R[j] = R[k]}
  <1>1. n \in Nat /\ 0 \in S
    OBVIOUS
  <1>2. ASSUME NEW j \in 1 .. n, j - 1 \in S
        PROVE  j \in S
    <2>1. CASE j <= k
      BY <2>1
    <2>2. CASE j > k
      <3>1. R[j - 1] = R[k]
        BY <1>2, <2>2
      <3>2. R[j] = VmStep(R[j - 1], code[j])
        BY RunAt
      <3>3. R[j] = R[k]
        BY <3>1, <3>2 DEF VmStep
      <3> QED BY <3>3
    <2> QED BY <2>1, <2>2
  <1> HIDE DEF S
  <1>3. \A j \in 0 .. n : j \in S
    BY <1>1, <1>2, UpTo
  <1>4. n \in S
    BY <1>1, <1>3
  <1> QED BY <1>4 DEF S

(* A run that made no access left the bus alone.                           *)
LEMMA QuietRun ==
    ASSUME NEW code \in Seq(Primitives), NEW mem \in [Values -> Values], NEW m \in 0 .. Len(code)
    PROVE  LET b == Run(code, mem)[m].bus
           IN  b.fault \/ b.trace # <<>> \/ b = BusOn(mem)
  <1> DEFINE n == Len(code)
             R == Run(code, mem)
             Good(b) == b.fault \/ b.trace # <<>> \/ b = BusOn(mem)
             S == {j \in 0 .. n : Good(R[j].bus)}
  <1>1. n \in Nat /\ 0 \in S
    <2>1. R[0] = VmReset(mem)
      BY RunIs DEF IsReference
    <2> QED BY <2>1 DEF VmReset
  <1>2. ASSUME NEW j \in 1 .. n, j - 1 \in S
        PROVE  j \in S
    <2> DEFINE s == R[j - 1]
               p == code[j]
    <2>1. s \in VmStates /\ R[j] = VmStep(s, p) /\ p \in Primitives /\ Good(s.bus)
      BY <1>2, RunAt
    <2>2. s.bus \in Buses /\ p.op \in {"lit", "load_reg", "write_reg", "halt"}
      BY <2>1, VmFields, PrimitiveFields
    <2>3. s.bus.trace \in Seq(Accesses)
      BY <2>2 DEF Buses
    <2> HIDE DEF s, p, R
    <2>4. ASSUME NEW x \in Accesses
          PROVE  Append(s.bus.trace, x) # <<>>
      <3> HIDE DEF Accesses
      <3> DEFINE y == Append(s.bus.trace, x)
      <3>1. Len(y) = Len(s.bus.trace) + 1 /\ Len(s.bus.trace) \in Nat
        BY <2>3
      <3>2. Len(<<>>) = 0
        OBVIOUS
      <3> HIDE DEF y
      <3>3. Len(y) # 0
        BY <3>1
      <3>4. y # <<>>
        BY <3>2, <3>3
      <3> QED BY <3>4 DEF y
    <2>5. ASSUME NEW a
          PROVE  BusRead(s.bus, a).fault \/ BusRead(s.bus, a).trace # <<>>
      <3> DEFINE x == <<"read", a, s.bus.mem[a]>>
      <3>1. ~Faults(a) => x \in Accesses
        BY <2>2 DEF Faults, Buses, Accesses
      <3> HIDE DEF x
      <3>2. ~Faults(a) => Append(s.bus.trace, x) # <<>>
        BY <2>4, <3>1
      <3> QED BY <2>2, <3>2 DEF BusRead, Buses, x
    <2>6. ASSUME NEW a, NEW v \in Values
          PROVE  BusWrite(s.bus, a, v).fault \/ BusWrite(s.bus, a, v).trace # <<>>
      <3> DEFINE x == <<"write", a, v>>
      <3>1. ~Faults(a) => x \in Accesses
        BY DEF Faults, Accesses
      <3> HIDE DEF x
      <3>2. ~Faults(a) => Append(s.bus.trace, x) # <<>>
        BY <2>4, <3>1
      <3> QED BY <2>2, <3>2 DEF BusWrite, Buses, x
    <2>7. CASE s.bus.fault
      <3>1. VmStep(s, p) = s
        BY <2>7 DEF VmStep
      <3> QED BY <2>1, <2>7, <3>1
    <2>8. CASE ~s.bus.fault
      <3>1. \/ VmStep(s, p).bus = s.bus
            \/ VmStep(s, p).bus = BusRead(s.bus, VmTop(s))
            \/ VmStep(s, p).bus = BusWrite(s.bus, VmTop(VmPop(s)), VmTop(s))
        BY <2>1, <2>2, <2>8, StepBus
      <3>2. VmTop(s) \in Values
        BY <2>1, VmPopType
      <3>3. Good(VmStep(s, p).bus)
        BY <2>1, <2>5, <2>6, <3>1, <3>2
      <3> QED BY <2>1, <3>3
    <2> QED BY <2>7, <2>8
  <1> HIDE DEF S
  <1>3. m \in S
    BY <1>1, <1>2, UpTo
  <1> QED BY <1>3 DEF S
-----------------------------------------------------------------------------
(* The streams two registers suffice for.  A value is loaded right behind  *)
(* the literal that is its address; what is written comes right behind its *)
(* address and before any other access; only a literal yields a value.     *)
(* poke followed by peeks, and peeks alone, are of this form.  On RISC-V   *)
(* the constants must be those one ADDI loads.                             *)
RegistersSuffice(s) ==
    /\ \A k \in DOMAIN s.code :
          /\ s.code[k].op = "load_reg" => k > 1 /\ s.code[k - 1].op = "lit"
          /\ s.code[k].op = "write_reg" => k = 3 /\ s.code[1].op = "lit" /\ s.code[2].op = "lit"
          /\ s.code[k].op = "lit" /\ s.target = "riscv" => FitsAddi(s.code[k].arg)
    /\ s.yields_value => Len(s.code) = 2 /\ s.code[1].op = "lit"

Suits(s) == StackFits(s.code) /\ RegistersSuffice(s)

(* The registers hold what primitive k takes from the stack.               *)
Ready(s, R, k, regs) ==
    /\ s.code[k].op \in {"load_reg", "write_reg"} => regs["scratch"] = VmTop(R[k - 1])
    /\ s.code[k].op = "write_reg" => regs["acc"] = VmTop(VmPop(R[k - 1]))
    /\ k = 2 /\ 3 <= Len(s.code) /\ s.code[3].op = "write_reg" => regs["acc"] = VmTop(R[1])
    /\ s.code[k].op = "halt" /\ s.yields_value => regs["acc"] = VmTop(R[k - 1])

(* The lower half of a constant is loaded, the upper one is still to come. *)
Midway(t, instr, regs) ==
    (regs[instr.reg] \cap (0 .. 15)) \cup Shl(DecodeAt(t, Machine(t, instr), 3).imm, 16) = instr.imm

LEMMA SessionFacts ==
    ASSUME NEW s \in Sessions
    PROVE  /\ s.target \in Targets /\ s.yields_value \in BOOLEAN
           /\ s.code \in Seq(Primitives) /\ Len(s.code) \in Nat \ {0}
           /\ \A k \in 1 .. Len(s.code) : s.code[k].op = "halt" <=> k = Len(s.code)
  <1>1. /\ s.target \in {"arm", "riscv"} /\ s.yields_value \in BOOLEAN
        /\ s.code \in Seq(Primitives) /\ s.code # <<>>
        /\ \A k \in DOMAIN s.code : s.code[k].op = "halt" <=> k = Len(s.code)
    BY EngineAssumption
  <1>2. Len(s.code) \in Nat \ {0} /\ DOMAIN s.code = 1 .. Len(s.code)
    BY <1>1
  <1> QED BY <1>1, <1>2 DEF Targets

LEMMA MemoryType ==
    ASSUME NEW mem \in Memories
    PROVE  mem \in [Values -> Values]
  BY EngineAssumption

LEMMA LitDone ==
    ASSUME NEW s \in Sessions, Suits(s), NEW mem \in Memories,
           NEW j \in 1 .. Len(s.code), s.code[j].op = "lit", NEW instr \in Compiled(s.code, j),
           NEW regs \in [Registers -> Word],
           ~Run(s.code, mem)[j - 1].bus.fault, Ready(s, Run(s.code, mem), j, regs)
    PROVE  /\ j + 1 \in 1 .. Len(s.code)
           /\ Run(s.code, mem)[j].bus = Run(s.code, mem)[j - 1].bus
           /\ Ready(s, Run(s.code, mem), j + 1, [regs EXCEPT ![instr.reg] = instr.imm])
  <1> DEFINE code == s.code
             R == Run(code, mem)
             v == code[j].arg
             regs2 == [regs EXCEPT ![instr.reg] = instr.imm]
  <1>1. /\ code \in Seq(Primitives) /\ Len(code) \in Nat
        /\ \A k \in 1 .. Len(code) : code[k].op = "halt" <=> k = Len(code)
    BY SessionFacts
  <1>2. j + 1 \in 1 .. Len(code)
    BY <1>1
  <1>3. R[j - 1] \in VmStates /\ R[j] = VmStep(R[j - 1], code[j]) /\ code[j] \in Primitives
        /\ mem \in [Values -> Values]
    BY <1>1, RunAt, MemoryType
  <1>4. v \in Values
    BY <1>3, PrimitiveFields
  <1>5. R[j].bus = R[j - 1].bus /\ R[j] = VmPush(R[j - 1], v)
    BY <1>3, StepBus
  <1>6. Len(R[j - 1].stack) < VM_STACK_SIZE
    <2>1. j - 1 \in 0 .. Len(code) /\ j - 1 < Len(code) /\ (j - 1) + 1 = j
      BY <1>1
    <2>2. StackFits(code)
      BY DEF Suits
    <2> QED BY <1>1, <1>3, <2>1, <2>2, RunDepth
  <1>7. VmTop(R[j]) = v /\ VmTop(VmPop(R[j])) = VmTop(R[j - 1])
    BY <1>3, <1>4, <1>5, <1>6, Pushed
  <1>8. PICK r \in {"acc", "scratch"} :
            /\ instr = MovImm(r, v)
            /\ Addresses(code, j) => r = "scratch"
            /\ j = 1 /\ ~Addresses(code, j) => r = "acc"
    BY DEF Compiled
  <1>9. instr.reg = r /\ instr.imm = v
    BY <1>8 DEF MovImm
  <1>10. /\ regs2[r] = v
         /\ r = "scratch" => regs2["acc"] = regs["acc"]
    BY <1>9 DEF Registers
  <1>11. /\ code[j + 1].op = "load_reg" => j + 1 > 1 /\ code[j].op = "lit"
         /\ code[j + 1].op = "write_reg" => j + 1 = 3 /\ code[1].op = "lit" /\ code[2].op = "lit"
         /\ s.yields_value => Len(code) = 2 /\ code[1].op = "lit"
    <2>1. j + 1 \in DOMAIN code /\ (j + 1) - 1 = j
      BY <1>1, <1>2
    <2> QED BY <2>1 DEF Suits, RegistersSuffice
  <1> HIDE DEF R, v, regs2
  <1>12. Ready(s, R, j + 1, regs2)
    <2>0. (j + 1) - 1 = j
      OBVIOUS
    <2>1. ASSUME code[j + 1].op \in {"load_reg", "write_reg"}
          PROVE  regs2["scratch"] = VmTop(R[j]) /\ r = "scratch"
      <3>1. Addresses(code, j)
        BY <1>1, <1>2, <2>1 DEF Addresses
      <3> QED BY <1>7, <1>8, <1>10, <3>1
    <2>2. ASSUME code[j + 1].op = "write_reg"
          PROVE  regs2["acc"] = VmTop(VmPop(R[j]))
      <3>1. j = 2 /\ 3 <= Len(code) /\ code[3].op = "write_reg"
        BY <1>1, <1>2, <1>11, <2>2
      <3>2. regs["acc"] = VmTop(R[1])
        BY <3>1 DEF Ready, R
      <3> QED BY <1>7, <1>10, <2>1, <2>2, <3>1, <3>2
    <2>3. ASSUME j + 1 = 2, 3 <= Len(code), code[3].op = "write_reg"
          PROVE  regs2["acc"] = VmTop(R[1])
      <3>1. j = 1 /\ 3 \in DOMAIN code
        BY <1>1, <2>3
      <3>2. code[2].op = "lit"
        BY <2>3, <3>1 DEF Suits, RegistersSuffice
      <3>3. ~Addresses(code, j)
        BY <3>1, <3>2 DEF Addresses
      <3> QED BY <1>7, <1>8, <1>10, <3>1, <3>3
    <2>4. ASSUME code[j + 1].op = "halt", s.yields_value
          PROVE  regs2["acc"] = VmTop(R[j])
      <3>1. j = 1
        BY <1>1, <1>2, <1>11, <2>4
      <3>2. ~Addresses(code, j)
        BY <2>4 DEF Addresses
      <3> QED BY <1>7, <1>8, <1>10, <3>1, <3>2
    <2> QED BY <2>0, <2>1, <2>2, <2>3, <2>4 DEF Ready
  <1> QED BY <1>2, <1>5, <1>12 DEF R, regs2

LEMMA AccessDone ==
    ASSUME NEW s \in Sessions, Suits(s), NEW mem \in Memories,
           NEW j \in 1 .. Len(s.code), s.code[j].op \in {"load_reg", "write_reg"},
           NEW regs, ~Run(s.code, mem)[j - 1].bus.fault, Ready(s, Run(s.code, mem), j, regs)
    PROVE  LET R == Run(s.code, mem)
           IN  /\ j + 1 \in 1 .. Len(s.code)
               /\ s.code[j].op = "load_reg" => R[j].bus = BusRead(R[j - 1].bus, regs["scratch"])
               /\ s.code[j].op = "write_reg" =>
                     R[j].bus = BusWrite(R[j - 1].bus, regs["acc"], regs["scratch"])
               /\ \A regs2 : Ready(s, R, j + 1, regs2)
  <1> DEFINE code == s.code
             R == Run(code, mem)
  <1>1. /\ code \in Seq(Primitives) /\ Len(code) \in Nat
        /\ \A k \in 1 .. Len(code) : code[k].op = "halt" <=> k = Len(code)
    BY SessionFacts
  <1>2. j + 1 \in 1 .. Len(code)
    BY <1>1
  <1>3. R[j - 1] \in VmStates /\ R[j] = VmStep(R[j - 1], code[j]) /\ code[j] \in Primitives
    BY <1>1, RunAt, MemoryType
  <1>4. code[j].op = "load_reg" => R[j].bus = BusRead(R[j - 1].bus, regs["scratch"])
    BY <1>3, StepBus DEF Ready
  <1>5. code[j].op = "write_reg" => R[j].bus = BusWrite(R[j - 1].bus, regs["acc"], regs["scratch"])
    BY <1>3, StepBus DEF Ready
  <1>6. /\ code[j].op = "load_reg" => j > 1 /\ code[j - 1].op = "lit"
        /\ code[j].op = "write_reg" => j = 3 /\ code[1].op = "lit" /\ code[2].op = "lit"
        /\ code[j + 1].op = "load_reg" => code[j].op = "lit"
        /\ code[j + 1].op = "write_reg" => j + 1 = 3 /\ code[2].op = "lit"
        /\ s.yields_value => Len(code) = 2 /\ code[1].op = "lit"
    <2>1. j \in DOMAIN code /\ j + 1 \in DOMAIN code /\ (j + 1) - 1 = j
      BY <1>1, <1>2
    <2> QED BY <2>1 DEF Suits, RegistersSuffice
  <1> HIDE DEF R
  <1>7. code[j + 1].op \notin {"load_reg", "write_reg"}
    BY <1>6
  <1>8. j # 1
    BY <1>6
  <1>9. ~(code[j + 1].op = "halt" /\ s.yields_value)
    BY <1>1, <1>2, <1>6, <1>8
  <1>10. \A regs2 : Ready(s, R, j + 1, regs2)
    BY <1>7, <1>8, <1>9 DEF Ready
  <1> QED BY <1>2, <1>4, <1>5, <1>10 DEF R

(* One unit of a constant's code: the register holds the constant, or its  *)
(* lower half is in place.                                                 *)
LEMMA MoveStep ==
    ASSUME program.target \in Targets, NEW instr \in MachineInstrs, instr.i = "mov",
           program.target = "riscv" => FitsAddi(instr.imm),
           NEW o \in Offsets(program.target, Machine(program.target, instr)),
           NEW c \in MachineStates, o # 0 => Midway(program.target, instr, c.regs)
    PROVE  LET t == program.target
               units == Machine(t, instr)
               d == DecodeAt(t, units, o + 1)
           IN  \/ /\ o + d.len = Len(units)
                  /\ Execute(c, d) = [c EXCEPT !.regs[instr.reg] = instr.imm]
               \/ /\ o + d.len # Len(units)
                  /\ \E v \in Word : /\ Execute(c, d) = [c EXCEPT !.regs[instr.reg] = v]
                                     /\ Midway(t, instr, Execute(c, d).regs)
  <1> DEFINE t == program.target
             units == Machine(t, instr)
             r == instr.reg
             v == instr.imm
             reg == RegNumber(t)[r]
             d == DecodeAt(t, units, o + 1)
  <1>1. r \in Registers /\ v \in Word
    BY InstrFields, EngineAssumption DEF LdrAcc, StrScratch, Ret, Registers
  <1>2. Decodes(t, instr)
    BY MachineDecodes
  <1>3. \A w \in Word : \A len :
           /\ Execute(c, Decoded("mov", reg, {}, w, len)) = [c EXCEPT !.regs[r] = w]
           /\ Execute(c, Decoded("movt", reg, {}, w, len))
                 = [c EXCEPT !.regs[r] = (c.regs[r] \cap (0 .. 15)) \cup Shl(w, 16)]
           /\ t = "riscv" => Execute(c, Decoded("addi", reg, {}, w, len)) = [c EXCEPT !.regs[r] = w]
    BY <1>1, ExecuteMoves
  <1>4. CASE t = "riscv"
    <2>1. Len(units) = 1 /\ DecodeAt(t, units, 1) = Decoded("addi", reg, {}, v, 1)
      BY <1>2, <1>4 DEF Decodes
    <2>2. o \in 0 .. Len(units) - 1
      BY <1>4 DEF Offsets
    <2> HIDE DEF units, reg, v, r
    <2>3. o = 0 /\ o + 1 = 1
      BY <2>1, <2>2
    <2>4. d = Decoded("addi", reg, {}, v, 1)
      BY <2>1, <2>3
    <2>5. d.len = 1
      BY <2>4, DecodedFields
    <2>6. Execute(c, d) = [c EXCEPT !.regs[r] = v]
      BY <1>1, <1>3, <1>4, <2>4
    <2>7. o + d.len = Len(units)
      BY <2>1, <2>3, <2>5
    <2> HIDE DEF d
    <2> QED BY <2>6, <2>7 DEF d, units, r, v
  <1>5. CASE t = "arm"
    <2>1. ThumbLoads(units, reg, v)
      BY <1>2, <1>5 DEF Decodes
    <2>2. o \in {0, 2} /\ o < Len(units)
      BY <1>5 DEF Offsets
    <2>3. \A k : DecodeAt(t, units, k) = ThumbDecode(units, k)
      BY <1>5 DEF DecodeAt
    <2> HIDE DEF units, reg, v, r
    <2>4. ASSUME NEW len \in {1, 2}, Len(units) = len,
                 ThumbDecode(units, 1) = Decoded("mov", reg, {}, v, len)
          PROVE  o + d.len = Len(units) /\ Execute(c, d) = [c EXCEPT !.regs[r] = v]
      <3>1. o = 0 /\ o + 1 = 1
        BY <2>2, <2>4
      <3>2. d = Decoded("mov", reg, {}, v, len)
        BY <2>3, <2>4, <3>1
      <3>3. d.len = len
        BY <3>2, DecodedFields
      <3> QED BY <1>1, <1>3, <2>4, <3>1, <3>2, <3>3
    <2>5. ASSUME NEW low \in SUBSET (0 .. 15), NEW high \in SUBSET (0 .. 15), Len(units) = 4,
                 ThumbDecode(units, 1) = Decoded("mov", reg, {}, low, 2),
                 ThumbDecode(units, 3) = Decoded("movt", reg, {}, high, 2),
                 (low \cap (0 .. 15)) \cup Shl(high, 16) = v
          PROVE  \/ o + d.len = Len(units) /\ Execute(c, d) = [c EXCEPT !.regs[r] = v]
                 \/ /\ o + d.len # Len(units)
                    /\ \E w \in Word : /\ Execute(c, d) = [c EXCEPT !.regs[r] = w]
                                       /\ Midway(t, instr, Execute(c, d).regs)
      <3>1. low \in Word /\ high \in Word
        <4>1. \A b \in 0 .. 15 : b \in 0 .. 31
          OBVIOUS
        <4> QED BY <4>1 DEF Word
      <3>2. DecodeAt(t, units, 3).imm = high
        BY <2>3, <2>5, DecodedFields
      <3>3. \A q : Midway(t, instr, q) <=> (q[r] \cap (0 .. 15)) \cup Shl(high, 16) = v
        BY <3>2 DEF Midway, units, r, v
      <3>4. CASE o = 0
        <4>1. o + 1 = 1
          BY <3>4
        <4>2. d = Decoded("mov", reg, {}, low, 2)
          BY <2>3, <2>5, <4>1
        <4>3. d.len = 2 /\ o + d.len # Len(units)
          BY <2>5, <3>4, <4>2, DecodedFields
        <4>4. Execute(c, d) = [c EXCEPT !.regs[r] = low]
          BY <1>3, <3>1, <4>2
        <4>5. Execute(c, d).regs[r] = low
          <5>1. c \in [regs : [Registers -> Word], bus : RawBuses, returned : BOOLEAN]
            BY DEF MachineStates
          <5>2. [c EXCEPT !.regs[r] = low].regs[r] = low
            BY <1>1, <5>1
          <5> QED BY <4>4, <5>2
        <4>6. Midway(t, instr, Execute(c, d).regs)
          BY <2>5, <3>3, <4>5
        <4> HIDE DEF d
        <4> QED BY <3>1, <4>3, <4>4, <4>6
      <3>5. CASE o = 2
        <4>1. o + 1 = 3
          BY <3>5
        <4>2. d = Decoded("movt", reg, {}, high, 2)
          BY <2>3, <2>5, <4>1
        <4>3. d.len = 2 /\ o + d.len = Len(units)
          BY <2>5, <3>5, <4>2, DecodedFields
        <4>4. Execute(c, d) = [c EXCEPT !.regs[r] = (c.regs[r] \cap (0 .. 15)) \cup Shl(high, 16)]
          <5>1. \A w \in Word : \A len :
                   Execute(c, Decoded("movt", reg, {}, w, len))
                      = [c EXCEPT !.regs[r] = (c.regs[r] \cap (0 .. 15)) \cup Shl(w, 16)]
            BY <1>3
          <5> QED BY <3>1, <4>2, <5>1
        <4>5. (c.regs[r] \cap (0 .. 15)) \cup Shl(high, 16) = v
          BY <3>3, <3>5 DEF units, r, v
        <4> HIDE DEF d
        <4> QED BY <4>3, <4>4, <4>5
      <3> QED BY <2>2, <3>4, <3>5
    <2>6. \/ \E len \in {1, 2} : Len(units) = len /\ ThumbDecode(units, 1) = Decoded("mov", reg, {}, v, len)
          \/ \E low, high \in SUBSET (0 .. 15) :
                /\ Len(units) = 4
                /\ ThumbDecode(units, 1) = Decoded("mov", reg, {}, low, 2)
                /\ ThumbDecode(units, 3) = Decoded("movt", reg, {}, high, 2)
                /\ (low \cap (0 .. 15)) \cup Shl(high, 16) = v
      BY <2>1 DEF ThumbLoads
    <2>7. \/ o + d.len = Len(units) /\ Execute(c, d) = [c EXCEPT !.regs[r] = v]
          \/ /\ o + d.len # Len(units)
             /\ \E w \in Word : /\ Execute(c, d) = [c EXCEPT !.regs[r] = w]
                                /\ Midway(t, instr, Execute(c, d).regs)
      <3> HIDE DEF d
      <3>1. CASE \E len \in {1, 2} : Len(units) = len /\ ThumbDecode(units, 1) = Decoded("mov", reg, {}, v, len)
        BY <2>4, <3>1
      <3>2. CASE \E low, high \in SUBSET (0 .. 15) :
                    /\ Len(units) = 4
                    /\ ThumbDecode(units, 1) = Decoded("mov", reg, {}, low, 2)
                    /\ ThumbDecode(units, 3) = Decoded("movt", reg, {}, high, 2)
                    /\ (low \cap (0 .. 15)) \cup Shl(high, 16) = v
        BY <2>5, <3>2
      <3> QED BY <2>6, <3>1, <3>2
    <2> HIDE DEF d
    <2> QED BY <2>7 DEF d, units, r, v
  <1> QED BY <1>4, <1>5 DEF Targets

(* A load, a store and the return, of the two registers.                   *)
AfterLoad(c) ==
    LET read == BusRead(c.bus, c.regs["scratch"])
    IN  IF read.fault THEN [c EXCEPT !.bus = read]
        ELSE [c EXCEPT !.bus = read, !.regs["acc"] = c.bus.mem[c.regs["scratch"]]]
AfterStore(c) == [c EXCEPT !.bus = BusWrite(c.bus, c.regs["acc"], c.regs["scratch"])]
AfterReturn(c) == [c EXCEPT !.returned = TRUE]

LEMMA OtherStep ==
    ASSUME program.target \in Targets, NEW instr \in MachineInstrs, instr.i # "mov",
           NEW o \in Offsets(program.target, Machine(program.target, instr)),
           NEW c \in MachineStates
    PROVE  LET units == Machine(program.target, instr)
               d == DecodeAt(program.target, units, o + 1)
           IN  /\ o + d.len = Len(units)
               /\ instr.i = "ldr" => Execute(c, d) = AfterLoad(c)
               /\ instr.i = "str" => Execute(c, d) = AfterStore(c)
               /\ instr.i = "ret" => Execute(c, d) = AfterReturn(c)
  <1> DEFINE t == program.target
             units == Machine(t, instr)
             d == DecodeAt(t, units, o + 1)
             acc == RegNumber(t)["acc"]
             scratch == RegNumber(t)["scratch"]
  <1>1. Decodes(t, instr)
    BY MachineDecodes
  <1>2. instr.i \in {"ldr", "str", "ret"}
    BY InstrFields DEF LdrAcc, StrScratch, Ret
  <1>3. Len(units) = 1
    BY <1>1, <1>2 DEF Decodes
  <1>4. o \in 0 .. Len(units) - 1 \/ (o \in {0, 2} /\ o < Len(units))
    BY DEF Offsets
  <1>5. /\ instr.i = "ldr" => DecodeAt(t, units, 1) = Decoded("load", acc, scratch, {}, 1)
        /\ instr.i = "str" => DecodeAt(t, units, 1) = Decoded("store", scratch, acc, {}, 1)
        /\ instr.i = "ret" => DecodeAt(t, units, 1) = Decoded("ret", {}, {}, {}, 1)
    BY <1>1 DEF Decodes
  <1>10. /\ Execute(c, Decoded("load", acc, scratch, {}, 1)) = AfterLoad(c)
         /\ Execute(c, Decoded("store", scratch, acc, {}, 1)) = AfterStore(c)
         /\ Execute(c, Decoded("ret", {}, {}, {}, 1)) = AfterReturn(c)
    BY ExecuteAccesses DEF AfterLoad, AfterStore, AfterReturn
  <1> HIDE DEF units, acc, scratch
  <1>6. o = 0 /\ o + 1 = 1
    BY <1>3, <1>4
  <1>7. /\ instr.i = "ldr" => d = Decoded("load", acc, scratch, {}, 1)
        /\ instr.i = "str" => d = Decoded("store", scratch, acc, {}, 1)
        /\ instr.i = "ret" => d = Decoded("ret", {}, {}, {}, 1)
    BY <1>5, <1>6
  <1>8. d.len = 1
    BY <1>2, <1>7, DecodedFields
  <1>9. o + d.len = Len(units)
    BY <1>3, <1>6, <1>8
  <1>11. /\ instr.i = "ldr" => Execute(c, d) = AfterLoad(c)
         /\ instr.i = "str" => Execute(c, d) = AfterStore(c)
         /\ instr.i = "ret" => Execute(c, d) = AfterReturn(c)
    BY <1>7, <1>10
  <1> HIDE DEF d
  <1> QED BY <1>9, <1>11 DEF d, units
-----------------------------------------------------------------------------
(* A step of the processor keeps up with the interpreter.                  *)

LEMMA MachineUpdates ==
    ASSUME NEW c \in MachineStates
    PROVE  /\ \A r \in Registers : \A v :
                 LET e == [c EXCEPT !.regs[r] = v]
                 IN  /\ e.bus = c.bus /\ e.returned = c.returned
                     /\ e.regs = [c.regs EXCEPT ![r] = v]
           /\ AfterLoad(c).bus = BusRead(c.bus, c.regs["scratch"]) /\ AfterLoad(c).returned = c.returned
           /\ AfterStore(c).bus = BusWrite(c.bus, c.regs["acc"], c.regs["scratch"])
           /\ AfterStore(c).returned = c.returned
           /\ AfterReturn(c).bus = c.bus /\ AfterReturn(c).returned /\ AfterReturn(c).regs = c.regs
  <1>1. \A r \in Registers : \A v :
           LET e == [c EXCEPT !.regs[r] = v]
           IN  e.bus = c.bus /\ e.returned = c.returned /\ e.regs = [c.regs EXCEPT ![r] = v]
    BY DEF MachineStates
  <1>2. AfterLoad(c).bus = BusRead(c.bus, c.regs["scratch"]) /\ AfterLoad(c).returned = c.returned
    BY DEF MachineStates, AfterLoad
  <1>3. /\ AfterStore(c).bus = BusWrite(c.bus, c.regs["acc"], c.regs["scratch"])
        /\ AfterStore(c).returned = c.returned
    BY DEF MachineStates, AfterStore
  <1>4. AfterReturn(c).bus = c.bus /\ AfterReturn(c).returned /\ AfterReturn(c).regs = c.regs
    BY DEF MachineStates, AfterReturn
  <1> QED BY <1>1, <1>2, <1>3, <1>4

(* Register file and bus are where the interpreter is before primitive j,  *)
(* o units into the code of that primitive.                                *)
Follows(instr, j, o, c) ==
    LET R == Run(program.code, mem0)
    IN  /\ c.bus = R[j - 1].bus
        /\ Ready(program, R, j, c.regs)
        /\ o # 0 => Midway(program.target, instr, c.regs)

(* What a step leaves behind, o units into the instruction's length.       *)
KeepsUp(instr, j, o, e, length) ==
    LET R == Run(program.code, mem0)
        n == Len(program.code)
    IN  /\ e.bus.fault => e.bus = R[n].bus
        /\ e.returned => /\ j = n /\ e.bus = R[n].bus
                         /\ program.yields_value => e.regs["acc"] = VmTop(R[n])
        /\ ~e.bus.fault /\ ~e.returned =>
              IF o = length THEN \A i : Follows(i, j + 1, 0, e) ELSE Follows(instr, j, o, e)

LEMMA MoveKeepsUp ==
    ASSUME program \in Sessions, Suits(program), mem0 \in Memories,
           NEW j \in 1 .. Len(program.code), program.code[j].op = "lit",
           NEW instr \in Compiled(program.code, j),
           NEW o \in Offsets(program.target, Machine(program.target, instr)),
           NEW c \in MachineStates, ~c.bus.fault, ~c.returned, Follows(instr, j, o, c)
    PROVE  LET units == Machine(program.target, instr)
               d == DecodeAt(program.target, units, o + 1)
           IN  KeepsUp(instr, j, o + d.len, Execute(c, d), Len(units))
  <1> DEFINE t == program.target
             code == program.code
             R == Run(code, mem0)
             units == Machine(t, instr)
             d == DecodeAt(t, units, o + 1)
             e == Execute(c, d)
             r == instr.reg
             v == instr.imm
  <1>1. /\ t \in Targets /\ code \in Seq(Primitives) /\ Len(code) \in Nat
        /\ \A k \in 1 .. Len(code) : code[k].op = "halt" <=> k = Len(code)
    BY SessionFacts
  <1>2. instr \in MachineInstrs
    BY DEF Compiled
  <1>3. PICK q \in {"acc", "scratch"} :
            instr = MovImm(q, code[j].arg) /\ (Addresses(code, j) => q = "scratch")
    BY DEF Compiled
  <1>4. instr.i = "mov" /\ r = q /\ v = code[j].arg /\ r \in Registers
    BY <1>3 DEF MovImm, Registers
  <1>5. t = "riscv" => FitsAddi(v)
    <2>1. j \in DOMAIN code
      BY <1>1
    <2> QED BY <1>4, <2>1 DEF Suits, RegistersSuffice
  <1>6. /\ c.bus = R[j - 1].bus /\ Ready(program, R, j, c.regs)
        /\ o # 0 => Midway(t, instr, c.regs)
    BY DEF Follows
  <1>7. /\ \A w : LET m == [c EXCEPT !.regs[r] = w]
                  IN  m.bus = c.bus /\ m.returned = c.returned /\ m.regs = [c.regs EXCEPT ![r] = w]
        /\ c.regs \in [Registers -> Word]
    <2>1. \A q2 \in Registers : \A w :
             LET m == [c EXCEPT !.regs[q2] = w]
             IN  m.bus = c.bus /\ m.returned = c.returned /\ m.regs = [c.regs EXCEPT ![q2] = w]
      BY MachineUpdates
    <2>2. c.regs \in [Registers -> Word]
      BY MachineFields
    <2> HIDE DEF r
    <2> QED BY <1>4, <2>1, <2>2
  <1>8. \/ o + d.len = Len(units) /\ e = [c EXCEPT !.regs[r] = v]
        \/ /\ o + d.len # Len(units)
           /\ \E w \in Word : e = [c EXCEPT !.regs[r] = w] /\ Midway(t, instr, e.regs)
    BY <1>1, <1>2, <1>4, <1>5, <1>6, MoveStep
  <1>9. ASSUME o + d.len = Len(units), e = [c EXCEPT !.regs[r] = v]
        PROVE  KeepsUp(instr, j, o + d.len, e, Len(units))
    <2>1. e.bus = c.bus /\ e.returned = c.returned /\ e.regs = [c.regs EXCEPT ![r] = v]
      BY <1>7, <1>9
    <2>2. R[j].bus = R[j - 1].bus /\ Ready(program, R, j + 1, [c.regs EXCEPT ![r] = v])
      BY <1>6, <1>7, LitDone
    <2> HIDE DEF e, d, units, R
    <2>3. (j + 1) - 1 = j
      OBVIOUS
    <2>4. \A i : Follows(i, j + 1, 0, e)
      BY <1>6, <2>1, <2>2, <2>3 DEF Follows, R
    <2> QED BY <1>9, <2>1, <2>4 DEF KeepsUp
  <1>10. ASSUME o + d.len # Len(units), NEW w \in Word, e = [c EXCEPT !.regs[r] = w],
                Midway(t, instr, e.regs)
         PROVE  KeepsUp(instr, j, o + d.len, e, Len(units))
    <2>1. e.bus = c.bus /\ e.returned = c.returned /\ e.regs = [c.regs EXCEPT ![r] = w]
      BY <1>7, <1>10
    <2> HIDE DEF e, d, units, R
    <2>2. j = 2 /\ 3 <= Len(code) /\ code[3].op = "write_reg" => e.regs["acc"] = c.regs["acc"]
      <3>1. j = 2 /\ 3 <= Len(code) /\ code[3].op = "write_reg" => Addresses(code, j)
        BY <1>1 DEF Addresses
      <3>2. r = "scratch" => e.regs["acc"] = c.regs["acc"]
        BY <1>7, <2>1 DEF Registers
      <3> QED BY <1>3, <1>4, <3>1, <3>2
    <2>3. Ready(program, R, j, e.regs)
      BY <1>6, <2>2 DEF Ready
    <2>4. Follows(instr, j, o + d.len, e)
      BY <1>6, <1>10, <2>1, <2>3 DEF Follows, R
    <2> QED BY <1>10, <2>1, <2>4 DEF KeepsUp
  <1> HIDE DEF e, d, units
  <1>11. KeepsUp(instr, j, o + d.len, e, Len(units))
    BY <1>8, <1>9, <1>10
  <1> QED BY <1>11 DEF e, d, units

LEMMA AccessKeepsUp ==
    ASSUME program \in Sessions, Suits(program), mem0 \in Memories,
           NEW j \in 1 .. Len(program.code), program.code[j].op \in {"load_reg", "write_reg"},
           NEW instr \in Compiled(program.code, j),
           NEW o \in Offsets(program.target, Machine(program.target, instr)),
           NEW c \in MachineStates, ~c.bus.fault, ~c.returned, Follows(instr, j, o, c)
    PROVE  LET units == Machine(program.target, instr)
               d == DecodeAt(program.target, units, o + 1)
           IN  KeepsUp(instr, j, o + d.len, Execute(c, d), Len(units))
  <1> DEFINE t == program.target
             code == program.code
             R == Run(code, mem0)
             units == Machine(t, instr)
             d == DecodeAt(t, units, o + 1)
             e == Execute(c, d)
  <1>1. t \in Targets /\ code \in Seq(Primitives) /\ mem0 \in [Values -> Values]
    BY SessionFacts, MemoryType
  <1>2. instr \in MachineInstrs
    BY DEF Compiled
  <1>3. /\ code[j].op = "load_reg" => instr.i = "ldr"
        /\ code[j].op = "write_reg" => instr.i = "str"
    BY DEF Compiled, LdrAcc, StrScratch
  <1>4. c.bus = R[j - 1].bus /\ Ready(program, R, j, c.regs)
    BY DEF Follows
  <1>5. instr.i # "mov"
    BY <1>3
  <1>6. /\ o + d.len = Len(units)
        /\ instr.i = "ldr" => e = AfterLoad(c)
        /\ instr.i = "str" => e = AfterStore(c)
    BY <1>1, <1>2, <1>5, OtherStep
  <1>7. /\ j + 1 \in 1 .. Len(code)
        /\ code[j].op = "load_reg" => R[j].bus = BusRead(R[j - 1].bus, c.regs["scratch"])
        /\ code[j].op = "write_reg" => R[j].bus = BusWrite(R[j - 1].bus, c.regs["acc"], c.regs["scratch"])
        /\ \A regs2 : Ready(program, R, j + 1, regs2)
    <2>1. ~R[j - 1].bus.fault
      BY <1>4
    <2> QED BY <1>4, <2>1, AccessDone
  <1> HIDE DEF e, d, units, R
  <1>8. e.bus = R[j].bus /\ ~e.returned
    <2>1. CASE code[j].op = "load_reg"
      BY <1>3, <1>4, <1>6, <1>7, <2>1, MachineUpdates
    <2>2. CASE code[j].op = "write_reg"
      BY <1>3, <1>4, <1>6, <1>7, <2>2, MachineUpdates
    <2> QED BY <2>1, <2>2
  <1>9. e.bus.fault => e.bus = R[Len(code)].bus
    <2>1. j \in 0 .. Len(code)
      BY <1>1
    <2>2. R[j].bus.fault => R[Len(code)] = R[j]
      BY <1>1, <2>1, FaultStays DEF R
    <2> QED BY <1>8, <2>2
  <1>10. \A i : Follows(i, j + 1, 0, e)
    <2>1. (j + 1) - 1 = j
      OBVIOUS
    <2> QED BY <1>7, <1>8, <2>1 DEF Follows, R
  <1>11. KeepsUp(instr, j, o + d.len, e, Len(units))
    BY <1>6, <1>8, <1>9, <1>10 DEF KeepsUp, R
  <1> QED BY <1>11 DEF e, d, units

LEMMA ReturnKeepsUp ==
    ASSUME program \in Sessions, mem0 \in Memories,
           NEW j \in 1 .. Len(program.code), program.code[j].op = "halt",
           NEW instr \in Compiled(program.code, j),
           NEW o \in Offsets(program.target, Machine(program.target, instr)),
           NEW c \in MachineStates, ~c.bus.fault, ~c.returned, Follows(instr, j, o, c)
    PROVE  LET units == Machine(program.target, instr)
               d == DecodeAt(program.target, units, o + 1)
           IN  KeepsUp(instr, j, o + d.len, Execute(c, d), Len(units))
  <1> DEFINE t == program.target
             code == program.code
             R == Run(code, mem0)
             units == Machine(t, instr)
             d == DecodeAt(t, units, o + 1)
             e == Execute(c, d)
  <1>1. /\ t \in Targets /\ code \in Seq(Primitives) /\ mem0 \in [Values -> Values]
        /\ \A k \in 1 .. Len(code) : code[k].op = "halt" <=> k = Len(code)
    BY SessionFacts, MemoryType
  <1>2. j = Len(code)
    BY <1>1
  <1>3. instr \in MachineInstrs /\ instr.i = "ret"
    BY DEF Compiled, Ret
  <1>4. e = AfterReturn(c)
    <2>1. instr.i # "mov"
      BY <1>3
    <2> QED BY <1>1, <1>3, <2>1, OtherStep
  <1>5. e.bus = c.bus /\ e.returned /\ e.regs = c.regs
    BY <1>4, MachineUpdates
  <1>6. c.bus = R[j - 1].bus /\ Ready(program, R, j, c.regs)
    BY DEF Follows
  <1>7. R[j] = R[j - 1]
    <2>1. R[j - 1] \in VmStates /\ R[j] = VmStep(R[j - 1], code[j]) /\ code[j] \in Primitives
      BY <1>1, RunAt
    <2>2. ~R[j - 1].bus.fault
      BY <1>6
    <2> HIDE DEF R
    <2> QED BY <2>1, <2>2, StepBus
  <1> HIDE DEF e, d, units, R
  <1>8. program.yields_value => e.regs["acc"] = VmTop(R[j])
    BY <1>5, <1>6, <1>7 DEF Ready
  <1>9. e.bus = R[j].bus /\ ~e.bus.fault
    BY <1>5, <1>6, <1>7
  <1>10. KeepsUp(instr, j, o + d.len, e, Len(units))
    BY <1>2, <1>5, <1>8, <1>9 DEF KeepsUp, R
  <1> QED BY <1>10 DEF e, d, units

LEMMA StepKeepsUp ==
    ASSUME program \in Sessions, Suits(program), mem0 \in Memories,
           NEW j \in 1 .. Len(program.code), NEW instr \in Compiled(program.code, j),
           NEW o \in Offsets(program.target, Machine(program.target, instr)),
           NEW c \in MachineStates, ~c.bus.fault, ~c.returned, Follows(instr, j, o, c)
    PROVE  LET units == Machine(program.target, instr)
               d == DecodeAt(program.target, units, o + 1)
           IN  KeepsUp(instr, j, o + d.len, Execute(c, d), Len(units))
  <1>1. program.code[j] \in Primitives
    BY SessionFacts
  <1>2. program.code[j].op \in {"lit", "load_reg", "write_reg", "halt"}
    BY <1>1, PrimitiveFields
  <1> QED BY <1>2, MoveKeepsUp, AccessKeepsUp, ReturnKeepsUp
-----------------------------------------------------------------------------
(* The inductive invariant: what holds in each phase of run().             *)

Typed ==
    /\ program \in Sessions /\ mem0 \in Memories /\ phase \in Phases /\ ip \in Nat \ {0}
    /\ em \in EmittersOf(program.target) /\ cpu \in MachineStates

(* Neither engine has begun.                                               *)
CpuFresh == cpu.bus = BusOn(mem0) /\ ~cpu.returned
VmFresh == vm = VmReset(mem0)

Resetting == phase = "reset" => CpuFresh /\ VmFresh /\ em = NewEmitter /\ ip = 1

(* The primitives before ip are compiled, one after the other.             *)
Emitted(m) == \E instrs, starts : Layout(program.target, program.code, em.code, instrs, starts, m)

Emitting ==
    phase = "emit" =>
        /\ CpuFresh /\ VmFresh
        /\ ip \in 1 .. Len(program.code) /\ ~em.err
        /\ ip = 1 => ~em.acc_loaded
        /\ Emitted(ip - 1)

(* ip is o units into the code of primitive j.                             *)
At(instrs, starts, j, o) ==
    /\ Layout(program.target, program.code, em.code, instrs, starts, Len(program.code))
    /\ j \in 1 .. Len(program.code)
    /\ o \in Offsets(program.target, Machine(program.target, instrs[j]))
    /\ ip = starts[j] + o

Executing ==
    phase = "native" =>
        /\ VmFresh /\ ~cpu.bus.fault /\ ~cpu.returned
        /\ \E instrs, starts, j, o :
              /\ At(instrs, starts, j, o)
              /\ Suits(program) => Follows(instrs[j], j, o, cpu)

Interpreting ==
    phase = "threaded" =>
        /\ CpuFresh /\ ip \in 1 .. Len(program.code)
        /\ vm = Run(program.code, mem0)[ip - 1] /\ ~vm.bus.fault

(* The interpreter's last state, as bus and answer of a run that ended.    *)
EndsAs(bus) ==
    LET last == Run(program.code, mem0)[Len(program.code)]
    IN  /\ bus = last.bus
        /\ phase = "done" /\ program.yields_value => answer = <<VmTop(last)>>

Finished ==
    Ended => \/ CpuFresh /\ vm = Run(program.code, mem0)[Len(program.code)] /\ EndsAs(vm.bus)
             \/ VmFresh /\ (Suits(program) => EndsAs(cpu.bus))

StreamInv == Typed /\ Resetting /\ Emitting /\ Executing /\ Interpreting /\ Finished

LEMMA FreshStates ==
    ASSUME NEW mem \in Memories
    PROVE  /\ BusOn(mem) \in RawBuses /\ ~BusOn(mem).fault /\ BusOn(mem).trace = <<>>
           /\ VmReset(mem) \in VmStates /\ VmReset(mem).bus = BusOn(mem)
           /\ ~VmReset(mem).lost
  <1>1. mem \in [Values -> Values] /\ mem \in [Values -> Word]
    BY MemoryType, EngineAssumption
  <1>2. BusOn(mem) \in RawBuses
    BY <1>1 DEF BusOn, RawBuses
  <1>3. VmReset(mem) \in VmStates
    <2>1. BusOn(mem) \in Buses
      BY <1>1, BusOnType
    <2> HIDE DEF Buses
    <2>2. <<>> \in Seq(Values)
      OBVIOUS
    <2> QED BY <2>1, <2>2 DEF VmReset, VmStates
  <1> QED BY <1>2, <1>3 DEF BusOn, VmReset

LEMMA StreamInit == Init => StreamInv
  <1> SUFFICES ASSUME Init PROVE StreamInv
    OBVIOUS
  <1>1. /\ program \in Sessions /\ mem0 \in Memories /\ phase = "reset" /\ ip = 1
        /\ em = NewEmitter /\ vm = VmReset(mem0)
    BY DEF Init
  <1>2. PICK r \in Garbage :
            cpu = [regs |-> [acc |-> r, scratch |-> r], bus |-> BusOn(mem0), returned |-> FALSE]
    BY DEF Init
  <1>3. em \in EmittersOf(program.target)
    <2>1. NewEmitter.code \in Seq(Units(program.target)) /\ Len(NewEmitter.code) = 0
      BY DEF NewEmitter
    <2> QED BY <1>1, <2>1, StackAssumption DEF EmittersOf, NewEmitter
  <1>4. cpu \in MachineStates
    <2>1. r \in Word
      BY EngineAssumption
    <2>2. [acc |-> r, scratch |-> r] \in [Registers -> Word]
      BY <2>1 DEF Registers
    <2>3. BusOn(mem0) \in RawBuses
      BY <1>1, FreshStates
    <2> QED BY <1>2, <2>2, <2>3 DEF MachineStates
  <1>5. Typed
    BY <1>1, <1>3, <1>4 DEF Typed, Phases
  <1>6. Resetting
    BY <1>1, <1>2 DEF Resetting, CpuFresh, VmFresh
  <1> QED BY <1>1, <1>5, <1>6 DEF StreamInv, Emitting, Executing, Interpreting, Finished, Ended

LEMMA StartKeeps ==
    ASSUME StreamInv, Start
    PROVE  StreamInv'
  <1>1. Typed /\ CpuFresh /\ VmFresh /\ em = NewEmitter /\ ip = 1
    BY DEF StreamInv, Resetting, Start
  <1>2. vm' = VmReset(mem0) /\ UNCHANGED <<program, mem0, ip, em, cpu, answer>>
    BY DEF Start
  <1>3. program.code \in Seq(Primitives) /\ Len(program.code) \in Nat \ {0}
    BY <1>1, SessionFacts DEF Typed
  <1>4. phase' = "emit"
    <2>1. is_compilable(program.code)
      BY <1>3 DEF is_compilable
    <2> QED BY <2>1 DEF Start
  <1>5. Typed'
    BY <1>1, <1>2, <1>4 DEF Typed, Phases
  <1>6. Emitted(ip - 1)'
    <2> DEFINE one == [k \in {1} |-> 1]
    <2>1. em.code = <<>> /\ ip - 1 = 0
      BY <1>1 DEF NewEmitter
    <2>2. one[1] = 1
      OBVIOUS
    <2> HIDE DEF one
    <2>3. Layout(program.target, program.code, em.code, one, one, 0)
      BY <2>1, <2>2 DEF Layout
    <2> QED BY <1>2, <2>1, <2>3 DEF Emitted
  <1>7. Emitting'
    BY <1>1, <1>2, <1>3, <1>6 DEF Emitting, CpuFresh, VmFresh, NewEmitter
  <1> QED BY <1>4, <1>5, <1>7 DEF StreamInv, Resetting, Executing, Interpreting, Finished, Ended

LEMMA ReadyAtStart ==
    ASSUME NEW s \in Sessions, Suits(s), NEW R, NEW regs
    PROVE  Ready(s, R, 1, regs)
  <1>1. /\ s.code \in Seq(Primitives) /\ Len(s.code) \in Nat \ {0}
        /\ \A k \in 1 .. Len(s.code) : s.code[k].op = "halt" <=> k = Len(s.code)
    BY SessionFacts
  <1>2. s.code[1].op \notin {"load_reg", "write_reg"}
    <2>1. 1 \in DOMAIN s.code
      BY <1>1
    <2> QED BY <2>1 DEF Suits, RegistersSuffice
  <1>3. ~(s.code[1].op = "halt" /\ s.yields_value)
    <2>1. s.yields_value => Len(s.code) = 2
      BY DEF Suits, RegistersSuffice
    <2> QED BY <1>1, <2>1
  <1> QED BY <1>2, <1>3 DEF Ready

LEMMA AtItsStart ==
    ASSUME NEW t \in Targets, NEW code, NEW k, NEW instr \in Compiled(code, k)
    PROVE  0 \in Offsets(t, Machine(t, instr))
  <1>1. instr \in MachineInstrs
    BY DEF Compiled
  <1>2. Len(Machine(t, instr)) \in {1, 2, 4}
    BY <1>1, MachineDecodes
  <1> QED BY <1>2 DEF Offsets

(* One instruction more: either it does not fit, or the code is laid out   *)
(* for one primitive more.                                                 *)
LEMMA CompileGrows ==
    ASSUME Typed, Emitting, phase = "emit"
    PROVE  /\ EmitEnds <=> ip = Len(program.code)
           /\ EmitNext \in EmittersOf(program.target)
           /\ ~EmitNext.err =>
                 \E instrs, starts :
                    Layout(program.target, program.code, EmitNext.code, instrs, starts, ip)
  <1> DEFINE t == program.target
             code == program.code
             instr == IF EmitEnds THEN Ret ELSE Selected(em, code, ip)
             f == EmitMachine(em, instr)
             units == Machine(t, instr)
  <1>1. /\ t \in Targets /\ code \in Seq(Primitives) /\ Len(code) \in Nat \ {0}
        /\ \A k \in 1 .. Len(code) : code[k].op = "halt" <=> k = Len(code)
    BY SessionFacts DEF Typed
  <1>2. /\ ip \in 1 .. Len(code) /\ ~em.err /\ em \in EmittersOf(t)
        /\ ip = 1 => ~em.acc_loaded
        /\ Emitted(ip - 1)
    BY DEF Typed, Emitting
  <1>3. EmitEnds <=> ip = Len(code)
    BY <1>1, <1>2 DEF EmitEnds
  <1>4. instr \in Compiled(code, ip)
    <2>1. CASE EmitEnds
      <3>1. Ret \in MachineInstrs
        BY DEF MachineInstrs
      <3>2. code[ip].op = "halt"
        BY <1>1, <1>2, <1>3, <2>1
      <3> QED BY <2>1, <3>1, <3>2 DEF Compiled
    <2>2. CASE ~EmitEnds
      <3>1. code[ip].op # "halt"
        BY <1>1, <1>2, <1>3, <2>2
      <3> QED BY <1>1, <1>2, <2>2, <3>1, SelectedCompiled
    <2> QED BY <2>1, <2>2
  <1> HIDE DEF instr
  <1>5. units \in Seq(Units(t))
    <2>1. instr \in MachineInstrs
      BY <1>4 DEF Compiled
    <2> QED BY <1>1, <2>1, MachineDecodes
  <1>6. f \in EmittersOf(t) /\ (~f.err => Extends(em, f, units, Len(units)))
    BY <1>2, <1>5, EmitMachineSound
  <1>7. EmitNext = AccLoadedBy(f, instr)
    BY DEF EmitNext, instr
  <1> HIDE DEF f, units
  <1>8. /\ EmitNext \in EmittersOf(t)
        /\ EmitNext.code = f.code /\ EmitNext.err = f.err
    <2> DEFINE b == f.acc_loaded \/ instr.reg = "acc"
    <2>1. AccLoadedBy(f, instr) = [f EXCEPT !.acc_loaded = b]
      BY DEF AccLoadedBy
    <2>2. b \in BOOLEAN
      OBVIOUS
    <2> HIDE DEF b
    <2>3. \A x \in BOOLEAN : [f EXCEPT !.acc_loaded = x] \in EmittersOf(t)
      BY <1>6, EmitterFields
    <2>4. [f EXCEPT !.acc_loaded = b] \in EmittersOf(t)
      BY <2>2, <2>3
    <2>5. [f EXCEPT !.acc_loaded = b].code = f.code /\ [f EXCEPT !.acc_loaded = b].err = f.err
      BY <1>6 DEF EmittersOf
    <2> QED BY <1>7, <2>1, <2>4, <2>5
  <1>9. ASSUME ~EmitNext.err
        PROVE  \E is, ss : Layout(t, code, EmitNext.code, is, ss, ip)
    <2> DEFINE m == ip - 1
    <2>1. m \in Nat /\ m + 1 = ip
      BY <1>1, <1>2
    <2>2. PICK instrs, starts : Layout(t, code, em.code, instrs, starts, m)
      BY <1>2 DEF Emitted
    <2>3. Extends(em, f, Machine(t, instr), Len(Machine(t, instr)))
      BY <1>6, <1>8, <1>9 DEF units
    <2> HIDE DEF m
    <2>4. instr \in Compiled(code, m + 1)
      BY <1>4, <2>1
    <2>5. \E is, ss : Layout(t, code, f.code, is, ss, m + 1)
      BY <1>1, <1>2, <1>6, <2>1, <2>2, <2>3, <2>4, LayoutGrows
    <2> QED BY <1>8, <2>1, <2>5
  <1> QED BY <1>3, <1>8, <1>9

LEMMA CompileKeeps ==
    ASSUME StreamInv, Compile
    PROVE  StreamInv'
  <1> DEFINE t == program.target
             code == program.code
             n == Len(code)
  <1>1. /\ Typed /\ Emitting /\ phase = "emit" /\ CpuFresh /\ VmFresh
        /\ ip \in 1 .. n /\ mem0 \in Memories /\ program \in Sessions
    BY DEF StreamInv, Typed, Emitting, Compile
  <1>2. t \in Targets /\ code \in Seq(Primitives) /\ n \in Nat \ {0}
    BY <1>1, SessionFacts
  <1>3. em' = EmitNext /\ UNCHANGED <<program, mem0, cpu, vm, answer>>
    BY DEF Compile
  <1>4. /\ EmitEnds <=> ip = n
        /\ em' \in EmittersOf(t)
        /\ ~em'.err => \E instrs, starts : Layout(t, code, em'.code, instrs, starts, ip)
    BY <1>1, <1>3, CompileGrows
  <1>5. CpuFresh' /\ VmFresh'
    BY <1>1, <1>3 DEF CpuFresh, VmFresh
  <1>6. \/ em'.err /\ phase' = "threaded" /\ ip' = 1
        \/ ~em'.err /\ ip = n /\ phase' = "native" /\ ip' = 1
        \/ ~em'.err /\ ip # n /\ phase' = "emit" /\ ip' = ip + 1
    BY <1>4 DEF Compile
  <1>7. Typed'
    BY <1>1, <1>2, <1>3, <1>4, <1>6 DEF Typed, Phases
  <1>8. Resetting' /\ Finished'
    BY <1>6 DEF Resetting, Finished, Ended
  <1>9. Emitting'
    <2> SUFFICES ASSUME phase' = "emit" PROVE Emitting'
      BY DEF Emitting
    <2>1. ~em'.err /\ ip # n /\ ip' = ip + 1
      BY <1>6
    <2>2. ip' \in 1 .. n /\ ip' # 1 /\ ip' - 1 = ip
      BY <1>1, <1>2, <2>1
    <2>3. Emitted(ip - 1)'
      BY <1>3, <1>4, <2>1, <2>2 DEF Emitted
    <2> QED BY <1>3, <1>5, <2>1, <2>2, <2>3 DEF Emitting
  <1>10. Executing'
    <2> SUFFICES ASSUME phase' = "native" PROVE Executing'
      BY DEF Executing
    <2>1. ~em'.err /\ ip = n /\ ip' = 1
      BY <1>6
    <2>2. PICK instrs, starts : Layout(t, code, em'.code, instrs, starts, n)
      BY <1>4, <2>1
    <2>3. 1 \in 1 .. n /\ instrs[1] \in Compiled(code, 1) /\ starts[1] = 1
      BY <1>2, <2>2 DEF Layout
    <2>4. 0 \in Offsets(t, Machine(t, instrs[1]))
      BY <1>2, <2>3, AtItsStart
    <2>5. At(instrs, starts, 1, 0)'
      BY <1>3, <2>1, <2>2, <2>3, <2>4 DEF At
    <2>6. cpu.bus = BusOn(mem0) /\ ~cpu.bus.fault /\ ~cpu.returned
      BY <1>1, FreshStates DEF CpuFresh
    <2>7. ASSUME Suits(program)
          PROVE  Follows(instrs[1], 1, 0, cpu)
      <3>1. Run(code, mem0)[0] = VmReset(mem0)
        BY <1>1, <1>2, RunIs, MemoryType DEF IsReference
      <3>2. Run(code, mem0)[1 - 1].bus = BusOn(mem0)
        BY <1>1, <3>1, FreshStates
      <3>3. Ready(program, Run(code, mem0), 1, cpu.regs)
        BY <1>1, <2>7, ReadyAtStart
      <3> QED BY <2>6, <3>2, <3>3 DEF Follows
    <2>8. Suits(program)' => Follows(instrs[1], 1, 0, cpu)'
      BY <1>3, <2>7 DEF Suits, StackFits, RegistersSuffice, Follows, Ready
    <2> QED BY <1>3, <1>5, <2>5, <2>6, <2>8 DEF Executing
  <1>11. Interpreting'
    <2> SUFFICES ASSUME phase' = "threaded" PROVE Interpreting'
      BY DEF Interpreting
    <2>1. ip' = 1 /\ 1 \in 1 .. n
      BY <1>2, <1>6
    <2>2. Run(code, mem0)[0] = VmReset(mem0)
      BY <1>1, <1>2, RunIs, MemoryType DEF IsReference
    <2>3. vm' = Run(code, mem0)[1 - 1] /\ ~vm'.bus.fault
      BY <1>1, <1>3, <2>2, FreshStates DEF VmFresh
    <2> QED BY <1>3, <1>5, <2>1, <2>3 DEF Interpreting
  <1> QED BY <1>7, <1>8, <1>9, <1>10, <1>11 DEF StreamInv

(* Where the processor is after a step.                                    *)
LEMMA NativeMoves ==
    ASSUME Typed, NEW instrs, NEW starts, NEW j, NEW o, At(instrs, starts, j, o),
           phase = "native", ~cpu.bus.fault, ~cpu.returned
    PROVE  LET units == Machine(program.target, instrs[j])
               n == Len(program.code)
           IN  /\ Fetched = DecodeAt(program.target, units, o + 1)
               /\ Instruction(Fetched)
               /\ instrs[j] \in Compiled(program.code, j)
               /\ o + Fetched.len # Len(units) =>
                     o + Fetched.len \in Offsets(program.target, units)
               /\ o + Fetched.len = Len(units) /\ j # n => ip + Fetched.len = starts[j + 1]
               /\ j = n => Execute(cpu, Fetched).returned
  <1> DEFINE t == program.target
             code == program.code
             n == Len(code)
             instr == instrs[j]
             units == Machine(t, instr)
             d == DecodeAt(t, em.code, starts[j] + o)
  <1>1. /\ t \in Targets /\ code \in Seq(Primitives) /\ n \in Nat \ {0}
        /\ \A k \in 1 .. n : code[k].op = "halt" <=> k = n
    BY SessionFacts DEF Typed
  <1>2. /\ j \in 1 .. n /\ o \in Offsets(t, units) /\ ip = starts[j] + o
        /\ Layout(t, code, em.code, instrs, starts, n)
    BY DEF At
  <1>3. instr \in Compiled(code, j) /\ Placed(t, em.code, instr, starts[j], starts[j + 1])
    BY <1>2 DEF Layout
  <1>4. instr \in MachineInstrs
    BY <1>3 DEF Compiled
  <1>5. em.code \in Seq(Units(t)) /\ cpu \in MachineStates
    BY EmitterFields DEF Typed
  <1>6. Fetched = d
    BY <1>2 DEF Fetched, DecodeAt
  <1>7. /\ o \in Nat /\ Instruction(d) /\ d = DecodeAt(t, units, o + 1)
        /\ o + d.len = Len(units) \/ o + d.len \in Offsets(t, units)
    BY <1>1, <1>2, <1>3, <1>4, <1>5, Places
  <1>8. ASSUME j = n
        PROVE  Execute(cpu, d).returned
    <2>1. instr = Ret
      BY <1>1, <1>2, <1>3, <1>8 DEF Compiled
    <2>2. instr.i = "ret" /\ instr.i # "mov"
      BY <2>1 DEF Ret
    <2>3. Execute(cpu, DecodeAt(t, units, o + 1)) = AfterReturn(cpu)
      BY <1>1, <1>2, <1>4, <1>5, <2>2, OtherStep
    <2>4. AfterReturn(cpu).returned
      BY <1>5, MachineUpdates
    <2> HIDE DEF d, units
    <2> QED BY <1>7, <2>3, <2>4
  <1>9. o + d.len = Len(units) => ip + d.len = starts[j + 1]
    <2>1. starts[j] \in Nat /\ starts[j + 1] = starts[j] + Len(units)
      BY <1>3 DEF Placed
    <2>2. d.len \in Nat
      BY <1>7 DEF Instruction
    <2>3. ip = starts[j] + o /\ o \in Nat
      BY <1>2, <1>7
    <2> HIDE DEF d, units
    <2> QED BY <2>1, <2>2, <2>3
  <1> HIDE DEF d, units
  <1> QED BY <1>3, <1>6, <1>7, <1>8, <1>9 DEF units

LEMMA ExecuteNativeKeeps ==
    ASSUME StreamInv, ExecuteNative
    PROVE  StreamInv'
  <1> DEFINE t == program.target
             code == program.code
             n == Len(code)
             R == Run(code, mem0)
             d == Fetched
  <1>1. /\ Typed /\ phase = "native" /\ VmFresh /\ ~cpu.bus.fault /\ ~cpu.returned
        /\ program \in Sessions /\ mem0 \in Memories /\ cpu \in MachineStates /\ ip \in Nat \ {0}
    BY DEF StreamInv, Typed, Executing, ExecuteNative
  <1>2. PICK instrs, starts, j, o :
            At(instrs, starts, j, o) /\ (Suits(program) => Follows(instrs[j], j, o, cpu))
    BY DEF StreamInv, Executing, ExecuteNative
  <1> DEFINE instr == instrs[j]
             units == Machine(t, instr)
  <1>3. /\ t \in Targets /\ n \in Nat \ {0} /\ j \in 1 .. n /\ o \in Offsets(t, units)
        /\ Layout(t, code, em.code, instrs, starts, n) /\ ip = starts[j] + o
    BY <1>1, <1>2, SessionFacts DEF At
  <1>4. /\ d = DecodeAt(t, units, o + 1) /\ Instruction(d) /\ instr \in Compiled(code, j)
        /\ o + d.len # Len(units) => o + d.len \in Offsets(t, units)
        /\ o + d.len = Len(units) /\ j # n => ip + d.len = starts[j + 1]
        /\ j = n => Execute(cpu, d).returned
    BY <1>1, <1>2, NativeMoves
  <1>5. /\ cpu' = Execute(cpu, d) /\ ip' = ip + d.len
        /\ phase' = CASE cpu'.bus.fault -> "fault" [] cpu'.returned -> "done" [] OTHER -> "native"
        /\ answer' = IF cpu'.returned /\ program.yields_value THEN <<cpu'.regs["acc"]>> ELSE answer
        /\ UNCHANGED <<program, mem0, em, vm>>
    BY DEF ExecuteNative
  <1>6. cpu' \in MachineStates
    BY <1>1, <1>4, <1>5, ExecuteType
  <1>7. ASSUME Suits(program)
        PROVE  KeepsUp(instr, j, o + d.len, cpu', Len(units))
    <2>1. Follows(instr, j, o, cpu)
      BY <1>2, <1>7
    <2>2. KeepsUp(instr, j, o + DecodeAt(t, units, o + 1).len,
                  Execute(cpu, DecodeAt(t, units, o + 1)), Len(units))
      BY <1>1, <1>3, <1>4, <1>7, <2>1, StepKeepsUp
    <2> HIDE DEF d, units, instr
    <2> QED BY <1>4, <1>5, <2>2
  <1> HIDE DEF d
  <1>8. \/ phase' = "fault" /\ cpu'.bus.fault
        \/ phase' = "done" /\ cpu'.returned
        \/ phase' = "native" /\ ~cpu'.bus.fault /\ ~cpu'.returned
    BY <1>5
  <1>9. d.len \in Nat
    BY <1>4 DEF Instruction
  <1>10. Typed'
    <2>1. ip' \in Nat \ {0} /\ phase' \in Phases
      BY <1>1, <1>5, <1>8, <1>9 DEF Phases
    <2> QED BY <1>1, <1>5, <1>6, <2>1 DEF Typed
  <1>11. VmFresh'
    BY <1>1, <1>5 DEF VmFresh
  <1>12. Executing'
    <2> SUFFICES ASSUME phase' = "native" PROVE Executing'
      BY DEF Executing
    <2>1. ~cpu'.bus.fault /\ ~cpu'.returned /\ j # n
      BY <1>4, <1>5, <1>8
    <2>2. CASE o + d.len # Len(units)
      <3>0. PICK p : p = o + d.len
        OBVIOUS
      <3>1. At(instrs, starts, j, p)'
        <4>1. ip' = starts[j] + p
          <5>1. starts[j] \in Nat /\ o \in Nat
            BY <1>3 DEF Layout, Placed, Offsets
          <5> QED BY <1>3, <1>5, <1>9, <3>0, <5>1
        <4> QED BY <1>3, <1>4, <1>5, <2>2, <3>0, <4>1 DEF At
      <3>2. Suits(program) => Follows(instrs[j], j, p, cpu')
        BY <1>7, <2>1, <2>2, <3>0 DEF KeepsUp
      <3>3. Suits(program)' => Follows(instrs[j], j, p, cpu)'
        BY <1>5, <3>2 DEF Follows
      <3> QED BY <1>11, <2>1, <3>1, <3>3 DEF Executing
    <2>3. CASE o + d.len = Len(units)
      <3>1. j + 1 \in 1 .. n
        BY <1>3, <2>1
      <3>2. At(instrs, starts, j + 1, 0)'
        <4>1. instrs[j + 1] \in Compiled(code, j + 1)
          BY <1>3, <3>1 DEF Layout
        <4>2. 0 \in Offsets(t, Machine(t, instrs[j + 1]))
          BY <1>3, <4>1, AtItsStart
        <4>3. ip' = starts[j + 1] + 0
          <5>1. starts[j + 1] \in Nat
            BY <1>3, <3>1 DEF Layout, Placed
          <5> QED BY <1>4, <1>5, <2>1, <2>3, <5>1
        <4> QED BY <1>3, <1>5, <3>1, <4>2, <4>3 DEF At
      <3>3. Suits(program) => \A i : Follows(i, j + 1, 0, cpu')
        BY <1>7, <2>1, <2>3 DEF KeepsUp
      <3>4. Suits(program)' => Follows(instrs[j + 1], j + 1, 0, cpu)'
        BY <1>5, <3>3 DEF Follows
      <3> QED BY <1>11, <2>1, <3>2, <3>4 DEF Executing
    <2> QED BY <2>2, <2>3
  <1>13. Finished'
    <2> SUFFICES ASSUME phase' \in {"done", "fault"}, Suits(program)
                 PROVE  EndsAs(cpu.bus)'
      BY <1>5, <1>11 DEF Finished, Ended
    <2>1. cpu'.bus = R[n].bus
      BY <1>7, <1>8 DEF KeepsUp
    <2>2. phase' = "done" /\ program.yields_value => answer' = <<VmTop(R[n])>>
      <3>1. phase' = "done" /\ program.yields_value => answer' = <<cpu'.regs["acc"]>> /\ cpu'.returned
        BY <1>5, <1>8
      <3> QED BY <1>7, <3>1 DEF KeepsUp
    <2> QED BY <1>5, <2>1, <2>2 DEF EndsAs
  <1>14. Resetting' /\ Emitting' /\ Interpreting'
    BY <1>8 DEF Resetting, Emitting, Interpreting
  <1> QED BY <1>10, <1>12, <1>13, <1>14 DEF StreamInv

LEMMA DispatchKeeps ==
    ASSUME StreamInv, Dispatch
    PROVE  StreamInv'
  <1> DEFINE code == program.code
             n == Len(code)
             R == Run(code, mem0)
  <1>1. /\ Typed /\ phase = "threaded" /\ CpuFresh /\ ip \in 1 .. n
        /\ vm = R[ip - 1] /\ ~vm.bus.fault
        /\ program \in Sessions /\ mem0 \in Memories
    BY DEF StreamInv, Typed, Interpreting, Dispatch
  <1>2. /\ code \in Seq(Primitives) /\ n \in Nat \ {0} /\ mem0 \in [Values -> Values]
        /\ \A k \in 1 .. n : code[k].op = "halt" <=> k = n
    BY <1>1, SessionFacts, MemoryType
  <1>3. /\ vm' = VmStep(vm, code[ip]) /\ ip' = ip + 1
        /\ phase' = CASE vm'.bus.fault -> "fault" [] code[ip].op = "halt" -> "done" [] OTHER -> "threaded"
        /\ answer' = IF phase' = "done" /\ program.yields_value THEN <<VmTop(vm')>> ELSE answer
        /\ UNCHANGED <<program, mem0, em, cpu>>
    BY DEF Dispatch
  <1>4. R[ip - 1] \in VmStates /\ R[ip] = VmStep(R[ip - 1], code[ip]) /\ code[ip] \in Primitives
    BY <1>1, <1>2, RunAt
  <1>5. vm' = R[ip]
    BY <1>1, <1>3, <1>4
  <1>6. code[ip].op = "halt" => vm' = vm
    BY <1>1, <1>3, <1>4, StepBus
  <1> HIDE DEF R
  <1>7. \/ phase' = "fault" /\ vm'.bus.fault
        \/ phase' = "done" /\ ip = n
        \/ phase' = "threaded" /\ ~vm'.bus.fault /\ ip # n
    BY <1>1, <1>2, <1>3
  <1>8. Typed'
    <2>1. ip' \in Nat \ {0} /\ phase' \in Phases
      BY <1>1, <1>2, <1>3, <1>7 DEF Phases
    <2> QED BY <1>1, <1>3, <2>1 DEF Typed
  <1>9. CpuFresh'
    BY <1>1, <1>3 DEF CpuFresh
  <1>10. Interpreting'
    <2> SUFFICES ASSUME phase' = "threaded" PROVE Interpreting'
      BY DEF Interpreting
    <2>1. ~vm'.bus.fault /\ ip' \in 1 .. n /\ ip' - 1 = ip
      BY <1>1, <1>2, <1>3, <1>7
    <2> QED BY <1>3, <1>5, <1>9, <2>1 DEF Interpreting, R
  <1>11. Finished'
    <2> SUFFICES ASSUME phase' \in {"done", "fault"} PROVE Finished'
      BY DEF Finished, Ended
    <2>1. vm' = R[n]
      <3>1. CASE ip = n
        BY <1>5, <3>1
      <3>2. CASE ip # n
        <4>1. R[ip].bus.fault
          BY <1>5, <1>7, <3>2
        <4>2. ip \in 0 .. n
          BY <1>1, <1>2
        <4>3. R[n] = R[ip]
          BY <1>2, <4>1, <4>2, FaultStays DEF R
        <4> QED BY <1>5, <4>3
      <3> QED BY <3>1, <3>2
    <2>2. EndsAs(vm.bus)'
      BY <1>3, <2>1 DEF EndsAs, R
    <2> QED BY <1>3, <1>9, <2>1, <2>2 DEF Finished, R
  <1>12. Resetting' /\ Emitting' /\ Executing'
    BY <1>7 DEF Resetting, Emitting, Executing
  <1> QED BY <1>8, <1>10, <1>11, <1>12 DEF StreamInv

LEMMA StutterKeeps ==
    ASSUME StreamInv, UNCHANGED vars
    PROVE  StreamInv'
  BY DEF StreamInv, vars, Typed, Resetting, Emitting, Emitted, Executing, At, Follows, Interpreting,
         Finished, Ended, EndsAs, CpuFresh, VmFresh

LEMMA StreamInductive == Spec => []StreamInv
  <1>1. StreamInv /\ [Next]_vars => StreamInv'
    BY StartKeeps, CompileKeeps, ExecuteNativeKeeps, DispatchKeeps, StutterKeeps DEF Next
  <1> QED BY StreamInit, <1>1, PTL DEF Spec
-----------------------------------------------------------------------------
(* What follows in every reachable state.                                  *)

LEMMA VmIs ==
    ASSUME StreamInv
    PROVE  \/ vm = VmReset(mem0)
           \/ \E k \in 0 .. Len(program.code) : vm = Run(program.code, mem0)[k]
  <1>1. phase \in Phases /\ ip \in Nat \ {0} /\ program \in Sessions
    BY DEF StreamInv, Typed
  <1>2. Len(program.code) \in Nat \ {0}
    BY <1>1, SessionFacts
  <1>3. CASE phase = "threaded"
    <2>1. ip - 1 \in 0 .. Len(program.code) /\ vm = Run(program.code, mem0)[ip - 1]
      BY <1>2, <1>3 DEF StreamInv, Interpreting
    <2> QED BY <2>1
  <1>4. CASE phase \in {"done", "fault"}
    <2>1. Len(program.code) \in 0 .. Len(program.code)
      BY <1>2
    <2> QED BY <1>4, <2>1 DEF StreamInv, Finished, Ended, VmFresh
  <1>5. CASE phase \in {"reset", "emit", "native"}
    BY <1>5 DEF StreamInv, Resetting, Emitting, Executing, VmFresh
  <1> QED BY <1>1, <1>3, <1>4, <1>5 DEF Phases

(* Whatever is emitted are units of the target that fit EXEC_BUFFER, and   *)
(* the interpreter's stack and memory hold words: no phase of run() leaves *)
(* the types of its buffers.  Every word is a value here, as in the code.  *)
THEOREM StreamTypes == ASSUME Values = Word PROVE Spec => []TypeOK
  <1>1. StreamInv => TypeOK
    <2> SUFFICES ASSUME StreamInv PROVE TypeOK
      OBVIOUS
    <2>1. /\ program \in Sessions /\ mem0 \in Memories /\ phase \in Phases /\ ip \in Nat \ {0}
          /\ em \in EmittersOf(program.target) /\ cpu \in MachineStates
      BY DEF StreamInv, Typed
    <2>2. /\ program.target \in Targets /\ program.code \in Seq(Primitives)
          /\ mem0 \in [Values -> Values]
      BY <2>1, SessionFacts, MemoryType
    <2>3. /\ \A k \in DOMAIN em.code : em.code[k] \subseteq Unit
          /\ Len(em.code) <= EXEC_CAPACITY
      <3>1. em.code \in Seq(Units(program.target)) /\ Len(em.code) <= EXEC_CAPACITY
        BY <2>1, EmitterFields
      <3>2. \A u \in Units(program.target) : u \subseteq Unit
        BY <2>2 DEF Units, Unit, Halfword, Word, Targets
      <3>3. \A k \in DOMAIN em.code : em.code[k] \in Units(program.target)
        BY <3>1
      <3> QED BY <3>1, <3>2, <3>3
    <2>4. /\ \A r \in DOMAIN cpu.regs : cpu.regs[r] \subseteq 0 .. 31
          /\ cpu.bus.mem \in [Values -> Values]
      <3>1. cpu.regs \in [Registers -> Word] /\ cpu.bus \in RawBuses
        BY <2>1, MachineFields
      <3>2. cpu.bus.mem \in [Values -> Word]
        BY <3>1 DEF RawBuses
      <3> QED BY <3>1, <3>2 DEF Word
    <2>5. vm \in VmStates
      <3>1. VmReset(mem0) \in VmStates
        BY <2>1, FreshStates
      <3>2. \A k \in 0 .. Len(program.code) : Run(program.code, mem0)[k] \in VmStates
        BY <2>2, RunIs DEF IsReference
      <3> QED BY <3>1, <3>2, VmIs
    <2>6. vm.stack \in Seq(Values) /\ vm.bus.mem \in [Values -> Values]
      <3>1. vm.stack \in Seq(Values) /\ vm.bus \in Buses
        BY <2>5, VmFields
      <3> QED BY <3>1 DEF Buses
    <2> QED BY <2>1, <2>3, <2>4, <2>6 DEF TypeOK
  <1> QED BY StreamInductive, <1>1, PTL

(* run() executes a stream with one engine: when the code generator gives  *)
(* up, no native instruction has touched the bus, and the processor never  *)
(* runs off the instructions just emitted, nor the interpreter off the     *)
(* stream -- on either target and for every stream, however many registers *)
(* it would need.                                                          *)
THEOREM OneEngine == Spec => []OneEngineRuns
  <1>1. StreamInv => OneEngineRuns
    <2> SUFFICES ASSUME StreamInv PROVE OneEngineRuns
      OBVIOUS
    <2>1. phase \in Phases /\ mem0 \in Memories /\ program \in Sessions
      BY DEF StreamInv, Typed
    <2>2. cpu.bus.trace = <<>> \/ vm.bus.trace = <<>>
      <3>1. CpuFresh \/ VmFresh
        BY <2>1 DEF StreamInv, Phases, Resetting, Emitting, Executing, Interpreting, Finished, Ended
      <3> QED BY <2>1, <3>1, FreshStates DEF CpuFresh, VmFresh
    <2>3. phase = "threaded" => ip <= Len(program.code)
      BY <2>1, SessionFacts DEF StreamInv, Interpreting
    <2>4. ASSUME phase = "native"
          PROVE  ip <= Len(em.code)
      <3>1. PICK instrs, starts, j, o : At(instrs, starts, j, o)
        BY <2>4 DEF StreamInv, Executing
      <3> DEFINE t == program.target
      <3>2. /\ o \in Offsets(t, Machine(t, instrs[j])) /\ ip = starts[j] + o
            /\ instrs[j] \in Compiled(program.code, j)
            /\ Placed(t, em.code, instrs[j], starts[j], starts[j + 1])
        BY <3>1 DEF At, Layout
      <3>3. t \in Targets /\ em.code \in Seq(Units(t)) /\ instrs[j] \in MachineInstrs
        BY <2>1, <3>2, SessionFacts, EmitterFields DEF StreamInv, Typed, Compiled
      <3>4. starts[j] + o \in 1 .. Len(em.code)
        BY <3>2, <3>3, Places
      <3>5. Len(em.code) \in Nat
        BY <3>3
      <3> QED BY <3>2, <3>4, <3>5
    <2> QED BY <2>2, <2>3, <2>4 DEF OneEngineRuns
  <1> QED BY StreamInductive, <1>1, PTL

(* vm_push drops a value on a full stack and vm_pop invents a 0 on an      *)
(* empty one, silently: neither happens in a program of the parser's whose *)
(* words are at most twice the slots of the stack, as 128 are of 64.       *)
THEOREM StackKeepsAll ==
    Spec => [](/\ Parsed(program.code, "end")
               /\ WordCount(program.code) <= 2 * VM_STACK_SIZE
               => NoSilentStackLoss)
  <1>1. StreamInv => (/\ Parsed(program.code, "end")
                      /\ WordCount(program.code) <= 2 * VM_STACK_SIZE
                      => NoSilentStackLoss)
    <2> SUFFICES ASSUME StreamInv, Parsed(program.code, "end"),
                        WordCount(program.code) <= 2 * VM_STACK_SIZE
                 PROVE  ~vm.lost
      BY DEF NoSilentStackLoss
    <2>1. program.code \in Seq(Primitives) /\ mem0 \in Memories /\ mem0 \in [Values -> Values]
      BY SessionFacts, MemoryType DEF StreamInv, Typed
    <2>2. \A k \in 0 .. Len(program.code) : ~Run(program.code, mem0)[k].lost
      <3>1. StackFits(program.code)
        BY <2>1, ParsedFits
      <3> QED BY <2>1, <3>1, RunDepth
    <2>3. ~VmReset(mem0).lost
      BY <2>1, FreshStates
    <2> QED BY <2>2, <2>3, VmIs
  <1> QED BY StreamInductive, <1>1, PTL

(* "falls back to the threaded interpreter for streams that exceed the     *)
(* two-register compiler's capacity": for a stream two registers suffice   *)
(* for, whatever the registers held and whether the code fitted or not,    *)
(* the accesses and their order, the memory, the fault and the answer of a *)
(* run are those of the threaded interpreter, on both targets.             *)
THEOREM EnginesAlwaysAgree == Spec => [](Suits(program) => EnginesAgree)
  <1>1. StreamInv => (Suits(program) => EnginesAgree)
    <2> SUFFICES ASSUME StreamInv, Suits(program), Ended PROVE EnginesAgree
      BY DEF EnginesAgree
    <2> DEFINE last == Run(program.code, mem0)[Len(program.code)]
               bus == IF vm.bus.trace = <<>> /\ ~vm.bus.fault THEN cpu.bus ELSE vm.bus
    <2>1. program.code \in Seq(Primitives) /\ mem0 \in Memories /\ mem0 \in [Values -> Values]
      BY SessionFacts, MemoryType DEF StreamInv, Typed
    <2>2. Reference = last
      BY <2>1, RunIs DEF IsReference, Reference
    <2>3. EndsAs(bus)
      <3>1. CASE CpuFresh /\ vm = last /\ EndsAs(vm.bus)
        <4>1. last.bus.fault \/ last.bus.trace # <<>> \/ last.bus = BusOn(mem0)
          <5>1. Len(program.code) \in 0 .. Len(program.code)
            BY <2>1
          <5> QED BY <2>1, <5>1, QuietRun
        <4>2. bus = vm.bus
          BY <3>1, <4>1 DEF CpuFresh
        <4> QED BY <3>1, <4>2
      <3>2. CASE VmFresh /\ EndsAs(cpu.bus)
        <4>1. bus = cpu.bus
          BY <2>1, <3>2, FreshStates DEF VmFresh
        <4> QED BY <3>2, <4>1
      <3> QED BY <3>1, <3>2 DEF StreamInv, Finished
    <2> HIDE DEF bus, last
    <2>4. bus = last.bus /\ (phase = "done" /\ program.yields_value => answer = <<VmTop(last)>>)
      BY <2>3 DEF EndsAs, last
    <2> QED BY <2>2, <2>4 DEF EnginesAgree, bus
  <1> QED BY StreamInductive, <1>1, PTL
=============================================================================
