-------------------------- MODULE StreamOpsProofs ---------------------------
(***************************************************************************)
(* Lemmas about the runs of a stream: what the interpreter, the code       *)
(* generator and the machine compute, step by step, for streams of any     *)
(* length; and about the encodings: what the processors decode is what the *)
(* encoders were asked for, for every immediate and every register.        *)
(***************************************************************************)
EXTENDS StreamOps, Encodings, SequenceTheorems, FiniteSetTheorems, WellFoundedInduction, TLAPS

(* Induction, as a fact about sets: a set of naturals has a least member.  *)
LEMMA LeastMember ==
    ASSUME NEW T \in SUBSET Nat, T # {}
    PROVE  \E m \in T : \A k \in T : m <= k
  <1>1. PICK m \in T : \A k \in T : ~(<<k, m>> \in OpToRel(<, Nat))
    BY NatLessThanWellFounded, WFMin
  <1>2. \A k \in T : ~(k < m)
    BY <1>1 DEF OpToRel
  <1> QED
    BY <1>2

(* A property of states that every step keeps holds along a run.           *)
LEMMA RunStays ==
    ASSUME NEW D, NEW n \in Nat, NEW g, g[0] \in D,
           \A k \in 1 .. n : g[k - 1] \in D => g[k] \in D
    PROVE  \A k \in 0 .. n : g[k] \in D
  <1> DEFINE T == {k \in 0 .. n : g[k] \notin D}
  <1> SUFFICES ASSUME T # {} PROVE FALSE
    OBVIOUS
  <1>1. PICK m \in T : \A k \in T : m <= k
    <2>1. T \in SUBSET Nat
      OBVIOUS
    <2> HIDE DEF T
    <2> QED
      BY <2>1, LeastMember
  <1>2. m # 0 /\ m \in 1 .. n
    BY <1>1
  <1>3. m - 1 \in 0 .. n /\ m - 1 \notin T
    BY <1>1, <1>2
  <1> QED
    BY <1>1, <1>2, <1>3

(* The recursive definition of a run has a solution.                       *)
IsRun(D, b, F, m, g) ==
    g \in [0 .. m -> D] /\ g[0] = b /\ \A k \in 1 .. m : g[k] = F[<<k, g[k - 1]>>]
HasRun(D, b, F, m) == \E g : IsRun(D, b, F, m, g)

LEMMA RunExtends ==
    ASSUME NEW D, NEW b \in D, NEW n \in Nat, NEW F \in [(1 .. n) \X D -> D],
           NEW m \in 1 .. n, HasRun(D, b, F, m - 1)
    PROVE  HasRun(D, b, F, m)
  <1>1. PICK g : IsRun(D, b, F, m - 1, g)
    BY DEF HasRun
  <1>2. m \in Nat /\ m > 0 /\ m - 1 \in 0 .. m - 1 /\ g \in [0 .. m - 1 -> D]
    BY <1>1 DEF IsRun
  <1>3. g[m - 1] \in D
    BY <1>2
  <1> DEFINE next == F[<<m, g[m - 1]>>]
             h == [k \in 0 .. m |-> IF k < m THEN g[k] ELSE next]
  <1>4. next \in D
    BY <1>3
  <1> HIDE DEF next
  <1>5. h \in [0 .. m -> D]
    BY <1>2, <1>4
  <1>6. h[0] = b
    BY <1>1, <1>2 DEF IsRun
  <1>7. ASSUME NEW k \in 1 .. m
        PROVE  h[k] = F[<<k, h[k - 1]>>]
    <2>1. CASE k < m
      <3>1. k \in 1 .. m - 1 /\ h[k] = g[k] /\ h[k - 1] = g[k - 1]
        BY <1>2, <2>1
      <3> HIDE DEF h
      <3> QED
        BY <1>1, <3>1 DEF IsRun
    <2>2. CASE k = m
      <3>1. h[m] = next /\ h[m - 1] = g[m - 1]
        BY <1>2
      <3> HIDE DEF h
      <3> QED
        BY <2>2, <3>1 DEF next
    <2> QED
      BY <1>2, <2>1, <2>2
  <1> HIDE DEF h
  <1> QED
    BY <1>5, <1>6, <1>7 DEF IsRun, HasRun

LEMMA RunExists ==
    ASSUME NEW D, NEW b \in D, NEW n \in Nat, NEW F \in [(1 .. n) \X D -> D]
    PROVE  HasRun(D, b, F, n)
  <1> DEFINE T == {m \in 0 .. n : ~HasRun(D, b, F, m)}
  <1>1. T \in SUBSET Nat
    OBVIOUS
  <1> SUFFICES ASSUME T # {} PROVE FALSE
    OBVIOUS
  <1>2. PICK m \in T : \A k \in T : m <= k
    <2> HIDE DEF T
    <2> QED
      BY <1>1, LeastMember
  <1>3. HasRun(D, b, F, 0)
    <2>1. IsRun(D, b, F, 0, [k \in 0 .. 0 |-> b])
      BY DEF IsRun
    <2> QED
      BY <2>1 DEF HasRun
  <1>4. m \in 1 .. n
    BY <1>2, <1>3
  <1>5. HasRun(D, b, F, m - 1)
    BY <1>2, <1>4
  <1>6. HasRun(D, b, F, m)
    BY <1>4, <1>5, RunExtends
  <1> QED
    BY <1>2, <1>6

-----------------------------------------------------------------------------
(* The states of the bus and of the interpreter.                           *)

Accesses == {"read", "write"} \X Values \X Values
Buses == [mem : [Values -> Values], trace : Seq(Accesses), fault : BOOLEAN]
VmStates == [stack : Seq(Values), bus : Buses, lost : BOOLEAN]

LEMMA BusOnType ==
    ASSUME NEW mem \in [Values -> Values]
    PROVE  BusOn(mem) \in Buses
  BY DEF BusOn, Buses

LEMMA BusReadType ==
    ASSUME NEW b \in Buses, NEW a
    PROVE  /\ BusRead(b, a) \in Buses
           /\ BusRead(b, a).mem = b.mem
           /\ ~BusRead(b, a).fault => a \in Values
           /\ b.fault => BusRead(b, a).fault
  <1>1. b.mem \in [Values -> Values] /\ b.trace \in Seq(Accesses) /\ b.fault \in BOOLEAN
    BY DEF Buses
  <1>2. CASE Faults(a)
    <2>1. [b EXCEPT !.fault = TRUE] \in Buses
      BY DEF Buses
    <2>2. [b EXCEPT !.fault = TRUE].mem = b.mem /\ [b EXCEPT !.fault = TRUE].fault
      BY DEF Buses
    <2> QED
      BY <1>2, <2>1, <2>2 DEF BusRead
  <1>3. CASE ~Faults(a)
    <2> DEFINE t == Append(b.trace, <<"read", a, b.mem[a]>>)
    <2>1. a \in Values /\ <<"read", a, b.mem[a]>> \in Accesses
      BY <1>1, <1>3 DEF Faults, Accesses
    <2>2. t \in Seq(Accesses)
      BY <1>1, <2>1
    <2>3. BusRead(b, a) = [b EXCEPT !.trace = t]
      BY <1>3 DEF BusRead
    <2> HIDE DEF t
    <2>4. [b EXCEPT !.trace = t] \in Buses
      BY <2>2 DEF Buses
    <2>5. [b EXCEPT !.trace = t].mem = b.mem /\ [b EXCEPT !.trace = t].fault = b.fault
      BY DEF Buses
    <2> QED
      BY <2>1, <2>3, <2>4, <2>5
  <1> QED
    BY <1>2, <1>3

LEMMA BusWriteType ==
    ASSUME NEW b \in Buses, NEW a, NEW v \in Values
    PROVE  BusWrite(b, a, v) \in Buses
  <1>1. b.mem \in [Values -> Values] /\ b.trace \in Seq(Accesses) /\ b.fault \in BOOLEAN
    BY DEF Buses
  <1>2. CASE Faults(a)
    <2>1. [b EXCEPT !.fault = TRUE] \in Buses
      BY DEF Buses
    <2> QED
      BY <1>2, <2>1 DEF BusWrite
  <1>3. CASE ~Faults(a)
    <2> DEFINE t == Append(b.trace, <<"write", a, v>>)
               m == [b.mem EXCEPT ![a] = v]
    <2>1. a \in Values /\ <<"write", a, v>> \in Accesses
      BY <1>1, <1>3 DEF Faults, Accesses
    <2>2. t \in Seq(Accesses) /\ m \in [Values -> Values]
      BY <1>1, <2>1
    <2>3. BusWrite(b, a, v) = [b EXCEPT !.mem = m, !.trace = t]
      BY <1>3 DEF BusWrite, Buses
    <2> HIDE DEF t, m
    <2>4. [b EXCEPT !.mem = m, !.trace = t] \in Buses
      BY <2>2 DEF Buses
    <2> QED
      BY <2>3, <2>4
  <1> QED
    BY <1>2, <1>3

LEMMA VmFields ==
    ASSUME NEW vm \in VmStates
    PROVE  /\ vm.stack \in Seq(Values) /\ vm.bus \in Buses /\ vm.lost \in BOOLEAN
           /\ [vm EXCEPT !.lost = TRUE] \in VmStates
           /\ \A t \in Seq(Values) : [vm EXCEPT !.stack = t] \in VmStates
           /\ \A b \in Buses : [vm EXCEPT !.bus = b] \in VmStates
  <1>1. vm.stack \in Seq(Values) /\ vm.bus \in Buses /\ vm.lost \in BOOLEAN
    BY DEF VmStates
  <1>2. [vm EXCEPT !.lost = TRUE] \in VmStates
    BY DEF VmStates
  <1>3. \A t \in Seq(Values) : [vm EXCEPT !.stack = t] \in VmStates
    BY DEF VmStates
  <1>4. \A b \in Buses : [vm EXCEPT !.bus = b] \in VmStates
    BY DEF VmStates
  <1> QED
    BY <1>1, <1>2, <1>3, <1>4

LEMMA VmPushType ==
    ASSUME NEW vm \in VmStates, NEW v \in Values
    PROVE  VmPush(vm, v) \in VmStates
  <1>1. vm.stack \in Seq(Values)
    BY VmFields
  <1>2. Append(vm.stack, v) \in Seq(Values)
    BY <1>1
  <1> QED
    BY <1>2, VmFields DEF VmPush

LEMMA VmPopType ==
    ASSUME NEW vm \in VmStates
    PROVE  VmPop(vm) \in VmStates /\ VmTop(vm) \in Values /\ VmPop(vm).bus = vm.bus
  <1>1. vm.stack \in Seq(Values)
    BY VmFields
  <1>2. vm.stack # <<>> => Front(vm.stack) \in Seq(Values) /\ Last(vm.stack) \in Values
    BY <1>1 DEF Front, Last
  <1>3. VmPop(vm) \in VmStates
    BY <1>2, VmFields DEF VmPop
  <1>4. VmPop(vm).bus = vm.bus
    BY DEF VmPop, VmStates
  <1> QED
    BY <1>2, <1>3, <1>4, FaultingAssumption DEF VmTop

LEMMA VmStepType ==
    ASSUME NEW vm \in VmStates, NEW prim \in Primitives
    PROVE  VmStep(vm, prim) \in VmStates
  <1>1. prim.op \in {"lit", "load_reg", "write_reg", "halt"} /\ prim.arg \in Values
    BY FaultingAssumption DEF Primitives, Lit, LoadReg, WriteReg, Halt
  <1>2. load_reg_prim(vm) \in VmStates
    <2> DEFINE a == VmTop(vm)
               popped == [VmPop(vm) EXCEPT !.bus = BusRead(@, a)]
    <2>1. BusRead(VmPop(vm).bus, a) \in Buses /\ VmPop(vm) \in VmStates
      BY VmPopType, BusReadType DEF VmStates
    <2>2. popped \in VmStates /\ popped.bus = BusRead(vm.bus, a)
      BY <2>1, VmPopType DEF VmStates
    <2>3. ~popped.bus.fault => vm.bus.mem[a] \in Values
      BY <2>2, BusReadType DEF VmStates, Buses
    <2> HIDE DEF popped, a
    <2>4. (IF popped.bus.fault THEN popped ELSE VmPush(popped, vm.bus.mem[a])) \in VmStates
      BY <2>2, <2>3, VmPushType
    <2> QED
      BY <2>4 DEF load_reg_prim, popped, a
  <1>3. write_reg_prim(vm) \in VmStates
    <2>1. VmPop(vm) \in VmStates /\ VmPop(VmPop(vm)) \in VmStates /\ VmTop(vm) \in Values
      BY VmPopType
    <2>2. BusWrite(VmPop(VmPop(vm)).bus, VmTop(VmPop(vm)), VmTop(vm)) \in Buses
      BY <2>1, BusWriteType DEF VmStates
    <2> QED
      BY <2>1, <2>2 DEF write_reg_prim, VmStates
  <1> QED
    BY <1>1, <1>2, <1>3, VmPushType DEF VmStep

(* The threaded interpreter goes through one state per primitive.          *)
LEMMA ThreadedRun ==
    ASSUME NEW code \in Seq(Primitives), NEW mem \in [Values -> Values]
    PROVE  \E vm \in [0 .. Len(code) -> VmStates] :
               /\ vm[0] = VmReset(mem)
               /\ \A k \in 1 .. Len(code) : vm[k] = VmStep(vm[k - 1], code[k])
               /\ RunThreaded(code, mem) = vm[Len(code)]
  <1> DEFINE n == Len(code)
             Body(g) == [k \in 0 .. n |->
                 IF k = 0 THEN VmReset(mem) ELSE OneStep(LAMBDA s : VmStep(s, code[k]), g[k - 1])]
             Plain(g) == [k \in 0 .. n |->
                 IF k = 0 THEN VmReset(mem) ELSE VmStep(g[k - 1], code[k])]
             vm == CHOOSE g : g = Body(g)
             F == [p \in (1 .. n) \X VmStates |-> VmStep(p[2], code[p[1]])]
  <1>1. ASSUME NEW g
        PROVE  Body(g) = Plain(g)
    BY DEF OneStep
  <1>2. RunThreaded(code, mem) = vm[n]
    BY Zenon DEF RunThreaded
  <1>3. n \in Nat /\ \A k \in 1 .. n : code[k] \in Primitives
    OBVIOUS
  <1>4. VmReset(mem) \in VmStates
    BY BusOnType DEF VmReset, VmStates
  <1>5. F \in [(1 .. n) \X VmStates -> VmStates]
    BY <1>3, VmStepType
  <1>6. PICK g : IsRun(VmStates, VmReset(mem), F, n, g)
    <2> HIDE DEF n, F
    <2> QED
      BY <1>3, <1>4, <1>5, RunExists DEF HasRun
  <1>7. g = Plain(g)
    <2>1. \A k \in 1 .. n : <<k, g[k - 1]>> \in (1 .. n) \X VmStates
      BY <1>6 DEF IsRun
    <2>2. \A k \in 1 .. n : g[k] = VmStep(g[k - 1], code[k])
      BY <1>6, <2>1 DEF IsRun
    <2> QED
      BY <1>6, <2>2 DEF IsRun
  <1>8. vm = Plain(vm)
    <2>1. g = Body(g)
      BY <1>1, <1>7
    <2> HIDE DEF Body, Plain
    <2>2. vm = Body(vm)
      BY <2>1
    <2> HIDE DEF vm
    <2> QED
      BY <1>1, <2>2
  <1> HIDE DEF vm, F, Body
  <1>9. vm[0] = VmReset(mem) /\ \A k \in 1 .. n : vm[k] = VmStep(vm[k - 1], code[k])
    BY <1>3, <1>8
  <1>10. \A k \in 0 .. n : vm[k] \in VmStates
    <2>1. \A k \in 1 .. n : vm[k - 1] \in VmStates => vm[k] \in VmStates
      BY <1>3, <1>9, VmStepType
    <2> HIDE DEF n
    <2> QED
      BY <1>3, <1>4, <1>9, <2>1, RunStays
  <1>11. vm \in [0 .. n -> VmStates]
    BY <1>8, <1>10
  <1> QED
    BY <1>2, <1>9, <1>11

-----------------------------------------------------------------------------
(* The code generator.                                                     *)

Instrs == [i : {"mov", "ldr", "str", "ret"}, reg : {"acc", "scratch", "none"}, imm : Values]
Emitters == [code : Seq(Instrs), acc_loaded : BOOLEAN, err : BOOLEAN]

LEMMA EmitType ==
    ASSUME NEW em \in Emitters, NEW instr \in Instrs
    PROVE  Emit(em, instr) \in Emitters
  <1>1. em.code \in Seq(Instrs)
    BY DEF Emitters
  <1>2. Append(em.code, instr) \in Seq(Instrs)
    BY <1>1
  <1>3. \A c \in Seq(Instrs) : [em EXCEPT !.code = c] \in Emitters
    BY DEF Emitters
  <1>4. [em EXCEPT !.err = TRUE] \in Emitters
    BY DEF Emitters
  <1>5. Emit(em, instr) = IF Len(em.code) >= EXEC_CAPACITY THEN [em EXCEPT !.err = TRUE]
                          ELSE [em EXCEPT !.code = Append(em.code, instr)]
    BY DEF Emit, Emitters
  <1> QED
    BY <1>2, <1>3, <1>4, <1>5

LEMMA EmitStepType ==
    ASSUME NEW em \in Emitters, NEW code \in Seq(Primitives), NEW k \in 1 .. Len(code)
    PROVE  EmitStep(em, code, k) \in Emitters
  <1>1. code[k] \in Primitives
    OBVIOUS
  <1>2. code[k].op \in {"lit", "load_reg", "write_reg", "halt"} /\ code[k].arg \in Values
    BY <1>1, FaultingAssumption DEF Primitives, Lit, LoadReg, WriteReg, Halt
  <1>3. code[k].op # "halt" => Selected(em, code, k) \in Instrs
    <2>1. LitRegister(em, code, k) \in {"acc", "scratch"}
      BY DEF LitRegister
    <2> QED
      BY <1>2, <2>1, FaultingAssumption DEF Selected, MovImm, LdrAcc, StrScratch, Instrs
  <1>4. \A e \in Emitters, instr \in Instrs : AccLoadedBy(e, instr) \in Emitters
    BY DEF AccLoadedBy, Emitters
  <1> QED
    BY <1>2, <1>3, <1>4, EmitType DEF EmitStep

(* The code generator goes through one state per primitive.                *)
LEMMA EmissionRun ==
    ASSUME NEW code \in Seq(Primitives)
    PROVE  \E em \in [0 .. Len(code) -> Emitters] :
               /\ em[0] = NewEmitter
               /\ \A k \in 1 .. Len(code) : em[k] = EmitStep(em[k - 1], code, k)
               /\ CompileNative(code) = Emit(em[Len(code)], Ret)
  <1> DEFINE n == Len(code)
             Body(g) == [k \in 0 .. n |->
                 IF k = 0 THEN NewEmitter ELSE OneStep(LAMBDA s : EmitStep(s, code, k), g[k - 1])]
             Plain(g) == [k \in 0 .. n |->
                 IF k = 0 THEN NewEmitter ELSE EmitStep(g[k - 1], code, k)]
             em == CHOOSE g : g = Body(g)
             F == [p \in (1 .. n) \X Emitters |-> EmitStep(p[2], code, p[1])]
  <1>1. ASSUME NEW g
        PROVE  Body(g) = Plain(g)
    BY DEF OneStep
  <1>2. CompileNative(code) = Emit(em[n], Ret)
    BY Zenon DEF CompileNative
  <1>3. n \in Nat
    OBVIOUS
  <1>4. NewEmitter \in Emitters
    BY DEF NewEmitter, Emitters
  <1>5. F \in [(1 .. n) \X Emitters -> Emitters]
    BY <1>3, EmitStepType
  <1>6. PICK g : IsRun(Emitters, NewEmitter, F, n, g)
    <2> HIDE DEF n, F
    <2> QED
      BY <1>3, <1>4, <1>5, RunExists DEF HasRun
  <1>7. g = Plain(g)
    <2>1. \A k \in 1 .. n : <<k, g[k - 1]>> \in (1 .. n) \X Emitters
      BY <1>6 DEF IsRun
    <2>2. \A k \in 1 .. n : g[k] = EmitStep(g[k - 1], code, k)
      BY <1>6, <2>1 DEF IsRun
    <2> QED
      BY <1>6, <2>2 DEF IsRun
  <1>8. em = Plain(em)
    <2>1. g = Body(g)
      BY <1>1, <1>7
    <2> HIDE DEF Body, Plain
    <2>2. em = Body(em)
      BY <2>1
    <2> HIDE DEF em
    <2> QED
      BY <1>1, <2>2
  <1> HIDE DEF em, F, Body
  <1>9. em[0] = NewEmitter /\ \A k \in 1 .. n : em[k] = EmitStep(em[k - 1], code, k)
    BY <1>3, <1>8
  <1>10. \A k \in 0 .. n : em[k] \in Emitters
    <2>1. \A k \in 1 .. n : em[k - 1] \in Emitters => em[k] \in Emitters
      BY <1>3, <1>9, EmitStepType
    <2> HIDE DEF n
    <2> QED
      BY <1>3, <1>4, <1>9, <2>1, RunStays
  <1>11. em \in [0 .. n -> Emitters]
    BY <1>8, <1>10
  <1> QED
    BY <1>2, <1>9, <1>11

LEMMA CompileNativeType ==
    ASSUME NEW code \in Seq(Primitives)
    PROVE  CompileNative(code) \in Emitters
  <1>1. Ret \in Instrs
    BY FaultingAssumption DEF Ret, Instrs
  <1> QED
    BY <1>1, EmissionRun, EmitType

-----------------------------------------------------------------------------
(* The machine.                                                            *)

Cpus == [acc : Values, scratch : Values, bus : Buses, returned : BOOLEAN]

LEMMA CpuStepType ==
    ASSUME NEW cpu \in Cpus, NEW instr \in Instrs
    PROVE  CpuStep(cpu, instr) \in Cpus
  <1>1. cpu.acc \in Values /\ cpu.scratch \in Values /\ cpu.bus \in Buses
    BY DEF Cpus
  <1>2. instr.i \in {"mov", "ldr", "str", "ret"} /\ instr.imm \in Values
    BY DEF Instrs
  <1>3. \A v \in Values : [cpu EXCEPT !.acc = v] \in Cpus /\ [cpu EXCEPT !.scratch = v] \in Cpus
    BY DEF Cpus
  <1>4. \A b \in Buses, v \in Values : [cpu EXCEPT !.bus = b, !.acc = v] \in Cpus
    BY DEF Cpus
  <1>5. \A b \in Buses : [cpu EXCEPT !.bus = b] \in Cpus
    BY DEF Cpus
  <1>6. [cpu EXCEPT !.returned = TRUE] \in Cpus
    BY DEF Cpus
  <1>7. CASE instr.i = "ldr" /\ ~(cpu.bus.fault \/ cpu.returned)
    <2> DEFINE bus == BusRead(cpu.bus, cpu.scratch)
               v == IF bus.fault THEN cpu.acc ELSE bus.mem[cpu.scratch]
    <2>1. bus \in Buses /\ bus.mem = cpu.bus.mem
      BY <1>1, BusReadType
    <2>2. v \in Values
      BY <1>1, <2>1 DEF Buses
    <2>3. CpuStep(cpu, instr) = [cpu EXCEPT !.bus = bus, !.acc = v]
      BY <1>7 DEF CpuStep, Cpus
    <2> HIDE DEF bus, v
    <2> QED
      BY <2>1, <2>2, <2>3, <1>4
  <1>8. CASE instr.i = "str" /\ ~(cpu.bus.fault \/ cpu.returned)
    <2>1. BusWrite(cpu.bus, cpu.acc, cpu.scratch) \in Buses
      BY <1>1, BusWriteType
    <2>2. CpuStep(cpu, instr) = [cpu EXCEPT !.bus = BusWrite(cpu.bus, cpu.acc, cpu.scratch)]
      BY <1>8 DEF CpuStep, Cpus
    <2> QED
      BY <2>1, <2>2, <1>5
  <1>9. CASE cpu.bus.fault \/ cpu.returned
    BY <1>9 DEF CpuStep
  <1>10. CASE instr.i = "mov" /\ ~(cpu.bus.fault \/ cpu.returned)
    <2>1. CpuStep(cpu, instr) = IF instr.reg = "acc" THEN [cpu EXCEPT !.acc = instr.imm]
                                ELSE [cpu EXCEPT !.scratch = instr.imm]
      BY <1>10 DEF CpuStep
    <2> QED
      BY <1>2, <1>3, <2>1
  <1>11. CASE instr.i = "ret" /\ ~(cpu.bus.fault \/ cpu.returned)
    <2>1. CpuStep(cpu, instr) = [cpu EXCEPT !.returned = TRUE]
      BY <1>11 DEF CpuStep
    <2> QED
      BY <1>6, <2>1
  <1> QED
    BY <1>2, <1>7, <1>8, <1>9, <1>10, <1>11

(* The machine goes through one state per instruction.                     *)
LEMMA NativeRun ==
    ASSUME NEW instrs \in Seq(Instrs), NEW mem \in [Values -> Values]
    PROVE  \E cpu \in [0 .. Len(instrs) -> Cpus] :
               /\ cpu[0] = CpuOn(mem, ZERO, ZERO)
               /\ \A k \in 1 .. Len(instrs) : cpu[k] = CpuStep(cpu[k - 1], instrs[k])
               /\ RunNative(instrs, mem) = cpu[Len(instrs)]
  <1> DEFINE n == Len(instrs)
             start == CpuOn(mem, ZERO, ZERO)
             Body(g) == [k \in 0 .. n |->
                 IF k = 0 THEN start ELSE OneStep(LAMBDA s : CpuStep(s, instrs[k]), g[k - 1])]
             Plain(g) == [k \in 0 .. n |->
                 IF k = 0 THEN start ELSE CpuStep(g[k - 1], instrs[k])]
             cpu == CHOOSE g : g = Body(g)
             F == [p \in (1 .. n) \X Cpus |-> CpuStep(p[2], instrs[p[1]])]
  <1>1. ASSUME NEW g
        PROVE  Body(g) = Plain(g)
    BY DEF OneStep
  <1>2. RunNative(instrs, mem) = cpu[n]
    BY Zenon DEF RunNative
  <1>3. n \in Nat /\ \A k \in 1 .. n : instrs[k] \in Instrs
    OBVIOUS
  <1>4. start \in Cpus
    BY BusOnType, FaultingAssumption DEF CpuOn, Cpus
  <1>5. F \in [(1 .. n) \X Cpus -> Cpus]
    BY <1>3, CpuStepType
  <1>6. PICK g : IsRun(Cpus, start, F, n, g)
    <2> HIDE DEF n, F, start
    <2> QED
      BY <1>3, <1>4, <1>5, RunExists DEF HasRun
  <1>7. g = Plain(g)
    <2>1. \A k \in 1 .. n : <<k, g[k - 1]>> \in (1 .. n) \X Cpus
      BY <1>6 DEF IsRun
    <2>2. \A k \in 1 .. n : g[k] = CpuStep(g[k - 1], instrs[k])
      BY <1>6, <2>1 DEF IsRun
    <2> QED
      BY <1>6, <2>2 DEF IsRun
  <1>8. cpu = Plain(cpu)
    <2>1. g = Body(g)
      BY <1>1, <1>7
    <2> HIDE DEF Body, Plain
    <2>2. cpu = Body(cpu)
      BY <2>1
    <2> HIDE DEF cpu
    <2> QED
      BY <1>1, <2>2
  <1> HIDE DEF cpu, F, Body
  <1>9. cpu[0] = start /\ \A k \in 1 .. n : cpu[k] = CpuStep(cpu[k - 1], instrs[k])
    BY <1>3, <1>8
  <1>10. \A k \in 0 .. n : cpu[k] \in Cpus
    <2>1. \A k \in 1 .. n : cpu[k - 1] \in Cpus => cpu[k] \in Cpus
      BY <1>3, <1>9, CpuStepType
    <2> HIDE DEF n
    <2> QED
      BY <1>3, <1>4, <1>9, <2>1, RunStays
  <1>11. cpu \in [0 .. n -> Cpus]
    BY <1>8, <1>10
  <1> QED
    BY <1>2, <1>9, <1>11

(* Whichever engine runs a stream leaves a bus.                            *)
LEMMA RunProgramType ==
    ASSUME NEW code \in Seq(Primitives), NEW mem \in [Values -> Values]
    PROVE  RunProgram(code, mem) \in Buses
  <1>1. RunThreaded(code, mem) \in VmStates
    BY ThreadedRun
  <1>2. CompileNative(code).code \in Seq(Instrs)
    BY CompileNativeType DEF Emitters
  <1>3. RunNative(CompileNative(code).code, mem) \in Cpus
    BY <1>2, NativeRun
  <1>4. RunThreaded(code, mem).bus \in Buses /\ RunNative(CompileNative(code).code, mem).bus \in Buses
    BY <1>1, <1>3 DEF VmStates, Cpus
  <1> QED
    BY <1>4 DEF RunProgram

-----------------------------------------------------------------------------
(* The encoders and the decoders (Encodings).                              *)

(* A bit of a field is a bit of the word, low places up; a bit of a        *)
(* shifted word is one k places down.                                      *)
LEMMA FieldBit ==
    ASSUME NEW x \in SUBSET Nat, NEW low \in Nat, NEW width \in Nat \ {0}, NEW b
    PROVE  b \in Field(x, low, width) <=> b \in 0 .. width - 1 /\ b + low \in x
  <1>1. ASSUME b \in Field(x, low, width) PROVE b \in 0 .. width - 1 /\ b + low \in x
    <2>1. PICK c \in x \cap (low .. low + width - 1) : b = c - low
      BY <1>1 DEF Field
    <2> QED BY <2>1
  <1>2. ASSUME b \in 0 .. width - 1, b + low \in x PROVE b \in Field(x, low, width)
    <2>1. b + low \in x \cap (low .. low + width - 1) /\ b = (b + low) - low
      BY <1>2
    <2> QED BY <2>1 DEF Field
  <1> QED BY <1>1, <1>2

LEMMA ShlBit ==
    ASSUME NEW x \in SUBSET Nat, NEW k \in Nat, NEW b
    PROVE  b \in Shl(x, k) <=> b \in Nat /\ b >= k /\ b - k \in x
  <1>1. ASSUME b \in Shl(x, k) PROVE b \in Nat /\ b >= k /\ b - k \in x
    <2>1. PICK c \in x : b = c + k  BY <1>1 DEF Shl
    <2> QED BY <2>1
  <1>2. ASSUME b \in Nat, b >= k, b - k \in x PROVE b \in Shl(x, k)
    <2>1. b = (b - k) + k  BY <1>2
    <2> QED BY <1>2, <2>1 DEF Shl
  <1> QED BY <1>1, <1>2

LEMMA FieldOfBits ==
    ASSUME NEW x \in SUBSET Nat, NEW low \in Nat, NEW width \in Nat \ {0}
    PROVE  Field(x, low, width) \in SUBSET Nat
  BY FieldBit

LEMMA ShlOfBits ==
    ASSUME NEW x \in SUBSET Nat, NEW k \in Nat
    PROVE  Shl(x, k) \in SUBSET Nat
  BY ShlBit

(* The immediate MOVW and MOVT scatter over four fields is gathered again, *)
(* next to the opcode and the register.                                    *)
LEMMA WideMoveFields ==
    ASSUME NEW opcode \in {MOVW, MOVT}, NEW rd \in SUBSET (0 .. 3), NEW half \in Word
    PROVE  LET hw == WideMove(opcode, rd, half)
           IN  /\ ThumbWideImmediate(hw[1], hw[2]) = half \cap (0 .. 15)
               /\ Field(hw[2], 8, 4) = rd
               /\ Field(hw[1], 11, 5) = {1, 2, 3, 4}
               /\ Field(hw[1], 4, 6) = Field(opcode, 4, 6)
               /\ 15 \notin hw[2]
  <1> DEFINE hw == WideMove(opcode, rd, half)
             i == Field(half, 11, 1)
             imm4 == Field(half, 12, 4)
             imm3 == Field(half, 8, 3)
             imm8 == Field(half, 0, 8)
  <1>0. half \in SUBSET Nat /\ rd \in SUBSET Nat /\ opcode \in SUBSET Nat
    BY DEF Word, MOVW, MOVT
  <1>1. /\ \A b : b \in i <=> b = 0 /\ 11 \in half
        /\ \A b : b \in imm4 <=> b \in 0 .. 3 /\ b + 12 \in half
        /\ \A b : b \in imm3 <=> b \in 0 .. 2 /\ b + 8 \in half
        /\ \A b : b \in imm8 <=> b \in 0 .. 7 /\ b \in half
    BY <1>0, FieldBit
  <1>2. i \in SUBSET Nat /\ imm4 \in SUBSET Nat /\ imm3 \in SUBSET Nat /\ imm8 \in SUBSET Nat
    BY <1>1
  <1>3. /\ \A b : b \in Shl(i, 10) <=> b = 10 /\ 11 \in half
        /\ \A b : b \in Shl(imm3, 12) <=> b \in 12 .. 14 /\ b - 4 \in half
        /\ \A b : b \in Shl(rd, 8) <=> b \in 8 .. 11 /\ b - 8 \in rd
    <2> HIDE DEF i, imm4, imm3, imm8
    <2> QED BY <1>0, <1>1, <1>2, ShlBit
  <1>4. /\ hw[1] = opcode \cup Shl(i, 10) \cup imm4
        /\ hw[2] = Shl(imm3, 12) \cup Shl(rd, 8) \cup imm8
    BY DEF WideMove
  <1> HIDE DEF hw, i, imm4, imm3, imm8
  <1>5. hw[1] \in SUBSET Nat /\ hw[2] \in SUBSET Nat
    <2>1. Shl(i, 10) \in SUBSET Nat /\ Shl(imm3, 12) \in SUBSET Nat /\ Shl(rd, 8) \in SUBSET Nat
      BY <1>0, <1>2, ShlOfBits
    <2> QED BY <1>0, <1>2, <1>4, <2>1
  <1>6. \A b : b \in hw[1] <=> b \in opcode \/ (b = 10 /\ 11 \in half) \/ (b \in 0 .. 3 /\ b + 12 \in half)
    BY <1>1, <1>3, <1>4
  <1>7. \A b : b \in hw[2] <=> \/ b \in 12 .. 14 /\ b - 4 \in half
                               \/ b \in 8 .. 11 /\ b - 8 \in rd
                               \/ b \in 0 .. 7 /\ b \in half
    BY <1>1, <1>3, <1>4
  <1>8. \A b : b \in opcode => b \in {15, 14, 13, 12, 9, 7, 6}
    BY DEF MOVW, MOVT
  <1>9. {15, 14, 13, 12} \subseteq opcode
    BY DEF MOVW, MOVT
  <1>10. Field(hw[2], 8, 4) = rd
    <2>1. \A b : b \in Field(hw[2], 8, 4) <=> b \in 0 .. 3 /\ b + 8 \in hw[2]
      BY <1>5, FieldBit
    <2>2. \A b \in 0 .. 3 : b + 8 \in hw[2] <=> b \in rd
      BY <1>7
    <2>3. \A b : b \in Field(hw[2], 8, 4) <=> b \in rd
      BY <2>1, <2>2
    <2> QED BY <2>3
  <1>11. Field(hw[1], 11, 5) = {1, 2, 3, 4}
    <2>1. \A b : b \in Field(hw[1], 11, 5) <=> b \in 0 .. 4 /\ b + 11 \in hw[1]
      BY <1>5, FieldBit
    <2> QED BY <2>1, <1>6, <1>8, <1>9
  <1>12. Field(hw[1], 4, 6) = Field(opcode, 4, 6)
    <2>1. \A b : b \in Field(hw[1], 4, 6) <=> b \in 0 .. 5 /\ b + 4 \in hw[1]
      BY <1>5, FieldBit
    <2>2. \A b : b \in Field(opcode, 4, 6) <=> b \in 0 .. 5 /\ b + 4 \in opcode
      BY <1>0, FieldBit
    <2> QED BY <2>1, <2>2, <1>6
  <1>13. ThumbWideImmediate(hw[1], hw[2]) = half \cap (0 .. 15)
    <2> DEFINE f4 == Field(hw[1], 0, 4)
               f1 == Field(hw[1], 10, 1)
               f3 == Field(hw[2], 12, 3)
               f8 == Field(hw[2], 0, 8)
    <2>1. /\ \A b : b \in f4 <=> b \in 0 .. 3 /\ b \in hw[1]
          /\ \A b : b \in f1 <=> b = 0 /\ 10 \in hw[1]
          /\ \A b : b \in f3 <=> b \in 0 .. 2 /\ b + 12 \in hw[2]
          /\ \A b : b \in f8 <=> b \in 0 .. 7 /\ b \in hw[2]
      BY <1>5, FieldBit
    <2>2. /\ \A b : b \in f4 <=> b \in 0 .. 3 /\ b + 12 \in half
          /\ \A b : b \in f1 <=> b = 0 /\ 11 \in half
          /\ \A b : b \in f3 <=> b \in 0 .. 2 /\ b + 8 \in half
          /\ \A b : b \in f8 <=> b \in 0 .. 7 /\ b \in half
      <3> HIDE DEF f4, f1, f3, f8
      <3>1. \A b : b \in f4 <=> b \in 0 .. 3 /\ b + 12 \in half  BY <2>1, <1>6, <1>8
      <3>2. \A b : b \in f1 <=> b = 0 /\ 11 \in half  BY <2>1, <1>6, <1>8
      <3>3. \A b : b \in f3 <=> b \in 0 .. 2 /\ b + 8 \in half  BY <2>1, <1>7
      <3>4. \A b : b \in f8 <=> b \in 0 .. 7 /\ b \in half  BY <2>1, <1>7
      <3> QED BY <3>1, <3>2, <3>3, <3>4
    <2>3. f4 \in SUBSET Nat /\ f1 \in SUBSET Nat /\ f3 \in SUBSET Nat
      BY <2>2
    <2>4. ThumbWideImmediate(hw[1], hw[2]) = Shl(f4, 12) \cup Shl(f1, 11) \cup Shl(f3, 8) \cup f8
      BY DEF ThumbWideImmediate
    <2> HIDE DEF f4, f1, f3, f8
    <2>5. /\ \A b : b \in Shl(f4, 12) <=> b \in 12 .. 15 /\ b \in half
          /\ \A b : b \in Shl(f1, 11) <=> b = 11 /\ b \in half
          /\ \A b : b \in Shl(f3, 8) <=> b \in 8 .. 10 /\ b \in half
      BY <2>2, <2>3, ShlBit
    <2> QED BY <2>2, <2>4, <2>5
  <1>14. 15 \notin hw[2]
    BY <1>7
  <1> QED BY <1>10, <1>11, <1>12, <1>13, <1>14 DEF hw

(* The processor tells the two wide moves apart by the opcode field.       *)
LEMMA WideMoveOpcodes ==
    Field(MOVW, 4, 6) = {2, 5} /\ Field(MOVT, 4, 6) = {2, 3, 5} /\ {2, 3, 5} # {2, 5}
  <1>1. MOVW \in SUBSET Nat /\ MOVT \in SUBSET Nat  BY DEF MOVW, MOVT
  <1>2. \A b : b \in Field(MOVW, 4, 6) <=> b \in 0 .. 5 /\ b + 4 \in MOVW  BY <1>1, FieldBit
  <1>3. \A b : b \in Field(MOVT, 4, 6) <=> b \in 0 .. 5 /\ b + 4 \in MOVT  BY <1>1, FieldBit
  <1>4. Field(MOVW, 4, 6) = {2, 5}  BY <1>2 DEF MOVW
  <1>5. Field(MOVT, 4, 6) = {2, 3, 5}  BY <1>3 DEF MOVT
  <1> QED BY <1>4, <1>5

LEMMA MovwDecoded ==
    ASSUME NEW rd \in SUBSET (0 .. 3), NEW half \in Word
    PROVE  LET hw == WideMove(MOVW, rd, half)
           IN  /\ Field(hw[1], 11, 5) = {1, 2, 3, 4}
               /\ ThumbDecodeWide(hw[1], hw[2]) = Decoded("mov", rd, {}, half \cap (0 .. 15), 2)
  <1> DEFINE hw == WideMove(MOVW, rd, half)
  <1>1. /\ ThumbWideImmediate(hw[1], hw[2]) = half \cap (0 .. 15)
        /\ Field(hw[2], 8, 4) = rd
        /\ Field(hw[1], 11, 5) = {1, 2, 3, 4}
        /\ Field(hw[1], 4, 6) = Field(MOVW, 4, 6)
        /\ 15 \notin hw[2]
    BY WideMoveFields
  <1> HIDE DEF hw
  <1>2. ThumbDecodeWide(hw[1], hw[2]) = Decoded("mov", rd, {}, half \cap (0 .. 15), 2)
    BY <1>1, WideMoveOpcodes DEF ThumbDecodeWide
  <1> QED BY <1>1, <1>2 DEF hw

LEMMA MovtDecoded ==
    ASSUME NEW rd \in SUBSET (0 .. 3), NEW half \in Word
    PROVE  LET hw == WideMove(MOVT, rd, half)
           IN  /\ Field(hw[1], 11, 5) = {1, 2, 3, 4}
               /\ ThumbDecodeWide(hw[1], hw[2]) = Decoded("movt", rd, {}, half \cap (0 .. 15), 2)
  <1> DEFINE hw == WideMove(MOVT, rd, half)
  <1>1. /\ ThumbWideImmediate(hw[1], hw[2]) = half \cap (0 .. 15)
        /\ Field(hw[2], 8, 4) = rd
        /\ Field(hw[1], 11, 5) = {1, 2, 3, 4}
        /\ Field(hw[1], 4, 6) = Field(MOVT, 4, 6)
        /\ 15 \notin hw[2]
    BY WideMoveFields
  <1> HIDE DEF hw
  <1>2. ThumbDecodeWide(hw[1], hw[2]) = Decoded("movt", rd, {}, half \cap (0 .. 15), 2)
    BY <1>1, WideMoveOpcodes DEF ThumbDecodeWide
  <1> QED BY <1>1, <1>2 DEF hw

(* Executed: what a short instruction sets the register to.                *)
LEMMA ShortMove ==
    ASSUME NEW reg \in SUBSET (0 .. 2), NEW imm \in SUBSET (0 .. 7)
    PROVE  ThumbDecode(<<MOVS \cup Shl(reg, 8) \cup imm>>, 1) = Decoded("mov", reg, {}, imm, 1)
  <1> DEFINE hw == MOVS \cup Shl(reg, 8) \cup imm
  <1>1. \A b : b \in Shl(reg, 8) <=> b \in 8 .. 10 /\ b - 8 \in reg
    BY ShlBit
  <1>2. \A b : b \in hw <=> b = 13 \/ (b \in 8 .. 10 /\ b - 8 \in reg) \/ b \in imm
    BY <1>1 DEF MOVS
  <1>3. hw \in SUBSET Nat
    <2>1. Shl(reg, 8) \in SUBSET Nat  BY ShlOfBits
    <2>2. MOVS \in SUBSET Nat  BY DEF MOVS
    <2>3. imm \in SUBSET Nat  OBVIOUS
    <2> QED BY <2>1, <2>2, <2>3
  <1> HIDE DEF hw
  <1>4. Field(hw, 11, 5) = {2}
    <2>1. \A b : b \in Field(hw, 11, 5) <=> b \in 0 .. 4 /\ b + 11 \in hw  BY <1>3, FieldBit
    <2> QED BY <2>1, <1>2
  <1>5. Field(hw, 8, 3) = reg
    <2>1. \A b : b \in Field(hw, 8, 3) <=> b \in 0 .. 2 /\ b + 8 \in hw  BY <1>3, FieldBit
    <2>2. \A b \in 0 .. 2 : b + 8 \in hw <=> b \in reg  BY <1>2
    <2> QED BY <2>1, <2>2
  <1>6. Field(hw, 0, 8) = imm
    <2>1. \A b : b \in Field(hw, 0, 8) <=> b \in 0 .. 7 /\ b + 0 \in hw  BY <1>3, FieldBit
    <2>2. \A b \in 0 .. 7 : b \in hw <=> b \in imm  BY <1>2
    <2>3. \A b \in 0 .. 7 : b + 0 = b  OBVIOUS
    <2>4. \A b : b \in Field(hw, 0, 8) <=> b \in 0 .. 7 /\ b \in imm  BY <2>1, <2>2, <2>3
    <2> QED BY <2>4
  <1>7. hw # BX_LR
    BY <1>2 DEF BX_LR
  <1>8. {2} # {1, 2, 3, 4}
    OBVIOUS
  <1> QED BY <1>4, <1>5, <1>6, <1>7, <1>8 DEF ThumbDecode, ThumbDecodeShort, hw

(* The value in a register after the instructions emit_mov_imm emits on    *)
(* ARM, decoded by the processor: MOVS or MOVW sets the register, MOVT its *)
(* upper half.                                                             *)
ThumbLoads(code, reg, imm) ==
    \/ /\ Len(code) = 1
       /\ ThumbDecode(code, 1) = Decoded("mov", reg, {}, imm, 1)
    \/ /\ Len(code) = 2
       /\ ThumbDecode(code, 1) = Decoded("mov", reg, {}, imm, 2)
    \/ /\ Len(code) = 4
       /\ \E low, high \in SUBSET (0 .. 15) :
             /\ ThumbDecode(code, 1) = Decoded("mov", reg, {}, low, 2)
             /\ ThumbDecode(code, 3) = Decoded("movt", reg, {}, high, 2)
             /\ (low \cap (0 .. 15)) \cup Shl(high, 16) = imm

(* emit_mov_imm on ARM: every 32-bit immediate, scattered over the fields  *)
(* of one to four halfwords, is the value the processor loads into every   *)
(* register the encoding can name.                                         *)
THEOREM ThumbImmediatesArrive ==
    ASSUME NEW reg \in SUBSET (0 .. 3), NEW imm \in Word
    PROVE  ThumbLoads(thumb_mov_imm(reg, imm), reg, imm)
  <1>1. CASE imm \subseteq 0 .. 7 /\ reg \subseteq 0 .. 2
    <2>1. thumb_mov_imm(reg, imm) = <<MOVS \cup Shl(reg, 8) \cup imm>>
      BY <1>1 DEF thumb_mov_imm
    <2>2. ThumbDecode(thumb_mov_imm(reg, imm), 1) = Decoded("mov", reg, {}, imm, 1)
      BY <1>1, <2>1, ShortMove
    <2> QED BY <2>1, <2>2 DEF ThumbLoads
  <1>2. CASE ~(imm \subseteq 0 .. 7 /\ reg \subseteq 0 .. 2)
    <2> DEFINE high == Field(imm, 16, 16)
               low == imm \cap (0 .. 15)
               w == WideMove(MOVW, reg, imm)
               t == WideMove(MOVT, reg, high)
    <2>1. \A b : b \in high <=> b \in 0 .. 15 /\ b + 16 \in imm
      BY FieldBit DEF Word
    <2>2. high \in SUBSET (0 .. 15) /\ high \in Word
      BY <2>1 DEF Word
    <2>3. /\ w = <<w[1], w[2]>>
          /\ t = <<t[1], t[2]>>
      <3>1. w = <<w[1], w[2]>>  BY DEF WideMove
      <3> HIDE DEF high
      <3>2. t = <<t[1], t[2]>>  BY DEF WideMove
      <3> QED BY <3>1, <3>2
    <2>4. ThumbDecodeWide(w[1], w[2]) = Decoded("mov", reg, {}, low, 2)
      BY MovwDecoded
    <2>5. ThumbDecodeWide(t[1], t[2]) = Decoded("movt", reg, {}, high, 2)
      <3>1. high \cap (0 .. 15) = high  BY <2>2
      <3> HIDE DEF high
      <3> QED BY <2>2, <3>1, MovtDecoded
    <2>6. Field(w[1], 11, 5) = {1, 2, 3, 4} /\ Field(t[1], 11, 5) = {1, 2, 3, 4}
      <3>1. Field(w[1], 11, 5) = {1, 2, 3, 4}  BY MovwDecoded
      <3> HIDE DEF high
      <3>2. Field(t[1], 11, 5) = {1, 2, 3, 4}  BY <2>2, MovtDecoded
      <3> QED BY <3>1, <3>2
    <2>7. low \cup Shl(high, 16) = imm
      <3>1. \A b : b \in Shl(high, 16) <=> b \in Nat /\ b >= 16 /\ b - 16 \in high
        <4> HIDE DEF high
        <4> QED BY <2>2, ShlBit
      <3>2. \A b : b \in Shl(high, 16) <=> b \in 16 .. 31 /\ b \in imm
        <4> HIDE DEF high
        <4> QED BY <3>1, <2>1
      <3>3. \A b \in imm : b \in 0 .. 15 \/ b \in 16 .. 31  BY DEF Word
      <3>4. \A b : b \in low \cup Shl(high, 16) <=> b \in imm
        <4> HIDE DEF high
        <4> QED BY <3>2, <3>3
      <3> QED BY <3>4
    <2> HIDE DEF w, t, high
    <2>8. CASE high = {}
      <3>1. thumb_mov_imm(reg, imm) = w
        BY <1>2, <2>8 DEF thumb_mov_imm, encode_movw, w, high
      <3>2. thumb_mov_imm(reg, imm) = <<w[1], w[2]>>
        BY <3>1, <2>3
      <3>3. Shl(high, 16) = {}
        BY <2>8 DEF Shl
      <3>4. ThumbDecode(<<w[1], w[2]>>, 1) = Decoded("mov", reg, {}, imm, 2)
        BY <2>4, <2>6, <2>7, <3>3 DEF ThumbDecode
      <3> QED BY <3>2, <3>4 DEF ThumbLoads
    <2>9. CASE high # {}
      <3>2. thumb_mov_imm(reg, imm) = <<w[1], w[2], t[1], t[2]>>
        BY <1>2, <2>9 DEF thumb_mov_imm, encode_movw, encode_movt, w, t, high
      <3>3. ThumbDecode(<<w[1], w[2], t[1], t[2]>>, 1) = Decoded("mov", reg, {}, low, 2)
        BY <2>4, <2>6 DEF ThumbDecode
      <3>4. ThumbDecode(<<w[1], w[2], t[1], t[2]>>, 3) = Decoded("movt", reg, {}, high, 2)
        BY <2>5, <2>6 DEF ThumbDecode
      <3>5. low \in SUBSET (0 .. 15) /\ low \cap (0 .. 15) = low
        OBVIOUS
      <3> QED BY <3>2, <3>3, <3>4, <3>5, <2>2, <2>7 DEF ThumbLoads
    <2> QED BY <2>8, <2>9
  <1> QED BY <1>1, <1>2

(* emit_mov_imm on RISC-V, the immediates of a single ADDI: exactly those  *)
(* between -2048 and 2047 survive the sign extension of the 12-bit field.  *)
(* (The others go through encode_lui, whose immediate is misplaced.)       *)
THEOREM RiscvShortImmediatesArrive ==
    ASSUME NEW rd \in SUBSET (0 .. 4), NEW rs1 \in SUBSET (0 .. 4), NEW imm \in Word,
           FitsAddi(imm)
    PROVE  RiscvDecode(encode_addi(rd, rs1, imm)) = Decoded("addi", rd, rs1, imm, 1)
  <1> DEFINE w == encode_addi(rd, rs1, imm)
             imm12 == imm \cap (0 .. 11)
  <1>0. imm12 \in SUBSET Nat /\ rd \in SUBSET Nat /\ rs1 \in SUBSET Nat
    OBVIOUS
  <1>1. /\ \A b : b \in Shl(rd, 7) <=> b \in 7 .. 11 /\ b - 7 \in rd
        /\ \A b : b \in Shl(rs1, 15) <=> b \in 15 .. 19 /\ b - 15 \in rs1
        /\ \A b : b \in Shl(imm12, 20) <=> b \in 20 .. 31 /\ b - 20 \in imm
    BY <1>0, ShlBit
  <1>2. /\ rd \cap (0 .. 4) = rd
        /\ rs1 \cap (0 .. 4) = rs1
    OBVIOUS
  <1>3. w = {0, 1, 4} \cup Shl(rd, 7) \cup Shl(rs1, 15) \cup Shl(imm12, 20)
    BY <1>2 DEF encode_addi
  <1> HIDE DEF w, imm12
  <1>4. \A b : b \in w <=> \/ b \in {0, 1, 4}
                           \/ b \in 7 .. 11 /\ b - 7 \in rd
                           \/ b \in 15 .. 19 /\ b - 15 \in rs1
                           \/ b \in 20 .. 31 /\ b - 20 \in imm
    BY <1>1, <1>3
  <1>5. w \in SUBSET Nat
    <2>1. Shl(rd, 7) \in SUBSET Nat /\ Shl(rs1, 15) \in SUBSET Nat /\ Shl(imm12, 20) \in SUBSET Nat
      BY <1>0, ShlOfBits
    <2> QED BY <2>1, <1>3
  <1>6. Field(w, 0, 7) = {0, 1, 4}
    <2>1. \A b : b \in Field(w, 0, 7) <=> b \in 0 .. 6 /\ b + 0 \in w  BY <1>5, FieldBit
    <2>2. \A b \in 0 .. 6 : b + 0 = b  OBVIOUS
    <2>3. \A b : b \in Field(w, 0, 7) <=> b \in 0 .. 6 /\ b \in w  BY <2>1, <2>2
    <2> QED BY <2>3, <1>4
  <1>7. Field(w, 12, 3) = {}
    <2>1. \A b : b \in Field(w, 12, 3) <=> b \in 0 .. 2 /\ b + 12 \in w  BY <1>5, FieldBit
    <2> QED BY <2>1, <1>4
  <1>8. Field(w, 7, 5) = rd
    <2>1. \A b : b \in Field(w, 7, 5) <=> b \in 0 .. 4 /\ b + 7 \in w  BY <1>5, FieldBit
    <2>2. \A b \in 0 .. 4 : b + 7 \in w <=> b \in rd  BY <1>4
    <2>3. \A b : b \in Field(w, 7, 5) <=> b \in rd  BY <2>1, <2>2
    <2> QED BY <2>3
  <1>9. Field(w, 15, 5) = rs1
    <2>1. \A b : b \in Field(w, 15, 5) <=> b \in 0 .. 4 /\ b + 15 \in w  BY <1>5, FieldBit
    <2>2. \A b \in 0 .. 4 : b + 15 \in w <=> b \in rs1  BY <1>4
    <2>3. \A b : b \in Field(w, 15, 5) <=> b \in rs1  BY <2>1, <2>2
    <2> QED BY <2>3
  <1>10. SignExtended(Field(w, 20, 12), 11) = imm
    <2>1. \A b : b \in Field(w, 20, 12) <=> b \in 0 .. 11 /\ b + 20 \in w  BY <1>5, FieldBit
    <2>2. \A b \in 0 .. 11 : b + 20 \in w <=> b \in imm  BY <1>4
    <2>3. \A b : b \in Field(w, 20, 12) <=> b \in 0 .. 11 /\ b \in imm  BY <2>1, <2>2
    <2>4. \A b \in imm : b \in 0 .. 31  BY DEF Word
    <2>5. CASE imm \subseteq 0 .. 10
      <3>1. \A b \in imm : b \in 0 .. 11  BY <2>5
      <3>2. 11 \notin imm  BY <2>5
      <3>3. \A b : b \in Field(w, 20, 12) <=> b \in imm  BY <2>3, <3>1
      <3>4. Field(w, 20, 12) = imm  BY <3>3
      <3> QED BY <3>2, <3>4 DEF SignExtended
    <2>6. CASE 11 .. 31 \subseteq imm
      <3>1. 11 \in Field(w, 20, 12)  BY <2>3, <2>6
      <3>2. \A b : b \in Field(w, 20, 12) \cup (11 .. 31) <=> b \in imm  BY <2>3, <2>4, <2>6
      <3>3. SignExtended(Field(w, 20, 12), 11) = Field(w, 20, 12) \cup (11 .. 31)
        BY <3>1 DEF SignExtended
      <3> QED BY <3>2, <3>3
    <2> QED BY <2>5, <2>6 DEF FitsAddi
  <1>11. {0, 1, 4} # {0, 1, 2, 4, 5}
    OBVIOUS
  <1>12. RiscvDecode(w) = Decoded("addi", rd, rs1, imm, 1)
    BY <1>6, <1>7, <1>8, <1>9, <1>10, <1>11 DEF RiscvDecode
  <1> QED BY <1>12 DEF w

(* Loads and stores on ARM: whatever low registers and word offset the     *)
(* encoder accepts, the processor finds them in the halfword.              *)
THEOREM ThumbAccessesArrive ==
    ASSUME NEW rt \in SUBSET (0 .. 2), NEW rn \in SUBSET (0 .. 2), NEW offset \in SUBSET (2 .. 6)
    PROVE  /\ ThumbDecode(encode_ldr_imm(rt, rn, offset), 1) = Decoded("load", rt, rn, offset, 1)
           /\ ThumbDecode(encode_str_imm(rt, rn, offset), 1) = Decoded("store", rt, rn, offset, 1)
  <1>1. ASSUME NEW opcode \in {LDR, STR}
        PROVE  LET hw == opcode \cup Shl(offset, 4) \cup Shl(rn, 3) \cup rt
               IN  /\ Field(hw, 11, 5) = Field(opcode, 11, 5)
                   /\ Field(hw, 0, 3) = rt
                   /\ Field(hw, 3, 3) = rn
                   /\ Shl(Field(hw, 6, 5), 2) = offset
                   /\ hw # BX_LR
    <2> DEFINE hw == opcode \cup Shl(offset, 4) \cup Shl(rn, 3) \cup rt
    <2>1. /\ \A b : b \in Shl(offset, 4) <=> b \in 6 .. 10 /\ b - 4 \in offset
          /\ \A b : b \in Shl(rn, 3) <=> b \in 3 .. 5 /\ b - 3 \in rn
      BY ShlBit
    <2>2. opcode \subseteq {14, 13, 11} /\ {14, 13} \subseteq opcode
      BY DEF LDR, STR
    <2>3. \A b : b \in hw <=> \/ b \in opcode
                              \/ b \in 6 .. 10 /\ b - 4 \in offset
                              \/ b \in 3 .. 5 /\ b - 3 \in rn
                              \/ b \in 0 .. 2 /\ b \in rt
      BY <2>1
    <2> HIDE DEF hw
    <2>4. hw \in SUBSET Nat /\ opcode \in SUBSET Nat
      <3>1. opcode \in SUBSET Nat  BY <2>2
      <3>2. \A b \in hw : b \in opcode \/ b \in 6 .. 10 \/ b \in 3 .. 5 \/ b \in 0 .. 2  BY <2>3
      <3>3. (\A b \in 6 .. 10 : b \in Nat) /\ (\A b \in 3 .. 5 : b \in Nat) /\ (\A b \in 0 .. 2 : b \in Nat)
        OBVIOUS
      <3>4. \A b \in hw : b \in Nat  BY <3>1, <3>2, <3>3, Zenon
      <3> QED BY <3>1, <3>4
    <2>5. Field(hw, 11, 5) = Field(opcode, 11, 5)
      <3>1. \A b : b \in Field(hw, 11, 5) <=> b \in 0 .. 4 /\ b + 11 \in hw  BY <2>4, FieldBit
      <3>2. \A b : b \in Field(opcode, 11, 5) <=> b \in 0 .. 4 /\ b + 11 \in opcode  BY <2>4, FieldBit
      <3>3. \A b \in 0 .. 4 : b + 11 \in hw <=> b + 11 \in opcode  BY <2>3
      <3> QED BY <3>1, <3>2, <3>3
    <2>6. Field(hw, 0, 3) = rt
      <3>1. \A b \in 0 .. 2 : b + 0 \in hw <=> b \in rt  BY <2>2, <2>3
      <3>2. \A b : b \in Field(hw, 0, 3) <=> b \in 0 .. 2 /\ b + 0 \in hw  BY <2>4, FieldBit
      <3>3. \A b : b \in Field(hw, 0, 3) <=> b \in rt  BY <3>1, <3>2
      <3> QED BY <3>3
    <2>7. Field(hw, 3, 3) = rn
      <3>1. \A b \in 0 .. 2 : b + 3 \in hw <=> b \in rn  BY <2>2, <2>3
      <3>2. \A b : b \in Field(hw, 3, 3) <=> b \in 0 .. 2 /\ b + 3 \in hw  BY <2>4, FieldBit
      <3>3. \A b : b \in Field(hw, 3, 3) <=> b \in rn  BY <3>1, <3>2
      <3> QED BY <3>3
    <2>8. Shl(Field(hw, 6, 5), 2) = offset
      <3>1. \A b : b \in Field(hw, 6, 5) <=> b \in 0 .. 4 /\ b + 6 \in hw  BY <2>4, FieldBit
      <3>2. \A b \in 0 .. 4 : b + 6 \in hw <=> b + 2 \in offset  BY <2>2, <2>3
      <3>3. Field(hw, 6, 5) \in SUBSET Nat  BY <3>1
      <3>4. \A b : b \in Shl(Field(hw, 6, 5), 2) <=> b \in Nat /\ b >= 2 /\ b - 2 \in Field(hw, 6, 5)
        BY <3>3, ShlBit
      <3>5. \A b \in Nat : b >= 2 => (b - 2) + 2 = b
        OBVIOUS
      <3>6. \A b \in offset : b \in Nat /\ b >= 2 /\ b - 2 \in 0 .. 4
        OBVIOUS
      <3>7. \A b : b \in Shl(Field(hw, 6, 5), 2) => b \in offset
        BY <3>1, <3>2, <3>4, <3>5
      <3>8. \A b \in offset : b \in Shl(Field(hw, 6, 5), 2)
        BY <3>1, <3>2, <3>4, <3>5, <3>6
      <3> QED BY <3>7, <3>8
    <2>9. hw # BX_LR
      BY <2>2, <2>3 DEF BX_LR
    <2> QED BY <2>5, <2>6, <2>7, <2>8, <2>9 DEF hw
  <1>2. Field(LDR, 11, 5) = {0, 2, 3} /\ Field(STR, 11, 5) = {2, 3}
    <2>1. LDR \in SUBSET Nat /\ STR \in SUBSET Nat  BY DEF LDR, STR
    <2>2. \A b : b \in Field(LDR, 11, 5) <=> b \in 0 .. 4 /\ b + 11 \in LDR  BY <2>1, FieldBit
    <2>3. \A b : b \in Field(STR, 11, 5) <=> b \in 0 .. 4 /\ b + 11 \in STR  BY <2>1, FieldBit
    <2>4. Field(LDR, 11, 5) = {0, 2, 3}  BY <2>2 DEF LDR
    <2>5. Field(STR, 11, 5) = {2, 3}  BY <2>3 DEF STR
    <2> QED BY <2>4, <2>5
  <1>3. /\ {0, 2, 3} # {1, 2, 3, 4} /\ {2, 3} # {1, 2, 3, 4}
        /\ {0, 2, 3} # {2} /\ {2, 3} # {2} /\ {0, 2, 3} # {2, 3}
    OBVIOUS
  <1> DEFINE hl == LDR \cup Shl(offset, 4) \cup Shl(rn, 3) \cup rt
             hs == STR \cup Shl(offset, 4) \cup Shl(rn, 3) \cup rt
  <1>4. encode_ldr_imm(rt, rn, offset) = <<hl>> /\ encode_str_imm(rt, rn, offset) = <<hs>>
    BY DEF encode_ldr_imm, encode_str_imm, ShortAccess
  <1>5. /\ Field(hl, 11, 5) = {0, 2, 3} /\ Field(hl, 0, 3) = rt /\ Field(hl, 3, 3) = rn
        /\ Shl(Field(hl, 6, 5), 2) = offset /\ hl # BX_LR
    BY <1>1, <1>2
  <1>6. /\ Field(hs, 11, 5) = {2, 3} /\ Field(hs, 0, 3) = rt /\ Field(hs, 3, 3) = rn
        /\ Shl(Field(hs, 6, 5), 2) = offset /\ hs # BX_LR
    BY <1>1, <1>2
  <1> HIDE DEF hl, hs
  <1>7. ThumbDecode(<<hl>>, 1) = Decoded("load", rt, rn, offset, 1)
    <2>1. ThumbDecode(<<hl>>, 1) = ThumbDecodeShort(hl)  BY <1>3, <1>5 DEF ThumbDecode
    <2> QED BY <1>3, <1>5, <2>1 DEF ThumbDecodeShort
  <1>8. ThumbDecode(<<hs>>, 1) = Decoded("store", rt, rn, offset, 1)
    <2>1. ThumbDecode(<<hs>>, 1) = ThumbDecodeShort(hs)  BY <1>3, <1>6 DEF ThumbDecode
    <2> QED BY <1>3, <1>6, <2>1 DEF ThumbDecodeShort
  <1> QED BY <1>4, <1>7, <1>8

(* The word of a load or a store; the upper field of a store is made of    *)
(* its source register and the upper piece of its offset.                  *)
AccessWord(w, opcode, rd, rs1, f) ==
    \A b : b \in w <=> \/ b \in opcode \/ b = 13
                       \/ b \in 7 .. 11 /\ b - 7 \in rd
                       \/ b \in 15 .. 19 /\ b - 15 \in rs1
                       \/ b \in 20 .. 31 /\ b - 20 \in f

LEMMA RiscvAccessFields ==
    ASSUME NEW w \in SUBSET Nat, NEW opcode \in SUBSET (0 .. 6),
           NEW rd \in SUBSET (0 .. 4), NEW rs1 \in SUBSET (0 .. 4), NEW f \in SUBSET (0 .. 11),
           AccessWord(w, opcode, rd, rs1, f)
    PROVE  /\ Field(w, 0, 7) = opcode /\ Field(w, 12, 3) = {1}
           /\ Field(w, 7, 5) = rd /\ Field(w, 15, 5) = rs1 /\ Field(w, 20, 12) = f
           /\ Field(w, 20, 5) = f \cap (0 .. 4)
           /\ \A b : b \in Field(w, 25, 7) <=> b \in 0 .. 6 /\ b + 5 \in f
  <1>1. Field(w, 0, 7) = opcode
    <2>1. \A b \in 0 .. 6 : b + 0 \in w <=> b \in opcode  BY DEF AccessWord
    <2>2. \A b : b \in Field(w, 0, 7) <=> b \in 0 .. 6 /\ b + 0 \in w  BY FieldBit
    <2>3. \A b : b \in Field(w, 0, 7) <=> b \in opcode  BY <2>1, <2>2
    <2> QED BY <2>3
  <1>2. Field(w, 12, 3) = {1}
    <2>1. \A b \in 0 .. 2 : b + 12 \in w <=> b \in {1}  BY DEF AccessWord
    <2>2. \A b : b \in Field(w, 12, 3) <=> b \in 0 .. 2 /\ b + 12 \in w  BY FieldBit
    <2>3. \A b : b \in Field(w, 12, 3) <=> b \in {1}  BY <2>1, <2>2
    <2> QED BY <2>3
  <1>3. Field(w, 7, 5) = rd
    <2>1. \A b \in 0 .. 4 : b + 7 \in w <=> b \in rd  BY DEF AccessWord
    <2>2. \A b : b \in Field(w, 7, 5) <=> b \in 0 .. 4 /\ b + 7 \in w  BY FieldBit
    <2>3. \A b : b \in Field(w, 7, 5) <=> b \in rd  BY <2>1, <2>2
    <2> QED BY <2>3
  <1>4. Field(w, 15, 5) = rs1
    <2>1. \A b \in 0 .. 4 : b + 15 \in w <=> b \in rs1  BY DEF AccessWord
    <2>2. \A b : b \in Field(w, 15, 5) <=> b \in 0 .. 4 /\ b + 15 \in w  BY FieldBit
    <2>3. \A b : b \in Field(w, 15, 5) <=> b \in rs1  BY <2>1, <2>2
    <2> QED BY <2>3
  <1>5. Field(w, 20, 12) = f
    <2>1. \A b \in 0 .. 11 : b + 20 \in w <=> b \in f  BY DEF AccessWord
    <2>2. \A b : b \in Field(w, 20, 12) <=> b \in 0 .. 11 /\ b + 20 \in w  BY FieldBit
    <2>3. \A b : b \in Field(w, 20, 12) <=> b \in f  BY <2>1, <2>2
    <2> QED BY <2>3
  <1>6. Field(w, 20, 5) = f \cap (0 .. 4)
    <2>1. \A b \in 0 .. 4 : b + 20 \in w <=> b \in f \cap (0 .. 4)  BY DEF AccessWord
    <2>2. \A b : b \in Field(w, 20, 5) <=> b \in 0 .. 4 /\ b + 20 \in w  BY FieldBit
    <2>3. \A b : b \in Field(w, 20, 5) <=> b \in f \cap (0 .. 4)  BY <2>1, <2>2
    <2> QED BY <2>3
  <1>7. \A b : b \in Field(w, 25, 7) <=> b \in 0 .. 6 /\ b + 5 \in f
    <2>1. \A b : b \in Field(w, 25, 7) <=> b \in 0 .. 6 /\ b + 25 \in w  BY FieldBit
    <2>2. \A b \in 0 .. 6 : b + 25 \in w <=> b + 5 \in f  BY DEF AccessWord
    <2> QED BY <2>1, <2>2
  <1> QED BY <1>1, <1>2, <1>3, <1>4, <1>5, <1>6, <1>7

LEMMA SignExtends ==
    ASSUME NEW offset \in Word, FitsAddi(offset)
    PROVE  SignExtended(offset \cap (0 .. 11), 11) = offset
  <1>1. \A b \in offset : b \in 0 .. 31
    BY DEF Word
  <1>2. CASE offset \subseteq 0 .. 10
    <2>1. 11 \notin offset \cap (0 .. 11)  BY <1>2
    <2>2. \A b : b \in offset \cap (0 .. 11) <=> b \in offset
      <3>1. \A b \in 0 .. 10 : b \in 0 .. 11  OBVIOUS
      <3>2. \A b \in offset : b \in 0 .. 10  BY <1>2
      <3> QED BY <3>1, <3>2
    <2>3. offset \cap (0 .. 11) = offset  BY <2>2
    <2> QED BY <2>1, <2>3 DEF SignExtended
  <1>3. CASE 11 .. 31 \subseteq offset
    <2>1. 11 \in offset \cap (0 .. 11)  BY <1>3
    <2>2. \A b : b \in (offset \cap (0 .. 11)) \cup (11 .. 31) <=> b \in offset  BY <1>1, <1>3
    <2>3. (offset \cap (0 .. 11)) \cup (11 .. 31) = offset  BY <2>2
    <2> QED BY <2>1, <2>3 DEF SignExtended
  <1> QED BY <1>2, <1>3 DEF FitsAddi

(* Loads and stores on RISC-V: the offsets between -2048 and 2047 survive, *)
(* those of a store in two pieces.  (encode_lw and encode_sw also accept   *)
(* some that do not fit.)                                                  *)
THEOREM RiscvAccessesArrive ==
    ASSUME NEW rd \in SUBSET (0 .. 4), NEW rs1 \in SUBSET (0 .. 4), NEW offset \in Word,
           FitsAddi(offset)
    PROVE  /\ encode_lw(rd, rs1, offset) = <<encode_lw(rd, rs1, offset)[1]>>
           /\ encode_sw(rd, rs1, offset) = <<encode_sw(rd, rs1, offset)[1]>>
           /\ RiscvDecode(encode_lw(rd, rs1, offset)[1]) = Decoded("load", rd, rs1, offset, 1)
           /\ RiscvDecode(encode_sw(rd, rs1, offset)[1]) = Decoded("store", rd, rs1, offset, 1)
  <1>0. Reaches(offset) /\ (\A b \in offset : b \in 0 .. 31) /\ offset \in SUBSET Nat
    <2>1. offset \subseteq 0 .. 31  BY DEF Word
    <2>2. 11 .. 31 \subseteq offset => 12 .. 31 \subseteq offset  OBVIOUS
    <2> QED BY <2>1, <2>2 DEF Reaches, FitsAddi
  <1>1. rd \cap (0 .. 4) = rd /\ rs1 \cap (0 .. 4) = rs1 /\ rd \in SUBSET Nat /\ rs1 \in SUBSET Nat
    <2>1. rd \in SUBSET Nat /\ rs1 \in SUBSET Nat
      OBVIOUS
    <2>2. rd \cap (0 .. 4) = rd
      OBVIOUS
    <2>3. rs1 \cap (0 .. 4) = rs1
      OBVIOUS
    <2> QED BY <2>1, <2>2, <2>3
  <1>2. /\ \A b : b \in Shl(rd, 7) <=> b \in 7 .. 11 /\ b - 7 \in rd
        /\ \A b : b \in Shl(rs1, 15) <=> b \in 15 .. 19 /\ b - 15 \in rs1
        /\ \A b : b \in Shl(rd, 20) <=> b \in 20 .. 24 /\ b - 20 \in rd
    BY <1>1, ShlBit
  <1>3. /\ encode_lw(rd, rs1, offset) = <<encode_lw(rd, rs1, offset)[1]>>
        /\ RiscvDecode(encode_lw(rd, rs1, offset)[1]) = Decoded("load", rd, rs1, offset, 1)
    <2> DEFINE f == Field(offset, 0, 12)
               w == {0, 1, 13} \cup Shl(rd, 7) \cup Shl(rs1, 15) \cup Shl(f, 20)
    <2>1. encode_lw(rd, rs1, offset) = <<w>>
      BY <1>0, <1>1 DEF encode_lw
    <2>2. \A b : b \in f <=> b \in 0 .. 11 /\ b \in offset
      <3>1. \A b : b \in f <=> b \in 0 .. 11 /\ b + 0 \in offset  BY <1>0, FieldBit
      <3>2. \A b \in 0 .. 11 : b + 0 = b  OBVIOUS
      <3> QED BY <3>1, <3>2
    <2> HIDE DEF f
    <2>3. f \in SUBSET (0 .. 11) /\ f \in SUBSET Nat /\ f = offset \cap (0 .. 11)
      BY <2>2
    <2>4. \A b : b \in Shl(f, 20) <=> b \in 20 .. 31 /\ b - 20 \in f
      BY <2>3, ShlBit
    <2>5. AccessWord(w, {0, 1}, rd, rs1, f)
      BY <1>2, <2>4 DEF AccessWord
    <2>6. w \in SUBSET Nat
      <3>1. Shl(rd, 7) \in SUBSET Nat /\ Shl(rs1, 15) \in SUBSET Nat /\ Shl(f, 20) \in SUBSET Nat
        BY <1>1, <2>3, ShlOfBits
      <3> QED BY <3>1
    <2> HIDE DEF w
    <2>7. /\ Field(w, 0, 7) = {0, 1} /\ Field(w, 12, 3) = {1}
          /\ Field(w, 7, 5) = rd /\ Field(w, 15, 5) = rs1 /\ Field(w, 20, 12) = f
      <3> DEFINE op == {0, 1}
      <3>1. op \in SUBSET (0 .. 6) /\ AccessWord(w, op, rd, rs1, f)
        BY <2>5
      <3> HIDE DEF op
      <3>2. /\ Field(w, 0, 7) = op /\ Field(w, 12, 3) = {1}
            /\ Field(w, 7, 5) = rd /\ Field(w, 15, 5) = rs1 /\ Field(w, 20, 12) = f
        BY <2>3, <2>6, <3>1, RiscvAccessFields
      <3> QED BY <3>2 DEF op
    <2>8. SignExtended(f, 11) = offset
      BY <2>3, SignExtends
    <2>9. {0, 1} # {0, 1, 2, 4, 5} /\ {0, 1} # {0, 1, 4}
      OBVIOUS
    <2>10. RiscvDecode(w) = Decoded("load", rd, rs1, offset, 1)
      BY <2>7, <2>8, <2>9 DEF RiscvDecode
    <2> QED BY <2>1, <2>10
  <1>4. /\ encode_sw(rd, rs1, offset) = <<encode_sw(rd, rs1, offset)[1]>>
        /\ RiscvDecode(encode_sw(rd, rs1, offset)[1]) = Decoded("store", rd, rs1, offset, 1)
    <2> DEFINE l5 == Field(offset, 0, 5)
               h7 == Field(offset, 5, 7)
               f == rd \cup (offset \cap (5 .. 11))
               w == {0, 1, 5, 13} \cup Shl(h7, 25) \cup Shl(rd, 20) \cup Shl(rs1, 15) \cup Shl(l5, 7)
    <2>1. encode_sw(rd, rs1, offset) = <<w>>
      BY <1>0, <1>1 DEF encode_sw
    <2>2. \A b : b \in l5 <=> b \in 0 .. 4 /\ b \in offset
      <3>1. \A b : b \in l5 <=> b \in 0 .. 4 /\ b + 0 \in offset  BY <1>0, FieldBit
      <3>2. \A b \in 0 .. 4 : b + 0 = b  OBVIOUS
      <3> QED BY <3>1, <3>2
    <2>3. \A b : b \in h7 <=> b \in 0 .. 6 /\ b + 5 \in offset
      BY <1>0, FieldBit
    <2> HIDE DEF l5, h7
    <2>4. l5 \in SUBSET (0 .. 4) /\ h7 \in SUBSET (0 .. 6) /\ l5 \in SUBSET Nat /\ h7 \in SUBSET Nat
      BY <2>2, <2>3
    <2>5. /\ \A b : b \in Shl(h7, 25) <=> b \in 25 .. 31 /\ b - 25 \in h7
          /\ \A b : b \in Shl(l5, 7) <=> b \in 7 .. 11 /\ b - 7 \in l5
      BY <2>4, ShlBit
    <2>6. \A b : b \in f <=> b \in rd \/ (b \in 5 .. 11 /\ b \in offset)
      OBVIOUS
    <2> HIDE DEF f
    <2>7. f \in SUBSET (0 .. 11)
      <3>1. \A b \in rd : b \in 0 .. 4
        OBVIOUS
      <3>2. (\A b \in 5 .. 11 : b \in 0 .. 11) /\ (\A b \in 0 .. 4 : b \in 0 .. 11)
        OBVIOUS
      <3> QED BY <2>6, <3>1, <3>2
    <2>8. \A b : b \in 20 .. 31 /\ b - 20 \in f <=> b \in Shl(rd, 20) \/ b \in Shl(h7, 25)
      <3>1. \A b : b \in 20 .. 31 /\ b - 20 \in f <=>
                     b \in 20 .. 31 /\ (b - 20 \in rd \/ (b - 20 \in 5 .. 11 /\ b - 20 \in offset))
        BY <2>6
      <3>2. \A b \in 20 .. 31 : b - 20 \in 5 .. 11 <=> b \in 25 .. 31
        OBVIOUS
      <3>3. \A b \in 25 .. 31 : b - 25 \in h7 <=> b - 20 \in offset
        <4>1. \A b \in 25 .. 31 : b - 25 \in 0 .. 6 /\ (b - 25) + 5 = b - 20  OBVIOUS
        <4> QED BY <2>3, <4>1
      <3>4. \A b \in 20 .. 31 : b - 20 \in rd => b \in 20 .. 24
        OBVIOUS
      <3> QED BY <1>2, <2>5, <3>1, <3>2, <3>3, <3>4
    <2>9. AccessWord(w, {0, 1, 5}, l5, rs1, f)
      BY <1>2, <2>5, <2>8 DEF AccessWord
    <2>10. w \in SUBSET Nat
      <3>1. /\ Shl(h7, 25) \in SUBSET Nat /\ Shl(rd, 20) \in SUBSET Nat
            /\ Shl(rs1, 15) \in SUBSET Nat /\ Shl(l5, 7) \in SUBSET Nat
        BY <1>1, <2>4, ShlOfBits
      <3> QED BY <3>1
    <2> HIDE DEF w
    <2>11. /\ Field(w, 0, 7) = {0, 1, 5} /\ Field(w, 12, 3) = {1}
           /\ Field(w, 7, 5) = l5 /\ Field(w, 15, 5) = rs1 /\ Field(w, 20, 5) = f \cap (0 .. 4)
           /\ \A b : b \in Field(w, 25, 7) <=> b \in 0 .. 6 /\ b + 5 \in f
      <3> DEFINE op == {0, 1, 5}
      <3>1. op \in SUBSET (0 .. 6) /\ AccessWord(w, op, l5, rs1, f)
        BY <2>9
      <3> HIDE DEF op
      <3>2. /\ Field(w, 0, 7) = op /\ Field(w, 12, 3) = {1}
            /\ Field(w, 7, 5) = l5 /\ Field(w, 15, 5) = rs1 /\ Field(w, 20, 5) = f \cap (0 .. 4)
            /\ \A b : b \in Field(w, 25, 7) <=> b \in 0 .. 6 /\ b + 5 \in f
        BY <2>4, <2>7, <2>10, <3>1, RiscvAccessFields
      <3> QED BY <3>2 DEF op
    <2>12. f \cap (0 .. 4) = rd
      <3>1. \A b \in rd : b \in 0 .. 4
        OBVIOUS
      <3>2. \A b \in 5 .. 11 : b \notin 0 .. 4
        OBVIOUS
      <3>3. \A b : b \in f \cap (0 .. 4) <=> b \in rd
        BY <2>6, <3>1, <3>2, Zenon
      <3> QED BY <3>3, Zenon
    <2>13. Shl(Field(w, 25, 7), 5) \cup l5 = offset \cap (0 .. 11)
      <3>1. Field(w, 25, 7) \in SUBSET Nat
        BY <2>11
      <3>2. \A b : b \in Shl(Field(w, 25, 7), 5) <=> b \in Nat /\ b >= 5 /\ b - 5 \in Field(w, 25, 7)
        BY <3>1, ShlBit
      <3>3. \A b \in Nat : b >= 5 => (b - 5) + 5 = b
        OBVIOUS
      <3>4. \A b : b \in Shl(Field(w, 25, 7), 5) <=> b \in 5 .. 11 /\ b \in f
        BY <2>11, <3>2, <3>3
      <3>5. \A b \in 5 .. 11 : b \in f <=> b \in offset
        BY <2>6
      <3>6. \A b : b \in Shl(Field(w, 25, 7), 5) \cup l5 <=> b \in offset \cap (0 .. 11)
        BY <2>2, <3>4, <3>5
      <3> QED BY <3>6
    <2>14. SignExtended(Shl(Field(w, 25, 7), 5) \cup l5, 11) = offset
      BY <2>13, SignExtends
    <2>15. {0, 1, 5} # {0, 1, 2, 4, 5} /\ {0, 1, 5} # {0, 1, 4} /\ {0, 1, 5} # {0, 1}
      OBVIOUS
    <2>16. RiscvDecode(w) = Decoded("store", rd, rs1, offset, 1)
      BY <2>11, <2>12, <2>14, <2>15 DEF RiscvDecode
    <2> QED BY <2>1, <2>16
  <1> QED BY <1>3, <1>4

(* The return instructions are what they are.                              *)
LEMMA ReturnsDecoded ==
    /\ ThumbDecode(<<BX_LR>>, 1) = Decoded("ret", {}, {}, {}, 1)
    /\ RiscvDecode(RV32_RET) = Decoded("ret", {}, {}, {}, 1)
  <1>1. BX_LR \in SUBSET Nat /\ RV32_RET \in SUBSET Nat
    BY DEF BX_LR, RV32_RET
  <1>2. Field(BX_LR, 11, 5) # {1, 2, 3, 4}
    <2>1. \A b : b \in Field(BX_LR, 11, 5) <=> b \in 0 .. 4 /\ b + 11 \in BX_LR  BY <1>1, FieldBit
    <2>2. 1 \notin Field(BX_LR, 11, 5)  BY <2>1 DEF BX_LR
    <2> QED BY <2>2
  <1>3. 2 \in Field(RV32_RET, 0, 7) /\ 6 \in Field(RV32_RET, 0, 7)
    <2>1. \A b : b \in Field(RV32_RET, 0, 7) <=> b \in 0 .. 6 /\ b + 0 \in RV32_RET  BY <1>1, FieldBit
    <2> QED BY <2>1 DEF RV32_RET
  <1>4. ThumbDecode(<<BX_LR>>, 1) = Decoded("ret", {}, {}, {}, 1)
    BY <1>2 DEF ThumbDecode, ThumbDecodeShort
  <1>5. RiscvDecode(RV32_RET) = Decoded("ret", {}, {}, {}, 1)
    BY <1>3 DEF RiscvDecode
  <1> QED BY <1>4, <1>5

-----------------------------------------------------------------------------
(* Types: what is emitted are units of the target, and whatever is fetched *)
(* decodes to an instruction of the processor.                             *)

LEMMA WideMoveType ==
    ASSUME NEW opcode \in {MOVW, MOVT}, NEW rd \in SUBSET (0 .. 3), NEW half \in Word
    PROVE  LET hw == WideMove(opcode, rd, half)
           IN  hw = <<hw[1], hw[2]>> /\ hw[1] \in Halfword /\ hw[2] \in Halfword
  <1> DEFINE i == Field(half, 11, 1)
             imm4 == Field(half, 12, 4)
             imm3 == Field(half, 8, 3)
             imm8 == Field(half, 0, 8)
             h1 == opcode \cup Shl(i, 10) \cup imm4
             h2 == Shl(imm3, 12) \cup Shl(rd, 8) \cup imm8
  <1>0. half \in SUBSET Nat /\ rd \in SUBSET Nat
    BY DEF Word
  <1>1. /\ \A b : b \in i => b = 0
        /\ \A b : b \in imm4 => b \in 0 .. 3
        /\ \A b : b \in imm3 => b \in 0 .. 2
        /\ \A b : b \in imm8 => b \in 0 .. 7
    BY <1>0, FieldBit
  <1>2. WideMove(opcode, rd, half) = <<h1, h2>>
    BY DEF WideMove
  <1> HIDE DEF i, imm4, imm3, imm8
  <1>3. i \in SUBSET Nat /\ imm3 \in SUBSET Nat
    BY <1>1
  <1>4. /\ \A b : b \in Shl(i, 10) => b \in Nat /\ b >= 10 /\ b - 10 \in i
        /\ \A b : b \in Shl(imm3, 12) => b \in Nat /\ b >= 12 /\ b - 12 \in imm3
        /\ \A b : b \in Shl(rd, 8) => b \in Nat /\ b >= 8 /\ b - 8 \in rd
    BY <1>0, <1>3, ShlBit
  <1>5. opcode \subseteq 0 .. 15
    BY DEF MOVW, MOVT
  <1>6. (\A b \in Shl(i, 10) : b \in 0 .. 15) /\ (\A b \in imm4 : b \in 0 .. 15)
    BY <1>1, <1>4
  <1>7. h1 \in Halfword
    BY <1>5, <1>6 DEF Halfword
  <1>8. /\ \A b \in Shl(imm3, 12) : b \in 0 .. 15
        /\ \A b \in Shl(rd, 8) : b \in 0 .. 15
        /\ \A b \in imm8 : b \in 0 .. 15
    BY <1>1, <1>4
  <1>9. h2 \in Halfword
    BY <1>8 DEF Halfword
  <1> HIDE DEF h1, h2
  <1> QED BY <1>2, <1>7, <1>9

LEMMA ThumbMoveType ==
    ASSUME NEW reg \in SUBSET (0 .. 2), NEW imm \in Word
    PROVE  thumb_mov_imm(reg, imm) \in Seq(Halfword) /\ Len(thumb_mov_imm(reg, imm)) \in {1, 2, 4}
  <1> DEFINE high == Field(imm, 16, 16)
             w == WideMove(MOVW, reg, imm)
             t == WideMove(MOVT, reg, high)
             m == MOVS \cup Shl(reg, 8) \cup imm
  <1>0. reg \in SUBSET (0 .. 3) /\ imm \in SUBSET Nat
    BY DEF Word
  <1>1. high \in Word
    <2>1. \A b : b \in high => b \in 0 .. 15
      BY <1>0, FieldBit
    <2> QED BY <2>1 DEF Word
  <1>2. w = <<w[1], w[2]>> /\ w[1] \in Halfword /\ w[2] \in Halfword
    BY <1>0, WideMoveType
  <1>3. t = <<t[1], t[2]>> /\ t[1] \in Halfword /\ t[2] \in Halfword
    <2> HIDE DEF high
    <2> QED BY <1>0, <1>1, WideMoveType
  <1>4. \/ imm \subseteq 0 .. 7 /\ thumb_mov_imm(reg, imm) = <<m>>
        \/ thumb_mov_imm(reg, imm) = w
        \/ thumb_mov_imm(reg, imm) = <<w[1], w[2], t[1], t[2]>>
    <2> HIDE DEF high
    <2> QED BY DEF thumb_mov_imm, encode_movw, encode_movt, high
  <1>5. imm \subseteq 0 .. 7 => m \in Halfword
    <2>1. \A b : b \in Shl(reg, 8) => b \in Nat /\ b >= 8 /\ b - 8 \in reg
      BY ShlBit
    <2>2. \A b \in Shl(reg, 8) : b \in 0 .. 15
      BY <2>1
    <2>3. \A b \in MOVS : b \in 0 .. 15
      BY DEF MOVS
    <2>4. \A b \in 0 .. 7 : b \in 0 .. 15
      OBVIOUS
    <2>5. imm \subseteq 0 .. 7 => \A b \in m : b \in 0 .. 15
      BY <2>2, <2>3, <2>4
    <2> QED BY <2>5 DEF Halfword
  <1> HIDE DEF high, w, t, m
  <1>6. CASE imm \subseteq 0 .. 7 /\ thumb_mov_imm(reg, imm) = <<m>>
    BY <1>5, <1>6
  <1>7. CASE thumb_mov_imm(reg, imm) = w
    <2>1. thumb_mov_imm(reg, imm) = <<w[1], w[2]>>
      BY <1>2, <1>7, Zenon
    <2> QED BY <1>2, <2>1
  <1>8. CASE thumb_mov_imm(reg, imm) = <<w[1], w[2], t[1], t[2]>>
    BY <1>2, <1>3, <1>8
  <1> QED BY <1>4, <1>6, <1>7, <1>8

LEMMA AddType ==
    ASSUME NEW x, NEW y
    PROVE  Add(x, y) \in Word
  BY DEF Add, Word

LEMMA RiscvMoveType ==
    ASSUME NEW reg \in SUBSET (0 .. 4), NEW imm \in Word
    PROVE  riscv_mov_imm(reg, imm) \in Seq(Word) /\ Len(riscv_mov_imm(reg, imm)) \in {1, 2}
  <1>1. ASSUME NEW rd, NEW rs1, NEW v
        PROVE  encode_addi(rd, rs1, v) \in Word
    <2> DEFINE d == rd \cap (0 .. 4)
               e == rs1 \cap (0 .. 4)
               f == v \cap (0 .. 11)
    <2>1. d \in SUBSET Nat /\ e \in SUBSET Nat /\ f \in SUBSET Nat
      OBVIOUS
    <2>2. /\ \A b : b \in Shl(d, 7) => b \in Nat /\ b >= 7 /\ b - 7 \in 0 .. 4
          /\ \A b : b \in Shl(e, 15) => b \in Nat /\ b >= 15 /\ b - 15 \in 0 .. 4
          /\ \A b : b \in Shl(f, 20) => b \in Nat /\ b >= 20 /\ b - 20 \in 0 .. 11
      BY <2>1, ShlBit
    <2>3. encode_addi(rd, rs1, v) = {0, 1, 4} \cup Shl(d, 7) \cup Shl(e, 15) \cup Shl(f, 20)
      BY DEF encode_addi
    <2> HIDE DEF d, e, f
    <2>4. /\ \A b \in Shl(d, 7) : b \in 0 .. 31
          /\ \A b \in Shl(e, 15) : b \in 0 .. 31
          /\ \A b \in Shl(f, 20) : b \in 0 .. 31
      BY <2>2
    <2>5. \A b \in {0, 1, 4} : b \in 0 .. 31
      OBVIOUS
    <2> QED BY <2>3, <2>4, <2>5 DEF Word
  <1>2. ASSUME NEW rd, NEW v
        PROVE  encode_lui(rd, v) \in Word
    <2> DEFINE d == rd \cap (0 .. 4)
               f == v \cap (0 .. 19)
    <2>1. d \in SUBSET Nat
      OBVIOUS
    <2>2. \A b : b \in Shl(d, 7) => b \in Nat /\ b >= 7 /\ b - 7 \in 0 .. 4
      BY <2>1, ShlBit
    <2>3. encode_lui(rd, v) = {0, 1, 2, 4, 5} \cup Shl(d, 7) \cup Shl32(f, 20)
      BY DEF encode_lui
    <2>4. \A b \in Shl32(f, 20) : b \in 0 .. 31
      BY DEF Shl32
    <2> HIDE DEF d, f
    <2>5. \A b \in Shl(d, 7) : b \in 0 .. 31
      BY <2>2
    <2>6. \A b \in {0, 1, 2, 4, 5} : b \in 0 .. 31
      OBVIOUS
    <2> QED BY <2>3, <2>4, <2>5, <2>6 DEF Word
  <1> DEFINE hi20 == Field(Add(imm, {11}), 12, 20)
             lo12 == Sub(imm, Shl32(hi20, 12))
             u == encode_lui(reg, hi20)
             a == encode_addi(reg, reg, lo12)
  <1> DEFINE X == IF lo12 = {} THEN <<>> ELSE <<a>>
  <1>3. \/ riscv_mov_imm(reg, imm) = <<encode_addi(reg, {}, imm)>>
        \/ riscv_mov_imm(reg, imm) = <<u>> \o X
    BY DEF riscv_mov_imm
  <1>4. u \in Word /\ a \in Word /\ encode_addi(reg, {}, imm) \in Word
    BY <1>1, <1>2
  <1> HIDE DEF u, a, lo12
  <1>5. X \in Seq(Word) /\ Len(X) \in {0, 1} /\ <<u>> \in Seq(Word) /\ Len(<<u>>) = 1
    BY <1>4
  <1> DEFINE U == <<u>>
  <1> HIDE DEF X
  <1>6. U \in Seq(Word) /\ Len(U) = 1 /\ X \in Seq(Word) /\ Len(X) \in {0, 1}
    BY <1>5
  <1> HIDE DEF U
  <1>7. U \o X \in Seq(Word) /\ Len(U \o X) = Len(U) + Len(X)
    BY <1>6, ConcatProperties
  <1>8. CASE riscv_mov_imm(reg, imm) = <<encode_addi(reg, {}, imm)>>
    BY <1>4, <1>8
  <1>9. CASE riscv_mov_imm(reg, imm) = U \o X
    BY <1>6, <1>7, <1>9
  <1> QED BY <1>3, <1>8, <1>9 DEF U

Instruction(d) ==
    /\ d.i \in {"undefined", "mov", "movt", "addi", "load", "store", "ret"}
    /\ d.imm \in Word
    /\ d.i = "movt" => d.imm \in Halfword
    /\ d.len \in {1, 2}

LEMMA DecodedFields ==
    ASSUME NEW i, NEW rd, NEW rs, NEW imm, NEW len
    PROVE  LET d == Decoded(i, rd, rs, imm, len)
           IN  d.i = i /\ d.rd = rd /\ d.rs = rs /\ d.imm = imm /\ d.len = len
  BY DEF Decoded

LEMMA ThumbDecodedType ==
    ASSUME NEW code \in Seq(Halfword), NEW k \in 1 .. Len(code)
    PROVE  Instruction(ThumbDecode(code, k))
  <1>1. \A hw \in Halfword : hw \in SUBSET Nat
    BY DEF Halfword
  <1>2. \A h \in Halfword : h \in Word
    <2>1. \A b \in 0 .. 15 : b \in 0 .. 31
      OBVIOUS
    <2> QED BY <2>1 DEF Halfword, Word
  <1>3. {} \in Word /\ {} \in Halfword
    BY DEF Word, Halfword
  <1>4. Instruction(Undefined)
    BY <1>3, DecodedFields DEF Instruction, Undefined
  <1>5. ASSUME NEW hw \in Halfword
        PROVE  Instruction(ThumbDecodeShort(hw))
    <2> DEFINE m == Field(hw, 0, 8)
               o == Shl(Field(hw, 6, 5), 2)
    <2>1. m \in Word
      <3>1. \A b : b \in Field(hw, 0, 8) => b \in 0 .. 7
        BY <1>1, FieldBit
      <3>2. \A b \in 0 .. 7 : b \in 0 .. 31
        OBVIOUS
      <3> QED BY <3>1, <3>2 DEF Word
    <2>2. o \in Word
      <3>1. \A b : b \in Field(hw, 6, 5) => b \in 0 .. 4
        BY <1>1, FieldBit
      <3>2. \A b : b \in o => b \in Nat /\ b >= 2 /\ b - 2 \in Field(hw, 6, 5)
        BY <3>1, ShlBit
      <3>3. \A b \in o : b \in 0 .. 31
        <4> HIDE DEF o
        <4> TAKE b \in o
        <4>1. b \in Nat /\ b >= 2 /\ b - 2 \in 0 .. 4
          BY <3>1, <3>2
        <4> QED BY <4>1
      <3> QED BY <3>3 DEF Word
    <2> HIDE DEF m, o
    <2>3. \/ ThumbDecodeShort(hw) = Undefined
          \/ \E rd, rs : \/ ThumbDecodeShort(hw) = Decoded("ret", {}, {}, {}, 1)
                         \/ ThumbDecodeShort(hw) = Decoded("mov", rd, {}, m, 1)
                         \/ ThumbDecodeShort(hw) = Decoded("store", rd, rs, o, 1)
                         \/ ThumbDecodeShort(hw) = Decoded("load", rd, rs, o, 1)
      BY DEF ThumbDecodeShort, m, o
    <2> QED BY <1>3, <1>4, <2>1, <2>2, <2>3, DecodedFields DEF Instruction
  <1>6. ASSUME NEW hw1 \in Halfword, NEW hw2 \in Halfword
        PROVE  Instruction(ThumbDecodeWide(hw1, hw2))
    <2> DEFINE m == ThumbWideImmediate(hw1, hw2)
               f4 == Field(hw1, 0, 4)
               f1 == Field(hw1, 10, 1)
               f3 == Field(hw2, 12, 3)
               f8 == Field(hw2, 0, 8)
    <2>1. /\ \A b : b \in f4 => b \in 0 .. 3
          /\ \A b : b \in f1 => b = 0
          /\ \A b : b \in f3 => b \in 0 .. 2
          /\ \A b : b \in f8 => b \in 0 .. 7
      BY <1>1, FieldBit
    <2>2. m = Shl(f4, 12) \cup Shl(f1, 11) \cup Shl(f3, 8) \cup f8
      BY DEF ThumbWideImmediate
    <2> HIDE DEF m, f4, f1, f3, f8
    <2>3. f4 \in SUBSET Nat /\ f1 \in SUBSET Nat /\ f3 \in SUBSET Nat
      BY <2>1
    <2>4. /\ \A b : b \in Shl(f4, 12) => b \in Nat /\ b >= 12 /\ b - 12 \in f4
          /\ \A b : b \in Shl(f1, 11) => b \in Nat /\ b >= 11 /\ b - 11 \in f1
          /\ \A b : b \in Shl(f3, 8) => b \in Nat /\ b >= 8 /\ b - 8 \in f3
      BY <2>3, ShlBit
    <2>5. ASSUME NEW b \in m
          PROVE  b \in 0 .. 15
      <3>1. CASE b \in Shl(f4, 12)
        <4>1. b \in Nat /\ b >= 12 /\ b - 12 \in 0 .. 3  BY <2>1, <2>4, <3>1
        <4> QED BY <4>1
      <3>2. CASE b \in Shl(f1, 11)
        <4>1. b \in Nat /\ b >= 11 /\ b - 11 = 0  BY <2>1, <2>4, <3>2
        <4> QED BY <4>1
      <3>3. CASE b \in Shl(f3, 8)
        <4>1. b \in Nat /\ b >= 8 /\ b - 8 \in 0 .. 2  BY <2>1, <2>4, <3>3
        <4> QED BY <4>1
      <3>4. CASE b \in f8
        <4>1. b \in 0 .. 7  BY <2>1, <3>4
        <4> QED BY <4>1
      <3> QED BY <2>2, <3>1, <3>2, <3>3, <3>4
    <2>6. m \in Halfword
      BY <2>5 DEF Halfword
    <2>7. \/ ThumbDecodeWide(hw1, hw2) = Undefined
          \/ \E rd : \/ ThumbDecodeWide(hw1, hw2) = Decoded("mov", rd, {}, m, 2)
                     \/ ThumbDecodeWide(hw1, hw2) = Decoded("movt", rd, {}, m, 2)
      BY DEF ThumbDecodeWide, m
    <2> QED BY <1>2, <1>4, <2>6, <2>7, DecodedFields DEF Instruction
  <1>7. code[k] \in Halfword
    OBVIOUS
  <1>8. k + 1 \in DOMAIN code => code[k + 1] \in Halfword
    OBVIOUS
  <1> QED BY <1>4, <1>5, <1>6, <1>7, <1>8 DEF ThumbDecode

LEMMA RiscvDecodedType ==
    ASSUME NEW w \in Word
    PROVE  Instruction(RiscvDecode(w)) /\ RiscvDecode(w).len = 1
  <1>1. w \in SUBSET Nat
    BY DEF Word
  <1>2. \A x : (\A b \in x : b \in 0 .. 31) => SignExtended(x, 11) \in Word
    <2>1. \A b \in 11 .. 31 : b \in 0 .. 31
      OBVIOUS
    <2> QED BY <2>1 DEF SignExtended, Word
  <1> DEFINE immI == SignExtended(Field(w, 20, 12), 11)
             immS == SignExtended(Shl(Field(w, 25, 7), 5) \cup Field(w, 7, 5), 11)
             immU == w \cap (12 .. 31)
  <1>3. immI \in Word
    <2>1. \A b \in Field(w, 20, 12) : b \in 0 .. 11
      BY <1>1, FieldBit
    <2>2. \A b \in 0 .. 11 : b \in 0 .. 31
      OBVIOUS
    <2> QED BY <1>2, <2>1, <2>2
  <1>4. immS \in Word
    <2>1. (\A b \in Field(w, 25, 7) : b \in 0 .. 6) /\ (\A b \in Field(w, 7, 5) : b \in 0 .. 4)
      BY <1>1, FieldBit
    <2>2. \A b : b \in Shl(Field(w, 25, 7), 5) => b \in Nat /\ b >= 5 /\ b - 5 \in Field(w, 25, 7)
      <3>1. Field(w, 25, 7) \in SUBSET Nat
        BY <2>1
      <3> QED BY <3>1, ShlBit
    <2>3. \A b \in Shl(Field(w, 25, 7), 5) : b \in 0 .. 31
      BY <2>1, <2>2
    <2>4. \A b \in 0 .. 4 : b \in 0 .. 31
      OBVIOUS
    <2>5. \A b \in Shl(Field(w, 25, 7), 5) \cup Field(w, 7, 5) : b \in 0 .. 31
      BY <2>1, <2>3, <2>4
    <2> QED BY <1>2, <2>5
  <1>5. immU \in Word /\ {} \in Word
    BY DEF Word
  <1> HIDE DEF immI, immS, immU
  <1>6. \/ RiscvDecode(w) = Undefined
        \/ \E rd, rs : \/ RiscvDecode(w) = Decoded("mov", rd, {}, immU, 1)
                       \/ RiscvDecode(w) = Decoded("addi", rd, rs, immI, 1)
                       \/ RiscvDecode(w) = Decoded("load", rd, rs, immI, 1)
                       \/ RiscvDecode(w) = Decoded("store", rd, rs, immS, 1)
                       \/ RiscvDecode(w) = Decoded("ret", {}, {}, {}, 1)
    BY DEF RiscvDecode, immI, immS, immU
  <1> QED BY <1>3, <1>4, <1>5, <1>6, DecodedFields DEF Instruction, Undefined

(* Decoding looks at one unit, or at two.                                  *)
LEMMA ThumbDecodeLocal ==
    ASSUME NEW code, NEW k, NEW part, NEW j, code[k] = part[j],
           j + 1 \in DOMAIN part => k + 1 \in DOMAIN code /\ code[k + 1] = part[j + 1],
           ThumbDecode(part, j) # Undefined
    PROVE  ThumbDecode(code, k) = ThumbDecode(part, j)
  BY DEF ThumbDecode
LEMMA ShlBound ==
    ASSUME NEW h \in Nat, NEW k \in Nat, NEW top \in Nat, h + k <= top, NEW x \in SUBSET (0 .. h)
    PROVE  Shl(x, k) \in SUBSET (0 .. top)
  <1>1. x \in SUBSET Nat
    OBVIOUS
  <1>2. ASSUME NEW b \in Shl(x, k)
        PROVE  b \in 0 .. top
    <2>1. b \in Nat /\ b >= k /\ b - k \in 0 .. h
      BY <1>1, ShlBit
    <2> QED BY <2>1
  <1> QED BY <1>2

(* What the code generator emits for an access is one unit of its target.  *)
LEMMA AccessTypes ==
    ASSUME NEW rd \in SUBSET (0 .. 2), NEW rs \in SUBSET (0 .. 2)
    PROVE  /\ encode_ldr_imm(rd, rs, {}) \in Seq(Halfword) /\ Len(encode_ldr_imm(rd, rs, {})) = 1
           /\ encode_str_imm(rd, rs, {}) \in Seq(Halfword) /\ Len(encode_str_imm(rd, rs, {})) = 1
  <1> DEFINE hw(opcode) == opcode \cup Shl({}, 4) \cup Shl(rs, 3) \cup rd
  <1>1. encode_ldr_imm(rd, rs, {}) = <<hw(LDR)>> /\ encode_str_imm(rd, rs, {}) = <<hw(STR)>>
    BY DEF encode_ldr_imm, encode_str_imm, ShortAccess
  <1>2. ASSUME NEW opcode \in SUBSET (0 .. 15)
        PROVE  hw(opcode) \in Halfword
    <2>1. Shl({}, 4) \in SUBSET (0 .. 15)
      BY DEF Shl
    <2>2. Shl(rs, 3) \in SUBSET (0 .. 15)
      BY ShlBound
    <2>3. rd \in SUBSET (0 .. 15)
      OBVIOUS
    <2> QED BY <2>1, <2>2, <2>3 DEF Halfword
  <1>3. LDR \in SUBSET (0 .. 15) /\ STR \in SUBSET (0 .. 15)
    BY DEF LDR, STR
  <1>4. hw(LDR) \in Halfword /\ hw(STR) \in Halfword
    BY <1>2, <1>3
  <1> DEFINE l == hw(LDR)
             s == hw(STR)
  <1>5. encode_ldr_imm(rd, rs, {}) = <<l>> /\ encode_str_imm(rd, rs, {}) = <<s>>
    BY <1>1
  <1>6. l \in Halfword /\ s \in Halfword
    BY <1>4
  <1>7. \A u \in Halfword : <<u>> \in Seq(Halfword) /\ Len(<<u>>) = 1
    OBVIOUS
  <1> HIDE DEF hw, l, s
  <1> QED BY <1>5, <1>6, <1>7

LEMMA RiscvAccessTypes ==
    ASSUME NEW rd \in SUBSET (0 .. 4), NEW rs \in SUBSET (0 .. 4)
    PROVE  encode_lw(rd, rs, {})[1] \in Word /\ encode_sw(rd, rs, {})[1] \in Word
  <1> DEFINE d == rd \cap (0 .. 4)
             s == rs \cap (0 .. 4)
             f0 == Field({}, 0, 12)
             f1 == Field({}, 5, 7)
             f2 == Field({}, 0, 5)
             lw == {0, 1, 13} \cup Shl(d, 7) \cup Shl(s, 15) \cup Shl(f0, 20)
             sw == {0, 1, 5, 13} \cup Shl(f1, 25) \cup Shl(d, 20) \cup Shl(s, 15) \cup Shl(f2, 7)
  <1>1. encode_lw(rd, rs, {}) = <<lw>> /\ encode_sw(rd, rs, {}) = <<sw>>
    BY DEF encode_lw, encode_sw, Reaches
  <1>2. f0 = {} /\ f1 = {} /\ f2 = {}
    BY DEF Field
  <1>3. d \in SUBSET (0 .. 4) /\ s \in SUBSET (0 .. 4)
    OBVIOUS
  <1> HIDE DEF d, s, f0, f1, f2
  <1>4. Shl(f0, 20) = {} /\ Shl(f1, 25) = {} /\ Shl(f2, 7) = {}
    BY <1>2 DEF Shl
  <1>5. /\ Shl(d, 7) \in SUBSET (0 .. 31)
        /\ Shl(s, 15) \in SUBSET (0 .. 31)
        /\ Shl(d, 20) \in SUBSET (0 .. 31)
    <2>1. ASSUME NEW k \in {7, 15, 20}, NEW x \in SUBSET (0 .. 4)
          PROVE  Shl(x, k) \in SUBSET (0 .. 31)
      <3>1. k \in Nat /\ x \in SUBSET Nat
        OBVIOUS
      <3>2. ASSUME NEW b \in Shl(x, k)
            PROVE  b \in 0 .. 31
        <4>1. b \in Nat /\ b >= k /\ b - k \in 0 .. 4
          BY <3>1, ShlBit
        <4> QED BY <4>1
      <3> QED BY <3>2
    <2> QED BY <1>3, <2>1
  <1>6. {0, 1, 13} \in SUBSET (0 .. 31) /\ {0, 1, 5, 13} \in SUBSET (0 .. 31)
    OBVIOUS
  <1>7. lw \in Word /\ sw \in Word
    BY <1>4, <1>5, <1>6 DEF Word
  <1> HIDE DEF lw, sw
  <1> QED BY <1>1, <1>7

LEMMA ReturnTypes ==
    BX_LR \in Halfword /\ RV32_RET \in Word
  BY DEF BX_LR, RV32_RET, Halfword, Word

-----------------------------------------------------------------------------
(* The operand stack under the streams of the parser.                      *)

LEMMA UpTo ==
    ASSUME NEW n \in Nat, NEW S, 0 \in S, \A k \in 1 .. n : k - 1 \in S => k \in S
    PROVE  \A k \in 0 .. n : k \in S
  <1> DEFINE T == {k \in 0 .. n : k \notin S}
  <1> SUFFICES ASSUME T # {} PROVE FALSE
    OBVIOUS
  <1>1. PICK m \in T : \A k \in T : m <= k
    <2>1. T \in SUBSET Nat
      OBVIOUS
    <2> HIDE DEF T
    <2> QED BY <2>1, LeastMember
  <1>2. m \in 1 .. n /\ m - 1 \in 0 .. n
    BY <1>1
  <1>3. m - 1 \in S
    BY <1>1, <1>2
  <1> QED BY <1>1, <1>2, <1>3

(* Every literal finds a free slot and every other primitive its operands. *)
FindsOperands(op, depth) ==
    /\ op = "lit" => depth < VM_STACK_SIZE
    /\ op = "load_reg" => depth > 0
    /\ op = "write_reg" => depth > 1

DepthAfter(op, depth) ==
    CASE op = "lit" -> depth + 1
      [] op = "write_reg" -> depth - 2
      [] OTHER -> depth

StackFits(code) ==
    \E depth \in [0 .. Len(code) -> 0 .. VM_STACK_SIZE] :
       /\ depth[0] = 0
       /\ \A k \in 1 .. Len(code) :
             /\ FindsOperands(code[k].op, depth[k - 1])
             /\ depth[k] = DepthAfter(code[k].op, depth[k - 1])

LEMMA PrimitiveOp ==
    ASSUME NEW code \in Seq(Primitives), NEW k \in 1 .. Len(code)
    PROVE  code[k].op \in {"lit", "load_reg", "write_reg", "halt"}
  <1>1. code[k] \in Primitives
    OBVIOUS
  <1> QED BY <1>1 DEF Primitives, Lit, LoadReg, WriteReg, Halt

(* The depth of the stack after each primitive, were it unbounded.         *)
LEMMA DepthsExist ==
    ASSUME NEW code \in Seq(Primitives)
    PROVE  \E depth \in [0 .. Len(code) -> Int] :
              /\ depth[0] = 0
              /\ \A k \in 1 .. Len(code) : depth[k] = DepthAfter(code[k].op, depth[k - 1])
  <1> DEFINE n == Len(code)
             F == [p \in (1 .. n) \X Int |-> DepthAfter(code[p[1]].op, p[2])]
  <1>1. n \in Nat /\ 0 \in Int
    OBVIOUS
  <1>2. F \in [(1 .. n) \X Int -> Int]
    BY DEF DepthAfter
  <1>3. \A p \in (1 .. n) \X Int : F[p] = DepthAfter(code[p[1]].op, p[2])
    OBVIOUS
  <1> HIDE DEF F, n
  <1>4. PICK g : IsRun(Int, 0, F, n, g)
    BY <1>1, <1>2, RunExists DEF HasRun
  <1>5. ASSUME NEW k \in 1 .. n
        PROVE  g[k] = DepthAfter(code[k].op, g[k - 1])
    <2>1. k - 1 \in 0 .. n
      BY <1>1
    <2>2. <<k, g[k - 1]>> \in (1 .. n) \X Int
      BY <1>4, <2>1 DEF IsRun
    <2> QED BY <1>3, <1>4, <2>2 DEF IsRun
  <1> QED BY <1>4, <1>5 DEF IsRun, n

(* A literal counts twice.                                                 *)
LEMMA LiteralCounts ==
    ASSUME NEW code \in Seq(Primitives), NEW k \in 1 .. Len(code), code[k].op = "lit"
    PROVE  Len(code) + 1 <= WordCount(code) /\ WordCount(code) \in Nat
  <1> DEFINE L == {i \in DOMAIN code : code[i].op = "lit"}
  <1>1. IsFiniteSet(1 .. Len(code))
    BY FS_Interval
  <1>2. IsFiniteSet(L)
    BY <1>1, FS_Subset
  <1>3. Cardinality(L) \in Nat /\ Cardinality(L) # 0
    BY <1>2, FS_CardinalityType, FS_EmptySet
  <1> QED BY <1>3 DEF WordCount

(* Two words of stream make room for one more operand: a peek leaves one   *)
(* behind and takes three words, a poke none and five.                     *)
LEMMA ParsedFits ==
    ASSUME NEW code \in Seq(Primitives), NEW place, Parsed(code, place),
           WordCount(code) <= 2 * VM_STACK_SIZE
    PROVE  StackFits(code)
  <1> DEFINE n == Len(code)
  <1>1. PICK at \in [0 .. n -> Stages] : Scan(code, at)
    BY DEF Parsed
  <1>2. PICK depth \in [0 .. n -> Int] :
            /\ depth[0] = 0
            /\ \A k \in 1 .. n : depth[k] = DepthAfter(code[k].op, depth[k - 1])
    BY DepthsExist
  <1>3. n \in Nat /\ VM_STACK_SIZE \in Nat
    BY StackAssumption
  <1> DEFINE Good(p, d, k) ==
                 /\ d \in 0 .. VM_STACK_SIZE
                 /\ p = "whole" => 2 * d <= k
                 /\ p = "address" => d > 0 /\ 2 * d <= k + 1
                 /\ p = "value" => d > 1 /\ 2 * d <= k + 2
             S == {k \in 0 .. n : Good(at[k], depth[k], k)}
  <1>4. 0 \in S
    BY <1>1, <1>2, <1>3 DEF Scan
  <1>5. ASSUME NEW k \in 1 .. n, Good(at[k - 1], depth[k - 1], k - 1)
        PROVE  FindsOperands(code[k].op, depth[k - 1]) /\ Good(at[k], depth[k], k)
    <2> DEFINE op == code[k].op
               d == depth[k - 1]
               p == at[k - 1]
    <2>1. <<p, op, at[k]>> \in Moves /\ depth[k] = DepthAfter(op, d)
      BY <1>1, <1>2 DEF Scan
    <2>2. op = "lit" => n + 1 <= 2 * VM_STACK_SIZE
      BY <1>3, LiteralCounts
    <2>3. Good(p, d, k - 1)
      BY <1>5
    <2> HIDE DEF op, d, p
    <2>4. FindsOperands(op, d) /\ Good(at[k], DepthAfter(op, d), k)
      <3>1. CASE op = "lit" /\ p = "whole" /\ at[k] = "address"
        BY <1>3, <2>2, <2>3, <3>1 DEF FindsOperands, DepthAfter
      <3>2. CASE op = "lit" /\ p = "address" /\ at[k] = "value"
        BY <1>3, <2>2, <2>3, <3>2 DEF FindsOperands, DepthAfter
      <3>3. CASE op = "load_reg" /\ p = "address" /\ at[k] = "whole"
        BY <1>3, <2>3, <3>3 DEF FindsOperands, DepthAfter
      <3>4. CASE op = "write_reg" /\ p = "value" /\ at[k] = "whole"
        BY <1>3, <2>3, <3>4 DEF FindsOperands, DepthAfter
      <3>5. CASE op = "halt" /\ at[k] = "end"
        BY <1>3, <2>3, <3>5 DEF FindsOperands, DepthAfter
      <3> QED BY <2>1, <3>1, <3>2, <3>3, <3>4, <3>5 DEF Moves
    <2> QED BY <2>1, <2>4 DEF op, d
  <1>6. \A k \in 1 .. n : k - 1 \in S => k \in S
    BY <1>5
  <1>7. \A k \in 0 .. n : k \in S
    <2> HIDE DEF S
    <2> QED BY <1>3, <1>4, <1>6, UpTo
  <1>8. \A k \in 0 .. n : depth[k] \in 0 .. VM_STACK_SIZE
    BY <1>7
  <1>9. ASSUME NEW k \in 1 .. n
        PROVE  FindsOperands(code[k].op, depth[k - 1])
    <2>1. k - 1 \in 0 .. n
      OBVIOUS
    <2>2. Good(at[k - 1], depth[k - 1], k - 1)
      BY <1>7, <2>1 DEF S
    <2> QED BY <1>5, <2>2
  <1>10. depth \in [0 .. n -> 0 .. VM_STACK_SIZE]
    BY <1>2, <1>8
  <1> QED BY <1>2, <1>9, <1>10 DEF StackFits
=============================================================================
