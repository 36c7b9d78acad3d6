----------------------------- MODULE Encodings ------------------------------
(***************************************************************************)
(* The instruction encoders of src/src/compiler/emitter.rs for both        *)
(* targets, and the decoders of the processors they are meant for.         *)
(*                                                                         *)
(* A word, a halfword, a register number is the set of its 1 bits: shifts  *)
(* move bits, | is union, & is intersection, the number 0 is {}.           *)
(***************************************************************************)
EXTENDS Naturals, Sequences

Word == SUBSET (0 .. 31)
Halfword == SUBSET (0 .. 15)

(* (x >> low) & mask and x << k.                                           *)
Field(x, low, width) == {b - low : b \in x \cap (low .. low + width - 1)}
Shl(x, k) == {b + k : b \in x}
Shl32(x, k) == Shl(x, k) \cap (0 .. 31)

(* wrapping_add: a bit is the parity of both bits and the carry into it.   *)
Odd(p, q, r) == p # (q # r)
Add(x, y) ==
    LET carry[k \in 0 .. 32] ==
            IF k = 0 THEN FALSE
            ELSE \/ k - 1 \in x /\ k - 1 \in y
                 \/ carry[k - 1] /\ (k - 1 \in x \/ k - 1 \in y)
    IN  {k \in 0 .. 31 : Odd(k \in x, k \in y, carry[k])}
Sub(x, y) == Add(Add(x, (0 .. 31) \ y), {0})

SignExtended(x, top) == IF top \in x THEN x \cup (top .. 31) ELSE x

-----------------------------------------------------------------------------
(* Thumb-2: sequences of halfwords.                                        *)

MOVW == {15, 14, 13, 12, 9, 6}         \* 0xF240
MOVT == {15, 14, 13, 12, 9, 7, 6}      \* 0xF2C0
STR == {14, 13}                        \* 0x6000
LDR == {14, 13, 11}                    \* 0x6800
MOVS == {13}                           \* 0x2000
BX_LR == {14, 10, 9, 8, 6, 5, 4}       \* 0x4770

(* Mutant: imm3 and imm8 are taken as one field.                           *)
WideMovePacked(opcode, rd, half) ==
    <<opcode \cup Shl(Field(half, 11, 1), 10) \cup Field(half, 12, 4),
      Shl(rd, 8) \cup Field(half, 0, 11)>>

(* The 16-bit immediate is scattered as imm4:i:imm3:imm8.                  *)
WideMove(opcode, rd, half) ==
    <<opcode \cup Shl(Field(half, 11, 1), 10) \cup Field(half, 12, 4),
      Shl(Field(half, 8, 3), 12) \cup Shl(rd, 8) \cup Field(half, 0, 8)>>

encode_movw(rd, imm) == WideMove(MOVW, rd, imm)
encode_movt(rd, imm) == WideMove(MOVT, rd, Field(imm, 16, 16))

(* Low registers and an offset that is a multiple of 4 up to 124, or None. *)
ShortAccess(opcode, rt, rn, offset) ==
    IF rt \subseteq 0 .. 2 /\ rn \subseteq 0 .. 2 /\ offset \subseteq 2 .. 6
    THEN <<opcode \cup Shl(offset, 4) \cup Shl(rn, 3) \cup rt>>
    ELSE <<>>
encode_str_imm(rt, rn, offset) == ShortAccess(STR, rt, rn, offset)
encode_ldr_imm(rt, rn, offset) == ShortAccess(LDR, rt, rn, offset)

(* MOVS when the immediate and the register are short; MOVT only when the  *)
(* upper half is not 0, which MOVW clears.                                 *)
thumb_mov_imm(reg, imm) ==
    IF imm \subseteq 0 .. 7 /\ reg \subseteq 0 .. 2
    THEN <<MOVS \cup Shl(reg, 8) \cup imm>>
    ELSE IF Field(imm, 16, 16) = {} THEN encode_movw(reg, imm)
    ELSE LET w == encode_movw(reg, imm)
             t == encode_movt(reg, imm)
         IN  <<w[1], w[2], t[1], t[2]>>

-----------------------------------------------------------------------------
(* RV32I: sequences of words.                                              *)

encode_lui(rd, imm20) ==
    {0, 1, 2, 4, 5} \cup Shl(rd \cap (0 .. 4), 7) \cup Shl32(imm20 \cap (0 .. 19), 20)

encode_addi(rd, rs1, imm12) ==
    {0, 1, 4} \cup Shl(rd \cap (0 .. 4), 7) \cup Shl(rs1 \cap (0 .. 4), 15)
      \cup Shl(imm12 \cap (0 .. 11), 20)

(* Offsets below 0x800 or from 0xFFFFF000 on, or None.                     *)
Reaches(offset) == offset \subseteq 0 .. 10 \/ 12 .. 31 \subseteq offset

encode_sw(rs2, rs1, offset) ==
    IF Reaches(offset)
    THEN <<{0, 1, 5, 13} \cup Shl(Field(offset, 5, 7), 25) \cup Shl(rs2 \cap (0 .. 4), 20)
             \cup Shl(rs1 \cap (0 .. 4), 15) \cup Shl(Field(offset, 0, 5), 7)>>
    ELSE <<>>

encode_lw(rd, rs1, offset) ==
    IF Reaches(offset)
    THEN <<{0, 1, 13} \cup Shl(rd \cap (0 .. 4), 7) \cup Shl(rs1 \cap (0 .. 4), 15)
             \cup Shl(Field(offset, 0, 12), 20)>>
    ELSE <<>>

RV32_RET == {0, 1, 2, 5, 6, 15}        \* JALR x0, ra, 0

(* imm <= 0x7FF or imm >= 0xFFFFF800.                                      *)
FitsAddi(imm) == imm \subseteq 0 .. 10 \/ 11 .. 31 \subseteq imm

riscv_mov_imm(reg, imm) ==
    IF FitsAddi(imm) THEN <<encode_addi(reg, {}, imm)>>
    ELSE LET hi20 == Field(Add(imm, {11}), 12, 20)
             lo12 == Sub(imm, Shl32(hi20, 12))
         IN  <<encode_lui(reg, hi20)>>
               \o (IF lo12 = {} THEN <<>> ELSE <<encode_addi(reg, reg, lo12)>>)

-----------------------------------------------------------------------------
(* What the processors make of the code: the instruction at position k, in *)
(* units of the target, as [i, rd, rs, imm, len].                          *)

Decoded(i, rd, rs, imm, len) == [i |-> i, rd |-> rd, rs |-> rs, imm |-> imm, len |-> len]
Undefined == Decoded("undefined", {}, {}, {}, 1)

ThumbWideImmediate(hw1, hw2) ==
    Shl(Field(hw1, 0, 4), 12) \cup Shl(Field(hw1, 10, 1), 11)
      \cup Shl(Field(hw2, 12, 3), 8) \cup Field(hw2, 0, 8)

ThumbDecodeWide(hw1, hw2) ==
    LET rd == Field(hw2, 8, 4)
        imm == ThumbWideImmediate(hw1, hw2)
    IN  IF 15 \in hw2 THEN Undefined
        ELSE IF Field(hw1, 4, 6) = {2, 5} THEN Decoded("mov", rd, {}, imm, 2)
        ELSE IF Field(hw1, 4, 6) = {2, 3, 5} THEN Decoded("movt", rd, {}, imm, 2)
        ELSE Undefined

ThumbDecodeShort(hw) ==
    LET opcode == Field(hw, 11, 5)
        access(i) == Decoded(i, Field(hw, 0, 3), Field(hw, 3, 3), Shl(Field(hw, 6, 5), 2), 1)
    IN  IF hw = BX_LR THEN Decoded("ret", {}, {}, {}, 1)
        ELSE IF opcode = {2} THEN Decoded("mov", Field(hw, 8, 3), {}, Field(hw, 0, 8), 1)
        ELSE IF opcode = {2, 3} THEN access("store")
        ELSE IF opcode = {0, 2, 3} THEN access("load")
        ELSE Undefined

ThumbDecode(code, k) ==
    IF Field(code[k], 11, 5) = {1, 2, 3, 4}
    THEN IF k + 1 \in DOMAIN code THEN ThumbDecodeWide(code[k], code[k + 1]) ELSE Undefined
    ELSE ThumbDecodeShort(code[k])

RiscvDecode(w) ==
    LET opcode == Field(w, 0, 7)
        funct3 == Field(w, 12, 3)
        rd == Field(w, 7, 5)
        rs1 == Field(w, 15, 5)
        immI == SignExtended(Field(w, 20, 12), 11)
        immS == SignExtended(Shl(Field(w, 25, 7), 5) \cup Field(w, 7, 5), 11)
    IN  IF opcode = {0, 1, 2, 4, 5} THEN Decoded("mov", rd, {}, w \cap (12 .. 31), 1)
        ELSE IF opcode = {0, 1, 4} /\ funct3 = {} THEN Decoded("addi", rd, rs1, immI, 1)
        ELSE IF opcode = {0, 1} /\ funct3 = {1} THEN Decoded("load", rd, rs1, immI, 1)
        ELSE IF opcode = {0, 1, 5} /\ funct3 = {1}
             THEN Decoded("store", Field(w, 20, 5), rs1, immS, 1)
        ELSE IF w = RV32_RET THEN Decoded("ret", {}, {}, {}, 1)
        ELSE Undefined
=============================================================================
