--------------------------- MODULE MCStreamEngine ---------------------------
(* Words, each also an address: 0, 0x85A7 (one MOVW), 0xC0019A3F (MOVW and *)
(* MOVT, every field of the immediate in use), 0xFFFFFFFF, which faults.   *)
(* Bodies are those parse_body_stmt emits for poke and peek statements.    *)
EXTENDS StreamEngine

W0 == {}
W1 == {15, 10, 8, 7, 5, 2, 1, 0}
W2 == {31, 30, 16, 15, 12, 11, 9, 5, 4, 3, 2, 1, 0}
W3 == 0 .. 31

MCValues == {W0, W1, W2, W3}
MCZero == W0
MCFaulting == {W3}
MCGarbage == {W0, W2}

(* Distinct contents, and the other way round.                             *)
MCMemories ==
    {[a \in MCValues |-> CASE a = W0 -> W2 [] a = W1 -> W0 [] a = W2 -> W1 [] a = W3 -> W0],
     [a \in MCValues |-> CASE a = W0 -> W1 [] a = W1 -> W2 [] a = W2 -> W3 [] a = W3 -> W0]}

Pokes(words) == {PokeCode(a, v) : a, v \in words}
Peeks(words) == {PeekCode(a) : a \in words}
Statements(words) == Pokes(words) \cup Peeks(words)

Call(t, body) == [target |-> t, code |-> Append(body, Halt), yields_value |-> FALSE]
Value(t, v) == [target |-> t, code |-> <<Lit(v), Halt>>, yields_value |-> TRUE]

(* A statement followed by up to two peeks: at most 9 stream words.        *)
PokeFirst(t, words) ==
    {Value(t, v) : v \in words} \cup {Call(t, <<>>)}
      \cup {Call(t, s) : s \in Statements(words)}
      \cup {Call(t, s \o p) : s \in Statements(words), p \in Peeks(words)}
      \cup {Call(t, s \o p \o q) : s \in Statements(words), p, q \in Peeks(words)}

(* On RISC-V only words a single ADDI loads.                               *)
MCPokeFirst == PokeFirst("arm", MCValues) \cup PokeFirst("riscv", {W0, W3})

(* Any two statements, as in `fn prim() { poke A 1; poke B 2; }`.          *)
MCTwoStatements == {Call("arm", s \o t) : s, t \in Statements({W0, W1, W3})}

(* One statement on RISC-V, any words.                                     *)
MCRiscvStatements == {Call("riscv", s) : s \in Statements(MCValues)} \cup {Value("riscv", v) : v \in MCValues}
=============================================================================
