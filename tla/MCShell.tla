------------------------------ MODULE MCShell -------------------------------
(***************************************************************************)
(* A machine of four words, each also an address: 0 is RAM, 1 a GPIOA      *)
(* register, 2 a system register no capability covers, 3 faults.  Two      *)
(* symbols, three function names for two slots.                            *)
(***************************************************************************)
EXTENDS Shell

CONSTANTS x, y, f, g, h, GPIOA, FOO

MCValues == 0 .. 3
MCFaulting == {3}
MCNames == {x, y, f, g, h}
MCCaps == {GPIOA, SUPERUSER}
MCCapOf == [a \in MCValues |-> IF a = 1 THEN GPIOA ELSE NoCap]
MCRamFlash == {0}
MCMemory == [a \in MCValues |-> 0]

(* Terms, statements and lines.                                            *)
L(v) == [t |-> "lit", v |-> v]
S(n) == [t |-> "sym", n |-> n]
P(a) == [t |-> "peek", v |-> a]
Bad == [t |-> "bad"]

Let(n, e) == [cmd |-> "let", name |-> n, expr |-> e, ended |-> TRUE]
Expr(e) == [cmd |-> "expr", expr |-> e, ended |-> TRUE]
Peek(a) == [cmd |-> "peek", addr |-> a, ended |-> TRUE]
Poke(a, v) == [cmd |-> "poke", addr |-> a, val |-> v, ended |-> TRUE]
SetBit(a, b) == [cmd |-> "set_bit", addr |-> a, val |-> b, ended |-> TRUE]
ClrBit(a, b) == [cmd |-> "clr_bit", addr |-> a, val |-> b, ended |-> TRUE]
CapClaim(r) == [cmd |-> "cap_claim", name |-> r]
CapDrop(r) == [cmd |-> "cap_drop", name |-> r]
Call(n) == [cmd |-> "call", name |-> n]
SysAudit == [cmd |-> "sys_audit", name |-> FOO]
BadLine == [cmd |-> "bad"]
Unended(l) == [l EXCEPT !.ended = FALSE]
Fn(n, body) == [cmd |-> "fn", name |-> n, body |-> body, closed |-> TRUE]
OpenFn(n, body) == [cmd |-> "fn", name |-> n, body |-> body, closed |-> FALSE]

SPoke(a, v) == [s |-> "poke", addr |-> a, val |-> v, ended |-> TRUE]
SPeek(a) == [s |-> "peek", addr |-> a, ended |-> TRUE]
SExpr(e) == [s |-> "expr", expr |-> e, ended |-> TRUE]
SCall(n) == [s |-> "call", name |-> n, ended |-> TRUE]

Claims == {CapClaim(GPIOA), CapDrop(GPIOA)}
SuperClaims == {CapClaim(SUPERUSER), CapDrop(SUPERUSER)}

(* Definitions and calls: bodies that fit and bodies that do not, a splice *)
(* of a splice, a third function, errors after the first statement, and    *)
(* one line of every other kind, among them a fault and a panic.           *)
MCFunctionLines == Claims \cup {
    Fn(f, <<SPoke(L(1), L(2))>>),
    Fn(g, <<SCall(f), SPeek(L(0))>>),
    Fn(h, <<>>),
    Fn(f, <<SPeek(L(0)), SExpr(Bad)>>),
    Fn(g, <<SPoke(L(0), S(x)), SPoke(L(0), P(1))>>),
    Fn(h, <<SCall(f), SCall(f), SCall(f)>>),
    OpenFn(f, <<SPeek(L(0))>>),
    Fn(h, <<SPeek(L(1)), SCall(h)>>),
    Let(x, L(1)), Let(x, P(3)), BadLine, SysAudit,
    Peek(L(1)), SetBit(L(1), L(2)),
    Call(f), Call(g), Call(h)}

(* Symbols and direct accesses.                                            *)
MCAccessLines == Claims \cup SuperClaims \cup {
    CapClaim(FOO),
    Let(x, P(1)), Let(x, L(2)), Let(y, S(x)), Unended(Let(y, L(1))),
    Let(y, P(3)),
    Expr(S(y)), Expr(Bad), BadLine, SysAudit,
    Peek(L(1)), Peek(L(2)), Unended(Peek(L(0))),
    Poke(L(1), L(3)), Poke(L(2), S(x)), Poke(P(1), L(0)), Poke(L(3), L(0)), Poke(L(0), L(1)),
    SetBit(L(1), L(1)), ClrBit(L(1), L(2)), ClrBit(L(2), L(0))}

(* A function that writes, under SUPERUSER.                                *)
MCSuperLines == SuperClaims \cup {Fn(f, <<SPoke(L(1), L(2))>>), Poke(L(1), L(3)), Call(f)}
=============================================================================
