---------------------------- MODULE Expressions -----------------------------
(***************************************************************************)
(* What a line comes to as an expression: the lexer's tokens, evaluated    *)
(* while they are parsed (eval_expr, parse_atomic_term, resolve_term of    *)
(* src/src/compiler/parser.rs), from left to right without precedence,     *)
(* `peek ADDR` reading memory on the way.                                  *)
(***************************************************************************)
EXTENDS Lexer

CONSTANTS PEEK,      \* the identifier `peek`
          Bindings,  \* the symbol table: identifiers to words
          Memory     \* words to words

Words == 0 .. WORD - 1

ASSUME ExpressionsAssumption ==
    /\ Memory \in [Words -> Words]
    /\ \A name \in DOMAIN Bindings : Bindings[name] \in Words
    /\ PEEK \notin Keywords

VARIABLE result   \* of the expression

vars == <<lexerVars, result>>

(* A value or an error, the addresses read to find it, and the next token. *)
Statuses == {"ok", "pending", "UnknownSymbol", "LexError", "UnexpectedToken", "DivByZero",
             "MissingSemicolon"}
Outcomes == [st : Statuses, val : Words, reads : Seq(Words), next : Nat]
Ok(v, reads, next) == [st |-> "ok", val |-> v, reads |-> reads, next |-> next]
Err(e, reads) == [st |-> e, val |-> 0, reads |-> reads, next |-> 0]
Pending == Err("pending", <<>>)
IsOk(r) == r.st = "ok"

(* r was found after the reads of an earlier part.                         *)
After(reads, r) == [r EXCEPT !.reads = reads \o @]

Tok(s, k) == IF k \in DOMAIN s THEN s[k] ELSE Token("eof", "eof", 0, 0)
Kind(s, k, t) == Tok(s, k).t = t
IsSymbol(s, k, c) == Kind(s, k, "symbol") /\ Tok(s, k).v = c
Arithmetic == {"+", "-", "*", "/", "%"}
IsArithmetic(s, k) == Kind(s, k, "symbol") /\ Tok(s, k).v \in Arithmetic

Apply(op, a, b) ==
    CASE op = "+" -> (a + b) % WORD
      [] op = "-" -> (a - b) % WORD
      [] op = "*" -> (a * b) % WORD
      [] op = "/" -> a \div b
      [] op = "%" -> a % b

Undefined(op, b) == op \in {"/", "%"} /\ b = 0

(* The functions of the parser call each other for later tokens; term[k]   *)
(* stands for what parse_atomic_term finds at token k of s.                *)

(* The loop over operators: acc is what stands left of token acc.next.     *)
Operate(s, term) ==
    [acc \in Outcomes |->
        IF ~IsOk(acc) \/ ~IsArithmetic(s, acc.next) THEN acc
        ELSE LET op == Tok(s, acc.next).v
                 rhs == After(acc.reads, term[acc.next + 1])
             IN  IF ~IsOk(rhs) THEN rhs
                 ELSE IF Undefined(op, rhs.val) THEN Err("DivByZero", rhs.reads)
                 ELSE Ok(Apply(op, acc.val, rhs.val), rhs.reads, rhs.next)]

(* A turn takes an operator or changes nothing: Len(s) of them are enough. *)
eval_expr(s, term, k) ==
    LET turn[n \in 0 .. Len(s)] == IF n = 0 THEN term[k] ELSE Operate(s, term)[turn[n - 1]]
    IN  turn[Len(s)]

(* Mutant: a peek takes the whole expression that follows it.              *)
AddressGreedy(s, term, k) == eval_expr(s, term, k)

(* The address of a peek is one term.                                      *)
Address(s, term, k) == term[k]

(* A term that begins at token k.                                          *)
resolve_term(s, term, k) ==
    CASE Kind(s, k, "literal") -> Ok(Tok(s, k).v, <<>>, k + 1)
      [] Kind(s, k, "identifier") /\ Tok(s, k).v = PEEK ->
            LET a == Address(s, term, k + 1)
            IN  IF IsOk(a) THEN Ok(Memory[a.val], Append(a.reads, a.val), a.next) ELSE a
      [] Kind(s, k, "identifier") /\ Tok(s, k).v # PEEK ->
            IF Tok(s, k).v \in DOMAIN Bindings THEN Ok(Bindings[Tok(s, k).v], <<>>, k + 1)
            ELSE Err("UnknownSymbol", <<>>)
      [] Kind(s, k, "error") -> Err("LexError", <<>>)
      [] OTHER -> Err("UnexpectedToken", <<>>)

parse_atomic_term(s, term, k) ==
    IF ~IsSymbol(s, k, "(") THEN resolve_term(s, term, k)
    ELSE LET r == eval_expr(s, term, k + 1)
         IN  IF ~IsOk(r) THEN r
             ELSE IF IsSymbol(s, r.next, ")") THEN Ok(r.val, r.reads, r.next + 1)
             ELSE Err("UnexpectedToken", r.reads)

Terms(s) ==
    LET term[k \in 1 .. Len(s) + 1] == parse_atomic_term(s, term, k)
    IN  term

(* The value of `let NAME = ...`, up to its semicolon or the end.          *)
expect_semicolon(s, r) ==
    IF IsOk(r) /\ ~IsSymbol(s, r.next, ";") /\ ~Kind(s, r.next, "eof")
    THEN Err("MissingSemicolon", r.reads) ELSE r

Value(s) == expect_semicolon(s, eval_expr(s, Terms(s), 1))

Evaluate ==
    /\ mode = "done" /\ result = Pending
    /\ result' = Value(tokens)
    /\ UNCHANGED lexerVars

Init == LexerInit /\ result = Pending

Next == (LexerNext /\ UNCHANGED result) \/ Evaluate

(* parse() runs to its end.                                                *)
Spec == Init /\ [][Next]_vars /\ WF_vars(Next)

-----------------------------------------------------------------------------
(* The grammar: a term is a literal, a bound identifier, a peek of a term  *)
(* or a parenthesised expression; an expression is a term, or an           *)
(* expression, an operator and a term.  What tokens i .. j mean is the set *)
(* of outcomes of their readings.                                          *)

Reading(a) == IF IsOk(a) THEN Ok(Memory[a.val], Append(a.reads, a.val), 0) ELSE a

Operation(l, op, r) ==
    IF ~IsOk(l) THEN l
    ELSE IF ~IsOk(r) THEN Err(r.st, l.reads \o r.reads)
    ELSE IF Undefined(op, r.val) THEN Err("DivByZero", l.reads \o r.reads)
    ELSE Ok(Apply(op, l.val, r.val), l.reads \o r.reads, 0)

(* One token; `of` holds the meanings of shorter stretches of tokens.      *)
TokenMeanings(s, i) ==
    CASE Kind(s, i, "literal") -> {Ok(Tok(s, i).v, <<>>, 0)}
      [] Kind(s, i, "identifier") /\ Tok(s, i).v # PEEK ->
            {IF Tok(s, i).v \in DOMAIN Bindings THEN Ok(Bindings[Tok(s, i).v], <<>>, 0)
             ELSE Err("UnknownSymbol", <<>>)}
      [] OTHER -> {}

TermMeanings(s, of, i, j) ==
    CASE i = j -> TokenMeanings(s, i)
      [] i < j /\ Kind(s, i, "identifier") /\ Tok(s, i).v = PEEK ->
            {Reading(a) : a \in of[<<i + 1, j>>].term}
      [] i < j /\ IsSymbol(s, i, "(") /\ IsSymbol(s, j, ")") -> of[<<i + 1, j - 1>>].expression
      [] OTHER -> {}

Operations(ls, op, rs) == {Operation(l, op, r) : l \in ls, r \in rs}

ExpressionMeanings(s, of, i, j) ==
    TermMeanings(s, of, i, j) \cup
    UNION {Operations(of[<<i, k - 1>>].expression, Tok(s, k).v, of[<<k + 1, j>>].term) :
           k \in {k \in i + 1 .. j - 1 : IsArithmetic(s, k)}}

Spans(s) == (1 .. Len(s) + 1) \X (0 .. Len(s))

Meanings(s) ==
    LET of[p \in Spans(s)] == [term |-> TermMeanings(s, of, p[1], p[2]),
                               expression |-> ExpressionMeanings(s, of, p[1], p[2])]
    IN  of

(* The tokens of the line before its first semicolon.                      *)
Statement(s) ==
    CHOOSE j \in 0 .. Len(s) :
        /\ \A k \in 1 .. j : ~IsSymbol(s, k, ";")
        /\ j = Len(s) \/ IsSymbol(s, j + 1, ";")

(* r is the one meaning the line has, without a position in it.            *)
IsMeaning(s, r) ==
    LET meanings == Meanings(s)[<<1, Statement(s)>>].expression
    IN  IF meanings = {} THEN ~IsOk(r) ELSE meanings = {[r EXCEPT !.next = 0]}

(* The line up to its first semicolon, if it is an expression, has that    *)
(* expression's value, and exactly its memory reads in its order; if it is *)
(* not one, it is answered with an error.                                  *)
ValueIsMeaning == result # Pending => IsMeaning(tokens, result)

(* Type invariant of the lexer and its result.                             *)
TypeOK == LexerTypeOK /\ result \in Outcomes

(* No input makes the lexer or the parser loop forever.                    *)
LineEvaluated == <>(result # Pending)
=============================================================================
