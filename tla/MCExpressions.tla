--------------------------- MODULE MCExpressions ----------------------------
(* Words of four bits.  All texts of up to four characters that exercise   *)
(* the lexer, all of up to five that exercise the parser, and some longer  *)
(* ones; `peek` is the identifier P.                                       *)
EXTENDS Expressions, SequencesExt

LexerTexts == BoundedSeq({"0", "1", "9", "F", "x", "_", " ", "#"}, 4)
ParserTexts == BoundedSeq({"0", "9", "-", "/", "(", ")", "P", " "}, 5)

MCTexts == LexerTexts \cup ParserTexts \cup {
    <<"P", "(", "9", "-", "P", " ", "1", ")">>,
    <<"P", " ", "P", " ", "1", "*", "(", "3", "-", "4", ")">>,
    <<"0", "x", "_", ";", "1">>,
    <<"1", " ", "/", " ", "(", "8", "-", "8", ")", "+", ")">>,
    <<"(", "1", ";", "2", ")">>,
    <<"9", "%", "4", "*", "P", " ", "F", ";">>,
    <<"F", "+", "A", "9", "=", "1">>,
    <<"1", "-", "P", " ", "0", "/", "P", " ", "3">>,
    <<"9", "9", "_", "9", "F", "0", "X", "1", "_", "F", "F", "_", "1">>}

MCLetters == {"x", "X", "P", "A", "B", "C", "D", "E", "F"}
MCKeywords == {<<"x", "F">>}
MCPeek == <<"P">>
MCBindings == (<<"F">> :> 11) @@ (<<"A", "9">> :> 14)
MCMemory == [a \in 0 .. 15 |-> (3 * a + 7) % 16]
=============================================================================
