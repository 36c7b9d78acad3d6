------------------------------- MODULE Lexer --------------------------------
(***************************************************************************)
(* The streaming lexer (src/src/compiler/lexer.rs), one loop iteration per *)
(* step, against what a token is.  Blanks are one character, and so is the *)
(* white space next_token skips; the line counter is left out.             *)
(***************************************************************************)
EXTENDS Integers, Sequences

CONSTANTS Texts,      \* inputs, sequences of characters
          Letters,    \* alphabetic characters, "x" and the hex digits among them
          Keywords,   \* identifiers that are a token of their own
          WORD        \* one more than the largest literal (2^32)

VARIABLES text,    \* the stream
          cursor,  \* next character, from 1
          mode,    \* which loop of the lexer is running
          start,   \* where its token began
          value,   \* of the literal so far
          tokens   \* produced so far

lexerVars == <<text, cursor, mode, start, value, tokens>>

HexDigits == {"0", "1", "2", "3", "4", "5", "6", "7", "8", "9", "A", "B", "C", "D", "E", "F"}
DecimalDigits == {"0", "1", "2", "3", "4", "5", "6", "7", "8", "9"}
DigitRow == <<"0", "1", "2", "3", "4", "5", "6", "7", "8", "9", "A", "B", "C", "D", "E", "F">>
DigitValue(c) == (CHOOSE v \in 1 .. 16 : DigitRow[v] = c) - 1
Operators == {"+", "-", "*", "/", "%", "=", "<", ">", "!", "&", "|", "^", "~", ":", "?"}
Punctuation == Operators \cup {"(", ")", "{", "}", ";", ","}
IsBlank(c) == c = " "
IsSeparator(c) == c = "_"
HexChars == HexDigits \cup {"_"}
DecimalChars == DecimalDigits \cup {"_"}
IdentifierStart == Letters \cup {"_"}
IdentifierChars == Letters \cup DecimalDigits \cup {"_"}

(* A literal of 0 to 15 fits, so every single digit does; "eof" stands for *)
(* the end of the input, and the classes of characters are disjoint.       *)
ASSUME LexerAssumption ==
    /\ WORD \in Nat /\ WORD > 15
    /\ Texts \subseteq Seq(STRING \ {"eof"})
    /\ \A c \in Letters : c \notin DecimalDigits \cup Punctuation \cup {" ", "_", "eof"}

At(k) == IF k \in DOMAIN text THEN text[k] ELSE "eof"
HexPrefix(k) == At(k) = "0" /\ At(k + 1) \in {"x", "X"}

Token(t, v, first, last) == [t |-> t, v |-> v, first |-> first, last |-> last]
Named(name) == IF name \in Keywords THEN "keyword" ELSE "identifier"

LexerInit ==
    /\ text \in Texts
    /\ cursor = 1
    /\ mode = "scan"
    /\ start = 1
    /\ value = 0
    /\ tokens = <<>>

Produce(t, v, next) ==
    /\ tokens' = Append(tokens, Token(t, v, start', next - 1))
    /\ cursor' = next
    /\ mode' = "scan"

(* next_token: skip blanks, then let the first character choose.           *)
Scan ==
    /\ mode = "scan"
    /\ start' = cursor
    /\ value' = 0
    /\ LET b == At(cursor)
       IN  CASE b = "eof" -> mode' = "done" /\ UNCHANGED <<cursor, tokens>>
             [] b = " " -> cursor' = cursor + 1 /\ UNCHANGED <<mode, tokens>>
             [] b \in IdentifierStart -> mode' = "identifier" /\ UNCHANGED <<cursor, tokens>>
             [] HexPrefix(cursor) ->
                   mode' = "hex" /\ cursor' = cursor + 2 /\ UNCHANGED tokens
             [] b \in DecimalDigits /\ ~HexPrefix(cursor) ->
                   mode' = "decimal" /\ UNCHANGED <<cursor, tokens>>
             [] b \in Punctuation -> Produce("symbol", b, cursor + 1)
             [] OTHER -> Produce("error", "unexpected", cursor + 1)
    /\ UNCHANGED text

(* parse_identifier.                                                       *)
Identifier ==
    /\ mode = "identifier"
    /\ UNCHANGED <<text, start, value>>
    /\ IF At(cursor) \in IdentifierChars
       THEN cursor' = cursor + 1 /\ UNCHANGED <<mode, tokens>>
       ELSE LET name == SubSeq(text, start, cursor - 1) IN Produce(Named(name), name, cursor)

Base(m) == IF m \in {"hex", "rest of hex"} THEN 16 ELSE 10
Digits(m) == IF m \in {"hex", "rest of hex"} THEN HexDigits ELSE DecimalDigits

(* Mutant: only the multiplication is checked.                             *)
FitsProduct(v, base, d) == v * base < WORD

(* checked_mul, then checked_add.                                          *)
Fits(v, base, d) == v * base < WORD /\ v * base + d < WORD

(* parse_literal: a digit, an underscore, or the end of the literal.       *)
Literal ==
    /\ mode \in {"hex", "decimal"}
    /\ UNCHANGED <<text, start>>
    /\ LET b == At(cursor)
           d == DigitValue(b)
       IN  CASE b = "_" -> cursor' = cursor + 1 /\ UNCHANGED <<mode, value, tokens>>
             [] b \in Digits(mode) ->
                   IF Fits(value, Base(mode), d)
                   THEN /\ value' = value * Base(mode) + d
                        /\ cursor' = cursor + 1
                        /\ UNCHANGED <<mode, tokens>>
                   ELSE /\ mode' = (IF mode = "hex" THEN "rest of hex" ELSE "rest of decimal")
                        /\ UNCHANGED <<cursor, value, tokens>>
             [] OTHER ->
                   /\ IF mode = "hex" /\ cursor = start + 2 THEN Produce("error", "malformed", cursor)
                      ELSE Produce("literal", value, cursor)
                   /\ UNCHANGED value

(* Mutant: the recovery does not step over underscores.                    *)
RestOfLiteralStuck ==
    /\ mode \in {"rest of hex", "rest of decimal"}
    /\ UNCHANGED <<text, start, value>>
    /\ CASE At(cursor) \in Digits(mode) -> cursor' = cursor + 1 /\ UNCHANGED <<mode, tokens>>
         [] At(cursor) = "_" -> UNCHANGED <<cursor, mode, tokens>>
         [] OTHER -> Produce("error", "overflow", cursor)

(* After an overflow the rest of the literal is consumed.                  *)
RestOfLiteral ==
    /\ mode \in {"rest of hex", "rest of decimal"}
    /\ UNCHANGED <<text, start, value>>
    /\ IF At(cursor) \in Digits(mode) \cup {"_"}
       THEN cursor' = cursor + 1 /\ UNCHANGED <<mode, tokens>>
       ELSE Produce("error", "overflow", cursor)

LexerNext == Scan \/ Identifier \/ Literal \/ RestOfLiteral

LexerSpec == LexerInit /\ [][LexerNext]_lexerVars

-----------------------------------------------------------------------------
(* What a token is: the longest run of characters of its kind, whose value *)
(* is that of the numeral it spells.                                       *)

Spells(k, j) ==
    CASE text[k] \in IdentifierStart -> \A i \in k .. j : text[i] \in IdentifierChars
      [] HexPrefix(k) -> j > k /\ \A i \in k + 2 .. j : text[i] \in HexChars
      [] text[k] \in DecimalDigits /\ ~HexPrefix(k) ->
            \A i \in k .. j : text[i] \in DecimalChars
      [] OTHER -> j = k

(* The numeral s[from] .. s[j], underscores aside: digits times the weights *)
(* of their places, which are counted from the right.                      *)
Numeral(s, from, j, base) ==
    LET c(n) == s[j + 1 - n]
        weight[n \in 0 .. j + 1 - from] ==
            IF n = 0 THEN 1
            ELSE IF IsSeparator(c(n)) THEN weight[n - 1] ELSE base * weight[n - 1]
        sum[n \in 0 .. j + 1 - from] ==
            IF n = 0 THEN 0
            ELSE IF IsSeparator(c(n)) THEN sum[n - 1] ELSE sum[n - 1] + DigitValue(c(n)) * weight[n - 1]
    IN  sum[j + 1 - from]

RefLiteral(k, j, from, base) ==
    LET n == Numeral(text, from, j, base)
    IN  IF from > j THEN Token("error", "malformed", k, j)
        ELSE IF n >= WORD THEN Token("error", "overflow", k, j)
        ELSE Token("literal", n, k, j)

RefToken(k, j) ==
    CASE text[k] \in IdentifierStart ->
            Token(Named(SubSeq(text, k, j)), SubSeq(text, k, j), k, j)
      [] HexPrefix(k) -> RefLiteral(k, j, k + 2, 16)
      [] text[k] \in DecimalDigits /\ ~HexPrefix(k) -> RefLiteral(k, j, k, 10)
      [] text[k] \in Punctuation -> Token("symbol", text[k], k, j)
      [] OTHER -> Token("error", "unexpected", k, j)

IsRefToken(tok) ==
    /\ tok.first \in 1 .. Len(text) /\ tok.last \in tok.first .. Len(text)
    /\ ~IsBlank(text[tok.first])
    /\ Spells(tok.first, tok.last)
    /\ \A j \in tok.last + 1 .. Len(text) : ~Spells(tok.first, j)
    /\ LET ref == RefToken(tok.first, tok.last) IN tok.t = ref.t /\ tok = ref

(* The tokens of the text before position `end`: in its order, one after   *)
(* the other, with only blanks between them.                               *)
Tokenised(end) ==
    LET Last(k) == IF k = 0 THEN 0 ELSE tokens[k].last
        First(k) == IF k \in DOMAIN tokens THEN tokens[k].first ELSE end
    IN  /\ \A k \in DOMAIN tokens : IsRefToken(tokens[k])
        /\ \A k \in 1 .. Len(tokens) + 1 :
              /\ Last(k - 1) < First(k)
              /\ \A i \in Last(k - 1) + 1 .. First(k) - 1 : IsBlank(text[i])

(* "Overflow check before shifting in the new nibble": a numeral too large *)
(* for a word is one error, never a wrapped value and never two tokens;    *)
(* every other character belongs to the longest token of its kind, and     *)
(* none to two.                                                            *)
TokensAreRight == mode = "done" => Tokenised(Len(text) + 1)

(* Type invariant of the lexer.                                            *)
LexerTypeOK ==
    /\ cursor \in 1 .. Len(text) + 1
    /\ mode \in {"scan", "identifier", "hex", "decimal", "rest of hex", "rest of decimal", "done"}
    /\ value \in 0 .. WORD - 1
    /\ \A k \in DOMAIN tokens : tokens[k].t = "literal" => tokens[k].v \in 0 .. WORD - 1

=============================================================================
