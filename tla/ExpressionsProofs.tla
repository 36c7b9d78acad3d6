------------------------- MODULE ExpressionsProofs --------------------------
(***************************************************************************)
(* Theorems about a line as an expression, for every text, symbol table,   *)
(* memory and size of a word.  The lexer's tokens are those of its text:   *)
(* each is the longest of its kind, each literal has the value its numeral *)
(* has or is one error, and only blanks belong to none.  The parser's      *)
(* recursion ends, and what it finds is the one meaning the grammar gives  *)
(* the tokens: their value, their memory reads in order, or an error.      *)
(***************************************************************************)
EXTENDS Expressions, SequenceTheorems, WellFoundedInduction, TLAPS

-----------------------------------------------------------------------------
(* The lexer.                                                              *)

(* The tokens are a sequence, whatever the tokens are.                     *)
IsSequence(s) == s \in Seq({s[i] : i \in DOMAIN s})

(* The modes in which a literal is read, and where its digits begin.       *)
HexModes == {"hex", "rest of hex"}
DecimalModes == {"decimal", "rest of decimal"}
Modes == {"scan", "identifier", "done"} \cup HexModes \cup DecimalModes
FirstDigit == IF mode \in HexModes THEN start + 2 ELSE start

(* What the text has shown of the token that is being read.                *)
RunSoFar ==
    /\ mode = "identifier" =>
          /\ text[start] \in IdentifierStart
          /\ \A i \in start .. cursor - 1 : text[i] \in IdentifierChars
    /\ mode \in HexModes =>
          /\ HexPrefix(start) /\ start + 2 <= cursor
          /\ \A i \in start + 2 .. cursor - 1 : text[i] \in HexChars
    /\ mode \in DecimalModes =>
          /\ text[start] \in DecimalDigits /\ ~HexPrefix(start)
          /\ \A i \in start .. cursor - 1 : text[i] \in DecimalChars

(* The value is that of the digits read; in the rest of a literal those,   *)
(* or those and the digit under the cursor, come to more than a word.      *)
ValueSoFar ==
    /\ mode \in {"hex", "decimal"} =>
          value = Numeral(text, FirstDigit, cursor - 1, Base(mode))
    /\ mode \in {"rest of hex", "rest of decimal"} =>
          \/ /\ At(cursor) \in Digits(mode)
             /\ Numeral(text, FirstDigit, cursor, Base(mode)) >= WORD
          \/ /\ FirstDigit < cursor
             /\ Numeral(text, FirstDigit, cursor - 1, Base(mode)) >= WORD

LexerInv ==
    /\ IsSequence(tokens)
    /\ text \in Texts
    /\ cursor \in 1 .. Len(text) + 1
    /\ value \in 0 .. WORD - 1
    /\ mode \in Modes
    /\ mode = "done" => cursor = Len(text) + 1
    /\ mode \in {"scan", "done"} => Tokenised(cursor)
    /\ mode \notin {"scan", "done"} =>
          start \in 1 .. Len(text) /\ start <= cursor /\ Tokenised(start) /\ RunSoFar /\ ValueSoFar

-----------------------------------------------------------------------------
(* The same text has the same tokens after a step.                         *)
LEMMA SameTokens ==
    ASSUME text' = text
    PROVE  \A tok : IsRefToken(tok)' <=> IsRefToken(tok)
  <1>1. \A k : At(k)' = At(k)
    BY DEF At
  <1>2. \A k : HexPrefix(k)' <=> HexPrefix(k)
    BY DEF HexPrefix, At
  <1>3. \A k, j : Spells(k, j)' <=> Spells(k, j)
    BY <1>2 DEF Spells
  <1>4. \A k, j : RefToken(k, j)' = RefToken(k, j)
    BY <1>2 DEF RefToken, RefLiteral
  <1> QED
    BY <1>3, <1>4 DEF IsRefToken

-----------------------------------------------------------------------------
(* The classes of characters, and what a token of each class is.           *)

LEMMA TextType ==
    ASSUME text \in Texts
    PROVE  /\ text \in Seq(STRING \ {"eof"})
           /\ Len(text) \in Nat /\ DOMAIN text = 1 .. Len(text)
           /\ \A i \in 1 .. Len(text) : text[i] # "eof" /\ At(i) = text[i]
           /\ At(Len(text) + 1) = "eof"
  <1>1. text \in Seq(STRING \ {"eof"})
    BY LexerAssumption
  <1> QED
    BY <1>1 DEF At

LEMMA DigitValueType ==
    /\ \A c \in HexDigits : DigitValue(c) \in 0 .. 15
    /\ \A c \in HexChars : ~IsSeparator(c) => DigitValue(c) \in 0 .. 15
    /\ DecimalChars \subseteq HexChars
  <1>1. \A c \in HexDigits : \E v \in 1 .. 16 : DigitRow[v] = c
    <2>1. \A c \in HexDigits :
             \/ c = DigitRow[1] \/ c = DigitRow[2] \/ c = DigitRow[3] \/ c = DigitRow[4]
             \/ c = DigitRow[5] \/ c = DigitRow[6] \/ c = DigitRow[7] \/ c = DigitRow[8]
             \/ c = DigitRow[9] \/ c = DigitRow[10] \/ c = DigitRow[11] \/ c = DigitRow[12]
             \/ c = DigitRow[13] \/ c = DigitRow[14] \/ c = DigitRow[15] \/ c = DigitRow[16]
      BY DEF HexDigits, DigitRow
    <2> QED
      BY <2>1
  <1>2. ASSUME NEW c \in HexDigits
        PROVE  DigitValue(c) \in 0 .. 15
    <2> DEFINE place == CHOOSE v \in 1 .. 16 : DigitRow[v] = c
    <2>1. place \in 1 .. 16
      BY <1>1
    <2>2. DigitValue(c) = place - 1
      BY DEF DigitValue
    <2> QED
      BY <2>1, <2>2
  <1> QED
    BY <1>2 DEF DecimalDigits, HexDigits, DecimalChars, HexChars, IsSeparator

LEMMA IdentifierToken ==
    ASSUME NEW k, text[k] \in IdentifierStart
    PROVE  \A j : /\ Spells(k, j) <=> \A i \in k .. j : text[i] \in IdentifierChars
                  /\ RefToken(k, j) = Token(Named(SubSeq(text, k, j)), SubSeq(text, k, j), k, j)
  <1>1. ~HexPrefix(k)
    BY LexerAssumption DEF HexPrefix, At, DecimalDigits, IdentifierStart
  <1>2. text[k] \notin DecimalDigits /\ text[k] \notin Punctuation
    BY LexerAssumption DEF DecimalDigits, Punctuation, Operators, IdentifierStart
  <1> QED
    BY <1>1, <1>2 DEF Spells, RefToken

LEMMA HexToken ==
    ASSUME NEW k \in DOMAIN text, HexPrefix(k)
    PROVE  \A j : /\ Spells(k, j) <=> j > k /\ \A i \in k + 2 .. j : text[i] \in HexChars
                  /\ RefToken(k, j) = RefLiteral(k, j, k + 2, 16)
  <1>1. text[k] = "0"
    BY DEF HexPrefix, At
  <1>2. text[k] \notin IdentifierStart /\ text[k] \notin Punctuation
    BY <1>1, LexerAssumption DEF DecimalDigits, Punctuation, Operators, IdentifierStart
  <1> QED
    BY <1>2 DEF Spells, RefToken

LEMMA DecimalToken ==
    ASSUME NEW k, text[k] \in DecimalDigits, ~HexPrefix(k)
    PROVE  \A j : /\ Spells(k, j) <=> \A i \in k .. j : text[i] \in DecimalChars
                  /\ RefToken(k, j) = RefLiteral(k, j, k, 10)
  <1>1. text[k] \notin IdentifierStart /\ text[k] \notin Punctuation
    BY LexerAssumption DEF DecimalDigits, Punctuation, Operators, IdentifierStart
  <1> QED
    BY <1>1 DEF Spells, RefToken

LEMMA SymbolToken ==
    ASSUME NEW k, text[k] \in Punctuation
    PROVE  \A j : /\ Spells(k, j) <=> j = k
                  /\ RefToken(k, j) = Token("symbol", text[k], k, j)
  <1>1. ~HexPrefix(k) /\ text[k] \notin DecimalDigits /\ text[k] # "_"
    BY DEF HexPrefix, At, DecimalDigits, Punctuation, Operators, IdentifierStart
  <1>2. text[k] \notin IdentifierStart
    BY <1>1, LexerAssumption DEF IdentifierStart
  <1> QED
    BY <1>1, <1>2 DEF Spells, RefToken

LEMMA OtherToken ==
    ASSUME NEW k, text[k] \notin IdentifierStart \cup DecimalDigits \cup Punctuation,
           ~HexPrefix(k)
    PROVE  \A j : /\ Spells(k, j) <=> j = k
                  /\ RefToken(k, j) = Token("error", "unexpected", k, j)
  BY DEF Spells, RefToken

-----------------------------------------------------------------------------
(* Functions that are defined from their value at the number before.       *)

(* Induction, as a fact about sets: a set of naturals has a least member.  *)
LEMMA LeastMember ==
    ASSUME NEW T \in SUBSET Nat, T # {}
    PROVE  \E m \in T : \A k \in T : m <= k
  <1>1. PICK m \in T : \A k \in T : ~(<<k, m>> \in OpToRel(<, Nat))
    BY NatLessThanWellFounded, WFMin
  <1>2. \A k \in T : ~(k < m)
    BY <1>1 DEF OpToRel
  <1> QED
    BY <1>2

(* What holds of 0 and passes from each number to the next holds of all.   *)
LEMMA Upwards ==
    ASSUME NEW n \in Nat, NEW H, 0 \in H, \A k \in 1 .. n : k - 1 \in H => k \in H
    PROVE  0 .. n \subseteq H
  <1> DEFINE T == {k \in 0 .. n : k \notin H}
  <1> SUFFICES ASSUME T # {} PROVE FALSE
    OBVIOUS
  <1>1. PICK m \in T : \A k \in T : m <= k
    <2>1. T \in SUBSET Nat
      OBVIOUS
    <2> HIDE DEF T
    <2> QED
      BY <2>1, LeastMember
  <1>2. m \in 1 .. n /\ m - 1 \in 0 .. n /\ m - 1 \notin T
    BY <1>1
  <1> QED
    BY <1>1, <1>2

(* A chain in D starts at b and goes from each link to the next by F.      *)
IsChain(D, b, F, m, g) ==
    g \in [0 .. m -> D] /\ g[0] = b /\ \A k \in 1 .. m : g[k] = F[<<k, g[k - 1]>>]

LEMMA ChainExists ==
    ASSUME NEW D, NEW b \in D, NEW n \in Nat, NEW F \in [(1 .. n) \X D -> D]
    PROVE  \E g : IsChain(D, b, F, n, g)
  <1> DEFINE H == {m \in 0 .. n : \E g : IsChain(D, b, F, m, g)}
  <1>1. 0 \in H
    <2>1. IsChain(D, b, F, 0, [k \in 0 .. 0 |-> b])
      BY DEF IsChain
    <2> QED
      BY <2>1
  <1>2. ASSUME NEW m \in 1 .. n, m - 1 \in H
        PROVE  m \in H
    <2>1. PICK g : IsChain(D, b, F, m - 1, g)
      BY <1>2
    <2>2. m \in Nat /\ m > 0 /\ m - 1 \in 0 .. m - 1 /\ g \in [0 .. m - 1 -> D]
      BY <2>1 DEF IsChain
    <2>3. g[m - 1] \in D
      BY <2>2
    <2> DEFINE next == F[<<m, g[m - 1]>>]
               h == [k \in 0 .. m |-> IF k < m THEN g[k] ELSE next]
    <2>4. next \in D
      BY <2>3
    <2> HIDE DEF next
    <2>5. h \in [0 .. m -> D] /\ h[0] = b
      BY <2>1, <2>2, <2>4 DEF IsChain
    <2>6. ASSUME NEW k \in 1 .. m
          PROVE  h[k] = F[<<k, h[k - 1]>>]
      <3>1. CASE k < m
        <4>1. k \in 1 .. m - 1 /\ h[k] = g[k] /\ h[k - 1] = g[k - 1]
          BY <2>2, <3>1
        <4> HIDE DEF h
        <4> QED
          BY <2>1, <4>1 DEF IsChain
      <3>2. CASE k = m
        <4>1. h[m] = next /\ h[m - 1] = g[m - 1]
          BY <2>2
        <4> HIDE DEF h
        <4> QED
          BY <3>2, <4>1 DEF next
      <3> QED
        BY <2>2, <3>1, <3>2
    <2> HIDE DEF h
    <2>7. IsChain(D, b, F, m, h)
      BY <2>5, <2>6 DEF IsChain
    <2> QED
      BY <2>7
  <1> HIDE DEF H
  <1>3. 0 .. n \subseteq H
    BY <1>1, <1>2, Upwards
  <1>4. n \in H
    BY <1>3
  <1> QED
    BY <1>4 DEF H

-----------------------------------------------------------------------------
(* Numerals.                                                               *)

(* The characters of a numeral, up to its last.                            *)
IsNumeral(s, from, j) ==
    /\ from <= j + 1
    /\ \A i \in from .. j : s[i] \in HexChars

(* The weights of the places of s[from] .. s[j] and the sums over them,    *)
(* n characters from the right.                                            *)
AreWeights(s, from, j, base, weight) ==
    /\ weight \in [0 .. j + 1 - from -> Nat] /\ weight[0] = 1
    /\ \A n \in 1 .. j + 1 - from :
          weight[n] = IF IsSeparator(s[j + 1 - n]) THEN weight[n - 1] ELSE base * weight[n - 1]

AreSums(s, from, j, weight, sum) ==
    /\ sum \in [0 .. j + 1 - from -> Nat] /\ sum[0] = 0
    /\ \A n \in 1 .. j + 1 - from :
          sum[n] = IF IsSeparator(s[j + 1 - n]) THEN sum[n - 1]
                   ELSE sum[n - 1] + DigitValue(s[j + 1 - n]) * weight[n - 1]

LEMMA NumeralPlaces ==
    ASSUME NEW s, NEW from \in Nat, NEW j \in Nat, NEW base \in Nat, IsNumeral(s, from, j)
    PROVE  \E weight, sum : /\ AreWeights(s, from, j, base, weight)
                            /\ AreSums(s, from, j, weight, sum)
                            /\ Numeral(s, from, j, base) = sum[j + 1 - from]
  <1> DEFINE L == j + 1 - from
             Weights(g) == [n \in 0 .. L |->
                 IF n = 0 THEN 1
                 ELSE IF IsSeparator(s[j + 1 - n]) THEN g[n - 1] ELSE base * g[n - 1]]
             weight == CHOOSE g : g = Weights(g)
             Sums(g) == [n \in 0 .. L |->
                 IF n = 0 THEN 0
                 ELSE IF IsSeparator(s[j + 1 - n]) THEN g[n - 1]
                 ELSE g[n - 1] + DigitValue(s[j + 1 - n]) * weight[n - 1]]
             sum == CHOOSE g : g = Sums(g)
  <1>1. Numeral(s, from, j, base) = sum[L]
    BY Zenon DEF Numeral
  <1>2. L \in Nat /\ \A n \in 1 .. L : j + 1 - n \in from .. j
    BY DEF IsNumeral
  <1> HIDE DEF L
  <1>3. weight = Weights(weight) /\ weight \in [0 .. L -> Nat]
    <2> DEFINE F == [p \in (1 .. L) \X Nat |-> IF IsSeparator(s[j + 1 - p[1]]) THEN p[2] ELSE base * p[2]]
    <2>1. F \in [(1 .. L) \X Nat -> Nat]
      OBVIOUS
    <2>2. PICK g : IsChain(Nat, 1, F, L, g)
      <3> HIDE DEF F
      <3> QED
        BY <1>2, <2>1, ChainExists
    <2>3. \A n \in 1 .. L : <<n, g[n - 1]>> \in (1 .. L) \X Nat
      BY <1>2, <2>2 DEF IsChain
    <2>4. \A n \in 1 .. L : g[n] = IF IsSeparator(s[j + 1 - n]) THEN g[n - 1] ELSE base * g[n - 1]
      BY <2>2, <2>3 DEF IsChain
    <2>5. g = Weights(g)
      BY <1>2, <2>2, <2>4 DEF IsChain
    <2> HIDE DEF Weights
    <2>6. weight = Weights(weight)
      BY <2>5
    <2> HIDE DEF weight
    <2> USE DEF Weights
    <2>7. /\ weight[0] = 1
          /\ \A n \in 1 .. L :
                weight[n] = IF IsSeparator(s[j + 1 - n]) THEN weight[n - 1] ELSE base * weight[n - 1]
      BY <1>2, <2>6
    <2> DEFINE H == {n \in 0 .. L : weight[n] \in Nat}
    <2>8. \A n \in 1 .. L : n - 1 \in H => n \in H
      BY <1>2, <2>7
    <2>9. 0 \in H
      BY <1>2, <2>7
    <2> HIDE DEF Weights
    <2>10. 0 .. L \subseteq H
      <3> HIDE DEF H
      <3> QED
        BY <1>2, <2>8, <2>9, Upwards
    <2> QED
      BY <2>6, <2>10 DEF Weights
  <1>4. \A n \in 1 .. L : ~IsSeparator(s[j + 1 - n]) => DigitValue(s[j + 1 - n]) \in Nat
    BY <1>2, DigitValueType DEF IsNumeral
  <1> HIDE DEF weight, Weights
  <1>5. \A n \in 1 .. L : weight[n - 1] \in Nat
    BY <1>2, <1>3
  <1>6. sum = Sums(sum) /\ sum \in [0 .. L -> Nat]
    <2> DEFINE F == [p \in (1 .. L) \X Nat |->
                   IF IsSeparator(s[j + 1 - p[1]]) THEN p[2]
                   ELSE p[2] + DigitValue(s[j + 1 - p[1]]) * weight[p[1] - 1]]
    <2>1. F \in [(1 .. L) \X Nat -> Nat]
      <3>1. \A n \in 1 .. L, v \in Nat :
               ~IsSeparator(s[j + 1 - n]) => v + DigitValue(s[j + 1 - n]) * weight[n - 1] \in Nat
        BY <1>4, <1>5
      <3> QED
        BY <3>1
    <2>2. PICK g : IsChain(Nat, 0, F, L, g)
      <3> HIDE DEF F
      <3> QED
        BY <1>2, <2>1, ChainExists
    <2>3. \A n \in 1 .. L : <<n, g[n - 1]>> \in (1 .. L) \X Nat
      BY <1>2, <2>2 DEF IsChain
    <2>4. \A n \in 1 .. L : g[n] = IF IsSeparator(s[j + 1 - n]) THEN g[n - 1]
                                  ELSE g[n - 1] + DigitValue(s[j + 1 - n]) * weight[n - 1]
      BY <2>2, <2>3 DEF IsChain
    <2>5. g = Sums(g)
      BY <1>2, <2>2, <2>4 DEF IsChain
    <2> HIDE DEF Sums
    <2>6. sum = Sums(sum)
      BY <2>5
    <2> HIDE DEF sum
    <2>7. /\ sum[0] = 0
          /\ \A n \in 1 .. L : sum[n] = IF IsSeparator(s[j + 1 - n]) THEN sum[n - 1]
                                        ELSE sum[n - 1] + DigitValue(s[j + 1 - n]) * weight[n - 1]
      BY <1>2, <2>6 DEF Sums
    <2> DEFINE H == {n \in 0 .. L : sum[n] \in Nat}
    <2>8. \A n \in 1 .. L : n - 1 \in H => n \in H
      BY <1>2, <1>4, <1>5, <2>7
    <2>9. 0 \in H
      BY <1>2, <2>7
    <2>10. 0 .. L \subseteq H
      <3> HIDE DEF H
      <3> QED
        BY <1>2, <2>8, <2>9, Upwards
    <2> QED
      BY <2>6, <2>10 DEF Sums
  <1> HIDE DEF sum, Sums
  <1>7. AreWeights(s, from, j, base, weight)
    BY <1>2, <1>3 DEF AreWeights, L, Weights
  <1>8. AreSums(s, from, j, weight, sum)
    BY <1>2, <1>6 DEF AreSums, L, Sums
  <1> QED
    BY <1>1, <1>7, <1>8 DEF L

(* No digits are worth nothing; a numeral is a natural number.             *)
LEMMA NumeralOfNone ==
    ASSUME NEW s, NEW from \in Nat, NEW j \in Nat, NEW base \in Nat, from = j + 1
    PROVE  Numeral(s, from, j, base) = 0
  <1>1. IsNumeral(s, from, j)
    BY DEF IsNumeral
  <1>2. PICK weight, sum : /\ AreWeights(s, from, j, base, weight)
                           /\ AreSums(s, from, j, weight, sum)
                           /\ Numeral(s, from, j, base) = sum[j + 1 - from]
    BY <1>1, NumeralPlaces
  <1>3. j + 1 - from = 0
    OBVIOUS
  <1> QED
    BY <1>2, <1>3 DEF AreSums

LEMMA NumeralType ==
    ASSUME NEW s, NEW from \in Nat, NEW j \in Nat, NEW base \in Nat, IsNumeral(s, from, j)
    PROVE  Numeral(s, from, j, base) \in Nat
  <1>1. PICK weight, sum : /\ AreWeights(s, from, j, base, weight)
                           /\ AreSums(s, from, j, weight, sum)
                           /\ Numeral(s, from, j, base) = sum[j + 1 - from]
    BY NumeralPlaces
  <1>2. j + 1 - from \in 0 .. j + 1 - from
    BY DEF IsNumeral
  <1> QED
    BY <1>1, <1>2 DEF AreSums

(* One more character to the right moves every digit one place up.         *)
LEMMA NumeralStep ==
    ASSUME NEW s, NEW from \in Nat, NEW j \in Nat, NEW base \in Nat,
           IsNumeral(s, from, j), s[j + 1] \in HexChars
    PROVE  /\ IsNumeral(s, from, j + 1)
           /\ Numeral(s, from, j + 1, base) =
                 IF IsSeparator(s[j + 1]) THEN Numeral(s, from, j, base)
                 ELSE Numeral(s, from, j, base) * base + DigitValue(s[j + 1])
  <1> DEFINE L == j + 1 - from
             blank == IsSeparator(s[j + 1])
             d == DigitValue(s[j + 1])
  <1>1. IsNumeral(s, from, j + 1)
    <2>1. \A i \in from .. j + 1 : i \in from .. j \/ i = j + 1
      OBVIOUS
    <2> QED
      BY <2>1 DEF IsNumeral
  <1>2. PICK w, u : AreWeights(s, from, j, base, w) /\ AreSums(s, from, j, w, u)
                    /\ Numeral(s, from, j, base) = u[L]
    BY NumeralPlaces
  <1>3. PICK w1, u1 : AreWeights(s, from, j + 1, base, w1) /\ AreSums(s, from, j + 1, w1, u1)
                      /\ Numeral(s, from, j + 1, base) = u1[j + 1 + 1 - from]
    <2>1. j + 1 \in Nat
      OBVIOUS
    <2> QED
      BY <1>1, <2>1, NumeralPlaces
  <1>4. /\ L \in Nat /\ j + 1 + 1 - from = L + 1
        /\ \A n \in 1 .. L : /\ j + 1 - n \in from .. j
                             /\ n + 1 \in 1 .. L + 1 /\ n \in 1 .. L + 1
                             /\ j + 1 + 1 - (n + 1) = j + 1 - n
        /\ 1 \in 1 .. L + 1 /\ j + 1 + 1 - 1 = j + 1
    BY DEF IsNumeral
  <1>5. ~blank => d \in Nat
    BY DigitValueType
  <1>6. \A n \in 1 .. L : ~IsSeparator(s[j + 1 - n]) => DigitValue(s[j + 1 - n]) \in Nat
    BY <1>4, DigitValueType DEF IsNumeral
  <1>7. /\ w \in [0 .. L -> Nat] /\ w[0] = 1
        /\ \A n \in 1 .. L : w[n] = IF IsSeparator(s[j + 1 - n]) THEN w[n - 1] ELSE base * w[n - 1]
        /\ u \in [0 .. L -> Nat] /\ u[0] = 0
        /\ \A n \in 1 .. L : u[n] = IF IsSeparator(s[j + 1 - n]) THEN u[n - 1]
                                    ELSE u[n - 1] + DigitValue(s[j + 1 - n]) * w[n - 1]
    BY <1>2 DEF AreWeights, AreSums
  <1>8. /\ w1 \in [0 .. L + 1 -> Nat] /\ w1[0] = 1
        /\ \A n \in 1 .. L + 1 :
              w1[n] = IF IsSeparator(s[j + 1 + 1 - n]) THEN w1[n - 1] ELSE base * w1[n - 1]
        /\ u1 \in [0 .. L + 1 -> Nat] /\ u1[0] = 0
        /\ \A n \in 1 .. L + 1 :
              u1[n] = IF IsSeparator(s[j + 1 + 1 - n]) THEN u1[n - 1]
                      ELSE u1[n - 1] + DigitValue(s[j + 1 + 1 - n]) * w1[n - 1]
    BY <1>3, <1>4 DEF AreWeights, AreSums
  <1> HIDE DEF L, d, blank
  <1>9. /\ w1[1] = IF blank THEN w1[0] ELSE base * w1[0]
        /\ u1[1] = IF blank THEN u1[0] ELSE u1[0] + d * w1[0]
    <2>1. 1 - 1 = 0
      OBVIOUS
    <2> QED
      BY <1>4, <1>8, <2>1 DEF blank, d
  <1>10. \A n \in 1 .. L :
            /\ w1[n + 1] = IF IsSeparator(s[j + 1 - n]) THEN w1[n] ELSE base * w1[n]
            /\ u1[n + 1] = IF IsSeparator(s[j + 1 - n]) THEN u1[n]
                           ELSE u1[n] + DigitValue(s[j + 1 - n]) * w1[n]
    <2>1. \A n \in 1 .. L : n + 1 - 1 = n
      OBVIOUS
    <2> QED
      BY <1>4, <1>8, <2>1
  <1> DEFINE scaled(v) == IF blank THEN v ELSE base * v
             Moved(n) == w1[n + 1] = scaled(w[n]) /\ u1[n + 1] = scaled(u[n]) + (IF blank THEN 0 ELSE d)
             H == {n \in 0 .. L : Moved(n)}
  <1>11. 0 \in H
    <2>1. 0 + 1 = 1 /\ base * 1 = base /\ base * 0 = 0 /\ 0 \in 0 .. L
      BY <1>4
    <2> QED
      BY <1>5, <1>7, <1>8, <1>9, <2>1
  <1>12. ASSUME NEW n \in 1 .. L, n - 1 \in H
         PROVE  n \in H
    <2>1. n - 1 + 1 = n /\ n \in 0 .. L /\ n - 1 \in 0 .. L
      BY <1>4
    <2>2. w1[n] = scaled(w[n - 1]) /\ u1[n] = scaled(u[n - 1]) + (IF blank THEN 0 ELSE d)
      BY <1>12, <2>1
    <2>3. w[n - 1] \in Nat /\ u[n - 1] \in Nat
      BY <1>7, <2>1
    <2>4. CASE IsSeparator(s[j + 1 - n])
      BY <1>7, <1>10, <2>1, <2>2, <2>4
    <2>5. CASE ~IsSeparator(s[j + 1 - n])
      <3> DEFINE e == DigitValue(s[j + 1 - n])
      <3>1. e \in Nat
        BY <1>6, <2>5
      <3>2. w[n] = base * w[n - 1] /\ u[n] = u[n - 1] + e * w[n - 1]
        BY <1>7, <2>5
      <3>3. w1[n + 1] = base * w1[n] /\ u1[n + 1] = u1[n] + e * w1[n]
        BY <1>10, <2>5
      <3> HIDE DEF e
      <3>4. CASE blank
        BY <2>1, <2>2, <2>3, <3>1, <3>2, <3>3, <3>4
      <3>5. CASE ~blank
        <4>1. \A a, b, c, k \in Nat : /\ c * (a + b * k) = c * a + b * (c * k)
          OBVIOUS
        <4>2. base * (u[n - 1] + e * w[n - 1]) = base * u[n - 1] + e * (base * w[n - 1])
          BY <2>3, <3>1, <4>1
        <4>3. w1[n] = base * w[n - 1] /\ u1[n] = base * u[n - 1] + d
          BY <2>2, <3>5
        <4>4. u1[n + 1] = base * u[n] + d
          <5> DEFINE x == base * u[n - 1]
                     y == e * (base * w[n - 1])
          <5>1. x \in Nat /\ y \in Nat
            BY <2>3, <3>1
          <5>2. u1[n + 1] = (x + d) + y /\ base * u[n] = x + y
            BY <3>2, <3>3, <4>2, <4>3
          <5> HIDE DEF x, y
          <5> QED
            BY <1>5, <3>5, <5>1, <5>2
        <4>5. w1[n + 1] = base * w[n]
          BY <3>2, <3>3, <4>3
        <4> QED
          BY <2>1, <3>5, <4>4, <4>5
      <3> QED
        BY <3>4, <3>5
    <2> QED
      BY <2>4, <2>5
  <1> HIDE DEF H
  <1>13. 0 .. L \subseteq H
    BY <1>4, <1>11, <1>12, Upwards
  <1>14. L \in H
    BY <1>4, <1>13
  <1>15. u1[L + 1] = scaled(u[L]) + (IF blank THEN 0 ELSE d)
    BY <1>14 DEF H
  <1>16. u[L] \in Nat
    BY <1>4, <1>7
  <1>17. u1[L + 1] = IF blank THEN u[L] ELSE u[L] * base + d
    BY <1>15, <1>16
  <1> QED
    BY <1>1, <1>2, <1>3, <1>4, <1>17 DEF blank, d

-----------------------------------------------------------------------------
(* Sequences of tokens.                                                    *)

LEMMA Appended ==
    ASSUME NEW s, IsSequence(s), NEW e
    PROVE  LET a == Append(s, e)
           IN  /\ IsSequence(a)
               /\ Len(s) \in Nat /\ Len(a) = Len(s) + 1
               /\ DOMAIN s = 1 .. Len(s) /\ DOMAIN a = 1 .. Len(s) + 1
               /\ \A i \in 1 .. Len(s) : a[i] = s[i]
               /\ a[Len(s) + 1] = e
  <1> DEFINE R == {s[i] : i \in DOMAIN s}
             a == Append(s, e)
  <1>1. s \in Seq(R) /\ s \in Seq(R \cup {e})
    <2>1. s \in Seq(R)
      BY DEF IsSequence
    <2> HIDE DEF R
    <2> QED
      BY <2>1
  <1>2. e \in R \cup {e}
    OBVIOUS
  <1> HIDE DEF R
  <1>3. /\ Len(s) \in Nat /\ Len(a) = Len(s) + 1
        /\ DOMAIN s = 1 .. Len(s) /\ DOMAIN a = 1 .. Len(s) + 1
        /\ \A i \in 1 .. Len(s) : a[i] = s[i]
        /\ a[Len(s) + 1] = e
    BY <1>1, <1>2
  <1>4. a \in Seq(R \cup {e})
    BY <1>1, <1>2
  <1> HIDE DEF a
  <1>5. a \in Seq({a[i] : i \in DOMAIN a})
    <2> DEFINE A == {a[i] : i \in DOMAIN a}
    <2>1. \A i \in 1 .. Len(a) : a[i] \in A
      BY <1>3
    <2> HIDE DEF A
    <2>2. a \in Seq(A)
      BY <1>4, <2>1
    <2> QED
      BY <2>2 DEF A
  <1> QED
    BY <1>3, <1>5 DEF IsSequence, a

(* Where token k begins and ends, the text's end counting as a token.      *)
LEMMA TokenisedParts ==
    ASSUME NEW end, IsSequence(tokens)
    PROVE  Tokenised(end) <=>
              /\ \A k \in 1 .. Len(tokens) : IsRefToken(tokens[k])
              /\ \A k \in 1 .. Len(tokens) + 1 :
                    LET last == IF k = 1 THEN 0 ELSE tokens[k - 1].last
                        first == IF k = Len(tokens) + 1 THEN end ELSE tokens[k].first
                    IN  last < first /\ \A i \in last + 1 .. first - 1 : IsBlank(text[i])
  <1>1. DOMAIN tokens = 1 .. Len(tokens) /\ Len(tokens) \in Nat
    BY DEF IsSequence
  <1>2. \A k \in 1 .. Len(tokens) + 1 : /\ k - 1 = 0 <=> k = 1
                                        /\ k \in DOMAIN tokens <=> k # Len(tokens) + 1
    BY <1>1
  <1> QED
    BY <1>1, <1>2 DEF Tokenised

LEMMA TokenBounds ==
    ASSUME NEW end, Tokenised(end)
    PROVE  \A k \in DOMAIN tokens : tokens[k].last \in Int /\ tokens[k].first \in Int
  <1>1. \A tok : IsRefToken(tok) => tok.last \in Int /\ tok.first \in Int
    BY DEF IsRefToken
  <1> QED
    BY <1>1 DEF Tokenised

(* Without a new token only the end moves on, over blanks.                 *)
LEMMA EndMoves ==
    ASSUME IsSequence(tokens), text' = text, tokens' = tokens,
           NEW end \in Nat, NEW next \in Nat, end <= next,
           \A i \in end .. next - 1 : IsBlank(text[i]),
           Tokenised(end)
    PROVE  Tokenised(next)'
  <1>1. DOMAIN tokens = 1 .. Len(tokens) /\ Len(tokens) \in Nat
    BY DEF IsSequence
  <1>2. \A k \in 1 .. Len(tokens) : tokens[k].last \in Int /\ tokens[k].first \in Int
    BY <1>1, TokenBounds
  <1>3. \A k \in DOMAIN tokens : IsRefToken(tokens[k])'
    BY SameTokens DEF Tokenised
  <1> DEFINE Last(k) == IF k = 0 THEN 0 ELSE tokens[k].last
             First(k, e) == IF k \in DOMAIN tokens THEN tokens[k].first ELSE e
  <1>4. ASSUME NEW k \in 1 .. Len(tokens) + 1
        PROVE  /\ Last(k - 1) < First(k, next)
               /\ \A i \in Last(k - 1) + 1 .. First(k, next) - 1 : IsBlank(text[i])
    <2>1. /\ Last(k - 1) < First(k, end)
          /\ \A i \in Last(k - 1) + 1 .. First(k, end) - 1 : IsBlank(text[i])
      BY DEF Tokenised
    <2>2. Last(k - 1) \in Int
      BY <1>1, <1>2
    <2>3. CASE k \in DOMAIN tokens
      BY <2>1, <2>3
    <2>4. CASE k \notin DOMAIN tokens
      <3>1. First(k, end) = end /\ First(k, next) = next
        BY <2>4
      <3> HIDE DEF Last, First
      <3>2. Last(k - 1) < next
        BY <2>1, <2>2, <3>1
      <3>3. \A i \in Last(k - 1) + 1 .. next - 1 :
               i \in Last(k - 1) + 1 .. end - 1 \/ i \in end .. next - 1
        BY <2>2
      <3> QED
        BY <2>1, <3>1, <3>2, <3>3
    <2> QED
      BY <2>3, <2>4
  <1> QED
    BY <1>3, <1>4 DEF Tokenised

(* A new token begins at the end and moves it behind itself.               *)
LEMMA TokenProduced ==
    ASSUME IsSequence(tokens), text' = text,
           NEW t, NEW v, NEW first \in Nat, NEW next \in Nat, first < next,
           tokens' = Append(tokens, Token(t, v, first, next - 1)),
           IsRefToken(Token(t, v, first, next - 1)),
           Tokenised(first)
    PROVE  Tokenised(next)'
  <1> DEFINE tok == Token(t, v, first, next - 1)
             n == Len(tokens)
  <1>1. /\ n \in Nat /\ DOMAIN tokens = 1 .. n
        /\ DOMAIN tokens' = 1 .. n + 1 /\ Len(tokens') = n + 1
        /\ \A k \in 1 .. n : tokens'[k] = tokens[k]
        /\ tokens'[n + 1] = tok
    <2> HIDE DEF tok
    <2>1. tokens' = Append(tokens, tok)
      BY DEF tok
    <2> QED
      BY <2>1, Appended
  <1>2. tok.first = first /\ tok.last = next - 1
    BY DEF Token
  <1> HIDE DEF tok, n
  <1>3. \A k \in 1 .. n : tokens[k].last \in Int /\ tokens[k].first \in Int
    BY <1>1, TokenBounds
  <1>4. ASSUME NEW k \in 1 .. n + 1
        PROVE  IsRefToken(tokens[k])'
    <2>1. CASE k = n + 1
      <3>1. IsRefToken(tok)'
        BY SameTokens DEF tok
      <3> QED
        BY <1>1, <2>1, <3>1
    <2>2. CASE k # n + 1
      <3>1. k \in 1 .. n
        BY <1>1, <2>2
      <3>2. IsRefToken(tokens[k])
        BY <1>1, <3>1 DEF Tokenised
      <3>3. \A x : IsRefToken(x) => IsRefToken(x)'
        BY SameTokens
      <3> DEFINE x == tokens[k]
      <3>4. IsRefToken(x)' /\ tokens'[k] = tokens[k]
        BY <1>1, <3>1, <3>2, <3>3
      <3> QED
        BY <1>1, <3>1, <3>2, <3>3
    <2> QED
      BY <2>1, <2>2
  <1> DEFINE Last(s, k) == IF k = 0 THEN 0 ELSE s[k].last
             First(s, k, e) == IF k \in DOMAIN s THEN s[k].first ELSE e
  <1>5. ASSUME NEW k \in 1 .. n + 2
        PROVE  /\ Last(tokens', k - 1) < First(tokens', k, next)
               /\ \A i \in Last(tokens', k - 1) + 1 .. First(tokens', k, next) - 1 : IsBlank(text[i])
    <2>1. CASE k = n + 2
      <3>1. k - 1 = n + 1 /\ k \notin DOMAIN tokens' /\ n + 1 # 0
        BY <1>1, <2>1
      <3>2. Last(tokens', k - 1) = next - 1 /\ First(tokens', k, next) = next
        BY <1>1, <1>2, <3>1
      <3> HIDE DEF Last, First
      <3> QED
        BY <3>2
    <2>2. CASE k # n + 2
      <3>1. k \in 1 .. n + 1 /\ k - 1 \in 0 .. n
        BY <1>1, <2>2
      <3>2. Last(tokens', k - 1) = Last(tokens, k - 1)
        <4>1. k - 1 # 0 => k - 1 \in 1 .. n
          BY <3>1
        <4> QED
          BY <1>1, <4>1
      <3>3. First(tokens', k, next) = First(tokens, k, first)
        <4>1. CASE k = n + 1
          BY <1>1, <1>2, <3>1, <4>1
        <4>2. CASE k # n + 1
          BY <1>1, <3>1, <4>2
        <4> QED
          BY <4>1, <4>2
      <3>4. /\ Last(tokens, k - 1) < First(tokens, k, first)
            /\ \A i \in Last(tokens, k - 1) + 1 .. First(tokens, k, first) - 1 : IsBlank(text[i])
        BY <1>1, <3>1 DEF Tokenised, n
      <3> HIDE DEF Last, First
      <3> QED
        BY <3>2, <3>3, <3>4
    <2> QED
      BY <2>1, <2>2
  <1>6. n + 1 + 1 = n + 2
    BY <1>1
  <1> QED
    BY <1>1, <1>4, <1>5, <1>6 DEF Tokenised

-----------------------------------------------------------------------------
(* A token that ends where its run of characters does is the right one.    *)

LEMMA HexPrefixInside ==
    ASSUME text \in Texts, NEW k \in 1 .. Len(text), HexPrefix(k)
    PROVE  k + 1 \in 1 .. Len(text)
  <1>1. k + 1 \in DOMAIN text
    BY DEF HexPrefix, At
  <1> QED
    BY <1>1, TextType

LEMMA StartsNoBlank ==
    ASSUME text \in Texts, NEW k \in 1 .. Len(text),
           text[k] \in IdentifierStart \/ HexPrefix(k) \/ text[k] \in DecimalDigits
           \/ text[k] \in Punctuation
    PROVE  ~IsBlank(text[k])
  <1>1. At(k) = text[k]
    BY TextType
  <1> QED
    BY <1>1, LexerAssumption
    DEF IdentifierStart, HexPrefix, DecimalDigits, Punctuation, Operators, IsBlank

(* The character under the cursor ends the run of the characters in C.     *)
LEMMA RunEnds ==
    ASSUME text \in Texts, NEW k \in Nat, NEW c \in 1 .. Len(text) + 1, NEW C,
           At(c) \notin C, k <= c, NEW j \in c .. Len(text)
    PROVE  ~\A i \in k .. j : text[i] \in C
  <1>1. Len(text) \in Nat
    BY TextType
  <1>2. c \in 1 .. Len(text) /\ c \in k .. j
    BY <1>1
  <1>3. At(c) = text[c]
    BY <1>2, TextType
  <1> QED
    BY <1>2, <1>3

LEMMA WholeIdentifier ==
    ASSUME text \in Texts, NEW k \in 1 .. Len(text), NEW c \in 1 .. Len(text) + 1, k < c,
           text[k] \in IdentifierStart,
           \A i \in k .. c - 1 : text[i] \in IdentifierChars,
           At(c) \notin IdentifierChars
    PROVE  LET name == SubSeq(text, k, c - 1)
           IN  IsRefToken(Token(Named(name), name, k, c - 1))
  <1> DEFINE name == SubSeq(text, k, c - 1)
             tok == Token(Named(name), name, k, c - 1)
  <1>1. Len(text) \in Nat /\ k \in Nat /\ c - 1 \in k .. Len(text) /\ c - 1 + 1 = c /\ k <= c
    BY TextType
  <1>2. tok.first = k /\ tok.last = c - 1
    BY DEF Token
  <1>3. ~IsBlank(text[k])
    BY StartsNoBlank
  <1>4. Spells(k, c - 1) /\ RefToken(k, c - 1) = tok
    BY IdentifierToken
  <1>5. \A j \in c .. Len(text) : ~Spells(k, j)
    BY <1>1, IdentifierToken, RunEnds
  <1> HIDE DEF tok
  <1>6. IsRefToken(tok)
    BY <1>1, <1>2, <1>3, <1>4, <1>5 DEF IsRefToken
  <1> QED
    BY <1>6 DEF tok

(* A literal, whose digits begin at `from`.                                *)
LEMMA WholeHex ==
    ASSUME text \in Texts, NEW k \in 1 .. Len(text), NEW c \in 1 .. Len(text) + 1, k + 2 <= c,
           HexPrefix(k), \A i \in k + 2 .. c - 1 : text[i] \in HexChars,
           At(c) \notin HexChars,
           NEW tok, tok = RefLiteral(k, c - 1, k + 2, 16)
    PROVE  IsRefToken(tok)
  <1>1. Len(text) \in Nat /\ k + 2 \in Nat /\ c - 1 \in k .. Len(text) /\ c - 1 + 1 = c /\ c - 1 > k
    BY TextType
  <1>2. tok.first = k /\ tok.last = c - 1
    BY DEF RefLiteral, Token
  <1>3. ~IsBlank(text[k])
    BY StartsNoBlank
  <1>4. k \in DOMAIN text
    BY TextType
  <1>5. Spells(k, c - 1) /\ RefToken(k, c - 1) = tok
    BY <1>1, <1>4, HexToken
  <1>6. \A j \in c .. Len(text) : ~Spells(k, j)
    BY <1>1, <1>4, HexToken, RunEnds
  <1> QED
    BY <1>1, <1>2, <1>3, <1>5, <1>6 DEF IsRefToken

LEMMA WholeDecimal ==
    ASSUME text \in Texts, NEW k \in 1 .. Len(text), NEW c \in 1 .. Len(text) + 1, k < c,
           text[k] \in DecimalDigits, ~HexPrefix(k),
           \A i \in k .. c - 1 : text[i] \in DecimalChars,
           At(c) \notin DecimalChars,
           NEW tok, tok = RefLiteral(k, c - 1, k, 10)
    PROVE  IsRefToken(tok)
  <1>1. Len(text) \in Nat /\ k \in Nat /\ c - 1 \in k .. Len(text) /\ c - 1 + 1 = c /\ k <= c
    BY TextType
  <1>2. tok.first = k /\ tok.last = c - 1
    BY DEF RefLiteral, Token
  <1>3. ~IsBlank(text[k])
    BY StartsNoBlank
  <1>4. Spells(k, c - 1) /\ RefToken(k, c - 1) = tok
    BY DecimalToken
  <1>5. \A j \in c .. Len(text) : ~Spells(k, j)
    BY <1>1, DecimalToken, RunEnds
  <1> QED
    BY <1>1, <1>2, <1>3, <1>4, <1>5 DEF IsRefToken

LEMMA WholeCharacter ==
    ASSUME text \in Texts, NEW k \in 1 .. Len(text), NEW tok,
           \/ text[k] \in Punctuation /\ tok = Token("symbol", text[k], k, k)
           \/ /\ text[k] \notin IdentifierStart \cup DecimalDigits \cup Punctuation
              /\ ~HexPrefix(k) /\ ~IsBlank(text[k]) /\ tok = Token("error", "unexpected", k, k)
    PROVE  IsRefToken(tok)
  <1>1. Len(text) \in Nat /\ k \in Nat /\ k \in k .. Len(text)
    BY TextType
  <1>2. tok.first = k /\ tok.last = k
    BY DEF Token
  <1>3. ~IsBlank(text[k])
    BY StartsNoBlank
  <1>4. \A j : Spells(k, j) <=> j = k
    BY SymbolToken, OtherToken
  <1>5. RefToken(k, k) = tok
    BY SymbolToken, OtherToken
  <1>6. \A j \in k + 1 .. Len(text) : ~Spells(k, j)
    BY <1>1, <1>4
  <1> QED
    BY <1>1, <1>2, <1>3, <1>4, <1>5, <1>6 DEF IsRefToken

-----------------------------------------------------------------------------
(* The actions.                                                            *)

LEMMA LexerStart ==
    ASSUME LexerInit
    PROVE  LexerInv
  <1>1. text \in Texts /\ cursor = 1 /\ mode = "scan" /\ value = 0 /\ tokens = <<>>
    BY DEF LexerInit
  <1>2. IsSequence(tokens) /\ Len(tokens) = 0 /\ DOMAIN tokens = {}
    BY <1>1 DEF IsSequence
  <1>3. Tokenised(cursor)
    BY <1>1, <1>2 DEF Tokenised
  <1>4. Len(text) \in Nat /\ WORD \in Nat /\ WORD > 15
    BY <1>1, TextType, LexerAssumption
  <1> QED
    BY <1>1, <1>2, <1>3, <1>4 DEF LexerInv, Modes

(* What next_token may find.                                               *)
LEMMA ScanCases ==
    ASSUME text \in Texts, cursor \in 1 .. Len(text) + 1, Scan
    PROVE  /\ mode = "scan" /\ text' = text /\ start' = cursor /\ value' = 0
           /\ \/ cursor = Len(text) + 1 /\ mode' = "done" /\ UNCHANGED <<cursor, tokens>>
              \/ /\ cursor \in 1 .. Len(text)
                 /\ \/ /\ IsBlank(text[cursor])
                       /\ mode' = "scan" /\ cursor' = cursor + 1 /\ tokens' = tokens
                    \/ /\ text[cursor] \in IdentifierStart
                       /\ mode' = "identifier" /\ UNCHANGED <<cursor, tokens>>
                    \/ /\ HexPrefix(cursor)
                       /\ mode' = "hex" /\ cursor' = cursor + 2 /\ tokens' = tokens
                    \/ /\ text[cursor] \in DecimalDigits /\ ~HexPrefix(cursor)
                       /\ mode' = "decimal" /\ UNCHANGED <<cursor, tokens>>
                    \/ /\ mode' = "scan" /\ cursor' = cursor + 1
                       /\ \E t, v : /\ tokens' = Append(tokens, Token(t, v, cursor, cursor + 1 - 1))
                                    /\ IsRefToken(Token(t, v, cursor, cursor + 1 - 1))
  <1>1. mode = "scan" /\ text' = text /\ start' = cursor /\ value' = 0
    BY DEF Scan
  <1>2. Len(text) \in Nat /\ cursor \in Nat /\ cursor + 1 - 1 = cursor
    BY TextType
  <1>3. CASE At(cursor) = "eof"
    <2>1. cursor = Len(text) + 1
      BY <1>2, <1>3, TextType
    <2>2. mode' = "done" /\ UNCHANGED <<cursor, tokens>>
      BY <1>3, LexerAssumption
      DEF Scan, IdentifierStart, HexPrefix, DecimalDigits, Punctuation, Operators
    <2> QED
      BY <1>1, <2>1, <2>2
  <1>4. CASE At(cursor) # "eof"
    <2>1. cursor \in 1 .. Len(text) /\ At(cursor) = text[cursor]
      BY <1>2, <1>4, TextType DEF At
    <2>2. CASE At(cursor) = " "
      <3>1. IsBlank(text[cursor])
        BY <2>1, <2>2 DEF IsBlank
      <3>2. mode' = "scan" /\ cursor' = cursor + 1 /\ tokens' = tokens
        BY <1>1, <2>2, LexerAssumption
        DEF Scan, IdentifierStart, HexPrefix, DecimalDigits, Punctuation, Operators
      <3> QED
        BY <1>1, <2>1, <3>1, <3>2
    <2>3. CASE At(cursor) \in IdentifierStart
      <3>1. mode' = "identifier" /\ UNCHANGED <<cursor, tokens>>
        BY <2>3, LexerAssumption
        DEF Scan, IdentifierStart, HexPrefix, DecimalDigits, Punctuation, Operators
      <3> QED
        BY <1>1, <2>1, <2>3, <3>1
    <2>4. CASE HexPrefix(cursor)
      <3>1. mode' = "hex" /\ cursor' = cursor + 2 /\ tokens' = tokens
        <4>1. At(cursor) = "0"
          BY <2>4 DEF HexPrefix
        <4>2. At(cursor) \notin IdentifierStart /\ At(cursor) \notin Punctuation
          BY <4>1, LexerAssumption DEF IdentifierStart, DecimalDigits, Punctuation, Operators
        <4> QED
          BY <2>4, <4>1, <4>2 DEF Scan
      <3> QED
        BY <1>1, <2>1, <2>4, <3>1
    <2>5. CASE At(cursor) \in DecimalDigits /\ ~HexPrefix(cursor)
      <3>1. mode' = "decimal" /\ UNCHANGED <<cursor, tokens>>
        <4>1. /\ At(cursor) \notin IdentifierStart /\ At(cursor) \notin Punctuation
              /\ At(cursor) # " " /\ At(cursor) # "eof"
          BY <2>5, LexerAssumption DEF IdentifierStart, DecimalDigits, Punctuation, Operators
        <4> QED
          BY <2>5, <4>1 DEF Scan
      <3> QED
        BY <1>1, <2>1, <2>5, <3>1
    <2>6. CASE At(cursor) \in Punctuation
      <3>1. Produce("symbol", At(cursor), cursor + 1)
        <4>1. /\ At(cursor) \notin IdentifierStart /\ At(cursor) \notin DecimalDigits
              /\ ~HexPrefix(cursor) /\ At(cursor) # " " /\ At(cursor) # "eof"
          BY <2>6, LexerAssumption
          DEF IdentifierStart, HexPrefix, DecimalDigits, Punctuation, Operators
        <4> QED
          BY <2>6, <4>1 DEF Scan
      <3>2. tokens' = Append(tokens, Token("symbol", text[cursor], cursor, cursor + 1 - 1))
        BY <1>1, <2>1, <3>1 DEF Produce
      <3>3. IsRefToken(Token("symbol", text[cursor], cursor, cursor + 1 - 1))
        BY <1>2, <2>1, <2>6, WholeCharacter
      <3>4. mode' = "scan" /\ cursor' = cursor + 1
        BY <3>1 DEF Produce
      <3> QED
        BY <1>1, <2>1, <3>2, <3>3, <3>4
    <2>7. CASE /\ At(cursor) \notin IdentifierStart \cup DecimalDigits \cup Punctuation
               /\ ~HexPrefix(cursor) /\ At(cursor) # " "
      <3>1. Produce("error", "unexpected", cursor + 1)
        BY <1>4, <2>7 DEF Scan
      <3>2. tokens' = Append(tokens, Token("error", "unexpected", cursor, cursor + 1 - 1))
        BY <1>1, <3>1 DEF Produce
      <3>3. IsRefToken(Token("error", "unexpected", cursor, cursor + 1 - 1))
        BY <1>2, <2>1, <2>7, WholeCharacter DEF IsBlank
      <3>4. mode' = "scan" /\ cursor' = cursor + 1
        BY <3>1 DEF Produce
      <3> QED
        BY <1>1, <2>1, <3>2, <3>3, <3>4
    <2> QED
      BY <2>2, <2>3, <2>4, <2>5, <2>6, <2>7
  <1> QED
    BY <1>3, <1>4

(* A token has been produced.                                              *)
LEMMA BackToScan ==
    ASSUME LexerInv, text' = text,
           NEW t, NEW v, NEW first \in Nat, NEW next \in 1 .. Len(text) + 1, first < next,
           tokens' = Append(tokens, Token(t, v, first, next - 1)),
           IsRefToken(Token(t, v, first, next - 1)), Tokenised(first),
           cursor' = next, mode' = "scan", value' \in 0 .. WORD - 1
    PROVE  LexerInv'
  <1>1. IsSequence(tokens) /\ text \in Texts
    BY DEF LexerInv
  <1>2. next \in Nat
    BY <1>1, TextType
  <1>3. Tokenised(next)'
    BY <1>1, <1>2, TokenProduced
  <1>4. Tokenised(cursor)'
    BY <1>3
  <1>5. IsSequence(tokens')
    BY <1>1, Appended
  <1> QED
    BY <1>1, <1>4, <1>5 DEF LexerInv, Modes

(* A character of a token has been read.                                   *)
LEMMA TokenGoesOn ==
    ASSUME LexerInv, text' = text, tokens' = tokens,
           NEW first \in 1 .. Len(text), start' = first, Tokenised(first),
           first <= cursor', cursor' \in 1 .. Len(text) + 1, value' \in 0 .. WORD - 1,
           mode' \in Modes \ {"scan", "done"}, RunSoFar', ValueSoFar'
    PROVE  LexerInv'
  <1>1. IsSequence(tokens) /\ text \in Texts
    BY DEF LexerInv
  <1>2. first \in Nat
    BY <1>1, TextType
  <1>3. Tokenised(first)'
    <2>1. first <= first /\ \A i \in first .. first - 1 : IsBlank(text[i])
      BY <1>2
    <2> QED
      BY <1>1, <1>2, <2>1, EndMoves
  <1>4. Tokenised(start)'
    BY <1>3
  <1> QED
    BY <1>1, <1>4 DEF LexerInv

LEMMA ScanKeeps ==
    ASSUME LexerInv, Scan
    PROVE  LexerInv'
  <1>1. /\ text \in Texts /\ cursor \in 1 .. Len(text) + 1
        /\ IsSequence(tokens)
    BY DEF LexerInv
  <1>2. Len(text) \in Nat /\ WORD \in Nat /\ WORD > 15
    BY <1>1, TextType, LexerAssumption
  <1>3. mode = "scan" /\ text' = text /\ start' = cursor /\ value' = 0
    BY <1>1, ScanCases
  <1>4. Tokenised(cursor)
    BY <1>3 DEF LexerInv
  <1>5. value' \in 0 .. WORD - 1
    BY <1>2, <1>3
  <1>6. CASE cursor = Len(text) + 1 /\ mode' = "done" /\ UNCHANGED <<cursor, tokens>>
    <2>1. PICK end \in Nat : end = cursor
      BY <1>1, <1>2
    <2>2. Tokenised(end)'
      <3>1. end <= end /\ \A i \in end .. end - 1 : IsBlank(text[i])
        OBVIOUS
      <3> QED
        BY <1>1, <1>3, <1>4, <1>6, <2>1, <3>1, EndMoves
    <2>3. Tokenised(cursor)'
      BY <1>6, <2>1, <2>2
    <2> QED
      BY <1>1, <1>3, <1>5, <1>6, <2>3 DEF LexerInv, Modes
  <1>7. CASE /\ cursor \in 1 .. Len(text) /\ IsBlank(text[cursor])
             /\ mode' = "scan" /\ cursor' = cursor + 1 /\ tokens' = tokens
    <2>1. PICK next \in Nat : next = cursor + 1
      BY <1>2, <1>7
    <2>2. Tokenised(cursor)'
      <3>1. cursor \in Nat /\ cursor <= next /\ \A i \in cursor .. next - 1 : IsBlank(text[i])
        BY <1>1, <1>2, <1>7, <2>1
      <3>2. Tokenised(next)'
        BY <1>1, <1>3, <1>4, <1>7, <3>1, EndMoves
      <3> QED
        BY <1>7, <2>1, <3>2
    <2>3. cursor' \in 1 .. Len(text) + 1
      BY <1>2, <1>7
    <2> QED
      BY <1>1, <1>3, <1>5, <1>7, <2>2, <2>3 DEF LexerInv, Modes
  <1>8. CASE /\ cursor \in 1 .. Len(text) /\ text[cursor] \in IdentifierStart
             /\ mode' = "identifier" /\ UNCHANGED <<cursor, tokens>>
    <2>1. RunSoFar'
      BY <1>1, <1>2, <1>3, <1>8 DEF RunSoFar, HexModes, DecimalModes
    <2>2. ValueSoFar'
      BY <1>8 DEF ValueSoFar
    <2> QED
      BY <1>1, <1>2, <1>3, <1>4, <1>5, <1>8, <2>1, <2>2, TokenGoesOn DEF Modes
  <1>9. CASE /\ cursor \in 1 .. Len(text) /\ HexPrefix(cursor)
             /\ mode' = "hex" /\ cursor' = cursor + 2 /\ tokens' = tokens
    <2>1. cursor + 1 \in 1 .. Len(text)
      BY <1>1, <1>9, HexPrefixInside
    <2>2. HexPrefix(start)'
      BY <1>3, <1>9 DEF HexPrefix, At
    <2>3. RunSoFar'
      BY <1>1, <1>2, <1>3, <1>9, <2>2 DEF RunSoFar, HexModes, DecimalModes
    <2>4. Numeral(text, cursor + 2, cursor + 2 - 1, 16) = 0
      BY <1>2, <1>9, NumeralOfNone
    <2>5. ValueSoFar'
      BY <1>3, <1>9, <2>4 DEF ValueSoFar, FirstDigit, HexModes, Base
    <2>6. cursor' \in 1 .. Len(text) + 1 /\ start' <= cursor'
      BY <1>2, <1>3, <1>9, <2>1
    <2> QED
      BY <1>1, <1>3, <1>4, <1>5, <1>9, <2>3, <2>5, <2>6, TokenGoesOn DEF Modes, HexModes
  <1>10. CASE /\ cursor \in 1 .. Len(text) /\ text[cursor] \in DecimalDigits /\ ~HexPrefix(cursor)
              /\ mode' = "decimal" /\ UNCHANGED <<cursor, tokens>>
    <2>1. ~HexPrefix(start)'
      BY <1>3, <1>10 DEF HexPrefix, At
    <2>2. RunSoFar'
      BY <1>1, <1>2, <1>3, <1>10, <2>1 DEF RunSoFar, HexModes, DecimalModes
    <2>3. Numeral(text, cursor, cursor - 1, 10) = 0
      BY <1>2, <1>10, NumeralOfNone
    <2>4. ValueSoFar'
      BY <1>3, <1>10, <2>3 DEF ValueSoFar, FirstDigit, HexModes, Base
    <2> QED
      BY <1>1, <1>2, <1>3, <1>4, <1>5, <1>10, <2>2, <2>4, TokenGoesOn DEF Modes, DecimalModes
  <1>11. CASE /\ cursor \in 1 .. Len(text) /\ mode' = "scan" /\ cursor' = cursor + 1
              /\ \E t, v : /\ tokens' = Append(tokens, Token(t, v, cursor, cursor + 1 - 1))
                           /\ IsRefToken(Token(t, v, cursor, cursor + 1 - 1))
    <2>1. PICK t, v : /\ tokens' = Append(tokens, Token(t, v, cursor, cursor' - 1))
                      /\ IsRefToken(Token(t, v, cursor, cursor' - 1))
      BY <1>11
    <2>2. cursor \in Nat /\ cursor < cursor' /\ cursor' \in 1 .. Len(text) + 1
      BY <1>2, <1>11
    <2> QED
      BY <1>3, <1>4, <1>5, <1>11, <2>1, <2>2, BackToScan
  <1> QED
    BY <1>1, <1>6, <1>7, <1>8, <1>9, <1>10, <1>11, ScanCases

LEMMA IdentifierKeeps ==
    ASSUME LexerInv, Identifier
    PROVE  LexerInv'
  <1>1. /\ mode = "identifier" /\ text' = text /\ start' = start /\ value' = value
        /\ text \in Texts /\ cursor \in 1 .. Len(text) + 1 /\ value \in 0 .. WORD - 1
        /\ start \in 1 .. Len(text) /\ start <= cursor /\ Tokenised(start)
    BY DEF LexerInv, Identifier
  <1>2. Len(text) \in Nat /\ start \in Nat /\ cursor \in Nat
    BY <1>1, TextType
  <1>3. text[start] \in IdentifierStart /\ \A i \in start .. cursor - 1 : text[i] \in IdentifierChars
    BY <1>1 DEF LexerInv, RunSoFar
  <1>4. CASE At(cursor) \in IdentifierChars
    <2>1. cursor' = cursor + 1 /\ mode' = "identifier" /\ tokens' = tokens
      BY <1>1, <1>4 DEF Identifier
    <2>2. "eof" \notin IdentifierChars
      BY LexerAssumption DEF IdentifierChars, DecimalDigits
    <2>3. cursor \in 1 .. Len(text) /\ text[cursor] \in IdentifierChars
      <3>1. At(cursor) # "eof"
        BY <1>4, <2>2
      <3>2. cursor \in DOMAIN text
        BY <3>1 DEF At
      <3> QED
        BY <1>1, <1>4, <3>2, TextType
    <2>4. \A i \in start .. cursor + 1 - 1 : text[i] \in IdentifierChars
      BY <1>2, <1>3, <2>3
    <2>5. RunSoFar'
      BY <1>1, <1>3, <2>1, <2>4 DEF RunSoFar, HexModes, DecimalModes
    <2>6. ValueSoFar'
      BY <2>1 DEF ValueSoFar
    <2>7. start <= cursor' /\ cursor' \in 1 .. Len(text) + 1
      BY <1>1, <1>2, <2>1, <2>3
    <2> QED
      BY <1>1, <2>1, <2>5, <2>6, <2>7, TokenGoesOn DEF Modes
  <1>5. CASE At(cursor) \notin IdentifierChars
    <2> DEFINE name == SubSeq(text, start, cursor - 1)
    <2>1. Produce(Named(name), name, cursor)
      BY <1>5 DEF Identifier
    <2>2. /\ tokens' = Append(tokens, Token(Named(name), name, start, cursor - 1))
          /\ cursor' = cursor /\ mode' = "scan"
      BY <1>1, <2>1 DEF Produce
    <2>3. start < cursor
      <3>1. At(start) \in IdentifierChars
        BY <1>1, <1>3, TextType DEF IdentifierStart, IdentifierChars
      <3>2. start # cursor
        BY <1>5, <3>1
      <3> QED
        BY <1>1, <1>2, <3>2
    <2>4. IsRefToken(Token(Named(name), name, start, cursor - 1))
      BY <1>1, <1>3, <1>5, <2>3, WholeIdentifier
    <2> QED
      BY <1>1, <1>2, <2>2, <2>3, <2>4, BackToScan
  <1> QED
    BY <1>4, <1>5

(* What holds in every loop that reads a literal.                          *)
LEMMA LiteralFacts ==
    ASSUME LexerInv, mode \in HexModes \cup DecimalModes
    PROVE  /\ text \in Texts /\ Len(text) \in Nat
           /\ cursor \in 1 .. Len(text) + 1 /\ value \in 0 .. WORD - 1
           /\ start \in 1 .. Len(text) /\ start <= cursor /\ Tokenised(start)
           /\ RunSoFar /\ ValueSoFar
           /\ FirstDigit \in Nat /\ FirstDigit <= cursor /\ cursor \in Nat /\ cursor - 1 \in Nat
           /\ Base(mode) \in {10, 16}
           /\ IsNumeral(text, FirstDigit, cursor - 1)
           /\ At(cursor) \in Digits(mode) \/ IsSeparator(At(cursor)) =>
                 /\ cursor \in 1 .. Len(text) /\ At(cursor) = text[cursor]
                 /\ text[cursor] \in HexChars
                 /\ mode \in DecimalModes => text[cursor] \in DecimalChars
  <1>1. mode \notin {"scan", "done"}
    BY DEF HexModes, DecimalModes
  <1>2. /\ text \in Texts /\ cursor \in 1 .. Len(text) + 1 /\ value \in 0 .. WORD - 1
        /\ start \in 1 .. Len(text) /\ start <= cursor /\ Tokenised(start)
        /\ RunSoFar /\ ValueSoFar
    BY <1>1 DEF LexerInv
  <1>3. Len(text) \in Nat /\ cursor \in Nat /\ cursor - 1 \in Nat /\ start \in Nat
    BY <1>2, TextType
  <1>4. Base(mode) \in {10, 16}
    BY DEF Base
  <1>5. mode \in HexModes => mode \notin DecimalModes
    BY DEF HexModes, DecimalModes
  <1>6. FirstDigit \in Nat /\ FirstDigit <= cursor
    <2>1. mode \in HexModes => start + 2 <= cursor
      BY <1>2 DEF RunSoFar
    <2> QED
      BY <1>2, <1>3, <2>1 DEF FirstDigit
  <1>7. IsNumeral(text, FirstDigit, cursor - 1)
    <2>1. \A i \in FirstDigit .. cursor - 1 : text[i] \in HexChars
      <3>1. CASE mode \in HexModes
        BY <1>2, <3>1 DEF RunSoFar, FirstDigit
      <3>2. CASE mode \in DecimalModes
        <4>1. \A i \in start .. cursor - 1 : text[i] \in DecimalChars
          BY <1>2, <3>2 DEF RunSoFar
        <4> QED
          BY <1>5, <3>2, <4>1, DigitValueType DEF FirstDigit
      <3> QED
        BY <3>1, <3>2
    <2> QED
      BY <1>3, <1>6, <2>1 DEF IsNumeral
  <1>8. ASSUME At(cursor) \in Digits(mode) \/ IsSeparator(At(cursor))
        PROVE  /\ cursor \in 1 .. Len(text) /\ At(cursor) = text[cursor]
               /\ text[cursor] \in HexChars
               /\ mode \in DecimalModes => text[cursor] \in DecimalChars
    <2>1. At(cursor) # "eof"
      BY <1>8 DEF Digits, HexDigits, DecimalDigits, IsSeparator
    <2>2. cursor \in 1 .. Len(text) /\ At(cursor) = text[cursor]
      BY <1>2, <2>1, TextType DEF At
    <2>3. At(cursor) \in HexChars
      BY <1>8 DEF Digits, HexDigits, DecimalDigits, HexChars, IsSeparator
    <2>4. mode \in DecimalModes => At(cursor) \in DecimalChars
      BY <1>8 DEF Digits, DecimalChars, DecimalModes, IsSeparator
    <2> QED
      BY <2>2, <2>3, <2>4
  <1> QED
    BY <1>2, <1>3, <1>4, <1>6, <1>7, <1>8

(* One more character of a literal.                                        *)
LEMMA LiteralRunGoesOn ==
    ASSUME LexerInv, mode \in HexModes \cup DecimalModes,
           At(cursor) \in Digits(mode) \/ IsSeparator(At(cursor)),
           text' = text, start' = start, cursor' = cursor + 1, mode' = mode
    PROVE  RunSoFar' /\ start <= cursor' /\ cursor' \in 1 .. Len(text) + 1
  <1>1. /\ Len(text) \in Nat /\ cursor \in 1 .. Len(text) /\ start \in 1 .. Len(text) /\ start <= cursor
        /\ RunSoFar
    BY LiteralFacts
  <1>2. start <= cursor' /\ cursor' \in 1 .. Len(text) + 1 /\ cursor' - 1 = cursor
    BY <1>1
  <1>3. mode # "identifier" /\ (mode \in HexModes => mode \notin DecimalModes)
    BY DEF HexModes, DecimalModes
  <1>4. CASE mode \in HexModes
    <2>1. HexPrefix(start)' <=> HexPrefix(start)
      BY DEF HexPrefix, At
    <2>2. HexPrefix(start) /\ start + 2 <= cursor /\ \A i \in start + 2 .. cursor - 1 : text[i] \in HexChars
      BY <1>1, <1>4 DEF RunSoFar
    <2>3. text[cursor] \in HexChars
      BY LiteralFacts
    <2>4. \A i \in start + 2 .. cursor : text[i] \in HexChars
      BY <1>1, <2>2, <2>3
    <2>5. start + 2 <= cursor + 1
      BY <1>1, <2>2
    <2>6. start' + 2 <= cursor' /\ \A i \in start' + 2 .. cursor' - 1 : text'[i] \in HexChars
      BY <1>2, <2>4, <2>5
    <2>7. HexPrefix(start)'
      BY <2>1, <2>2
    <2>8. mode' # "identifier" /\ mode' \notin DecimalModes
      BY <1>3, <1>4
    <2>9. RunSoFar'
      BY <2>6, <2>7, <2>8 DEF RunSoFar
    <2> QED
      BY <1>2, <2>9
  <1>5. CASE mode \in DecimalModes
    <2>1. HexPrefix(start)' <=> HexPrefix(start)
      BY DEF HexPrefix, At
    <2>2. /\ text[start] \in DecimalDigits /\ ~HexPrefix(start)
          /\ \A i \in start .. cursor - 1 : text[i] \in DecimalChars
      BY <1>1, <1>5 DEF RunSoFar
    <2>3. text[cursor] \in DecimalChars
      BY <1>5, LiteralFacts
    <2>4. \A i \in start .. cursor : text[i] \in DecimalChars
      BY <1>1, <2>2, <2>3
    <2>5. \A i \in start' .. cursor' - 1 : text'[i] \in DecimalChars
      BY <1>2, <2>4
    <2>6. text'[start'] \in DecimalDigits /\ ~HexPrefix(start)'
      BY <2>1, <2>2
    <2>7. mode' # "identifier" /\ mode' \notin HexModes
      BY <1>3, <1>5
    <2>8. RunSoFar'
      BY <2>5, <2>6, <2>7 DEF RunSoFar
    <2> QED
      BY <1>2, <2>8
  <1> QED
    BY <1>4, <1>5

(* The literal's token, once the next character is not its own.            *)
LEMMA WholeLiteral ==
    ASSUME LexerInv, mode \in HexModes \cup DecimalModes,
           At(cursor) \notin Digits(mode), ~IsSeparator(At(cursor)),
           NEW tok, tok = RefLiteral(start, cursor - 1, FirstDigit, Base(mode))
    PROVE  IsRefToken(tok) /\ start < cursor
  <1>1. /\ text \in Texts /\ Len(text) \in Nat /\ cursor \in 1 .. Len(text) + 1 /\ cursor \in Nat
        /\ start \in 1 .. Len(text) /\ start <= cursor /\ RunSoFar
    BY LiteralFacts
  <1>2. CASE mode \in HexModes
    <2>1. At(cursor) \notin HexChars
      BY <1>2 DEF Digits, HexModes, HexChars, IsSeparator
    <2>2. HexPrefix(start) /\ start + 2 <= cursor /\ \A i \in start + 2 .. cursor - 1 : text[i] \in HexChars
      BY <1>1, <1>2 DEF RunSoFar
    <2>3. tok = RefLiteral(start, cursor - 1, start + 2, 16)
      BY <1>2 DEF FirstDigit, Base, HexModes
    <2>4. start < cursor
      BY <1>1, <2>2
    <2> QED
      BY <1>1, <2>1, <2>2, <2>3, <2>4, WholeHex
  <1>3. CASE mode \in DecimalModes
    <2>1. At(cursor) \notin DecimalChars /\ At(cursor) \notin DecimalDigits
      BY <1>3 DEF Digits, DecimalModes, DecimalChars, IsSeparator
    <2>2. /\ text[start] \in DecimalDigits /\ ~HexPrefix(start)
          /\ \A i \in start .. cursor - 1 : text[i] \in DecimalChars
      BY <1>1, <1>3 DEF RunSoFar
    <2>3. tok = RefLiteral(start, cursor - 1, start, 10)
      BY <1>3 DEF FirstDigit, Base, HexModes, DecimalModes
    <2>4. start < cursor
      <3>1. At(start) = text[start]
        BY <1>1, TextType
      <3>2. start # cursor
        BY <2>1, <2>2, <3>1
      <3> QED
        BY <1>1, <3>2
    <2> QED
      BY <1>1, <2>1, <2>2, <2>3, <2>4, WholeDecimal
  <1> QED
    BY <1>2, <1>3

(* The numeral with the character under the cursor.                        *)
LEMMA NextNumeral ==
    ASSUME LexerInv, mode \in HexModes \cup DecimalModes,
           At(cursor) \in Digits(mode) \/ IsSeparator(At(cursor))
    PROVE  LET n == Numeral(text, FirstDigit, cursor - 1, Base(mode))
           IN  /\ n \in Nat
               /\ Numeral(text, FirstDigit, cursor, Base(mode)) =
                     IF IsSeparator(At(cursor)) THEN n ELSE n * Base(mode) + DigitValue(At(cursor))
               /\ ~IsSeparator(At(cursor)) => DigitValue(At(cursor)) \in Nat
  <1>1. /\ FirstDigit \in Nat /\ cursor \in Nat /\ cursor - 1 \in Nat /\ Base(mode) \in Nat
        /\ IsNumeral(text, FirstDigit, cursor - 1)
        /\ At(cursor) = text[cursor] /\ text[cursor] \in HexChars
    BY LiteralFacts
  <1>2. cursor - 1 + 1 = cursor
    BY <1>1
  <1>3. Numeral(text, FirstDigit, cursor - 1, Base(mode)) \in Nat
    BY <1>1, NumeralType
  <1>4. Numeral(text, FirstDigit, cursor - 1 + 1, Base(mode)) =
           IF IsSeparator(text[cursor - 1 + 1]) THEN Numeral(text, FirstDigit, cursor - 1, Base(mode))
           ELSE Numeral(text, FirstDigit, cursor - 1, Base(mode)) * Base(mode)
                + DigitValue(text[cursor - 1 + 1])
    BY <1>1, <1>2, NumeralStep
  <1>5. ~IsSeparator(At(cursor)) => DigitValue(At(cursor)) \in Nat
    BY <1>1, DigitValueType
  <1> QED
    BY <1>1, <1>2, <1>3, <1>4, <1>5

LEMMA LiteralKeeps ==
    ASSUME LexerInv, Literal
    PROVE  LexerInv'
  <1>1. /\ mode \in {"hex", "decimal"} /\ text' = text /\ start' = start
        /\ mode \in HexModes \cup DecimalModes /\ mode \in Modes \ {"scan", "done"}
    BY DEF Literal, HexModes, DecimalModes, Modes
  <1> DEFINE base == Base(mode)
             d == DigitValue(At(cursor))
             n == Numeral(text, FirstDigit, cursor - 1, base)
  <1>2. /\ text \in Texts /\ Len(text) \in Nat /\ cursor \in 1 .. Len(text) + 1
        /\ start \in 1 .. Len(text) /\ start \in Nat /\ start <= cursor /\ Tokenised(start)
        /\ FirstDigit \in Nat /\ cursor \in Nat /\ base \in Nat /\ RunSoFar
    BY <1>1, LiteralFacts
  <1>3. value = n /\ value \in 0 .. WORD - 1 /\ WORD \in Nat
    BY <1>1, LiteralFacts, LexerAssumption DEF ValueSoFar
  <1>4. "_" \notin Digits(mode)
    BY DEF Digits, HexDigits, DecimalDigits
  <1>5. CASE IsSeparator(At(cursor))
    <2>1. cursor' = cursor + 1 /\ mode' = mode /\ value' = value /\ tokens' = tokens
      BY <1>4, <1>5 DEF Literal, IsSeparator
    <2>2. RunSoFar' /\ start <= cursor' /\ cursor' \in 1 .. Len(text) + 1
      BY <1>1, <1>5, <2>1, LiteralRunGoesOn
    <2>3. Numeral(text, FirstDigit, cursor, base) = value
      BY <1>1, <1>3, <1>5, NextNumeral
    <2>4. FirstDigit' = FirstDigit /\ cursor' - 1 = cursor
      BY <1>1, <1>2, <2>1 DEF FirstDigit
    <2>5. value' = Numeral(text', FirstDigit', cursor' - 1, Base(mode'))
      BY <1>1, <2>1, <2>3, <2>4
    <2>6. ValueSoFar'
      BY <1>1, <2>1, <2>5 DEF ValueSoFar
    <2> QED
      BY <1>1, <1>2, <1>3, <2>1, <2>2, <2>6, TokenGoesOn
  <1>6. CASE At(cursor) \in Digits(mode) /\ Fits(value, base, d)
    <2>1. cursor' = cursor + 1 /\ mode' = mode /\ value' = value * base + d /\ tokens' = tokens
      BY <1>4, <1>6 DEF Literal
    <2>2. RunSoFar' /\ start <= cursor' /\ cursor' \in 1 .. Len(text) + 1
      BY <1>1, <1>6, <2>1, LiteralRunGoesOn
    <2>3. ~IsSeparator(At(cursor))
      BY <1>4, <1>6 DEF IsSeparator
    <2>4. Numeral(text, FirstDigit, cursor, base) = value * base + d /\ d \in Nat
      BY <1>1, <1>3, <1>6, <2>3, NextNumeral
    <2>5. FirstDigit' = FirstDigit /\ cursor' - 1 = cursor
      BY <1>1, <1>2, <2>1 DEF FirstDigit
    <2>6. value' = Numeral(text', FirstDigit', cursor' - 1, Base(mode'))
      BY <1>1, <2>1, <2>4, <2>5
    <2>7. ValueSoFar'
      BY <1>1, <2>1, <2>6 DEF ValueSoFar
    <2>8. value' \in 0 .. WORD - 1
      <3>1. value * base + d < WORD
        BY <1>6 DEF Fits
      <3>2. value * base + d \in Nat
        BY <1>2, <1>3, <2>4
      <3> QED
        BY <1>3, <2>1, <3>1, <3>2
    <2> QED
      BY <1>1, <1>2, <2>1, <2>2, <2>7, <2>8, TokenGoesOn
  <1>7. CASE At(cursor) \in Digits(mode) /\ ~Fits(value, base, d)
    <2>1. /\ mode' = IF mode = "hex" THEN "rest of hex" ELSE "rest of decimal"
          /\ cursor' = cursor /\ value' = value /\ tokens' = tokens
      BY <1>4, <1>7 DEF Literal
    <2>2. ~IsSeparator(At(cursor))
      BY <1>4, <1>7 DEF IsSeparator
    <2>3. Numeral(text, FirstDigit, cursor, base) = value * base + d /\ d \in Nat
      BY <1>1, <1>3, <1>7, <2>2, NextNumeral
    <2>4. value * base + d >= WORD
      <3>1. value * base \in Nat
        BY <1>2, <1>3
      <3> QED
        BY <1>3, <1>7, <2>3, <3>1 DEF Fits
    <2>5. /\ mode' \in {"rest of hex", "rest of decimal"}
          /\ mode' \in HexModes <=> mode \in HexModes
          /\ mode' \in DecimalModes <=> mode \in DecimalModes
          /\ Base(mode') = base /\ Digits(mode') = Digits(mode)
          /\ mode' \in Modes \ {"scan", "done"} /\ mode' # "identifier"
      BY <1>1, <2>1 DEF HexModes, DecimalModes, Modes, Base, Digits
    <2>6. FirstDigit' = FirstDigit
      BY <1>1, <2>5 DEF FirstDigit
    <2>7. At(cursor)' = At(cursor)
      BY <1>1, <2>1 DEF At
    <2>8. ValueSoFar'
      <3>1. Numeral(text', FirstDigit', cursor', Base(mode')) >= WORD
        BY <1>1, <2>1, <2>3, <2>4, <2>5, <2>6
      <3>2. At(cursor)' \in Digits(mode')
        BY <1>7, <2>5, <2>7
      <3>3. mode' \notin {"hex", "decimal"}
        BY <2>5
      <3> QED
        BY <3>1, <3>2, <3>3 DEF ValueSoFar
    <2>9. RunSoFar'
      <3>1. HexPrefix(start)' <=> HexPrefix(start)
        BY <1>1 DEF HexPrefix, At
      <3> QED
        BY <1>1, <1>2, <2>1, <2>5, <3>1 DEF RunSoFar
    <2> QED
      BY <1>1, <1>2, <1>3, <2>1, <2>5, <2>8, <2>9, TokenGoesOn
  <1>8. CASE At(cursor) \notin Digits(mode) /\ ~IsSeparator(At(cursor))
    <2>1. /\ IF mode = "hex" /\ cursor = start + 2 THEN Produce("error", "malformed", cursor)
             ELSE Produce("literal", value, cursor)
          /\ value' = value
      BY <1>8 DEF Literal, IsSeparator
    <2> DEFINE tok == RefLiteral(start, cursor - 1, FirstDigit, base)
    <2>2. IsRefToken(tok) /\ start < cursor
      BY <1>1, <1>8, WholeLiteral
    <2>3. CASE mode = "hex" /\ cursor = start + 2
      <3>1. tok = Token("error", "malformed", start, cursor - 1)
        <4>1. FirstDigit > cursor - 1
          BY <1>2, <2>3 DEF FirstDigit, HexModes
        <4> QED
          BY <4>1 DEF RefLiteral
      <3>2. /\ tokens' = Append(tokens, Token("error", "malformed", start, cursor - 1))
            /\ cursor' = cursor /\ mode' = "scan"
        BY <1>1, <2>1, <2>3 DEF Produce
      <3> QED
        BY <1>1, <1>2, <1>3, <2>1, <2>2, <3>1, <3>2, BackToScan
    <2>4. CASE ~(mode = "hex" /\ cursor = start + 2)
      <3>1. tok = Token("literal", value, start, cursor - 1)
        <4>1. ~(FirstDigit > cursor - 1)
          <5>1. CASE mode = "hex"
            <6>1. start + 2 <= cursor /\ FirstDigit = start + 2
              BY <1>2, <5>1 DEF RunSoFar, FirstDigit, HexModes
            <6> QED
              BY <1>2, <2>4, <5>1, <6>1
          <5>2. CASE mode = "decimal"
            <6>1. FirstDigit = start
              BY <5>2 DEF FirstDigit, HexModes
            <6> QED
              BY <1>2, <2>2, <6>1
          <5> QED
            BY <1>1, <5>1, <5>2
        <4>2. n = value /\ ~(n >= WORD)
          BY <1>3
        <4> QED
          BY <4>1, <4>2 DEF RefLiteral
      <3>2. /\ tokens' = Append(tokens, Token("literal", value, start, cursor - 1))
            /\ cursor' = cursor /\ mode' = "scan"
        BY <1>1, <2>1, <2>4 DEF Produce
      <3> QED
        BY <1>1, <1>2, <1>3, <2>1, <2>2, <3>1, <3>2, BackToScan
    <2> QED
      BY <2>3, <2>4
  <1> QED
    BY <1>5, <1>6, <1>7, <1>8

LEMMA RestOfLiteralKeeps ==
    ASSUME LexerInv, RestOfLiteral
    PROVE  LexerInv'
  <1>1. /\ mode \in {"rest of hex", "rest of decimal"}
        /\ text' = text /\ start' = start /\ value' = value
        /\ mode \in HexModes \cup DecimalModes /\ mode \in Modes \ {"scan", "done"}
    BY DEF RestOfLiteral, HexModes, DecimalModes, Modes
  <1> DEFINE base == Base(mode)
  <1>2. /\ text \in Texts /\ Len(text) \in Nat /\ cursor \in 1 .. Len(text) + 1
        /\ start \in 1 .. Len(text) /\ start \in Nat /\ start <= cursor /\ Tokenised(start)
        /\ FirstDigit \in Nat /\ FirstDigit <= cursor /\ cursor \in Nat
        /\ base \in {10, 16} /\ value \in 0 .. WORD - 1 /\ WORD \in Nat
    <2>1. /\ text \in Texts /\ Len(text) \in Nat /\ cursor \in 1 .. Len(text) + 1
          /\ start \in 1 .. Len(text) /\ start <= cursor /\ Tokenised(start)
          /\ FirstDigit \in Nat /\ FirstDigit <= cursor /\ cursor \in Nat
          /\ base \in {10, 16} /\ value \in 0 .. WORD - 1
      BY <1>1, LiteralFacts
    <2>2. start \in Nat
      BY <2>1
    <2> HIDE DEF base
    <2> QED
      BY <2>1, <2>2, LexerAssumption
  <1>3. \/ At(cursor) \in Digits(mode) /\ Numeral(text, FirstDigit, cursor, base) >= WORD
        \/ FirstDigit < cursor /\ Numeral(text, FirstDigit, cursor - 1, base) >= WORD
    <2>1. ValueSoFar
      BY <1>1, LiteralFacts
    <2> QED
      BY <1>1, <2>1 DEF ValueSoFar
  <1>4. CASE At(cursor) \in Digits(mode) \/ IsSeparator(At(cursor))
    <2>1. cursor' = cursor + 1 /\ mode' = mode /\ tokens' = tokens
      BY <1>4 DEF RestOfLiteral, IsSeparator
    <2>2. RunSoFar' /\ start <= cursor' /\ cursor' \in 1 .. Len(text) + 1
      BY <1>1, <1>4, <2>1, LiteralRunGoesOn
    <2>3. Numeral(text, FirstDigit, cursor, base) >= WORD
      <3>1. CASE At(cursor) \in Digits(mode) /\ Numeral(text, FirstDigit, cursor, base) >= WORD
        BY <3>1
      <3>2. CASE Numeral(text, FirstDigit, cursor - 1, base) >= WORD
        <4> DEFINE n == Numeral(text, FirstDigit, cursor - 1, base)
                   d == DigitValue(At(cursor))
        <4>1. /\ n \in Nat
              /\ Numeral(text, FirstDigit, cursor, base) =
                    IF IsSeparator(At(cursor)) THEN n ELSE n * base + d
              /\ ~IsSeparator(At(cursor)) => d \in Nat
          BY <1>1, <1>4, NextNumeral
        <4> HIDE DEF n, d
        <4>2. ~IsSeparator(At(cursor)) => n * base + d >= n
          <5>1. n * 10 >= n /\ n * 16 >= n /\ n * base \in Nat
            BY <1>2, <4>1
          <5> QED
            BY <1>2, <4>1, <5>1
        <4>3. n >= WORD
          BY <3>2 DEF n
        <4>4. CASE IsSeparator(At(cursor))
          BY <4>1, <4>3, <4>4
        <4>5. CASE ~IsSeparator(At(cursor))
          <5>1. n * base + d \in Nat
            BY <1>2, <4>1, <4>5
          <5> QED
            BY <1>2, <4>1, <4>2, <4>3, <4>5, <5>1
        <4> QED
          BY <4>4, <4>5
      <3> QED
        BY <1>3, <3>1, <3>2
    <2>4. FirstDigit' = FirstDigit /\ cursor' - 1 = cursor /\ FirstDigit < cursor'
      <3>1. FirstDigit' = FirstDigit
        BY <1>1, <2>1 DEF FirstDigit
      <3>2. cursor' - 1 = cursor /\ FirstDigit < cursor'
        BY <1>2, <2>1
      <3> QED
        BY <3>1, <3>2
    <2>5. FirstDigit' < cursor' /\ Numeral(text', FirstDigit', cursor' - 1, Base(mode')) >= WORD
      BY <1>1, <2>1, <2>3, <2>4
    <2>6. mode' \notin {"hex", "decimal"}
      BY <1>1, <2>1
    <2>7. ValueSoFar'
      BY <2>5, <2>6 DEF ValueSoFar
    <2> QED
      BY <1>1, <1>2, <2>1, <2>2, <2>7, TokenGoesOn
  <1>5. CASE At(cursor) \notin Digits(mode) /\ ~IsSeparator(At(cursor))
    <2> DEFINE tok == RefLiteral(start, cursor - 1, FirstDigit, base)
    <2>1. Produce("error", "overflow", cursor)
      BY <1>5 DEF RestOfLiteral, IsSeparator
    <2>2. /\ tokens' = Append(tokens, Token("error", "overflow", start, cursor - 1))
          /\ cursor' = cursor /\ mode' = "scan"
      BY <1>1, <2>1 DEF Produce
    <2>3. IsRefToken(tok) /\ start < cursor
      BY <1>1, <1>5, WholeLiteral
    <2>4. FirstDigit < cursor /\ Numeral(text, FirstDigit, cursor - 1, base) >= WORD
      BY <1>3, <1>5
    <2>5. tok = Token("error", "overflow", start, cursor - 1)
      <3>1. ~(FirstDigit > cursor - 1)
        BY <1>2, <2>4
      <3> QED
        BY <2>4, <3>1 DEF RefLiteral
    <2> QED
      BY <1>1, <1>2, <2>2, <2>3, <2>5, BackToScan
  <1> QED
    BY <1>4, <1>5

-----------------------------------------------------------------------------
(* The theorems.                                                           *)

LEMMA LexerStep ==
    ASSUME LexerInv, [LexerNext]_lexerVars
    PROVE  LexerInv'
  <1>1. CASE Scan
    BY <1>1, ScanKeeps
  <1>2. CASE Identifier
    BY <1>2, IdentifierKeeps
  <1>3. CASE Literal
    BY <1>3, LiteralKeeps
  <1>4. CASE RestOfLiteral
    BY <1>4, RestOfLiteralKeeps
  <1>5. CASE UNCHANGED lexerVars
    <2>1. /\ text' = text /\ cursor' = cursor /\ mode' = mode /\ start' = start
          /\ value' = value /\ tokens' = tokens
      BY <1>5 DEF lexerVars
    <2>2. \A k : At(k)' = At(k)
      BY <2>1 DEF At
    <2>3. \A k : HexPrefix(k)' <=> HexPrefix(k)
      BY <2>2 DEF HexPrefix
    <2>4. \A e : Tokenised(e)' <=> Tokenised(e)
      BY <2>1, SameTokens DEF Tokenised
    <2>5. RunSoFar => RunSoFar'
      BY <2>1, <2>3 DEF RunSoFar
    <2>6. ValueSoFar => ValueSoFar'
      BY <2>1, <2>2 DEF ValueSoFar, FirstDigit
    <2>7. Tokenised(start) => Tokenised(start)'
      BY <2>1, <2>4
    <2>8. Tokenised(cursor) => Tokenised(cursor)'
      BY <2>1, <2>4
    <2> QED
      BY <2>1, <2>5, <2>6, <2>7, <2>8 DEF LexerInv
  <1> QED
    BY <1>1, <1>2, <1>3, <1>4, <1>5 DEF LexerNext

(* The invariant holds in every state of the lexer, for every set of       *)
(* texts, letters and keywords and every size of a word.                   *)
THEOREM LexerInvariant == LexerSpec => []LexerInv
  <1>1. LexerInit => LexerInv
    BY LexerStart
  <1>2. LexerInv /\ [LexerNext]_lexerVars => LexerInv'
    BY LexerStep
  <1> QED
    BY <1>1, <1>2, PTL DEF LexerSpec

(* A literal token carries a word: the digits of a token are a numeral.    *)
LEMMA LiteralIsWord ==
    ASSUME text \in Texts, NEW tok, IsRefToken(tok), tok.t = "literal"
    PROVE  tok.v \in 0 .. WORD - 1
  <1> DEFINE k == tok.first
             j == tok.last
  <1>1. /\ k \in 1 .. Len(text) /\ j \in k .. Len(text) /\ Spells(k, j)
        /\ tok.t = RefToken(k, j).t /\ tok = RefToken(k, j)
        /\ Len(text) \in Nat /\ k \in DOMAIN text /\ WORD \in Nat
    BY TextType, LexerAssumption DEF IsRefToken
  <1> HIDE DEF k, j
  <1>2. k \in Nat /\ j \in Nat /\ k <= j
    BY <1>1
  <1>3. ASSUME NEW from \in {k, k + 2}, NEW base \in {10, 16}, RefToken(k, j) = RefLiteral(k, j, from, base),
               \A i \in from .. j : text[i] \in HexChars
        PROVE  tok.v \in 0 .. WORD - 1
    <2>1. tok.t = "literal" /\ tok = RefLiteral(k, j, from, base)
      BY <1>1, <1>3
    <2>2. from <= j
      <3>1. ~(from > j)
        BY <2>1 DEF RefLiteral, Token
      <3> QED
        BY <1>2, <3>1
    <2>3. IsNumeral(text, from, j) /\ from \in Nat /\ base \in Nat
      <3>1. from \in Nat
        BY <1>2
      <3> QED
        BY <1>2, <1>3, <2>2, <3>1 DEF IsNumeral
    <2>4. Numeral(text, from, j, base) \in Nat
      BY <1>2, <2>3, NumeralType
    <2>5. tok.v = Numeral(text, from, j, base) /\ ~(Numeral(text, from, j, base) >= WORD)
      BY <2>1 DEF RefLiteral, Token
    <2> QED
      BY <1>1, <2>4, <2>5
  <1>4. CASE HexPrefix(k)
    <2>1. /\ RefToken(k, j) = RefLiteral(k, j, k + 2, 16)
          /\ \A i \in k + 2 .. j : text[i] \in HexChars
      BY <1>1, <1>4, HexToken
    <2> QED
      BY <1>3, <2>1
  <1>5. CASE text[k] \in DecimalDigits /\ ~HexPrefix(k)
    <2>1. /\ RefToken(k, j) = RefLiteral(k, j, k, 10)
          /\ \A i \in k .. j : text[i] \in DecimalChars
      BY <1>1, <1>5, DecimalToken
    <2>2. \A i \in k .. j : text[i] \in HexChars
      BY <2>1, DigitValueType
    <2> QED
      BY <1>3, <2>1, <2>2
  <1>6. CASE text[k] \in IdentifierStart
    <2>1. RefToken(k, j).t = Named(SubSeq(text, k, j))
      BY <1>6, IdentifierToken DEF Token
    <2> QED
      BY <1>1, <2>1 DEF Named
  <1>7. CASE text[k] \in Punctuation
    <2>1. RefToken(k, j).t = "symbol"
      BY <1>7, SymbolToken DEF Token
    <2> QED
      BY <1>1, <2>1
  <1>8. CASE text[k] \notin IdentifierStart \cup DecimalDigits \cup Punctuation /\ ~HexPrefix(k)
    <2>1. RefToken(k, j).t = "error"
      BY <1>8, OtherToken DEF Token
    <2> QED
      BY <1>1, <2>1
  <1> QED
    BY <1>4, <1>5, <1>6, <1>7, <1>8

LEMMA LexerInvTypes == LexerInv => LexerTypeOK
  <1> SUFFICES ASSUME LexerInv PROVE LexerTypeOK
    OBVIOUS
  <1>1. text \in Texts /\ \A k \in DOMAIN tokens : IsRefToken(tokens[k])
    BY DEF LexerInv, Tokenised
  <1>2. \A k \in DOMAIN tokens : tokens[k].t = "literal" => tokens[k].v \in 0 .. WORD - 1
    BY <1>1, LiteralIsWord
  <1> QED
    BY <1>2 DEF LexerInv, LexerTypeOK, Modes, HexModes, DecimalModes

(* No literal wraps and the cursor stays in the text: the types of the     *)
(* lexer's state (LexerTypeOK), whatever the text.                         *)
THEOREM LexerTypes == LexerSpec => []LexerTypeOK
  BY LexerInvTypes, LexerInvariant, PTL

(* "Overflow check before shifting in the new nibble": at the end the      *)
(* tokens are those of the text (TokensAreRight), each the longest of its  *)
(* kind, every literal the value of its numeral, a numeral too large for a *)
(* word one error.                                                         *)
THEOREM LexerTokens == LexerSpec => []TokensAreRight
  <1>1. LexerInv => TokensAreRight
    BY DEF LexerInv, TokensAreRight
  <1> QED
    BY <1>1, LexerInvariant, PTL

-----------------------------------------------------------------------------
(* A text has one sequence of tokens.                                      *)

(* A token is known by its first character.                                *)
LEMMA SameFirst ==
    ASSUME NEW a, NEW b, IsRefToken(a), IsRefToken(b), a.first = b.first
    PROVE  a = b
  <1>1. /\ a.last \in a.first .. Len(text) /\ Spells(a.first, a.last)
        /\ \A j \in a.last + 1 .. Len(text) : ~Spells(a.first, j)
        /\ a = RefToken(a.first, a.last)
    BY DEF IsRefToken
  <1>2. /\ b.last \in b.first .. Len(text) /\ Spells(b.first, b.last)
        /\ \A j \in b.last + 1 .. Len(text) : ~Spells(b.first, j)
        /\ b = RefToken(b.first, b.last)
    BY DEF IsRefToken
  <1>3. a.last \in Int /\ b.last \in Int
    BY <1>1, <1>2
  <1>4. ~(a.last < b.last) /\ ~(b.last < a.last)
    <2>1. a.last < b.last => b.last \in a.last + 1 .. Len(text)
      BY <1>2, <1>3
    <2>2. b.last < a.last => a.last \in b.last + 1 .. Len(text)
      BY <1>1, <1>3
    <2> QED
      BY <1>1, <1>2, <2>1, <2>2
  <1>5. a.last = b.last
    BY <1>3, <1>4
  <1> QED
    BY <1>1, <1>2, <1>5

(* Two states with one text that are both its tokens have the same tokens: *)
(* the lexer's answer is determined, wherever it is TokensAreRight.        *)
THEOREM TokensAreUnique ==
    ASSUME text \in Texts, text' = text, IsSequence(tokens), IsSequence(tokens)',
           Tokenised(Len(text) + 1), Tokenised(Len(text) + 1)'
    PROVE  tokens' = tokens
  <1> DEFINE N == Len(text)
             n == Len(tokens)
             m == Len(tokens')
             End(s, k) == IF k = 0 THEN 0 ELSE s[k].last
             Begin(s, k) == IF k \in DOMAIN s THEN s[k].first ELSE N + 1
  <1>1. N \in Nat /\ n \in Nat /\ m \in Nat /\ DOMAIN tokens = 1 .. n /\ DOMAIN tokens' = 1 .. m
    BY TextType DEF IsSequence
  <1>2. /\ \A k \in 1 .. n : IsRefToken(tokens[k])
        /\ \A k \in 1 .. n + 1 : /\ End(tokens, k - 1) < Begin(tokens, k)
                                 /\ \A i \in End(tokens, k - 1) + 1 .. Begin(tokens, k) - 1 : IsBlank(text[i])
    BY <1>1 DEF Tokenised
  <1>3. /\ \A k \in 1 .. m : IsRefToken(tokens'[k])
        /\ \A k \in 1 .. m + 1 : /\ End(tokens', k - 1) < Begin(tokens', k)
                                 /\ \A i \in End(tokens', k - 1) + 1 .. Begin(tokens', k) - 1 : IsBlank(text[i])
    <2>1. \A k \in DOMAIN tokens' : IsRefToken(tokens[k])'
      BY DEF Tokenised
    <2>2. \A k \in DOMAIN tokens' : IsRefToken(tokens'[k])
      BY <2>1, SameTokens
    <2> QED
      BY <1>1, <2>2 DEF Tokenised
  <1>4. \A tok : IsRefToken(tok) => /\ tok.first \in 1 .. N /\ tok.last \in Int
                                    /\ ~IsBlank(text[tok.first])
    BY DEF IsRefToken
  <1> HIDE DEF N, n, m
  <1> DEFINE H == {k \in 0 .. n + m + 1 :
                 \/ k = 0
                 \/ k \in 1 .. n /\ k \in 1 .. m /\ tokens[k] = tokens'[k]
                 \/ k > n /\ k > m}
  <1>5. ASSUME NEW k \in 1 .. n + m + 1, k - 1 \in H
        PROVE  k \in H
    <2>1. CASE k - 1 > n /\ k - 1 > m
      BY <1>1, <2>1
    <2>2. CASE k - 1 = 0 \/ (k - 1 \in 1 .. n /\ k - 1 \in 1 .. m /\ tokens[k - 1] = tokens'[k - 1])
      <3>1. k \in 1 .. n + 1 /\ k \in 1 .. m + 1
        BY <1>1, <2>2
      <3> DEFINE L == End(tokens, k - 1)
                 f == Begin(tokens, k)
                 g == Begin(tokens', k)
      <3>2. End(tokens', k - 1) = L
        BY <2>2
      <3>3. /\ L < f /\ \A i \in L + 1 .. f - 1 : IsBlank(text[i])
            /\ L < g /\ \A i \in L + 1 .. g - 1 : IsBlank(text[i])
        BY <1>2, <1>3, <3>1, <3>2
      <3>4. L \in Int
        <4>1. k - 1 # 0 => tokens[k - 1].last \in Int
          BY <1>2, <1>4, <2>2
        <4> QED
          BY <4>1
      <3>5. /\ k \in 1 .. n => f \in 1 .. N /\ ~IsBlank(text[f]) /\ f = tokens[k].first
            /\ k \notin 1 .. n => f = N + 1
        BY <1>1, <1>2, <1>4
      <3>6. /\ k \in 1 .. m => g \in 1 .. N /\ ~IsBlank(text[g]) /\ g = tokens'[k].first
            /\ k \notin 1 .. m => g = N + 1
        BY <1>1, <1>3, <1>4
      <3> HIDE DEF L, f, g
      <3>7. f \in 1 .. N + 1 /\ g \in 1 .. N + 1
        BY <1>1, <3>5, <3>6
      <3>8. ~(f < g)
        <4>1. f < g => k \in 1 .. n /\ f \in L + 1 .. g - 1
          BY <1>1, <3>3, <3>4, <3>5, <3>7
        <4> QED
          BY <3>3, <3>5, <4>1
      <3>9. ~(g < f)
        <4>1. g < f => k \in 1 .. m /\ g \in L + 1 .. f - 1
          BY <1>1, <3>3, <3>4, <3>6, <3>7
        <4> QED
          BY <3>3, <3>6, <4>1
      <3>10. f = g
        BY <1>1, <3>7, <3>8, <3>9
      <3>11. k \in 1 .. n <=> k \in 1 .. m
        BY <1>1, <3>5, <3>6, <3>10
      <3>12. CASE k \in 1 .. n
        <4>1. tokens[k] = tokens'[k]
          BY <1>2, <1>3, <3>5, <3>6, <3>10, <3>11, <3>12, SameFirst
        <4> QED
          BY <3>11, <3>12, <4>1
      <3>13. CASE k \notin 1 .. n
        <4>1. k > n /\ k > m
          BY <1>1, <3>1, <3>11, <3>13
        <4> QED
          BY <4>1
      <3> QED
        BY <3>12, <3>13
    <2> QED
      BY <1>5, <2>1, <2>2
  <1>6. 0 \in H
    BY <1>1
  <1>7. 0 .. n + m + 1 \subseteq H
    <2> HIDE DEF H
    <2>1. n + m + 1 \in Nat
      BY <1>1
    <2> QED
      BY <1>5, <1>6, <2>1, Upwards
  <1>8. \A k \in 1 .. n + m + 1 : k \in 1 .. n <=> k \in 1 .. m
    BY <1>1, <1>7
  <1>9. n = m
    <2>1. ~(n < m)
      <3>1. n < m => n + 1 \in 1 .. n + m + 1 /\ n + 1 \in 1 .. m /\ n + 1 \notin 1 .. n
        BY <1>1
      <3> QED
        BY <1>8, <3>1
    <2>2. ~(m < n)
      <3>1. m < n => m + 1 \in 1 .. n + m + 1 /\ m + 1 \in 1 .. n /\ m + 1 \notin 1 .. m
        BY <1>1
      <3> QED
        BY <1>8, <3>1
    <2> QED
      BY <1>1, <2>1, <2>2
  <1>10. \A k \in 1 .. n : tokens[k] = tokens'[k]
    BY <1>1, <1>7
  <1>11. /\ tokens = [k \in 1 .. n |-> tokens[k]] /\ tokens' = [k \in 1 .. m |-> tokens'[k]]
    <2>1. \A R, s : s \in Seq(R) => s = [k \in 1 .. Len(s) |-> s[k]]
      OBVIOUS
    <2> QED
      BY <2>1 DEF IsSequence, n, m
  <1> QED
    BY <1>9, <1>10, <1>11

-----------------------------------------------------------------------------
(* What the parser finds (Expressions).                                    *)

(* A list of tokens, as the lexer leaves it.                               *)
TokenList(s) ==
    /\ Len(s) \in Nat /\ DOMAIN s = 1 .. Len(s)
    /\ \A k \in 1 .. Len(s) : s[k].t # "eof"
    /\ \A k \in 1 .. Len(s) : Kind(s, k, "literal") => s[k].v \in Words

(* An outcome of tokens from k on: a value takes some of them, an error    *)
(* has neither a value nor a position.                                     *)
Forward(s, k) ==
    {r \in Outcomes : IF IsOk(r) THEN r.next \in k + 1 .. Len(s) + 1 ELSE r = Err(r.st, r.reads)}

(* Every term from token k on has such an outcome.                         *)
FindsFrom(s, term, k) == \A i \in k .. Len(s) + 1 : term[i] \in Forward(s, i)

LEMMA WordsType == WORD \in Nat /\ WORD > 15 /\ 0 \in Words /\ Words \subseteq Nat
  <1>1. WORD \in Nat /\ WORD > 15
    BY Zenon, LexerAssumption
  <1> QED
    BY <1>1 DEF Words

(* Kinds of tokens exclude each other.                                     *)
LEMMA TokenKinds ==
    ASSUME NEW s, TokenList(s), NEW k \in Nat
    PROVE  /\ \A c : IsSymbol(s, k, c) => Kind(s, k, "symbol")
           /\ IsArithmetic(s, k) => Kind(s, k, "symbol")
           /\ Kind(s, k, "symbol") => /\ ~Kind(s, k, "eof") /\ ~Kind(s, k, "literal")
                                      /\ ~Kind(s, k, "identifier") /\ ~Kind(s, k, "error")
           /\ Kind(s, k, "identifier") => ~Kind(s, k, "literal") /\ ~Kind(s, k, "eof")
           /\ Kind(s, k, "literal") => ~Kind(s, k, "eof")
           /\ Kind(s, k, "eof") <=> k \notin 1 .. Len(s)
           /\ IsArithmetic(s, k) => ~IsSymbol(s, k, ";")
           /\ IsSymbol(s, k, ")") => ~IsArithmetic(s, k) /\ ~IsSymbol(s, k, ";")
           /\ IsSymbol(s, k, ";") => ~IsArithmetic(s, k)
           /\ IsSymbol(s, k, "(") => ~IsSymbol(s, k, ";")
  <1>1. \A c : IsSymbol(s, k, c) => Kind(s, k, "symbol")
    BY DEF IsSymbol
  <1>2. IsArithmetic(s, k) => Kind(s, k, "symbol")
    BY DEF IsArithmetic
  <1>3. Kind(s, k, "eof") <=> k \notin 1 .. Len(s)
    BY DEF Kind, Tok, Token, TokenList
  <1>4. /\ Kind(s, k, "symbol") => /\ ~Kind(s, k, "eof") /\ ~Kind(s, k, "literal")
                                   /\ ~Kind(s, k, "identifier") /\ ~Kind(s, k, "error")
        /\ Kind(s, k, "identifier") => ~Kind(s, k, "literal") /\ ~Kind(s, k, "eof")
        /\ Kind(s, k, "literal") => ~Kind(s, k, "eof")
    BY DEF Kind
  <1>5. /\ IsArithmetic(s, k) => ~IsSymbol(s, k, ";")
        /\ IsSymbol(s, k, ")") => ~IsArithmetic(s, k) /\ ~IsSymbol(s, k, ";")
        /\ IsSymbol(s, k, ";") => ~IsArithmetic(s, k)
        /\ IsSymbol(s, k, "(") => ~IsSymbol(s, k, ";")
    BY DEF IsArithmetic, IsSymbol, Arithmetic
  <1> QED
    BY <1>1, <1>2, <1>3, <1>4, <1>5

LEMMA StatusNames ==
    /\ "ok" \in Statuses /\ "pending" \in Statuses /\ "UnknownSymbol" \in Statuses
    /\ "LexError" \in Statuses /\ "UnexpectedToken" \in Statuses
    /\ "DivByZero" \in Statuses /\ "MissingSemicolon" \in Statuses
    /\ "pending" # "ok" /\ "UnknownSymbol" # "ok" /\ "LexError" # "ok"
    /\ "UnexpectedToken" # "ok" /\ "DivByZero" # "ok" /\ "MissingSemicolon" # "ok"
  BY DEF Statuses

LEMMA ErrType ==
    ASSUME NEW e \in Statuses, e # "ok", NEW reads \in Seq(Words)
    PROVE  /\ Err(e, reads) \in Outcomes /\ ~IsOk(Err(e, reads))
           /\ \A s, k : Err(e, reads) \in Forward(s, k)
           /\ Err(e, reads).st = e /\ Err(e, reads).reads = reads /\ Err(e, reads).next = 0
  <1>1. Err(e, reads) \in Outcomes
    BY WordsType DEF Err, Outcomes
  <1>2. ~IsOk(Err(e, reads)) /\ Err(e, reads).st = e /\ Err(e, reads).reads = reads
        /\ Err(e, reads).next = 0
    BY DEF Err, IsOk
  <1> QED
    BY <1>1, <1>2 DEF Forward

LEMMA OkType ==
    ASSUME NEW v \in Words, NEW reads \in Seq(Words), NEW next \in Nat
    PROVE  /\ Ok(v, reads, next) \in Outcomes /\ IsOk(Ok(v, reads, next))
           /\ Ok(v, reads, next).val = v /\ Ok(v, reads, next).reads = reads
           /\ Ok(v, reads, next).next = next
  BY StatusNames DEF Ok, Outcomes, IsOk

(* An outcome is the record of its fields.                                 *)
LEMMA OutcomeFields ==
    ASSUME NEW r \in Outcomes
    PROVE  /\ r.st \in Statuses /\ r.val \in Words /\ r.reads \in Seq(Words) /\ r.next \in Nat
           /\ r = [st |-> r.st, val |-> r.val, reads |-> r.reads, next |-> r.next]
           /\ IsOk(r) => r = Ok(r.val, r.reads, r.next)
  BY DEF Outcomes, IsOk, Ok

LEMMA AfterType ==
    ASSUME NEW s, NEW k, NEW reads \in Seq(Words), NEW r \in Forward(s, k)
    PROVE  /\ After(reads, r) \in Forward(s, k)
           /\ IsOk(r) => After(reads, r) = Ok(r.val, reads \o r.reads, r.next)
           /\ ~IsOk(r) => After(reads, r) = Err(r.st, reads \o r.reads)
           /\ IsOk(After(reads, r)) <=> IsOk(r)
  <1> DEFINE all == reads \o r.reads
  <1>1. r \in Outcomes /\ r.reads \in Seq(Words) /\ all \in Seq(Words)
    BY OutcomeFields DEF Forward
  <1>2. After(reads, r) = [st |-> r.st, val |-> r.val, reads |-> all, next |-> r.next]
    <2>1. \A x \in Seq(Words) :
             [r EXCEPT !.reads = x] = [st |-> r.st, val |-> r.val, reads |-> x, next |-> r.next]
      BY <1>1 DEF Outcomes
    <2>2. After(reads, r) = [r EXCEPT !.reads = all]
      BY Zenon DEF After
    <2> HIDE DEF all
    <2> QED
      BY <1>1, <2>1, <2>2
  <1> HIDE DEF all
  <1>3. CASE IsOk(r)
    <2>1. After(reads, r) = Ok(r.val, all, r.next)
      BY <1>2, <1>3 DEF Ok, IsOk
    <2>2. r.val \in Words /\ r.next \in Nat /\ r.next \in k + 1 .. Len(s) + 1
      BY <1>1, <1>3, OutcomeFields DEF Forward
    <2>3. Ok(r.val, all, r.next) \in Forward(s, k) /\ IsOk(Ok(r.val, all, r.next))
      BY <1>1, <2>2, OkType DEF Forward
    <2> QED
      BY <1>3, <2>1, <2>3 DEF all
  <1>4. CASE ~IsOk(r)
    <2>1. r = Err(r.st, r.reads) /\ r.st \in Statuses /\ r.st # "ok"
      BY <1>1, <1>4, OutcomeFields DEF Forward, IsOk
    <2>2. r.val = 0 /\ r.next = 0
      BY <2>1 DEF Err
    <2>3. After(reads, r) = Err(r.st, all)
      BY <1>2, <2>2 DEF Err
    <2>4. Err(r.st, all) \in Forward(s, k) /\ ~IsOk(Err(r.st, all))
      BY <1>1, <2>1, ErrType
    <2> QED
      BY <1>4, <2>3, <2>4 DEF all
  <1> QED
    BY <1>3, <1>4

LEMMA ApplyType ==
    ASSUME NEW op \in Arithmetic, NEW a \in Words, NEW b \in Words, ~Undefined(op, b)
    PROVE  Apply(op, a, b) \in Words
  <1>1. WORD \in Nat /\ WORD > 0 /\ a \in Nat /\ a < WORD /\ b \in Nat /\ b < WORD
    BY WordsType DEF Words
  <1>2. \A x \in Int : x % WORD \in Words
    BY <1>1 DEF Words
  <1>3. CASE op \in {"+", "-", "*"}
    <2>1. a + b \in Int /\ a - b \in Int /\ a * b \in Int
      BY <1>1
    <2>2. (a + b) % WORD \in Words /\ (a - b) % WORD \in Words /\ (a * b) % WORD \in Words
      BY <1>2, <2>1
    <2> QED
      BY <1>3, <2>2 DEF Apply
  <1>4. CASE op \in {"/", "%"}
    <2>1. b # 0
      BY <1>4 DEF Undefined
    <2>2. a \div b \in Nat /\ a \div b <= a /\ a % b \in Nat /\ a % b < b
      BY <1>1, <2>1
    <2>3. a \div b \in Words /\ a % b \in Words
      BY <1>1, <2>2 DEF Words
    <2> QED
      BY <1>4, <2>3 DEF Apply
  <1> QED
    BY <1>3, <1>4 DEF Arithmetic

(* One turn of the loop: nothing, or the operator and the term behind it.  *)
LEMMA OperateCases ==
    ASSUME NEW s, TokenList(s), NEW k \in 1 .. Len(s) + 1, NEW term, FindsFrom(s, term, k),
           NEW acc \in Forward(s, k)
    PROVE  LET after == Operate(s, term)[acc]
               right == term[acc.next + 1]
               op == Tok(s, acc.next).v
               reads == acc.reads \o right.reads
           IN  /\ ~IsOk(acc) \/ ~IsArithmetic(s, acc.next) => after = acc
               /\ IsOk(acc) /\ IsArithmetic(s, acc.next) =>
                     /\ acc.next \in k + 1 .. Len(s)
                     /\ right \in Forward(s, acc.next + 1)
                     /\ op \in Arithmetic
                     /\ ~IsOk(right) => after = Err(right.st, reads)
                     /\ IsOk(right) /\ Undefined(op, right.val) => after = Err("DivByZero", reads)
                     /\ IsOk(right) /\ ~Undefined(op, right.val) =>
                           after = Ok(Apply(op, acc.val, right.val), reads, right.next)
  <1> DEFINE after == Operate(s, term)[acc]
             right == term[acc.next + 1]
             op == Tok(s, acc.next).v
             reads == acc.reads \o right.reads
             rhs == After(acc.reads, right)
  <1>1. acc \in Outcomes
    BY DEF Forward
  <1>2. after = IF ~IsOk(acc) \/ ~IsArithmetic(s, acc.next) THEN acc
                ELSE IF ~IsOk(rhs) THEN rhs
                ELSE IF Undefined(op, rhs.val) THEN Err("DivByZero", rhs.reads)
                ELSE Ok(Apply(op, acc.val, rhs.val), rhs.reads, rhs.next)
    BY <1>1 DEF Operate
  <1>3. ASSUME IsOk(acc), IsArithmetic(s, acc.next)
        PROVE  /\ acc.next \in k + 1 .. Len(s)
               /\ right \in Forward(s, acc.next + 1)
               /\ op \in Arithmetic
               /\ acc.reads \in Seq(Words)
    <2>1. acc.next \in k + 1 .. Len(s) + 1
      BY <1>3 DEF Forward
    <2>2. acc.next \in Nat /\ Len(s) \in Nat
      BY <2>1 DEF TokenList
    <2>3. acc.next \in 1 .. Len(s)
      BY <1>3, <2>2, TokenKinds
    <2>4. acc.next \in k + 1 .. Len(s) /\ acc.next + 1 \in k .. Len(s) + 1
      BY <2>1, <2>2, <2>3
    <2>5. right \in Forward(s, acc.next + 1)
      BY <2>4 DEF FindsFrom
    <2>6. op \in Arithmetic
      BY <1>3 DEF IsArithmetic
    <2> QED
      BY <1>1, <2>4, <2>5, <2>6, OutcomeFields
  <1> HIDE DEF op, right
  <1>4. ASSUME IsOk(acc), IsArithmetic(s, acc.next)
        PROVE  /\ ~IsOk(right) => after = Err(right.st, reads)
               /\ IsOk(right) /\ Undefined(op, right.val) => after = Err("DivByZero", reads)
               /\ IsOk(right) /\ ~Undefined(op, right.val) =>
                     after = Ok(Apply(op, acc.val, right.val), reads, right.next)
    <2> HIDE DEF after
    <2>1. /\ IsOk(right) => rhs = Ok(right.val, reads, right.next)
          /\ ~IsOk(right) => rhs = Err(right.st, reads)
          /\ IsOk(rhs) <=> IsOk(right)
      BY <1>3, <1>4, AfterType
    <2> HIDE DEF rhs, reads
    <2>2. CASE ~IsOk(right)
      BY <1>2, <1>4, <2>1, <2>2
    <2>3. CASE IsOk(right)
      <3>1. rhs.val = right.val /\ rhs.reads = reads /\ rhs.next = right.next
        BY <2>1, <2>3 DEF Ok
      <3> QED
        BY <1>2, <1>4, <2>1, <2>3, <3>1
    <2> QED
      BY <2>2, <2>3
  <1> QED
    BY <1>2, <1>3, <1>4 DEF op, right

LEMMA OperateType ==
    ASSUME NEW s, TokenList(s), NEW k \in 1 .. Len(s) + 1, NEW term, FindsFrom(s, term, k),
           NEW acc \in Forward(s, k)
    PROVE  Operate(s, term)[acc] \in Forward(s, k)
  <1> DEFINE after == Operate(s, term)[acc]
             right == term[acc.next + 1]
             op == Tok(s, acc.next).v
             reads == acc.reads \o right.reads
  <1>1. CASE ~IsOk(acc) \/ ~IsArithmetic(s, acc.next)
    BY <1>1, OperateCases
  <1>2. CASE IsOk(acc) /\ IsArithmetic(s, acc.next)
    <2>1. /\ acc.next \in k + 1 .. Len(s)
          /\ right \in Forward(s, acc.next + 1)
          /\ op \in Arithmetic
          /\ ~IsOk(right) => after = Err(right.st, reads)
          /\ IsOk(right) /\ Undefined(op, right.val) => after = Err("DivByZero", reads)
          /\ IsOk(right) /\ ~Undefined(op, right.val) =>
                after = Ok(Apply(op, acc.val, right.val), reads, right.next)
      BY <1>2, OperateCases
    <2> SUFFICES after \in Forward(s, k)
      OBVIOUS
    <2> HIDE DEF after, right, op
    <2>2. right \in Outcomes /\ acc \in Outcomes
      BY <2>1 DEF Forward
    <2>3. right.st \in Statuses /\ acc.val \in Words /\ right.val \in Words
          /\ reads \in Seq(Words) /\ right.next \in Nat
      BY <2>2, OutcomeFields
    <2> HIDE DEF reads
    <2>4. CASE ~IsOk(right)
      BY <2>1, <2>3, <2>4, ErrType DEF IsOk
    <2>5. CASE IsOk(right) /\ Undefined(op, right.val)
      BY <2>1, <2>3, <2>5, ErrType, StatusNames
    <2>6. CASE IsOk(right) /\ ~Undefined(op, right.val)
      <3> DEFINE v == Apply(op, acc.val, right.val)
      <3>1. v \in Words
        BY <2>1, <2>3, <2>6, ApplyType
      <3>2. right.next \in acc.next + 2 .. Len(s) + 1
        BY <2>1, <2>6 DEF Forward
      <3> HIDE DEF v
      <3>3. /\ Ok(v, reads, right.next) \in Outcomes /\ IsOk(Ok(v, reads, right.next))
            /\ Ok(v, reads, right.next).next = right.next
        BY <2>3, <3>1, OkType
      <3>4. right.next \in k + 1 .. Len(s) + 1
        BY <2>1, <3>2
      <3>5. Ok(v, reads, right.next) \in Forward(s, k)
        BY <3>3, <3>4 DEF Forward
      <3> QED
        BY <2>1, <2>6, <3>5 DEF v
    <2> QED
      BY <2>4, <2>5, <2>6
  <1> QED
    BY <1>1, <1>2

(* The loop sees only terms from where it begins.                          *)
LEMMA OperateLocal ==
    ASSUME NEW s, TokenList(s), NEW k \in 1 .. Len(s) + 1,
           NEW term, NEW other, FindsFrom(s, term, k),
           \A i \in k .. Len(s) + 1 : other[i] = term[i],
           NEW acc \in Forward(s, k)
    PROVE  Operate(s, other)[acc] = Operate(s, term)[acc]
  <1>1. acc \in Outcomes
    BY DEF Forward
  <1>2. CASE IsOk(acc) /\ IsArithmetic(s, acc.next)
    <2>1. acc.next \in k + 1 .. Len(s)
      BY <1>2, OperateCases
    <2>2. other[acc.next + 1] = term[acc.next + 1]
      BY <2>1
    <2> QED
      BY <1>1, <2>2 DEF Operate
  <1>3. CASE ~(IsOk(acc) /\ IsArithmetic(s, acc.next))
    BY <1>1, <1>3 DEF Operate
  <1> QED
    BY <1>2, <1>3

(* The turns of eval_expr's loop, from the term at token k on.             *)
Loop(s, term, k, turn) ==
    [n \in 0 .. Len(s) |-> IF n = 0 THEN term[k] ELSE Operate(s, term)[turn[n - 1]]]

Turns(s, term, k) == CHOOSE turn : turn = Loop(s, term, k, turn)

LEMMA TurnsExist ==
    ASSUME NEW s, TokenList(s), NEW k \in 1 .. Len(s) + 1, NEW term, FindsFrom(s, term, k)
    PROVE  LET turn == Turns(s, term, k)
           IN  /\ turn[0] = term[k]
               /\ \A n \in 1 .. Len(s) : turn[n] = Operate(s, term)[turn[n - 1]]
               /\ \A n \in 0 .. Len(s) : turn[n] \in Forward(s, k)
               /\ eval_expr(s, term, k) = turn[Len(s)]
  <1> DEFINE D == Forward(s, k)
             N == Len(s)
             turn == Turns(s, term, k)
             F == [p \in (1 .. N) \X D |-> Operate(s, term)[p[2]]]
  <1>1. N \in Nat /\ term[k] \in D
    BY DEF TokenList, FindsFrom
  <1>2. \A r \in D : Operate(s, term)[r] \in D
    BY OperateType
  <1>3. eval_expr(s, term, k) = turn[N]
    BY Zenon DEF eval_expr, Turns, Loop
  <1> HIDE DEF D, N
  <1>4. PICK g : IsChain(D, term[k], F, N, g)
    <2>1. F \in [(1 .. N) \X D -> D]
      BY <1>2
    <2> HIDE DEF F
    <2> QED
      BY <1>1, <2>1, ChainExists
  <1>5. g = Loop(s, term, k, g)
    <2>1. g \in [0 .. N -> D] /\ g[0] = term[k] /\ \A n \in 1 .. N : g[n] = F[<<n, g[n - 1]>>]
      BY <1>4 DEF IsChain
    <2>2. \A n \in 1 .. N : g[n - 1] \in D
      BY <1>1, <2>1
    <2>3. \A n \in 1 .. N : g[n] = Operate(s, term)[g[n - 1]]
      BY <2>1, <2>2
    <2>4. g = [n \in 0 .. N |-> IF n = 0 THEN term[k] ELSE Operate(s, term)[g[n - 1]]]
      BY <1>1, <2>1, <2>3
    <2> QED
      BY <2>4 DEF Loop, N
  <1>6. turn = Loop(s, term, k, turn)
    BY <1>5 DEF Turns
  <1> HIDE DEF turn, F
  <1>7. turn[0] = term[k] /\ \A n \in 1 .. N : turn[n] = Operate(s, term)[turn[n - 1]]
    BY <1>1, <1>6 DEF Loop, N
  <1>8. \A n \in 0 .. N : turn[n] \in D
    <2> DEFINE H == {n \in 0 .. N : turn[n] \in D}
    <2>1. 0 \in H
      BY <1>1, <1>7
    <2>2. \A n \in 1 .. N : n - 1 \in H => n \in H
      BY <1>1, <1>2, <1>7
    <2> HIDE DEF H
    <2>3. 0 .. N \subseteq H
      BY <1>1, <2>1, <2>2, Upwards
    <2> QED
      BY <2>3 DEF H
  <1> QED
    BY <1>3, <1>7, <1>8 DEF turn, N, D

(* A turn that changes nothing is the loop's end.                          *)
LEMMA LoopEnds ==
    ASSUME NEW s, TokenList(s), NEW k \in 1 .. Len(s) + 1, NEW term, FindsFrom(s, term, k),
           NEW n \in 0 .. Len(s),
           LET acc == Turns(s, term, k)[n] IN ~IsOk(acc) \/ ~IsArithmetic(s, acc.next)
    PROVE  eval_expr(s, term, k) = Turns(s, term, k)[n]
  <1> DEFINE turn == Turns(s, term, k)
             N == Len(s)
             H == {m \in 0 .. N : m >= n => turn[m] = turn[n]}
  <1>1. N \in Nat /\ n \in 0 .. N
    BY DEF TokenList
  <1>2. /\ \A m \in 1 .. N : turn[m] = Operate(s, term)[turn[m - 1]]
        /\ turn[n] \in Forward(s, k)
        /\ eval_expr(s, term, k) = turn[N]
    BY TurnsExist
  <1>3. Operate(s, term)[turn[n]] = turn[n]
    BY <1>2, OperateCases
  <1> HIDE DEF turn
  <1>4. 0 \in H
    BY <1>1
  <1>5. \A m \in 1 .. N : m - 1 \in H => m \in H
    <2> TAKE m \in 1 .. N
    <2> HAVE m - 1 \in H
    <2>1. CASE m > n
      <3>1. turn[m - 1] = turn[n]
        BY <1>1, <2>1
      <3> QED
        BY <1>2, <1>3, <3>1
    <2>2. CASE m <= n
      BY <1>1, <2>2
    <2> QED
      BY <1>1, <2>1, <2>2
  <1> HIDE DEF H
  <1>6. 0 .. N \subseteq H
    BY <1>1, <1>4, <1>5, Upwards
  <1>7. turn[N] = turn[n]
    BY <1>1, <1>6 DEF H
  <1> QED
    BY <1>2, <1>7 DEF turn

LEMMA ExpressionType ==
    ASSUME NEW s, TokenList(s), NEW k \in 1 .. Len(s) + 1, NEW term, FindsFrom(s, term, k)
    PROVE  eval_expr(s, term, k) \in Forward(s, k)
  BY TurnsExist DEF TokenList

LEMMA ExpressionLocal ==
    ASSUME NEW s, TokenList(s), NEW k \in 1 .. Len(s) + 1,
           NEW term, NEW other, FindsFrom(s, term, k),
           \A i \in k .. Len(s) + 1 : other[i] = term[i]
    PROVE  eval_expr(s, other, k) = eval_expr(s, term, k)
  <1> DEFINE N == Len(s)
             f == Turns(s, term, k)
             g == Turns(s, other, k)
             H == {n \in 0 .. N : g[n] = f[n]}
  <1>1. N \in Nat /\ FindsFrom(s, other, k) /\ other[k] = term[k]
    BY DEF TokenList, FindsFrom
  <1>2. /\ f[0] = term[k] /\ \A n \in 1 .. N : f[n] = Operate(s, term)[f[n - 1]]
        /\ \A n \in 0 .. N : f[n] \in Forward(s, k)
        /\ eval_expr(s, term, k) = f[N]
    <2>1. f[0] = term[k] /\ eval_expr(s, term, k) = f[N]
      BY TurnsExist
    <2>2. \A n \in 1 .. N : f[n] = Operate(s, term)[f[n - 1]]
      BY TurnsExist
    <2>3. \A n \in 0 .. N : f[n] \in Forward(s, k)
      BY TurnsExist
    <2> QED
      BY <2>1, <2>2, <2>3
  <1>3. /\ g[0] = other[k] /\ \A n \in 1 .. N : g[n] = Operate(s, other)[g[n - 1]]
        /\ eval_expr(s, other, k) = g[N]
    BY <1>1, TurnsExist
  <1>4. \A r \in Forward(s, k) : Operate(s, other)[r] = Operate(s, term)[r]
    BY OperateLocal
  <1> HIDE DEF f, g
  <1>5. 0 \in H
    BY <1>1, <1>2, <1>3
  <1>6. \A n \in 1 .. N : n - 1 \in H => n \in H
    BY <1>1, <1>2, <1>3, <1>4
  <1> HIDE DEF H
  <1>7. 0 .. N \subseteq H
    BY <1>1, <1>5, <1>6, Upwards
  <1> QED
    BY <1>1, <1>2, <1>3, <1>7 DEF H

IsPeek(s, k) == Kind(s, k, "identifier") /\ Tok(s, k).v = PEEK
IsName(s, k) == Kind(s, k, "identifier") /\ Tok(s, k).v # PEEK
NameValue(s, k) ==
    IF Tok(s, k).v \in DOMAIN Bindings THEN Ok(Bindings[Tok(s, k).v], <<>>, k + 1)
    ELSE Err("UnknownSymbol", <<>>)

(* What parse_atomic_term makes of each kind of token.                     *)
LEMMA TermCases ==
    ASSUME NEW s, TokenList(s), NEW k \in 1 .. Len(s) + 1, NEW term, FindsFrom(s, term, k + 1)
    PROVE  LET r == parse_atomic_term(s, term, k)
               a == term[k + 1]
               e == eval_expr(s, term, k + 1)
           IN  /\ Kind(s, k, "literal") => r = Ok(Tok(s, k).v, <<>>, k + 1)
               /\ IsName(s, k) => r = NameValue(s, k)
               /\ IsPeek(s, k) =>
                     /\ k \in 1 .. Len(s) /\ a \in Forward(s, k + 1)
                     /\ r = IF IsOk(a) THEN Ok(Memory[a.val], Append(a.reads, a.val), a.next) ELSE a
               /\ IsSymbol(s, k, "(") =>
                     /\ k \in 1 .. Len(s) /\ e \in Forward(s, k + 1)
                     /\ r = IF ~IsOk(e) THEN e
                            ELSE IF IsSymbol(s, e.next, ")") THEN Ok(e.val, e.reads, e.next + 1)
                            ELSE Err("UnexpectedToken", e.reads)
               /\ ~Kind(s, k, "literal") /\ ~IsName(s, k) /\ ~IsPeek(s, k) /\ ~IsSymbol(s, k, "(") =>
                     r \in {Err("LexError", <<>>), Err("UnexpectedToken", <<>>)}
  <1> DEFINE r == parse_atomic_term(s, term, k)
             a == term[k + 1]
             e == eval_expr(s, term, k + 1)
  <1>1. k \in Nat /\ Len(s) \in Nat
    BY DEF TokenList
  <1>2. ASSUME k \in 1 .. Len(s)
        PROVE  a \in Forward(s, k + 1) /\ e \in Forward(s, k + 1)
    <2>1. k + 1 \in 1 .. Len(s) + 1
      BY <1>1, <1>2
    <2>2. a \in Forward(s, k + 1)
      BY <1>1, <2>1 DEF FindsFrom
    <2>3. e \in Forward(s, k + 1)
      BY <2>1, ExpressionType
    <2> QED
      BY <2>2, <2>3
  <1>3. ~IsSymbol(s, k, "(") => r = resolve_term(s, term, k)
    BY DEF parse_atomic_term
  <1>4. Kind(s, k, "literal") => r = Ok(Tok(s, k).v, <<>>, k + 1)
    <2> SUFFICES ASSUME Kind(s, k, "literal") PROVE r = Ok(Tok(s, k).v, <<>>, k + 1)
      OBVIOUS
    <2>1. ~IsSymbol(s, k, "(") /\ ~Kind(s, k, "identifier") /\ ~Kind(s, k, "error")
      BY <1>1, TokenKinds DEF Kind
    <2> QED
      BY Zenon, <1>3, <2>1 DEF resolve_term
  <1>5. IsName(s, k) => r = NameValue(s, k)
    <2> SUFFICES ASSUME IsName(s, k) PROVE r = NameValue(s, k)
      OBVIOUS
    <2>1. ~IsSymbol(s, k, "(") /\ ~Kind(s, k, "literal") /\ ~Kind(s, k, "error")
      BY <1>1, TokenKinds DEF IsName, Kind
    <2> QED
      BY Zenon, <1>3, <2>1 DEF resolve_term, IsName, NameValue
  <1>6. IsPeek(s, k) =>
            /\ k \in 1 .. Len(s) /\ a \in Forward(s, k + 1)
            /\ r = IF IsOk(a) THEN Ok(Memory[a.val], Append(a.reads, a.val), a.next) ELSE a
    <2> SUFFICES ASSUME IsPeek(s, k)
                 PROVE  /\ k \in 1 .. Len(s) /\ a \in Forward(s, k + 1)
                        /\ r = IF IsOk(a) THEN Ok(Memory[a.val], Append(a.reads, a.val), a.next) ELSE a
      OBVIOUS
    <2>1. ~IsSymbol(s, k, "(") /\ ~Kind(s, k, "literal") /\ ~Kind(s, k, "error") /\ ~Kind(s, k, "eof")
      BY <1>1, TokenKinds DEF IsPeek, Kind
    <2>2. k \in 1 .. Len(s) /\ a \in Forward(s, k + 1)
      BY <1>1, <1>2, <2>1, TokenKinds
    <2>3. r = IF IsOk(a) THEN Ok(Memory[a.val], Append(a.reads, a.val), a.next) ELSE a
      BY Zenon, <1>3, <2>1 DEF resolve_term, IsPeek, Address
    <2> QED
      BY Zenon, <2>2, <2>3
  <1>7. IsSymbol(s, k, "(") =>
            /\ k \in 1 .. Len(s) /\ e \in Forward(s, k + 1)
            /\ r = IF ~IsOk(e) THEN e
                   ELSE IF IsSymbol(s, e.next, ")") THEN Ok(e.val, e.reads, e.next + 1)
                   ELSE Err("UnexpectedToken", e.reads)
    <2> SUFFICES ASSUME IsSymbol(s, k, "(")
                 PROVE  /\ k \in 1 .. Len(s) /\ e \in Forward(s, k + 1)
                        /\ r = IF ~IsOk(e) THEN e
                               ELSE IF IsSymbol(s, e.next, ")") THEN Ok(e.val, e.reads, e.next + 1)
                               ELSE Err("UnexpectedToken", e.reads)
      OBVIOUS
    <2>1. k \in 1 .. Len(s) /\ e \in Forward(s, k + 1)
      BY <1>1, <1>2, TokenKinds
    <2>2. r = IF ~IsOk(e) THEN e
              ELSE IF IsSymbol(s, e.next, ")") THEN Ok(e.val, e.reads, e.next + 1)
              ELSE Err("UnexpectedToken", e.reads)
      BY Zenon DEF parse_atomic_term
    <2> QED
      BY Zenon, <2>1, <2>2
  <1>8. ~Kind(s, k, "literal") /\ ~IsName(s, k) /\ ~IsPeek(s, k) /\ ~IsSymbol(s, k, "(") =>
            r \in {Err("LexError", <<>>), Err("UnexpectedToken", <<>>)}
    BY Zenon, <1>3 DEF resolve_term, IsName, IsPeek
  <1> QED
    BY <1>4, <1>5, <1>6, <1>7, <1>8

LEMMA NoReads == <<>> \in Seq(Words)
  OBVIOUS

(* A term of one token.                                                    *)
LEMMA ValueType ==
    ASSUME NEW s, TokenList(s), NEW k \in 1 .. Len(s), NEW v \in Words
    PROVE  LET r == Ok(v, <<>>, k + 1)
           IN  r \in Forward(s, k) /\ IsOk(r) /\ r.next = k + 1
  <1>1. \A reads \in Seq(Words), n \in Nat :
           LET r == Ok(v, reads, n) IN r \in Outcomes /\ IsOk(r) /\ r.next = n
    BY OkType
  <1>2. k + 1 \in Nat /\ k + 1 \in k + 1 .. Len(s) + 1
    BY DEF TokenList
  <1>3. LET r == Ok(v, <<>>, k + 1) IN r \in Outcomes /\ IsOk(r) /\ r.next = k + 1
    BY Zenon, <1>1, <1>2, NoReads
  <1> QED
    BY <1>2, <1>3 DEF Forward

LEMMA NameValueType ==
    ASSUME NEW s, TokenList(s), NEW k \in 1 .. Len(s), IsName(s, k)
    PROVE  /\ NameValue(s, k) \in Forward(s, k)
           /\ IsOk(NameValue(s, k)) => NameValue(s, k).next = k + 1
  <1>1. CASE Tok(s, k).v \in DOMAIN Bindings
    <2> DEFINE v == Bindings[Tok(s, k).v]
    <2>1. v \in Words
      BY <1>1, ExpressionsAssumption
    <2>2. NameValue(s, k) = Ok(v, <<>>, k + 1)
      BY <1>1 DEF NameValue
    <2> HIDE DEF v
    <2> QED
      BY <2>1, <2>2, ValueType
  <1>2. CASE Tok(s, k).v \notin DOMAIN Bindings
    BY <1>2, NoReads, ErrType, StatusNames DEF NameValue
  <1> QED
    BY <1>1, <1>2

(* A term takes its tokens from k on.                                      *)
LEMMA TermType ==
    ASSUME NEW s, TokenList(s), NEW k \in 1 .. Len(s) + 1, NEW term, FindsFrom(s, term, k + 1)
    PROVE  parse_atomic_term(s, term, k) \in Forward(s, k)
  <1> DEFINE r == parse_atomic_term(s, term, k)
             a == term[k + 1]
             e == eval_expr(s, term, k + 1)
  <1>1. k \in Nat /\ Len(s) \in Nat
    BY DEF TokenList
  <1>2. \A x \in Forward(s, k + 1) :
           /\ x \in Outcomes
           /\ ~IsOk(x) => x \in Forward(s, k)
           /\ IsOk(x) => x.next \in k + 2 .. Len(s) + 1
    BY <1>1 DEF Forward
  <1>3. CASE Kind(s, k, "literal")
    <2>1. r = Ok(Tok(s, k).v, <<>>, k + 1)
      BY <1>3, TermCases
    <2>2. k \in 1 .. Len(s) /\ Tok(s, k).v \in Words
      BY <1>1, <1>3, TokenKinds DEF TokenList, Tok
    <2> QED
      BY <2>1, <2>2, ValueType
  <1>4. CASE IsName(s, k)
    <2>1. r = NameValue(s, k)
      BY <1>4, TermCases
    <2>2. k \in 1 .. Len(s)
      BY <1>1, <1>4, TokenKinds DEF IsName
    <2> QED
      BY <1>4, <2>1, <2>2, NameValueType
  <1>5. CASE IsPeek(s, k)
    <2>1. /\ a \in Forward(s, k + 1)
          /\ r = IF IsOk(a) THEN Ok(Memory[a.val], Append(a.reads, a.val), a.next) ELSE a
      BY <1>5, TermCases
    <2> SUFFICES r \in Forward(s, k)
      OBVIOUS
    <2> HIDE DEF r, a
    <2>2. CASE ~IsOk(a)
      BY <1>2, <2>1, <2>2
    <2>3. CASE IsOk(a)
      <3> DEFINE v == Memory[a.val]
                 reads == Append(a.reads, a.val)
      <3>1. v \in Words /\ reads \in Seq(Words) /\ a.next \in Nat
        BY <1>2, <2>1, OutcomeFields, ExpressionsAssumption
      <3>2. r = Ok(v, reads, a.next)
        BY <2>1, <2>3
      <3> HIDE DEF v, reads
      <3>3. r \in Outcomes /\ IsOk(r) /\ r.next = a.next
        BY <3>1, <3>2, OkType
      <3>4. r.next \in k + 1 .. Len(s) + 1
        BY <1>1, <1>2, <2>1, <2>3, <3>3
      <3> QED
        BY <3>3, <3>4 DEF Forward
    <2> QED
      BY <2>2, <2>3
  <1>6. CASE IsSymbol(s, k, "(")
    <2>1. /\ e \in Forward(s, k + 1)
          /\ r = IF ~IsOk(e) THEN e
                 ELSE IF IsSymbol(s, e.next, ")") THEN Ok(e.val, e.reads, e.next + 1)
                 ELSE Err("UnexpectedToken", e.reads)
      BY <1>6, TermCases
    <2> SUFFICES r \in Forward(s, k)
      OBVIOUS
    <2> HIDE DEF r, e
    <2>2. CASE ~IsOk(e)
      BY <1>2, <2>1, <2>2
    <2>3. CASE IsOk(e) /\ IsSymbol(s, e.next, ")")
      <3>1. e.next \in k + 2 .. Len(s) + 1
        BY <1>2, <2>1, <2>3
      <3>2. e.next \in 1 .. Len(s)
        <4>1. e.next \in Nat
          BY <1>1, <3>1
        <4>2. ~Kind(s, e.next, "eof")
          BY <2>3, <4>1, TokenKinds
        <4> QED
          BY <4>1, <4>2, TokenKinds
      <3>3. e.val \in Words /\ e.reads \in Seq(Words) /\ e.next + 1 \in Nat
        BY <1>2, <2>1, <3>2, OutcomeFields
      <3> DEFINE n == e.next + 1
      <3>4. r = Ok(e.val, e.reads, n) /\ n \in Nat /\ n \in k + 1 .. Len(s) + 1
        BY <1>1, <2>1, <2>3, <3>1, <3>2
      <3> HIDE DEF n
      <3>5. r \in Outcomes /\ IsOk(r) /\ r.next = n
        BY <3>3, <3>4, OkType
      <3> QED
        BY <3>4, <3>5 DEF Forward
    <2>4. CASE IsOk(e) /\ ~IsSymbol(s, e.next, ")")
      <3>1. e.reads \in Seq(Words)
        BY <1>2, <2>1, OutcomeFields
      <3> QED
        BY <2>1, <2>4, <3>1, ErrType, StatusNames
    <2> QED
      BY <2>2, <2>3, <2>4
  <1>7. CASE ~Kind(s, k, "literal") /\ ~IsName(s, k) /\ ~IsPeek(s, k) /\ ~IsSymbol(s, k, "(")
    <2>1. r \in {Err("LexError", <<>>), Err("UnexpectedToken", <<>>)}
      BY <1>7, TermCases
    <2>2. Err("LexError", <<>>) \in Forward(s, k)
      BY NoReads, ErrType, StatusNames
    <2>3. Err("UnexpectedToken", <<>>) \in Forward(s, k)
      BY NoReads, ErrType, StatusNames
    <2> QED
      BY Zenon, <2>1, <2>2, <2>3
  <1> QED
    BY <1>3, <1>4, <1>5, <1>6, <1>7

(* It depends on the terms behind it alone.                                *)
LEMMA TermLocal ==
    ASSUME NEW s, TokenList(s), NEW k \in 1 .. Len(s) + 1,
           NEW term, NEW other, FindsFrom(s, term, k + 1),
           \A i \in k + 1 .. Len(s) + 1 : other[i] = term[i]
    PROVE  parse_atomic_term(s, other, k) = parse_atomic_term(s, term, k)
  <1>1. k \in Nat /\ Len(s) \in Nat
    BY DEF TokenList
  <1>2. CASE k \in 1 .. Len(s)
    <2>1. k + 1 \in 1 .. Len(s) + 1 /\ other[k + 1] = term[k + 1]
      BY <1>1, <1>2
    <2>2. eval_expr(s, other, k + 1) = eval_expr(s, term, k + 1)
      BY <2>1, ExpressionLocal
    <2>3. Address(s, other, k + 1) = Address(s, term, k + 1)
      BY <2>1 DEF Address
    <2>4. resolve_term(s, other, k) = resolve_term(s, term, k)
      BY Zenon, <2>3 DEF resolve_term
    <2> QED
      BY Zenon, <2>2, <2>4 DEF parse_atomic_term
  <1>3. CASE k = Len(s) + 1
    <2>1. ~IsSymbol(s, k, "(") /\ ~Kind(s, k, "literal") /\ ~Kind(s, k, "identifier")
      <3>1. k \notin 1 .. Len(s)
        BY <1>1, <1>3
      <3>2. Kind(s, k, "eof")
        BY <1>1, <3>1, TokenKinds
      <3> QED
        BY <1>1, <3>2, TokenKinds
    <2> QED
      BY Zenon, <2>1 DEF parse_atomic_term, resolve_term
  <1> QED
    BY <1>2, <1>3

(* Each term is found from later ones, so the recursion of the parser ends *)
(* and Terms is what it finds.                                             *)
IsParsedFrom(s, term, k) ==
    \A i \in k .. Len(s) + 1 : term[i] = parse_atomic_term(s, term, i)

LEMMA ParsedFinds ==
    ASSUME NEW s, TokenList(s), NEW term, NEW k \in 1 .. Len(s) + 1, IsParsedFrom(s, term, k)
    PROVE  FindsFrom(s, term, k)
  <1> DEFINE M == Len(s) + 1
             H == {n \in 0 .. M - k + 1 : FindsFrom(s, term, M + 1 - n)}
  <1>1. M \in Nat /\ k \in 1 .. M /\ M - k + 1 \in Nat
    BY DEF TokenList
  <1>2. 0 \in H
    BY <1>1 DEF FindsFrom
  <1>3. ASSUME NEW n \in 1 .. M - k + 1, n - 1 \in H
        PROVE  n \in H
    <2> DEFINE m == M + 1 - n
    <2>1. m \in k .. M /\ m \in 1 .. M /\ M + 1 - (n - 1) = m + 1
      BY <1>1
    <2>2. FindsFrom(s, term, m + 1)
      BY <1>3, <2>1
    <2>3. term[m] \in Forward(s, m)
      BY <2>1, <2>2, TermType DEF IsParsedFrom
    <2>4. \A i \in m .. M : i = m \/ i \in m + 1 .. M
      BY <2>1
    <2>5. FindsFrom(s, term, m)
      BY <2>2, <2>3, <2>4 DEF FindsFrom
    <2> QED
      BY <2>5
  <1> HIDE DEF H
  <1>4. 0 .. M - k + 1 \subseteq H
    BY <1>1, <1>2, <1>3, Upwards
  <1>5. M - k + 1 \in H /\ M + 1 - (M - k + 1) = k
    BY <1>1, <1>4
  <1> QED
    BY <1>5 DEF H

LEMMA TermsExist ==
    ASSUME NEW s, TokenList(s)
    PROVE  IsParsedFrom(s, Terms(s), 1) /\ FindsFrom(s, Terms(s), 1)
  <1> DEFINE M == Len(s) + 1
             Parse(term) == [k \in 1 .. M |-> parse_atomic_term(s, term, k)]
             H == {n \in 0 .. M : \E term : term = [k \in 1 .. M |-> term[k]]
                                            /\ IsParsedFrom(s, term, M + 1 - n)}
  <1>1. M \in Nat /\ M >= 1
    BY DEF TokenList
  <1>2. 0 \in H
    <2>1. LET term == [k \in 1 .. M |-> k]
          IN  term = [k \in 1 .. M |-> term[k]] /\ IsParsedFrom(s, term, M + 1 - 0)
      BY <1>1 DEF IsParsedFrom
    <2> QED
      BY <1>1, <2>1
  <1>3. ASSUME NEW n \in 1 .. M, n - 1 \in H
        PROVE  n \in H
    <2> DEFINE m == M + 1 - n
    <2>1. m \in 1 .. M /\ M + 1 - (n - 1) = m + 1
      BY <1>1
    <2>2. PICK term : term = [k \in 1 .. M |-> term[k]] /\ IsParsedFrom(s, term, m + 1)
      BY <1>3, <2>1
    <2> HIDE DEF m
    <2>3. FindsFrom(s, term, m + 1)
      <3>1. CASE m + 1 \in 1 .. M
        BY <2>2, <3>1, ParsedFinds
      <3>2. CASE m = M
        BY <1>1, <3>2 DEF FindsFrom
      <3> QED
        BY <1>1, <2>1, <3>1, <3>2
    <2> DEFINE new == [k \in 1 .. M |-> IF k = m THEN parse_atomic_term(s, term, m) ELSE term[k]]
    <2>4. \A i \in m + 1 .. M : new[i] = term[i]
      BY <1>1, <2>1
    <2>5. new[m] = parse_atomic_term(s, term, m)
      BY <2>1
    <2>6. new = [k \in 1 .. M |-> new[k]]
      OBVIOUS
    <2> HIDE DEF new
    <2>7. ASSUME NEW i \in m .. M
          PROVE  new[i] = parse_atomic_term(s, new, i)
      <3>1. i \in 1 .. M /\ FindsFrom(s, term, i + 1) /\ \A j \in i + 1 .. M : new[j] = term[j]
        BY <1>1, <2>1, <2>3, <2>4 DEF FindsFrom
      <3>2. parse_atomic_term(s, new, i) = parse_atomic_term(s, term, i)
        BY <3>1, TermLocal
      <3>3. i = m \/ i \in m + 1 .. M
        BY <1>1, <2>1
      <3>4. new[i] = parse_atomic_term(s, term, i)
        BY <2>2, <2>4, <2>5, <3>3 DEF IsParsedFrom
      <3> QED
        BY <3>2, <3>4
    <2>8. IsParsedFrom(s, new, m)
      BY <2>7 DEF IsParsedFrom
    <2> QED
      BY <2>6, <2>8 DEF m
  <1> HIDE DEF H
  <1>4. 0 .. M \subseteq H
    BY <1>1, <1>2, <1>3, Upwards
  <1>5. M \in H /\ M + 1 - M = 1
    BY <1>1, <1>4
  <1>6. PICK term : term = [k \in 1 .. M |-> term[k]] /\ IsParsedFrom(s, term, 1)
    BY <1>5 DEF H
  <1>7. term = Parse(term)
    BY <1>6 DEF IsParsedFrom
  <1>8. Terms(s) = CHOOSE t : t = Parse(t)
    BY Zenon DEF Terms
  <1>9. Terms(s) = Parse(Terms(s))
    BY <1>7, <1>8
  <1>10. IsParsedFrom(s, Terms(s), 1)
    BY <1>9 DEF IsParsedFrom
  <1> QED
    BY <1>1, <1>10, ParsedFinds

-----------------------------------------------------------------------------
(* What tokens mean: the grammar's recursion ends as well.                 *)

LEMMA MeaningsLocal ==
    ASSUME NEW s, TokenList(s), NEW of, NEW other,
           NEW i \in 1 .. Len(s) + 1, NEW j \in 0 .. Len(s),
           \A a \in 1 .. Len(s) + 1, b \in 0 .. Len(s) : b - a < j - i => other[<<a, b>>] = of[<<a, b>>]
    PROVE  /\ TermMeanings(s, other, i, j) = TermMeanings(s, of, i, j)
           /\ ExpressionMeanings(s, other, i, j) = ExpressionMeanings(s, of, i, j)
  <1>1. Len(s) \in Nat
    BY DEF TokenList
  <1>2. TermMeanings(s, other, i, j) = TermMeanings(s, of, i, j)
    <2>1. CASE i < j
      <3>1. other[<<i + 1, j>>] = of[<<i + 1, j>>] /\ other[<<i + 1, j - 1>>] = of[<<i + 1, j - 1>>]
        BY <1>1, <2>1
      <3> QED
        BY Zenon, <3>1 DEF TermMeanings
    <2>2. CASE ~(i < j)
      BY Zenon, <2>2 DEF TermMeanings
    <2> QED
      BY <2>1, <2>2
  <1>3. \A k \in i + 1 .. j - 1 : /\ other[<<i, k - 1>>] = of[<<i, k - 1>>]
                                  /\ other[<<k + 1, j>>] = of[<<k + 1, j>>]
    BY <1>1
  <1>4. ExpressionMeanings(s, other, i, j) = ExpressionMeanings(s, of, i, j)
    <2> DEFINE K == {k \in i + 1 .. j - 1 : IsArithmetic(s, k)}
               Split(f, k) == Operations(f[<<i, k - 1>>].expression, Tok(s, k).v, f[<<k + 1, j>>].term)
    <2>1. \A k \in K : Split(other, k) = Split(of, k)
      BY <1>3
    <2>2. {Split(other, k) : k \in K} = {Split(of, k) : k \in K}
      <3> HIDE DEF K, Split
      <3> QED
        BY <2>1
    <2> QED
      BY Zenon, <1>2, <2>2 DEF ExpressionMeanings
  <1> QED
    BY <1>2, <1>4

LEMMA MeaningsExist ==
    ASSUME NEW s, TokenList(s), NEW i \in 1 .. Len(s) + 1, NEW j \in 0 .. Len(s)
    PROVE  /\ Meanings(s)[<<i, j>>].term = TermMeanings(s, Meanings(s), i, j)
           /\ Meanings(s)[<<i, j>>].expression = ExpressionMeanings(s, Meanings(s), i, j)
  <1> DEFINE N == Len(s)
             Mean(of, a, b) == [term |-> TermMeanings(s, of, a, b),
                                expression |-> ExpressionMeanings(s, of, a, b)]
             Table(of) == [p \in Spans(s) |-> Mean(of, p[1], p[2])]
             Upto(of, n) == \A a \in 1 .. N + 1, b \in 0 .. N :
                                b - a + N + 1 < n => of[<<a, b>>] = Mean(of, a, b)
             H == {n \in 0 .. 2 * N + 2 : \E of : Upto(of, n)}
  <1> HIDE DEF Mean
  <1>1. N \in Nat /\ Spans(s) = (1 .. N + 1) \X (0 .. N)
    BY DEF TokenList, Spans
  <1>2. 0 \in H
    <2>1. Upto(s, 0)
      <3>1. \A a \in 1 .. N + 1, b \in 0 .. N : ~(b - a + N + 1 < 0)
        <4> HIDE DEF N
        <4> QED
          BY <1>1
      <3> QED
        BY Zenon, <3>1
    <2>2. 0 \in 0 .. 2 * N + 2
      <3> HIDE DEF N
      <3> QED
        BY <1>1
    <2> HIDE DEF Upto
    <2> QED
      BY Zenon, <2>1, <2>2
  <1>3. ASSUME NEW n \in 1 .. 2 * N + 2, n - 1 \in H
        PROVE  n \in H
    <2>1. PICK of : \A a \in 1 .. N + 1, b \in 0 .. N : b - a + N + 1 < n - 1 => of[<<a, b>>] = Mean(of, a, b)
      BY <1>3
    <2> DEFINE new == Table(of)
    <2>2. \A a \in 1 .. N + 1, b \in 0 .. N : new[<<a, b>>] = Mean(of, a, b)
      <3> TAKE a \in 1 .. N + 1, b \in 0 .. N
      <3>1. <<a, b>> \in Spans(s)
        BY <1>1
      <3> QED
        BY <3>1
    <2> HIDE DEF new
    <2>3. ASSUME NEW a \in 1 .. N + 1, NEW b \in 0 .. N, b - a + N + 1 < n
          PROVE  new[<<a, b>>] = Mean(new, a, b)
      <3>1. \A c \in 1 .. N + 1, d \in 0 .. N : d - c < b - a => new[<<c, d>>] = of[<<c, d>>]
        BY <1>1, <2>1, <2>2, <2>3
      <3>2. Mean(new, a, b) = Mean(of, a, b)
        <4>1. /\ TermMeanings(s, new, a, b) = TermMeanings(s, of, a, b)
              /\ ExpressionMeanings(s, new, a, b) = ExpressionMeanings(s, of, a, b)
          BY <3>1, MeaningsLocal
        <4> QED
          BY Zenon, <4>1 DEF Mean
      <3> QED
        BY <2>2, <3>2
    <2>4. Upto(new, n)
      BY <2>3
    <2> HIDE DEF Upto
    <2> QED
      BY <1>1, <2>4
  <1> HIDE DEF H
  <1>4. 2 * N + 2 \in H
    <2>1. 2 * N + 2 \in Nat /\ 2 * N + 2 \in 0 .. 2 * N + 2
      BY <1>1
    <2>2. 0 .. 2 * N + 2 \subseteq H
      BY <1>2, <1>3, <2>1, Upwards
    <2> QED
      BY <2>1, <2>2
  <1>5. PICK of : Upto(of, 2 * N + 2)
    BY <1>4 DEF H
  <1>6. \A a \in 1 .. N + 1, b \in 0 .. N : of[<<a, b>>] = Mean(of, a, b)
    <2> TAKE a \in 1 .. N + 1, b \in 0 .. N
    <2>1. b - a + N + 1 < 2 * N + 2
      BY <1>1
    <2> QED
      BY <1>5, <2>1
  <1> DEFINE new == Table(of)
  <1>7. \A a \in 1 .. N + 1, b \in 0 .. N : new[<<a, b>>] = of[<<a, b>>]
    <2> TAKE a \in 1 .. N + 1, b \in 0 .. N
    <2>1. <<a, b>> \in Spans(s)
      BY <1>1
    <2> QED
      BY <1>6, <2>1
  <1>8. \A a \in 1 .. N + 1, b \in 0 .. N : Mean(new, a, b) = Mean(of, a, b)
    <2> TAKE a \in 1 .. N + 1, b \in 0 .. N
    <2> HIDE DEF new
    <2>1. /\ TermMeanings(s, new, a, b) = TermMeanings(s, of, a, b)
          /\ ExpressionMeanings(s, new, a, b) = ExpressionMeanings(s, of, a, b)
      BY <1>7, MeaningsLocal
    <2> QED
      BY Zenon, <2>1 DEF Mean
  <1>9. new = Table(new)
    <2>1. \A p \in Spans(s) : Mean(of, p[1], p[2]) = Mean(new, p[1], p[2])
      <3> HIDE DEF new
      <3> QED
        BY <1>1, <1>8
    <2> QED
      BY <2>1
  <1> HIDE DEF Table
  <1>10. Meanings(s) = CHOOSE f : f = Table(f)
    BY Zenon DEF Meanings, Table, Mean
  <1>11. Meanings(s) = Table(Meanings(s))
    BY <1>9, <1>10
  <1>12. Meanings(s)[<<i, j>>] = Mean(Meanings(s), i, j)
    <2>1. <<i, j>> \in Spans(s)
      BY <1>1
    <2> QED
      BY <1>11, <2>1 DEF Table
  <1> QED
    BY <1>12 DEF Mean

-----------------------------------------------------------------------------
(* What tokens i .. j mean is what the parser finds when it starts at i.   *)

(* A meaning has no position; found in tokens .. j it is followed by j + 1.*)
Bare == {r \in Outcomes : r.next = 0 /\ (IsOk(r) \/ r = Err(r.st, r.reads))}
Found(m, j) == IF IsOk(m) THEN Ok(m.val, m.reads, j + 1) ELSE m

TermFound(s, i, j) ==
    \A m \in Meanings(s)[<<i, j>>].term : m \in Bare /\ Terms(s)[i] = Found(m, j)
ExpressionFound(s, i, j) ==
    \A m \in Meanings(s)[<<i, j>>].expression :
        m \in Bare /\ \E n \in 0 .. j - i : Turns(s, Terms(s), i)[n] = Found(m, j)

LEMMA OkBare ==
    ASSUME NEW v \in Words, NEW reads \in Seq(Words), NEW j
    PROVE  Ok(v, reads, 0) \in Bare /\ Found(Ok(v, reads, 0), j) = Ok(v, reads, j + 1)
  <1>1. /\ Ok(v, reads, 0) \in Outcomes /\ IsOk(Ok(v, reads, 0))
        /\ Ok(v, reads, 0).val = v /\ Ok(v, reads, 0).reads = reads /\ Ok(v, reads, 0).next = 0
    BY OkType
  <1> QED
    BY <1>1 DEF Bare, Found

LEMMA ErrBare ==
    ASSUME NEW e \in Statuses, e # "ok", NEW reads \in Seq(Words), NEW j
    PROVE  Err(e, reads) \in Bare /\ Found(Err(e, reads), j) = Err(e, reads)
  BY ErrType DEF Bare, Found

LEMMA BareFields ==
    ASSUME NEW m \in Bare, NEW j
    PROVE  /\ m.st \in Statuses /\ m.val \in Words /\ m.reads \in Seq(Words)
           /\ IsOk(m) => m = Ok(m.val, m.reads, 0) /\ Found(m, j) = Ok(m.val, m.reads, j + 1)
           /\ ~IsOk(m) => m.st # "ok" /\ m = Err(m.st, m.reads) /\ Found(m, j) = m
           /\ IsOk(Found(m, j)) <=> IsOk(m)
           /\ Found(m, j).val = m.val /\ Found(m, j).reads = m.reads
           /\ IsOk(m) => Found(m, j).next = j + 1
  <1>1. m \in Outcomes /\ m.next = 0 /\ (IsOk(m) \/ m = Err(m.st, m.reads))
    BY DEF Bare
  <1>2. CASE IsOk(m)
    BY <1>1, <1>2, OutcomeFields DEF Found, Ok, IsOk
  <1>3. CASE ~IsOk(m)
    BY <1>1, <1>3, OutcomeFields DEF Found, IsOk
  <1> QED
    BY <1>2, <1>3

(* The parser's table at every token.                                      *)
LEMMA TermsFacts ==
    ASSUME NEW s, TokenList(s), NEW i \in 1 .. Len(s) + 1
    PROVE  /\ Terms(s)[i] = parse_atomic_term(s, Terms(s), i)
           /\ Terms(s)[i] \in Forward(s, i)
           /\ FindsFrom(s, Terms(s), i) /\ FindsFrom(s, Terms(s), i + 1)
  BY TermsExist DEF IsParsedFrom, FindsFrom, TokenList

LEMMA TermMeaningCases ==
    ASSUME NEW s, NEW of, NEW i \in Int, NEW j \in Int, NEW m \in TermMeanings(s, of, i, j)
    PROVE  \/ i = j /\ Kind(s, i, "literal") /\ m = Ok(Tok(s, i).v, <<>>, 0)
           \/ i = j /\ IsName(s, i) /\ m = IF Tok(s, i).v \in DOMAIN Bindings
                                           THEN Ok(Bindings[Tok(s, i).v], <<>>, 0)
                                           ELSE Err("UnknownSymbol", <<>>)
           \/ i < j /\ IsPeek(s, i) /\ \E a \in of[<<i + 1, j>>].term : m = Reading(a)
           \/ i < j /\ IsSymbol(s, i, "(") /\ IsSymbol(s, j, ")") /\ m \in of[<<i + 1, j - 1>>].expression
  <1>1. CASE i = j
    <2>1. m \in TokenMeanings(s, i)
      BY <1>1 DEF TermMeanings
    <2> QED
      BY Zenon, <1>1, <2>1 DEF TokenMeanings, IsName
  <1>2. CASE i < j
    <2>1. i # j
      BY <1>2
    <2> QED
      BY Zenon, <1>2, <2>1 DEF TermMeanings, IsPeek
  <1>3. CASE ~(i < j) /\ i # j
    BY Zenon, <1>3 DEF TermMeanings
  <1> QED
    BY <1>1, <1>2, <1>3

(* A value of the grammar, and what the parser makes of it.                *)
LEMMA ReadingFound ==
    ASSUME NEW a \in Bare, NEW j
    PROVE  /\ Reading(a) \in Bare
           /\ Found(Reading(a), j) = IF IsOk(a) THEN Ok(Memory[a.val], Append(a.reads, a.val), j + 1)
                                     ELSE a
  <1>1. CASE IsOk(a)
    <2> DEFINE v == Memory[a.val]
               reads == Append(a.reads, a.val)
    <2>1. v \in Words /\ reads \in Seq(Words)
      BY BareFields, ExpressionsAssumption
    <2>2. Reading(a) = Ok(v, reads, 0)
      BY <1>1 DEF Reading
    <2> HIDE DEF v, reads
    <2>3. Ok(v, reads, 0) \in Bare /\ Found(Ok(v, reads, 0), j) = Ok(v, reads, j + 1)
      BY <2>1, OkBare
    <2> QED
      BY <1>1, <2>2, <2>3 DEF v, reads
  <1>2. CASE ~IsOk(a)
    BY <1>2, BareFields DEF Reading
  <1> QED
    BY <1>1, <1>2

(* A term is found when its parts are.                                     *)
LEMMA TermIsFound ==
    ASSUME NEW s, TokenList(s), NEW i \in 1 .. Len(s) + 1, NEW j \in 0 .. Len(s),
           \A a \in 1 .. Len(s) + 1, b \in 0 .. Len(s) :
               b - a < j - i => TermFound(s, a, b) /\ ExpressionFound(s, a, b)
    PROVE  TermFound(s, i, j)
  <1> DEFINE N == Len(s)
             of == Meanings(s)
             term == Terms(s)
             r == parse_atomic_term(s, term, i)
  <1> SUFFICES ASSUME NEW m \in of[<<i, j>>].term
               PROVE  m \in Bare /\ term[i] = Found(m, j)
    BY DEF TermFound
  <1>1. N \in Nat /\ i \in 1 .. N + 1 /\ j \in 0 .. N /\ i \in Int /\ j \in Int
    BY DEF TokenList
  <1>2. m \in TermMeanings(s, of, i, j)
    BY MeaningsExist
  <1>3. term[i] = r /\ FindsFrom(s, term, i + 1)
    BY TermsFacts
  <1>4. CASE i = j /\ Kind(s, i, "literal") /\ m = Ok(Tok(s, i).v, <<>>, 0)
    <2> DEFINE v == Tok(s, i).v
    <2>1. v \in Words
      BY <1>1, <1>4 DEF TokenList, Tok
    <2>2. r = Ok(v, <<>>, j + 1) /\ m = Ok(v, <<>>, 0)
      BY <1>3, <1>4, TermCases
    <2> HIDE DEF v, r
    <2>3. Ok(v, <<>>, 0) \in Bare /\ Found(Ok(v, <<>>, 0), j) = Ok(v, <<>>, j + 1)
      BY <2>1, NoReads, OkBare
    <2> QED
      BY <1>3, <2>2, <2>3
  <1>5. CASE /\ i = j /\ IsName(s, i)
             /\ m = IF Tok(s, i).v \in DOMAIN Bindings THEN Ok(Bindings[Tok(s, i).v], <<>>, 0)
                    ELSE Err("UnknownSymbol", <<>>)
    <2>1. r = NameValue(s, i)
      BY <1>3, <1>5, TermCases
    <2>2. CASE Tok(s, i).v \in DOMAIN Bindings
      <3> DEFINE v == Bindings[Tok(s, i).v]
      <3>1. v \in Words
        BY <2>2, ExpressionsAssumption
      <3>2. r = Ok(v, <<>>, j + 1) /\ m = Ok(v, <<>>, 0)
        BY <1>5, <2>1, <2>2 DEF NameValue
      <3> HIDE DEF v, r
      <3>3. Ok(v, <<>>, 0) \in Bare /\ Found(Ok(v, <<>>, 0), j) = Ok(v, <<>>, j + 1)
        BY <3>1, NoReads, OkBare
      <3> QED
        BY <1>3, <3>2, <3>3
    <2>3. CASE Tok(s, i).v \notin DOMAIN Bindings
      <3>1. r = Err("UnknownSymbol", <<>>) /\ m = Err("UnknownSymbol", <<>>)
        BY <1>5, <2>1, <2>3 DEF NameValue
      <3> HIDE DEF r
      <3>2. /\ Err("UnknownSymbol", <<>>) \in Bare
            /\ Found(Err("UnknownSymbol", <<>>), j) = Err("UnknownSymbol", <<>>)
        BY NoReads, ErrBare, StatusNames
      <3> QED
        BY <1>3, <3>1, <3>2
    <2> QED
      BY <2>2, <2>3
  <1>6. CASE i < j /\ IsPeek(s, i) /\ \E a \in of[<<i + 1, j>>].term : m = Reading(a)
    <2>1. PICK a \in of[<<i + 1, j>>].term : m = Reading(a)
      BY <1>6
    <2>2. i + 1 \in 1 .. N + 1 /\ j - (i + 1) < j - i
      BY <1>1, <1>6
    <2>3. TermFound(s, i + 1, j)
      BY <1>1, <2>2
    <2>4. a \in Bare /\ term[i + 1] = Found(a, j)
      BY <2>3 DEF TermFound
    <2>5. r = LET b == term[i + 1]
              IN  IF IsOk(b) THEN Ok(Memory[b.val], Append(b.reads, b.val), b.next) ELSE b
      BY <1>3, <1>6, TermCases
    <2> HIDE DEF r, term, of
    <2>6. r = IF IsOk(a) THEN Ok(Memory[a.val], Append(a.reads, a.val), j + 1) ELSE a
      BY <2>4, <2>5, BareFields
    <2> QED
      BY <1>3, <2>1, <2>4, <2>6, ReadingFound
  <1>7. CASE /\ i < j /\ IsSymbol(s, i, "(") /\ IsSymbol(s, j, ")")
             /\ m \in of[<<i + 1, j - 1>>].expression
    <2> DEFINE e == eval_expr(s, term, i + 1)
               turn == Turns(s, term, i + 1)
    <2>1. i + 1 \in 1 .. N + 1 /\ j - 1 \in 0 .. N /\ j - 1 - (i + 1) < j - i
      BY <1>1, <1>7
    <2>2. ExpressionFound(s, i + 1, j - 1)
      BY <1>1, <2>1
    <2>3. PICK n \in 0 .. j - 1 - (i + 1) : turn[n] = Found(m, j - 1)
      BY <1>7, <2>2 DEF ExpressionFound
    <2>4. m \in Bare /\ n \in 0 .. N
      BY <1>1, <1>7, <2>2, <2>3 DEF ExpressionFound
    <2>5. r = IF ~IsOk(e) THEN e
              ELSE IF IsSymbol(s, e.next, ")") THEN Ok(e.val, e.reads, e.next + 1)
              ELSE Err("UnexpectedToken", e.reads)
      BY <1>3, <1>7, TermCases
    <2>6. ~IsOk(turn[n]) \/ ~IsArithmetic(s, turn[n].next)
      <3> HIDE DEF turn
      <3>1. IsOk(m) => turn[n].next = j
        BY <1>1, <2>3, <2>4, BareFields
      <3>2. ~IsArithmetic(s, j)
        <4>1. j \in Nat
          BY <1>1
        <4>2. IsSymbol(s, j, ")") => ~IsArithmetic(s, j)
          BY <4>1, TokenKinds
        <4> QED
          BY Zenon, <1>7, <4>2
      <3> QED
        BY <2>3, <2>4, <3>1, <3>2, BareFields
    <2>7. e = Found(m, j - 1)
      BY <1>3, <2>1, <2>3, <2>4, <2>6, LoopEnds
    <2> HIDE DEF r, e, term, of
    <2>8. /\ IsOk(e) <=> IsOk(m)
          /\ ~IsOk(m) => e = m
          /\ e.val = m.val /\ e.reads = m.reads /\ (IsOk(m) => e.next = j)
      <3> DEFINE h == j - 1
      <3>1. h + 1 = j /\ e = Found(m, h)
        BY <1>1, <2>7
      <3> HIDE DEF h
      <3>2. /\ IsOk(Found(m, h)) <=> IsOk(m)
            /\ ~IsOk(m) => Found(m, h) = m
            /\ Found(m, h).val = m.val /\ Found(m, h).reads = m.reads
            /\ IsOk(m) => Found(m, h).next = h + 1
        BY <2>4, BareFields
      <3> QED
        BY <3>1, <3>2
    <2>9. r = Found(m, j)
      BY <1>7, <2>4, <2>5, <2>8, BareFields
    <2> QED
      BY <1>3, <2>4, <2>9
  <1> QED
    BY <1>1, <1>2, <1>4, <1>5, <1>6, <1>7, TermMeaningCases

LEMMA OperationFound ==
    ASSUME NEW l \in Bare, NEW r \in Bare, NEW op \in Arithmetic, NEW j
    PROVE  LET m == Operation(l, op, r)
               reads == l.reads \o r.reads
           IN  /\ m \in Bare
               /\ Found(m, j) = IF ~IsOk(l) THEN l
                                ELSE IF ~IsOk(r) THEN Err(r.st, reads)
                                ELSE IF Undefined(op, r.val) THEN Err("DivByZero", reads)
                                ELSE Ok(Apply(op, l.val, r.val), reads, j + 1)
  <1> DEFINE m == Operation(l, op, r)
             reads == l.reads \o r.reads
             v == Apply(op, l.val, r.val)
  <1>1. /\ l.val \in Words /\ l.reads \in Seq(Words) /\ r.val \in Words /\ r.reads \in Seq(Words)
        /\ r.st \in Statuses
        /\ ~IsOk(r) => r.st # "ok"
    BY BareFields
  <1>2. reads \in Seq(Words)
    BY <1>1
  <1>3. m = IF ~IsOk(l) THEN l
            ELSE IF ~IsOk(r) THEN Err(r.st, reads)
            ELSE IF Undefined(op, r.val) THEN Err("DivByZero", reads)
            ELSE Ok(v, reads, 0)
    BY DEF Operation
  <1>4. ~Undefined(op, r.val) => v \in Words
    BY <1>1, ApplyType
  <1> SUFFICES /\ m \in Bare
               /\ Found(m, j) = IF ~IsOk(l) THEN l
                                ELSE IF ~IsOk(r) THEN Err(r.st, reads)
                                ELSE IF Undefined(op, r.val) THEN Err("DivByZero", reads)
                                ELSE Ok(v, reads, j + 1)
    OBVIOUS
  <1> HIDE DEF m, reads, v
  <1>5. CASE ~IsOk(l)
    BY <1>3, <1>5, BareFields
  <1>6. CASE IsOk(l) /\ ~IsOk(r)
    <2>1. Err(r.st, reads) \in Bare /\ Found(Err(r.st, reads), j) = Err(r.st, reads)
      BY <1>1, <1>2, <1>6, ErrBare
    <2> QED
      BY <1>3, <1>6, <2>1
  <1>7. CASE IsOk(l) /\ IsOk(r) /\ Undefined(op, r.val)
    <2>1. Err("DivByZero", reads) \in Bare /\ Found(Err("DivByZero", reads), j) = Err("DivByZero", reads)
      BY <1>2, ErrBare, StatusNames
    <2> QED
      BY <1>3, <1>7, <2>1
  <1>8. CASE IsOk(l) /\ IsOk(r) /\ ~Undefined(op, r.val)
    <2>1. Ok(v, reads, 0) \in Bare /\ Found(Ok(v, reads, 0), j) = Ok(v, reads, j + 1)
      BY <1>2, <1>4, <1>8, OkBare
    <2> QED
      BY <1>3, <1>8, <2>1
  <1> QED
    BY <1>5, <1>6, <1>7, <1>8

LEMMA TermSpan ==
    ASSUME NEW s, NEW of, NEW i \in Int, NEW j \in Int, NEW m \in TermMeanings(s, of, i, j)
    PROVE  i <= j
  <1>1. i = j \/ i < j
    BY Zenon, TermMeaningCases
  <1> QED
    BY <1>1

(* m is an operation in tokens i .. j, of what `of` gives for their parts. *)
IsOperation(s, of, i, j, m) ==
    \E k \in i + 1 .. j - 1 :
        /\ IsArithmetic(s, k)
        /\ \E l \in of[<<i, k - 1>>].expression, r \in of[<<k + 1, j>>].term :
              m = Operation(l, Tok(s, k).v, r)

LEMMA ExpressionMeaningCases ==
    ASSUME NEW s, NEW of, NEW i, NEW j, NEW m \in ExpressionMeanings(s, of, i, j)
    PROVE  m \in TermMeanings(s, of, i, j) \/ IsOperation(s, of, i, j, m)
  <1> DEFINE K == {k \in i + 1 .. j - 1 : IsArithmetic(s, k)}
             Split(k) == Operations(of[<<i, k - 1>>].expression, Tok(s, k).v, of[<<k + 1, j>>].term)
  <1> SUFFICES ASSUME m \notin TermMeanings(s, of, i, j) PROVE IsOperation(s, of, i, j, m)
    OBVIOUS
  <1>1. ExpressionMeanings(s, of, i, j) = TermMeanings(s, of, i, j) \cup UNION {Split(k) : k \in K}
    BY Zenon DEF ExpressionMeanings
  <1> HIDE DEF K, Split
  <1>2. PICK k \in K : m \in Split(k)
    BY <1>1
  <1>3. \E l \in of[<<i, k - 1>>].expression, r \in of[<<k + 1, j>>].term :
           m = Operation(l, Tok(s, k).v, r)
    BY <1>2 DEF Split, Operations
  <1> QED
    BY <1>3 DEF IsOperation, K

(* An expression is found when its parts are: the loop's next turn is the  *)
(* operation of the last one with the term behind the operator.            *)
LEMMA ExpressionIsFound ==
    ASSUME NEW s, TokenList(s), NEW i \in 1 .. Len(s) + 1, NEW j \in 0 .. Len(s),
           \A a \in 1 .. Len(s) + 1, b \in 0 .. Len(s) :
               b - a < j - i => TermFound(s, a, b) /\ ExpressionFound(s, a, b),
           TermFound(s, i, j)
    PROVE  ExpressionFound(s, i, j)
  <1> DEFINE N == Len(s)
             of == Meanings(s)
             term == Terms(s)
             turn == Turns(s, term, i)
  <1> SUFFICES ASSUME NEW m \in of[<<i, j>>].expression
               PROVE  m \in Bare /\ \E n \in 0 .. j - i : turn[n] = Found(m, j)
    BY DEF ExpressionFound
  <1>1. N \in Nat /\ i \in 1 .. N + 1 /\ j \in 0 .. N /\ i \in Int /\ j \in Int
    BY DEF TokenList
  <1>2. m \in ExpressionMeanings(s, of, i, j) /\ of[<<i, j>>].term = TermMeanings(s, of, i, j)
    BY MeaningsExist
  <1>3. FindsFrom(s, term, i)
    BY TermsFacts
  <1>4. turn[0] = term[i]
    BY <1>3, TurnsExist
  <1>5. \A n \in 1 .. N : turn[n] = Operate(s, term)[turn[n - 1]]
    BY <1>3, TurnsExist
  <1>6. \A n \in 0 .. N : turn[n] \in Forward(s, i)
    BY <1>3, TurnsExist
  <1>7. CASE m \in TermMeanings(s, of, i, j)
    <2>1. i <= j
      BY <1>1, <1>7, TermSpan
    <2>2. m \in Bare /\ term[i] = Found(m, j)
      BY <1>2, <1>7 DEF TermFound
    <2>3. 0 \in 0 .. j - i
      BY <1>1, <2>1
    <2> QED
      BY <1>4, <2>2, <2>3
  <1>8. CASE IsOperation(s, of, i, j, m)
    <2>0. PICK k \in i + 1 .. j - 1 :
             IsArithmetic(s, k) /\ \E l \in of[<<i, k - 1>>].expression, r \in of[<<k + 1, j>>].term :
                                       m = Operation(l, Tok(s, k).v, r)
      BY <1>8 DEF IsOperation
    <2>1. PICK l \in of[<<i, k - 1>>].expression, r \in of[<<k + 1, j>>].term :
             IsArithmetic(s, k) /\ m = Operation(l, Tok(s, k).v, r)
      BY <2>0
    <2> DEFINE op == Tok(s, k).v
               h == k - 1
    <2>2. k \in 1 .. N /\ h \in 0 .. N /\ k + 1 \in 1 .. N + 1 /\ h + 1 = k
          /\ h - i < j - i /\ j - (k + 1) < j - i
      BY <1>1
    <2>3. ExpressionFound(s, i, h) /\ TermFound(s, k + 1, j)
      BY <1>1, <2>2
    <2>4. PICK n \in 0 .. h - i : turn[n] = Found(l, h)
      BY <2>3 DEF ExpressionFound
    <2>5. l \in Bare /\ r \in Bare /\ term[k + 1] = Found(r, j) /\ op \in Arithmetic
      BY <2>1, <2>3 DEF ExpressionFound, TermFound, IsArithmetic
    <2>6. n \in 0 .. j - i /\ n + 1 \in 0 .. j - i /\ n \in 0 .. N /\ n + 1 \in 1 .. N /\ n + 1 - 1 = n
      <3>1. n \in Nat /\ n <= h - i /\ h \in Int
        BY <1>1, <2>2
      <3>2. h - i < j - i /\ j - i < N
        BY <1>1, <2>2
      <3> HIDE DEF h, turn, N
      <3>3. n + 1 <= j - i /\ n + 1 <= N
        BY <1>1, <3>1, <3>2
      <3>4. n <= j - i /\ n <= N /\ n + 1 - 1 = n /\ n + 1 \in Nat /\ 1 <= n + 1
        BY <1>1, <3>1, <3>3
      <3>5. j - i \in Int /\ N \in Int
        BY <1>1
      <3>6. n \in 0 .. j - i /\ n + 1 \in 0 .. j - i
        BY <3>1, <3>3, <3>4, <3>5
      <3>7. n \in 0 .. N /\ n + 1 \in 1 .. N
        BY <3>1, <3>3, <3>4, <3>5
      <3> QED
        BY <3>4, <3>6, <3>7
    <2>7. CASE ~IsOk(l)
      <3>1. m = l
        BY <2>1, <2>7 DEF Operation
      <3>2. turn[n] = Found(m, j)
        BY <2>4, <2>5, <2>7, <3>1 DEF Found
      <3> QED
        BY <2>5, <2>6, <3>1, <3>2
    <2>8. CASE IsOk(l)
      <3> DEFINE acc == turn[n]
                 after == Operate(s, term)[acc]
                 right == term[acc.next + 1]
                 reads == acc.reads \o right.reads
      <3>1. after = turn[n + 1]
        BY <1>5, <2>6
      <3>2. IsOk(acc) /\ acc.next = k /\ acc.val = l.val /\ acc.reads = l.reads
        <4> HIDE DEF h, turn
        <4>1. /\ IsOk(Found(l, h)) /\ Found(l, h).next = h + 1
              /\ Found(l, h).val = l.val /\ Found(l, h).reads = l.reads
          BY <2>5, <2>8, BareFields
        <4> QED
          BY <2>2, <2>4, <4>1
      <3>3. acc \in Forward(s, i)
        BY <1>6, <2>6
      <3>4. LET o == Tok(s, acc.next).v
            IN  /\ ~IsOk(right) => after = Err(right.st, reads)
                /\ IsOk(right) /\ Undefined(o, right.val) => after = Err("DivByZero", reads)
                /\ IsOk(right) /\ ~Undefined(o, right.val) =>
                      after = Ok(Apply(o, acc.val, right.val), reads, right.next)
        <4> HIDE DEF acc, term
        <4>1. IsArithmetic(s, acc.next)
          BY <2>1, <3>2
        <4> QED
          BY <1>3, <3>2, <3>3, <4>1, OperateCases DEF term
      <3>5. right = Found(r, j)
        BY <2>5, <3>2
      <3>6. /\ IsOk(right) <=> IsOk(r)
            /\ ~IsOk(r) => right.st = r.st
            /\ right.val = r.val /\ right.reads = r.reads /\ (IsOk(r) => right.next = j + 1)
        BY <2>5, <3>5, BareFields
      <3>7. reads = l.reads \o r.reads
        BY <3>2, <3>6
      <3> HIDE DEF after, right, reads, acc
      <3> DEFINE all == l.reads \o r.reads
      <3>8. /\ m \in Bare
            /\ Found(m, j) = IF ~IsOk(r) THEN Err(r.st, all)
                             ELSE IF Undefined(op, r.val) THEN Err("DivByZero", all)
                             ELSE Ok(Apply(op, l.val, r.val), all, j + 1)
        BY <2>1, <2>5, <2>8, OperationFound
      <3> HIDE DEF all, turn, h
      <3>9. after = Found(m, j)
        BY <3>2, <3>4, <3>6, <3>7, <3>8 DEF all
      <3> QED
        BY <2>6, <3>1, <3>8, <3>9
    <2> QED
      BY <2>7, <2>8
  <1> HIDE DEF turn, of, term
  <1> QED
    BY <1>2, <1>7, <1>8, ExpressionMeaningCases

(* Whatever tokens i .. j mean, the parser finds that at token i.          *)
LEMMA MeaningIsFound ==
    ASSUME NEW s, TokenList(s), NEW i \in 1 .. Len(s) + 1, NEW j \in 0 .. Len(s)
    PROVE  TermFound(s, i, j) /\ ExpressionFound(s, i, j)
  <1> DEFINE N == Len(s)
             Upto(n) == \A a \in 1 .. N + 1, b \in 0 .. N :
                            b - a + N + 1 < n => TermFound(s, a, b) /\ ExpressionFound(s, a, b)
             H == {n \in 0 .. 2 * N + 2 : Upto(n)}
  <1>1. N \in Nat /\ 2 * N + 2 \in Nat
    BY DEF TokenList
  <1>2. 0 \in H
    BY <1>1
  <1>3. ASSUME NEW n \in 1 .. 2 * N + 2, n - 1 \in H
        PROVE  n \in H
    <2>1. ASSUME NEW a \in 1 .. N + 1, NEW b \in 0 .. N, b - a + N + 1 < n
          PROVE  TermFound(s, a, b) /\ ExpressionFound(s, a, b)
      <3>1. \A c \in 1 .. N + 1, d \in 0 .. N :
               d - c < b - a => TermFound(s, c, d) /\ ExpressionFound(s, c, d)
        BY <1>1, <1>3, <2>1
      <3>2. TermFound(s, a, b)
        BY <3>1, TermIsFound
      <3> QED
        BY <3>1, <3>2, ExpressionIsFound
    <2>2. Upto(n)
      BY <2>1
    <2> HIDE DEF Upto
    <2> QED
      BY <1>1, <2>2
  <1> HIDE DEF H
  <1>4. 0 .. 2 * N + 2 \subseteq H
    BY <1>1, <1>2, <1>3, Upwards
  <1>5. Upto(2 * N + 2)
    BY <1>1, <1>4 DEF H
  <1>6. j - i + N + 1 < 2 * N + 2
    BY <1>1
  <1> QED
    BY <1>5, <1>6

-----------------------------------------------------------------------------
(* What the parser finds is a meaning of the tokens it took.               *)

NoSemicolon(s, i, j) == \A k \in i .. j : ~IsSymbol(s, k, ";")

TermMeans(s, i) ==
    IsOk(Terms(s)[i]) =>
        \E j \in i .. Len(s) : /\ Terms(s)[i].next = j + 1
                               /\ NoSemicolon(s, i, j)
                               /\ Meanings(s)[<<i, j>>].term # {}
ExpressionMeans(s, i) ==
    \A n \in 0 .. Len(s) : LET r == Turns(s, Terms(s), i)[n]
                           IN  IsOk(r) => \E j \in i .. Len(s) :
                                              /\ r.next = j + 1
                                              /\ NoSemicolon(s, i, j)
                                              /\ Meanings(s)[<<i, j>>].expression # {}

(* Meanings of each kind of term.                                          *)
LEMMA TokenHasMeaning ==
    ASSUME NEW s, NEW of, NEW i \in Nat, Kind(s, i, "literal") \/ IsName(s, i)
    PROVE  TermMeanings(s, of, i, i) # {}
  <1>1. TermMeanings(s, of, i, i) = TokenMeanings(s, i)
    <2>1. ~(i < i)
      OBVIOUS
    <2> QED
      BY Zenon, <2>1 DEF TermMeanings
  <1>2. CASE Kind(s, i, "literal")
    <2>1. ~Kind(s, i, "identifier")
      BY <1>2 DEF Kind
    <2>2. TokenMeanings(s, i) = {Ok(Tok(s, i).v, <<>>, 0)}
      BY Zenon, <1>2, <2>1 DEF TokenMeanings
    <2> QED
      BY Zenon, <1>1, <2>2
  <1>3. CASE IsName(s, i)
    <2>1. ~Kind(s, i, "literal")
      BY <1>3 DEF IsName, Kind
    <2> DEFINE m == IF Tok(s, i).v \in DOMAIN Bindings THEN Ok(Bindings[Tok(s, i).v], <<>>, 0)
                    ELSE Err("UnknownSymbol", <<>>)
    <2>2. TokenMeanings(s, i) = {m}
      BY Zenon, <1>3, <2>1 DEF TokenMeanings, IsName
    <2> HIDE DEF m
    <2> QED
      BY Zenon, <1>1, <2>2
  <1> QED
    BY <1>2, <1>3

LEMMA PeekMeanings ==
    ASSUME NEW s, NEW of, NEW i \in Nat, NEW j \in Nat, i < j, IsPeek(s, i)
    PROVE  of[<<i + 1, j>>].term # {} => TermMeanings(s, of, i, j) # {}
  <1>1. ~(i = j) /\ ~IsSymbol(s, i, "(")
    BY DEF IsPeek, Kind, IsSymbol
  <1>2. TermMeanings(s, of, i, j) = {Reading(a) : a \in of[<<i + 1, j>>].term}
    BY Zenon, <1>1 DEF TermMeanings, IsPeek
  <1> QED
    BY <1>2

LEMMA ParenthesisMeanings ==
    ASSUME NEW s, NEW of, NEW i \in Nat, NEW j \in Nat, i < j,
           IsSymbol(s, i, "("), IsSymbol(s, j, ")")
    PROVE  TermMeanings(s, of, i, j) = of[<<i + 1, j - 1>>].expression
  <1>1. ~(i = j) /\ ~Kind(s, i, "identifier")
    BY DEF Kind, IsSymbol
  <1> QED
    BY Zenon, <1>1 DEF TermMeanings

(* No semicolon is part of an expression.                                  *)
LEMMA NotSemicolon ==
    ASSUME NEW s, NEW k,
           \/ Kind(s, k, "literal") \/ IsName(s, k) \/ IsPeek(s, k)
           \/ IsSymbol(s, k, "(") \/ IsSymbol(s, k, ")") \/ IsArithmetic(s, k)
    PROVE  ~IsSymbol(s, k, ";")
  <1>1. CASE Kind(s, k, "literal")
    BY <1>1 DEF IsSymbol, Kind
  <1>2. CASE IsName(s, k) \/ IsPeek(s, k)
    BY <1>2 DEF IsSymbol, Kind, IsName, IsPeek
  <1>3. CASE IsSymbol(s, k, "(") \/ IsSymbol(s, k, ")")
    BY <1>3 DEF IsSymbol
  <1>4. CASE IsArithmetic(s, k)
    BY <1>4 DEF IsSymbol, IsArithmetic, Arithmetic
  <1> QED
    BY <1>1, <1>2, <1>3, <1>4

LEMMA TermIsMeaning ==
    ASSUME NEW s, TokenList(s), NEW i \in 1 .. Len(s) + 1,
           \A a \in i + 1 .. Len(s) + 1 : TermMeans(s, a) /\ ExpressionMeans(s, a)
    PROVE  TermMeans(s, i)
  <1> DEFINE N == Len(s)
             term == Terms(s)
             r == parse_atomic_term(s, term, i)
  <1> SUFFICES ASSUME IsOk(term[i])
               PROVE  \E j \in i .. N : /\ term[i].next = j + 1
                                        /\ NoSemicolon(s, i, j)
                                        /\ Meanings(s)[<<i, j>>].term # {}
    BY DEF TermMeans
  <1>1. N \in Nat /\ i \in Nat /\ i \in 1 .. N + 1
    BY DEF TokenList
  <1>2. term[i] = r /\ r \in Forward(s, i) /\ IsOk(r) /\ FindsFrom(s, term, i + 1)
    BY TermsFacts
  <1>3. i \in 1 .. N /\ i + 1 \in 1 .. N + 1 /\ i + 1 \in i + 1 .. N + 1
    BY <1>1, <1>2 DEF Forward
  <1>4. ASSUME NEW j \in i .. N
        PROVE  Meanings(s)[<<i, j>>].term = TermMeanings(s, Meanings(s), i, j)
    <2>1. j \in 0 .. N
      BY <1>1
    <2> QED
      BY <2>1, MeaningsExist
  <1>5. CASE Kind(s, i, "literal")
    <2>1. r = Ok(Tok(s, i).v, <<>>, i + 1)
      BY <1>2, <1>5, TermCases
    <2>2. r.next = i + 1
      BY <2>1 DEF Ok
    <2>3. NoSemicolon(s, i, i)
      <3>1. ~IsSymbol(s, i, ";")
        BY Zenon, <1>5, NotSemicolon
      <3>2. \A k \in i .. i : k = i
        BY <1>1
      <3> QED
        BY <3>1, <3>2 DEF NoSemicolon
    <2>4. TermMeanings(s, Meanings(s), i, i) # {}
      BY Zenon, <1>1, <1>5, TokenHasMeaning
    <2> QED
      BY <1>2, <1>3, <1>4, <2>2, <2>3, <2>4
  <1>6. CASE IsName(s, i)
    <2>1. r = NameValue(s, i)
      BY <1>2, <1>6, TermCases
    <2>2. r.next = i + 1
      BY <1>2, <1>3, <1>6, <2>1, NameValueType
    <2>3. NoSemicolon(s, i, i)
      <3>1. ~IsSymbol(s, i, ";")
        BY Zenon, <1>6, NotSemicolon
      <3>2. \A k \in i .. i : k = i
        BY <1>1
      <3> QED
        BY <3>1, <3>2 DEF NoSemicolon
    <2>4. TermMeanings(s, Meanings(s), i, i) # {}
      BY Zenon, <1>1, <1>6, TokenHasMeaning
    <2> QED
      BY <1>2, <1>3, <1>4, <2>2, <2>3, <2>4
  <1>7. CASE IsPeek(s, i)
    <2>1. r = LET a == term[i + 1]
              IN  IF IsOk(a) THEN Ok(Memory[a.val], Append(a.reads, a.val), a.next) ELSE a
      BY <1>2, <1>7, TermCases
    <2>2. IsOk(term[i + 1]) /\ r.next = term[i + 1].next
      BY <1>2, <2>1 DEF Ok
    <2>3. PICK j \in i + 1 .. N : /\ term[i + 1].next = j + 1
                                  /\ NoSemicolon(s, i + 1, j)
                                  /\ Meanings(s)[<<i + 1, j>>].term # {}
      BY <1>3, <2>2 DEF TermMeans
    <2>4. NoSemicolon(s, i, j)
      <3>1. ~IsSymbol(s, i, ";")
        BY Zenon, <1>7, NotSemicolon
      <3>2. \A k \in i .. j : k = i \/ k \in i + 1 .. j
        BY <1>1
      <3> QED
        BY <2>3, <3>1, <3>2 DEF NoSemicolon
    <2>5. j \in i .. N /\ j \in Nat /\ i < j
      BY <1>1
    <2>6. TermMeanings(s, Meanings(s), i, j) # {}
      BY <1>1, <1>7, <2>3, <2>5, PeekMeanings
    <2>7. Meanings(s)[<<i, j>>].term # {}
      BY <1>4, <2>5, <2>6
    <2> QED
      BY <1>2, <2>2, <2>3, <2>4, <2>5, <2>7
  <1>8. CASE IsSymbol(s, i, "(")
    <2> DEFINE e == eval_expr(s, term, i + 1)
               turn == Turns(s, term, i + 1)
    <2>1. r = IF ~IsOk(e) THEN e
              ELSE IF IsSymbol(s, e.next, ")") THEN Ok(e.val, e.reads, e.next + 1)
              ELSE Err("UnexpectedToken", e.reads)
      BY <1>2, <1>8, TermCases
    <2>2. e = turn[N] /\ e \in Forward(s, i + 1)
      BY <1>2, <1>3, TurnsExist, ExpressionType
    <2> HIDE DEF e, r
    <2>3. IsOk(e) /\ IsSymbol(s, e.next, ")") /\ r.next = e.next + 1
      <3>1. ~IsOk(Err("UnexpectedToken", e.reads))
        BY StatusNames DEF Err, IsOk
      <3> QED
        BY <1>2, <2>1, <3>1 DEF Ok
    <2>4. ExpressionMeans(s, i + 1) /\ N \in 0 .. N
      BY <1>1, <1>3
    <2>5. PICK h \in i + 1 .. N : /\ e.next = h + 1
                                  /\ NoSemicolon(s, i + 1, h)
                                  /\ Meanings(s)[<<i + 1, h>>].expression # {}
      BY <2>2, <2>3, <2>4 DEF ExpressionMeans
    <2> DEFINE j == h + 1
    <2>6. j \in Nat /\ i < j /\ j - 1 = h
      BY <1>1
    <2>7. j \in i .. N
      <3>1. j \in 1 .. N
        <4>1. IsSymbol(s, j, ")")
          BY <2>3, <2>5
        <4> HIDE DEF j
        <4>2. ~Kind(s, j, "eof")
          BY <2>6, <4>1, TokenKinds
        <4> QED
          BY <2>6, <4>2, TokenKinds
      <3> QED
        BY <1>1, <2>6, <3>1
    <2>8. IsSymbol(s, j, ")")
      BY <2>3, <2>5
    <2>9. NoSemicolon(s, i, j)
      <3>1. ~IsSymbol(s, j, ";") /\ ~IsSymbol(s, i, ";")
        BY <1>8, <2>8, NotSemicolon
      <3>2. \A k \in i .. j : k = i \/ k = j \/ k \in i + 1 .. h
        BY <1>1, <2>6
      <3> QED
        BY <2>5, <3>1, <3>2 DEF NoSemicolon
    <2>10. r.next = j + 1
      BY <2>3, <2>5
    <2> HIDE DEF j
    <2>11. TermMeanings(s, Meanings(s), i, j) = Meanings(s)[<<i + 1, j - 1>>].expression
      BY <1>1, <1>8, <2>6, <2>8, ParenthesisMeanings
    <2>12. Meanings(s)[<<i, j>>].term # {}
      BY <1>4, <2>5, <2>6, <2>7, <2>11
    <2> QED
      BY <1>2, <2>7, <2>9, <2>10, <2>12
  <1>9. ~(~Kind(s, i, "literal") /\ ~IsName(s, i) /\ ~IsPeek(s, i) /\ ~IsSymbol(s, i, "("))
    <2>1. ~IsOk(Err("LexError", <<>>)) /\ ~IsOk(Err("UnexpectedToken", <<>>))
      BY StatusNames DEF Err, IsOk
    <2> QED
      BY <1>2, <2>1, TermCases
  <1> QED
    BY Zenon, <1>5, <1>6, <1>7, <1>8, <1>9

LEMMA OperationMeanings ==
    ASSUME NEW s, NEW of, NEW i \in Nat, NEW j \in Nat, NEW k \in i + 1 .. j - 1, IsArithmetic(s, k),
           of[<<i, k - 1>>].expression # {}, of[<<k + 1, j>>].term # {}
    PROVE  ExpressionMeanings(s, of, i, j) # {}
  <1> DEFINE K == {n \in i + 1 .. j - 1 : IsArithmetic(s, n)}
             Split(n) == Operations(of[<<i, n - 1>>].expression, Tok(s, n).v, of[<<n + 1, j>>].term)
  <1>1. ExpressionMeanings(s, of, i, j) = TermMeanings(s, of, i, j) \cup UNION {Split(n) : n \in K}
    BY Zenon DEF ExpressionMeanings
  <1>2. PICK l \in of[<<i, k - 1>>].expression : TRUE
    OBVIOUS
  <1>3. PICK r \in of[<<k + 1, j>>].term : TRUE
    OBVIOUS
  <1>4. Operation(l, Tok(s, k).v, r) \in Split(k) /\ k \in K
    BY <1>2, <1>3 DEF Operations
  <1> HIDE DEF Split, K
  <1> QED
    BY <1>1, <1>4

LEMMA ExpressionIsMeaning ==
    ASSUME NEW s, TokenList(s), NEW i \in 1 .. Len(s) + 1,
           \A a \in i .. Len(s) + 1 : TermMeans(s, a)
    PROVE  ExpressionMeans(s, i)
  <1> DEFINE N == Len(s)
             term == Terms(s)
             turn == Turns(s, term, i)
             Means(r) == IsOk(r) => \E j \in i .. N : /\ r.next = j + 1
                                                      /\ NoSemicolon(s, i, j)
                                                      /\ Meanings(s)[<<i, j>>].expression # {}
             H == {n \in 0 .. N : Means(turn[n])}
  <1>1. N \in Nat /\ i \in Nat /\ i \in 1 .. N + 1
    BY DEF TokenList
  <1>2. FindsFrom(s, term, i)
    BY TermsFacts
  <1>3. turn[0] = term[i]
    BY <1>2, TurnsExist
  <1>4. \A n \in 1 .. N : turn[n] = Operate(s, term)[turn[n - 1]]
    BY <1>2, TurnsExist
  <1>5. \A n \in 0 .. N : turn[n] \in Forward(s, i)
    BY <1>2, TurnsExist
  <1>6. ASSUME NEW j \in i .. N
        PROVE  /\ Meanings(s)[<<i, j>>].term = TermMeanings(s, Meanings(s), i, j)
               /\ Meanings(s)[<<i, j>>].expression = ExpressionMeanings(s, Meanings(s), i, j)
    <2>1. j \in 0 .. N
      BY <1>1
    <2> QED
      BY <2>1, MeaningsExist
  <1>7. 0 \in H
    <2>1. Means(term[i])
      <3> SUFFICES ASSUME IsOk(term[i])
                   PROVE  \E j \in i .. N : /\ term[i].next = j + 1
                                            /\ NoSemicolon(s, i, j)
                                            /\ Meanings(s)[<<i, j>>].expression # {}
        OBVIOUS
      <3>1. TermMeans(s, i)
        BY <1>1
      <3>2. PICK j \in i .. N : /\ term[i].next = j + 1
                                /\ NoSemicolon(s, i, j)
                                /\ Meanings(s)[<<i, j>>].term # {}
        BY <3>1 DEF TermMeans
      <3>3. Meanings(s)[<<i, j>>].expression # {}
        BY <1>6, <3>2 DEF ExpressionMeanings
      <3> QED
        BY <3>2, <3>3
    <2> HIDE DEF Means, turn
    <2> QED
      BY <1>1, <1>3, <2>1
  <1>8. ASSUME NEW n \in 1 .. N, n - 1 \in H
        PROVE  n \in H
    <2> DEFINE acc == turn[n - 1]
               after == Operate(s, term)[acc]
               right == term[acc.next + 1]
               reads == acc.reads \o right.reads
               op == Tok(s, acc.next).v
    <2>1. acc \in Forward(s, i) /\ turn[n] = after /\ Means(acc)
      BY <1>1, <1>4, <1>5, <1>8
    <2> SUFFICES Means(after)
      <3> HIDE DEF Means, after
      <3> QED
        BY <2>1
    <2> SUFFICES ASSUME IsOk(after)
                 PROVE  \E j \in i .. N : /\ after.next = j + 1
                                          /\ NoSemicolon(s, i, j)
                                          /\ Meanings(s)[<<i, j>>].expression # {}
      OBVIOUS
    <2>2. CASE ~IsOk(acc) \/ ~IsArithmetic(s, acc.next)
      <3>1. after = acc
        BY <1>2, <2>1, <2>2, OperateCases
      <3> HIDE DEF acc, after
      <3> QED
        BY <2>1, <3>1
    <2>3. CASE IsOk(acc) /\ IsArithmetic(s, acc.next)
      <3>1. PICK h \in i .. N : /\ acc.next = h + 1
                                /\ NoSemicolon(s, i, h)
                                /\ Meanings(s)[<<i, h>>].expression # {}
        BY <2>1, <2>3
      <3>2. /\ acc.next \in i + 1 .. N
            /\ right \in Forward(s, acc.next + 1)
            /\ ~IsOk(right) => after = Err(right.st, reads)
            /\ IsOk(right) /\ Undefined(op, right.val) => after = Err("DivByZero", reads)
            /\ IsOk(right) /\ ~Undefined(op, right.val) =>
                  after = Ok(Apply(op, acc.val, right.val), reads, right.next)
        <4> HIDE DEF acc, term
        <4> QED
          BY <1>2, <2>1, <2>3, OperateCases
      <3>3. IsOk(right) /\ after.next = right.next
        <4> HIDE DEF after, right, reads, op
        <4>1. /\ ~IsOk(right) => right.st # "ok"
              /\ \A e, x : IsOk(Err(e, x)) => e = "ok"
              /\ \A v, x, k : Ok(v, x, k).next = k
          BY DEF IsOk, Err, Ok
        <4>2. ~IsOk(Err("DivByZero", reads))
          BY <4>1, StatusNames
        <4> QED
          BY <3>2, <4>1, <4>2
      <3> DEFINE k == h + 1
      <3>4. k \in i + 1 .. N /\ k + 1 \in 1 .. N + 1 /\ k + 1 \in i .. N + 1 /\ k \in Nat /\ k - 1 = h
        BY <1>1, <3>1, <3>2
      <3>5. right = term[k + 1] /\ IsArithmetic(s, k)
        BY <2>3, <3>1
      <3>6. TermMeans(s, k + 1)
        BY <3>4
      <3>7. PICK j \in k + 1 .. N : /\ right.next = j + 1
                                    /\ NoSemicolon(s, k + 1, j)
                                    /\ Meanings(s)[<<k + 1, j>>].term # {}
        <4> HIDE DEF k, right
        <4> QED
          BY <3>3, <3>5, <3>6 DEF TermMeans
      <3>8. j \in i .. N /\ j \in Nat /\ k \in i + 1 .. j - 1
        BY <1>1, <3>4
      <3>9. NoSemicolon(s, i, j)
        <4>1. ~IsSymbol(s, k, ";")
          BY Zenon, <3>5, NotSemicolon
        <4>2. \A x \in i .. j : x \in i .. h \/ x = k \/ x \in k + 1 .. j
          BY <1>1, <3>4
        <4> HIDE DEF k
        <4> QED
          BY <3>1, <3>7, <4>1, <4>2 DEF NoSemicolon
      <3> HIDE DEF k, after, right
      <3>10. Meanings(s)[<<i, k - 1>>].expression # {}
        BY <3>1, <3>4
      <3>11. ExpressionMeanings(s, Meanings(s), i, j) # {}
        BY <1>1, <3>5, <3>7, <3>8, <3>10, OperationMeanings
      <3>12. Meanings(s)[<<i, j>>].expression # {}
        BY <1>6, <3>8, <3>11
      <3> QED
        BY <3>3, <3>7, <3>8, <3>9, <3>12
    <2> QED
      BY <2>2, <2>3
  <1> HIDE DEF H
  <1>9. 0 .. N \subseteq H
    BY <1>1, <1>7, <1>8, Upwards
  <1>10. \A n \in 0 .. N : Means(turn[n])
    BY <1>9 DEF H
  <1> QED
    BY <1>10 DEF ExpressionMeans

LEMMA FoundIsMeaning ==
    ASSUME NEW s, TokenList(s), NEW i \in 1 .. Len(s) + 1
    PROVE  TermMeans(s, i) /\ ExpressionMeans(s, i)
  <1> DEFINE M == Len(s) + 1
             From(m) == \A a \in m .. M : TermMeans(s, a) /\ ExpressionMeans(s, a)
             H == {n \in 0 .. M : From(M + 1 - n)}
  <1>1. M \in Nat /\ i \in 1 .. M
    BY DEF TokenList
  <1>2. 0 \in H
    <2>1. From(M + 1 - 0)
      BY <1>1
    <2> QED
      BY <1>1, <2>1
  <1>3. ASSUME NEW n \in 1 .. M, n - 1 \in H
        PROVE  n \in H
    <2> DEFINE m == M + 1 - n
    <2>1. m \in 1 .. M /\ M + 1 - (n - 1) = m + 1
      BY <1>1
    <2>2. \A a \in m + 1 .. M : TermMeans(s, a) /\ ExpressionMeans(s, a)
      BY <1>3, <2>1
    <2> HIDE DEF m
    <2>3. TermMeans(s, m)
      BY <2>1, <2>2, TermIsMeaning
    <2>4. \A a \in m .. M : a = m \/ a \in m + 1 .. M
      BY <1>1, <2>1
    <2>5. \A a \in m .. M : TermMeans(s, a)
      BY <2>2, <2>3, <2>4
    <2>6. ExpressionMeans(s, m)
      BY <2>1, <2>5, ExpressionIsMeaning
    <2>7. From(m)
      BY <2>2, <2>4, <2>5, <2>6
    <2> HIDE DEF From
    <2> QED
      BY <2>7 DEF m
  <1> HIDE DEF H
  <1>4. 0 .. M \subseteq H
    BY <1>1, <1>2, <1>3, Upwards
  <1>5. From(M + 1 - M)
    BY <1>1, <1>4 DEF H
  <1>6. i \in M + 1 - M .. M
    BY <1>1
  <1> QED
    BY <1>5, <1>6

-----------------------------------------------------------------------------
(* The value of a line.                                                    *)

IsStatement(s, j) == NoSemicolon(s, 1, j) /\ (j = Len(s) \/ IsSymbol(s, j + 1, ";"))

LEMMA StatementIs ==
    ASSUME NEW s, TokenList(s), NEW j \in 0 .. Len(s), IsStatement(s, j)
    PROVE  Statement(s) = j
  <1>0. Len(s) \in Nat
    BY DEF TokenList
  <1>1. \A i \in 0 .. Len(s), k \in 0 .. Len(s) : IsStatement(s, i) /\ IsStatement(s, k) => ~(i < k)
    <2> SUFFICES ASSUME NEW i \in 0 .. Len(s), NEW k \in 0 .. Len(s), i < k,
                        IsStatement(s, i), IsStatement(s, k)
                 PROVE  FALSE
      OBVIOUS
    <2>1. i + 1 \in 1 .. k /\ i # Len(s)
      BY <1>0
    <2> QED
      BY <2>1 DEF IsStatement, NoSemicolon
  <1>2. \A i \in 0 .. Len(s) : IsStatement(s, i) => i = j
    BY <1>0, <1>1
  <1>3. Statement(s) = CHOOSE i \in 0 .. Len(s) : IsStatement(s, i)
    BY Zenon DEF Statement, IsStatement, NoSemicolon
  <1>4. Statement(s) \in 0 .. Len(s) /\ IsStatement(s, Statement(s))
    BY <1>3
  <1> QED
    BY <1>2, <1>4

LEMMA StatementExists ==
    ASSUME NEW s, TokenList(s)
    PROVE  Statement(s) \in 0 .. Len(s) /\ IsStatement(s, Statement(s))
  <1> DEFINE Ends(k) == IsSymbol(s, k, ";")
             T == {j \in 0 .. Len(s) : j = Len(s) \/ Ends(j + 1)}
  <1> HIDE DEF Ends
  <1>1. Len(s) \in Nat
    BY DEF TokenList
  <1>2. PICK m \in T : \A k \in T : m <= k
    <2>1. T \in SUBSET Nat /\ Len(s) \in T
      BY <1>1
    <2> HIDE DEF T
    <2> QED
      BY <2>1, LeastMember
  <1>3. NoSemicolon(s, 1, m)
    <2> SUFFICES ASSUME NEW k \in 1 .. m, Ends(k) PROVE FALSE
      BY DEF NoSemicolon, Ends
    <2> DEFINE h == k - 1
    <2>1. h \in 0 .. Len(s) /\ h + 1 = k /\ h < m /\ ~(m <= h)
      BY <1>1, <1>2
    <2> HIDE DEF h
    <2>2. h \in T
      BY <2>1
    <2> QED
      BY <1>2, <2>1, <2>2
  <1>4. IsStatement(s, m)
    BY <1>2, <1>3 DEF IsStatement, Ends
  <1> QED
    BY <1>2, <1>4, StatementIs

(* What the parser finds, its position left out.                           *)
LEMMA NoPosition ==
    ASSUME NEW m \in Bare, NEW j \in Nat
    PROVE  [Found(m, j) EXCEPT !.next = 0] = m
  <1>1. CASE IsOk(m)
    <2>1. m = Ok(m.val, m.reads, 0) /\ Found(m, j) = Ok(m.val, m.reads, j + 1)
      BY <1>1, BareFields
    <2> QED
      BY <2>1 DEF Ok
  <1>2. CASE ~IsOk(m)
    <2>1. m \in Outcomes /\ m.next = 0 /\ Found(m, j) = m
      BY <1>2, BareFields DEF Bare
    <2> QED
      BY <2>1 DEF Outcomes
  <1> QED
    BY <1>1, <1>2

LEMMA ValueMeans ==
    ASSUME NEW s, TokenList(s)
    PROVE  Value(s) \in Outcomes /\ IsMeaning(s, Value(s))
  <1> DEFINE N == Len(s)
             S == Statement(s)
             term == Terms(s)
             turn == Turns(s, term, 1)
             e == eval_expr(s, term, 1)
             meanings == Meanings(s)[<<1, S>>].expression
  <1>1. N \in Nat /\ 1 \in 1 .. N + 1
    BY DEF TokenList
  <1>2. S \in 0 .. N /\ IsStatement(s, S)
    BY StatementExists
  <1>3. FindsFrom(s, term, 1)
    BY <1>1, TermsFacts
  <1>4. e = turn[N] /\ e \in Forward(s, 1) /\ e \in Outcomes
    <2>1. e = turn[N] /\ e \in Forward(s, 1)
      BY <1>1, <1>3, TurnsExist, ExpressionType
    <2> QED
      BY <2>1 DEF Forward
  <1>5. Value(s) = IF IsOk(e) /\ ~IsSymbol(s, e.next, ";") /\ ~Kind(s, e.next, "eof")
                   THEN Err("MissingSemicolon", e.reads) ELSE e
    BY Zenon DEF Value, expect_semicolon
  <1>6. /\ Err("MissingSemicolon", e.reads) \in Outcomes
        /\ ~IsOk(Err("MissingSemicolon", e.reads))
    BY <1>4, OutcomeFields, ErrType, StatusNames
  <1>7. Value(s) \in Outcomes
    BY <1>4, <1>5, <1>6
  <1>8. ASSUME NEW m \in meanings
        PROVE  m = [Value(s) EXCEPT !.next = 0]
    <2>1. ExpressionFound(s, 1, S)
      BY <1>1, <1>2, MeaningIsFound
    <2>2. m \in Bare
      BY <2>1 DEF ExpressionFound
    <2>3. PICK n \in 0 .. S - 1 : turn[n] = Found(m, S)
      BY <2>1 DEF ExpressionFound
    <2>4. n \in 0 .. N /\ S + 1 \in Nat /\ (S + 1 \in 1 .. N <=> S # N)
      BY <1>1, <1>2
    <2>5. IsSymbol(s, S + 1, ";") \/ Kind(s, S + 1, "eof")
      BY <1>2, <2>4, TokenKinds DEF IsStatement
    <2>6. ~IsArithmetic(s, S + 1)
      BY <2>4, <2>5, TokenKinds
    <2> HIDE DEF e, turn, S
    <2>7. IsOk(m) => turn[n].next = S + 1 /\ (IsOk(turn[n]) <=> IsOk(m))
      BY <2>2, <2>3, BareFields
    <2>8. ~IsOk(turn[n]) \/ ~IsArithmetic(s, turn[n].next)
      BY <2>2, <2>3, <2>6, <2>7, BareFields
    <2>9. e = Found(m, S)
      BY <1>1, <1>3, <2>3, <2>4, <2>8, LoopEnds DEF e, turn
    <2>10. Value(s) = e
      <3>1. IsOk(e) => e.next = S + 1
        BY <2>2, <2>9, BareFields
      <3> QED
        BY Zenon, <1>5, <2>5, <3>1
    <2> QED
      BY <1>2, <2>2, <2>9, <2>10, NoPosition DEF S
  <1>9. ASSUME IsOk(Value(s))
        PROVE  meanings # {}
    <2>1. Value(s) = e /\ IsOk(e) /\ (IsSymbol(s, e.next, ";") \/ Kind(s, e.next, "eof"))
      BY <1>5, <1>6, <1>9
    <2>2. ExpressionMeans(s, 1)
      BY <1>1, FoundIsMeaning
    <2>3. PICK j \in 1 .. N : /\ e.next = j + 1
                              /\ NoSemicolon(s, 1, j)
                              /\ Meanings(s)[<<1, j>>].expression # {}
      <3>1. N \in 0 .. N
        BY <1>1
      <3>2. IsOk(turn[N])
        BY Zenon, <1>4, <2>1
      <3> HIDE DEF e
      <3> QED
        BY <1>4, <2>2, <3>1, <3>2 DEF ExpressionMeans
    <2>4. j \in 0 .. N /\ j + 1 \in Nat /\ (j + 1 \notin 1 .. N <=> j = N)
      BY <1>1
    <2>5. j = N \/ IsSymbol(s, j + 1, ";")
      <3>1. IsSymbol(s, j + 1, ";") \/ Kind(s, j + 1, "eof")
        BY <2>1, <2>3
      <3>2. Kind(s, j + 1, "eof") => j = N
        BY <2>4, TokenKinds
      <3> QED
        BY Zenon, <3>1, <3>2
    <2>6. IsStatement(s, j)
      BY <2>3, <2>5 DEF IsStatement
    <2>7. S = j
      BY <2>4, <2>6, StatementIs
    <2> QED
      BY <2>3, <2>7
  <1>10. IsMeaning(s, Value(s))
    <2> HIDE DEF meanings
    <2>1. CASE meanings = {}
      BY <1>9, <2>1 DEF IsMeaning, meanings
    <2>2. CASE meanings # {}
      <3>1. meanings = {[Value(s) EXCEPT !.next = 0]}
        BY <1>8, <2>2
      <3> QED
        BY Zenon, <2>2, <3>1 DEF IsMeaning, meanings
    <2> QED
      BY <2>1, <2>2
  <1> QED
    BY <1>7, <1>10

-----------------------------------------------------------------------------
(* What is found is found from the lexer's own tokens.                     *)

LEMMA TokensAreList ==
    ASSUME LexerInv, mode = "done"
    PROVE  TokenList(tokens)
  <1>1. Len(tokens) \in Nat /\ DOMAIN tokens = 1 .. Len(tokens)
    BY DEF LexerInv, IsSequence
  <1>2. text \in Texts /\ \A k \in 1 .. Len(tokens) : IsRefToken(tokens[k])
    BY <1>1 DEF LexerInv, Tokenised
  <1>3. \A k, j : RefToken(k, j).t # "eof"
    <2>1. \A from, base, k, j : RefLiteral(k, j, from, base).t # "eof"
      BY DEF RefLiteral, Token
    <2>2. \A name : Named(name) # "eof"
      BY DEF Named
    <2>3. \A t, v, k, j : t # "eof" => Token(t, v, k, j).t # "eof"
      BY DEF Token
    <2>4. "symbol" # "eof" /\ "error" # "eof"
      OBVIOUS
    <2> QED
      BY Zenon, <2>1, <2>2, <2>3, <2>4 DEF RefToken
  <1>4. \A k \in 1 .. Len(tokens) : tokens[k].t # "eof"
    BY <1>2, <1>3 DEF IsRefToken
  <1>5. \A k \in 1 .. Len(tokens) : Kind(tokens, k, "literal") => tokens[k].v \in Words
    <2> SUFFICES ASSUME NEW k \in 1 .. Len(tokens), Kind(tokens, k, "literal")
                 PROVE  tokens[k].v \in Words
      OBVIOUS
    <2>1. tokens[k].t = "literal"
      BY <1>1 DEF Kind, Tok
    <2>2. tokens[k].v \in 0 .. WORD - 1
      BY <1>2, <2>1, LiteralIsWord
    <2> QED
      BY <2>2 DEF Words
  <1> QED
    BY <1>1, <1>4, <1>5 DEF TokenList

ExpressionInv ==
    /\ LexerInv
    /\ result \in Outcomes
    /\ result # Pending => mode = "done" /\ result = Value(tokens)

LEMMA PendingType == Pending \in Outcomes
  BY NoReads, ErrType, StatusNames DEF Pending

LEMMA ExpressionStart ==
    ASSUME Init
    PROVE  ExpressionInv
  BY LexerStart, PendingType DEF Init, ExpressionInv

LEMMA ExpressionStep ==
    ASSUME ExpressionInv, [Next]_vars
    PROVE  ExpressionInv'
  <1>1. CASE LexerNext /\ UNCHANGED result
    <2>1. LexerInv'
      BY <1>1, LexerStep DEF ExpressionInv
    <2>2. mode # "done"
      BY <1>1 DEF LexerNext, Scan, Identifier, Literal, RestOfLiteral
    <2>3. result' = result /\ result = Pending
      BY <1>1, <2>2 DEF ExpressionInv
    <2>4. Pending' = Pending
      BY DEF Pending, Err
    <2> QED
      BY <2>1, <2>3, <2>4, PendingType DEF ExpressionInv
  <1>2. CASE Evaluate
    <2>1. UNCHANGED lexerVars /\ result' = Value(tokens) /\ mode = "done"
      BY <1>2 DEF Evaluate
    <2>2. LexerInv'
      BY <2>1, LexerStep DEF ExpressionInv
    <2>3. mode' = mode /\ tokens' = tokens
      BY <2>1 DEF lexerVars
    <2>4. TokenList(tokens)
      BY <2>1, TokensAreList DEF ExpressionInv
    <2>5. Value(tokens) \in Outcomes
      BY <2>4, ValueMeans
    <2> QED
      BY <2>1, <2>2, <2>3, <2>5 DEF ExpressionInv
  <1>3. CASE UNCHANGED vars
    <2>1. UNCHANGED lexerVars /\ result' = result
      BY <1>3 DEF vars
    <2>2. LexerInv'
      BY <2>1, LexerStep DEF ExpressionInv
    <2>3. mode' = mode /\ tokens' = tokens
      BY <2>1 DEF lexerVars
    <2> QED
      BY <2>1, <2>2, <2>3 DEF ExpressionInv
  <1> QED
    BY <1>1, <1>2, <1>3 DEF Next

(* The inductive invariant: what has been found is what the tokens have.   *)
THEOREM ExpressionInvariant == Spec => []ExpressionInv
  <1>1. Init => ExpressionInv
    BY ExpressionStart
  <1>2. ExpressionInv /\ [Next]_vars => ExpressionInv'
    BY ExpressionStep
  <1> QED
    BY <1>1, <1>2, PTL DEF Spec

(* Whatever the line, its value is a word, its reads are words, and an     *)
(* error is one the parser names (TypeOK).                                 *)
THEOREM ExpressionTypes == Spec => []TypeOK
  <1>1. ExpressionInv => TypeOK
    BY LexerInvTypes DEF ExpressionInv, TypeOK
  <1> QED
    BY <1>1, ExpressionInvariant, PTL

(* "Overflow check before shifting in the new nibble": what parse() is     *)
(* given are the tokens of the text (TokensAreRight).                      *)
THEOREM ExpressionTokens == Spec => []TokensAreRight
  <1>1. ExpressionInv => TokensAreRight
    BY DEF ExpressionInv, LexerInv, TokensAreRight
  <1> QED
    BY <1>1, ExpressionInvariant, PTL

(* A line has the one value its grammar gives it, and reads exactly what   *)
(* that reads, in its order; a line that is no expression is an error.     *)
THEOREM ValueCorrect == Spec => []ValueIsMeaning
  <1>1. ExpressionInv => ValueIsMeaning
    <2> SUFFICES ASSUME ExpressionInv, result # Pending PROVE IsMeaning(tokens, result)
      BY DEF ValueIsMeaning
    <2>1. TokenList(tokens) /\ result = Value(tokens)
      BY TokensAreList DEF ExpressionInv
    <2> QED
      BY <2>1, ValueMeans
  <1> QED
    BY <1>1, ExpressionInvariant, PTL

(* No line makes the parser recurse forever: each term is found from terms *)
(* at later tokens and takes at least one token, so Terms satisfies the    *)
(* parser's equations.                                                     *)
THEOREM ParserEnds ==
    ASSUME NEW s, TokenList(s), NEW k \in 1 .. Len(s) + 1
    PROVE  /\ Terms(s)[k] = parse_atomic_term(s, Terms(s), k)
           /\ Terms(s)[k] \in Forward(s, k)
  BY TermsFacts

=============================================================================
