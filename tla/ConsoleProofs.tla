--------------------------- MODULE ConsoleProofs ----------------------------
(***************************************************************************)
(* Proofs about the console loop, for lines and receive registers of any   *)
(* length, transmitters of any depth and any number of resets: the screen  *)
(* shows the line, and a typist who waits for each answer loses nothing.   *)
(***************************************************************************)
EXTENDS Console, SequenceTheorems, WellFoundedInduction, TLAPS

Stops == {"boot", "draining", "idle", "reading", "evaluating", "printing text", "printing silent", "parked"}
Stop == [state : Stops, len : 0 .. LINE_MAX]
Screens == {s \in [cells : Seq(Printable), col : Nat, prompted : BOOLEAN] : s.col <= Len(s.cells)}

ConsoleType ==
    /\ TypeOK
    /\ after \in Stop
    /\ screen \in Screens
    /\ target \in {"arm", "riscv"}
    /\ enabled \in BOOLEAN /\ pasting \in BOOLEAN /\ lost \in BOOLEAN /\ dropped \in BOOLEAN
    /\ resets \in Nat

LEMMA OutputKinds ==
    /\ Printable \cap {"BS", "newline", "text", "prompt"} = {}
    /\ Printable \cap {"tab", "BS", "^U", "^C", "CR", "control"} = {}
    /\ "space" \in Printable
  BY ConsoleAssumption DEF Printable

-----------------------------------------------------------------------------
(* The terminal.                                                           *)

(* A byte overwrites the cell under the cursor and leaves the others.      *)
LEMMA Overwritten ==
    ASSUME NEW c \in Seq(Printable), NEW n \in Nat, n <= Len(c), NEW b \in Printable,
           NEW d, d = IF n < Len(c) THEN [c EXCEPT ![n + 1] = b] ELSE Append(c, b)
    PROVE  /\ d \in Seq(Printable)
           /\ Len(d) = IF n = Len(c) THEN n + 1 ELSE Len(c)
           /\ d[n + 1] = b
           /\ \A i \in 1 .. Len(d) : i # n + 1 => d[i] = c[i]
  <1>1. CASE n < Len(c)
    <2>1. n + 1 \in 1 .. Len(c) /\ d = [c EXCEPT ![n + 1] = b]
      BY <1>1
    <2> QED
      BY <1>1, <2>1, ExceptSeq
  <1>2. CASE n = Len(c)
    <2>1. d = Append(c, b)
      BY <1>2
    <2> QED
      BY <1>2, <2>1, AppendProperties
  <1> QED
    BY <1>1, <1>2

LEMMA ScreenType ==
    ASSUME NEW s
    PROVE  s \in Screens <=> /\ s \in [cells : Seq(Printable), col : Nat, prompted : BOOLEAN]
                             /\ s.col <= Len(s.cells)
  BY DEF Screens

LEMMA ShowsPrintable ==
    ASSUME NEW s \in Screens, NEW b \in Printable
    PROVE  LET t == Shows(s, b)
           IN  /\ t \in Screens /\ t.col = s.col + 1 /\ t.prompted = s.prompted
               /\ Len(t.cells) = IF s.col = Len(s.cells) THEN s.col + 1 ELSE Len(s.cells)
               /\ t.cells[s.col + 1] = b
               /\ \A i \in 1 .. Len(t.cells) : i # s.col + 1 => t.cells[i] = s.cells[i]
  <1> DEFINE d == IF s.col < Len(s.cells) THEN [s.cells EXCEPT ![s.col + 1] = b] ELSE Append(s.cells, b)
             t == [s EXCEPT !.cells = d, !.col = s.col + 1]
  <1>1. Shows(s, b) = t
    BY OutputKinds DEF Shows
  <1>2. s \in [cells : Seq(Printable), col : Nat, prompted : BOOLEAN]
    BY ScreenType
  <1>3. s.cells \in Seq(Printable) /\ s.col \in Nat /\ s.col <= Len(s.cells)
    BY <1>2, ScreenType
  <1>4. /\ d \in Seq(Printable)
        /\ Len(d) = IF s.col = Len(s.cells) THEN s.col + 1 ELSE Len(s.cells)
        /\ d[s.col + 1] = b
        /\ \A i \in 1 .. Len(d) : i # s.col + 1 => d[i] = s.cells[i]
    BY <1>3, Overwritten
  <1> HIDE DEF d
  <1>5. t.cells = d /\ t.col = s.col + 1 /\ t.prompted = s.prompted
    BY <1>2
  <1>6. t \in [cells : Seq(Printable), col : Nat, prompted : BOOLEAN]
    <2>1. \A c \in Seq(Printable), n \in Nat :
              [s EXCEPT !.cells = c, !.col = n] \in [cells : Seq(Printable), col : Nat, prompted : BOOLEAN]
      BY <1>2
    <2>2. s.col + 1 \in Nat
      BY <1>3
    <2> QED
      BY <1>4, <2>1, <2>2
  <1>7. t.col <= Len(t.cells)
    BY <1>3, <1>4, <1>5
  <1>8. t \in Screens
    BY <1>6, <1>7, ScreenType
  <1> QED
    BY <1>1, <1>4, <1>5, <1>8

LEMMA ShowsBS ==
    ASSUME NEW s \in Screens
    PROVE  LET t == Shows(s, "BS")
           IN  /\ t \in Screens /\ t.cells = s.cells
               /\ s.col > 0 => t.col = s.col - 1 /\ t.prompted = s.prompted
  <1>1. s \in [cells : Seq(Printable), col : Nat, prompted : BOOLEAN] /\ s.col <= Len(s.cells)
    BY ScreenType
  <1>2. s.col \in Nat /\ Len(s.cells) \in Nat
    BY <1>1
  <1>3. CASE s.col > 0
    <2> DEFINE t == [s EXCEPT !.col = s.col - 1]
    <2>1. Shows(s, "BS") = t
      BY <1>3, OutputKinds DEF Shows
    <2>2. t \in [cells : Seq(Printable), col : Nat, prompted : BOOLEAN]
      BY <1>1, <1>2, <1>3
    <2>3. t.cells = s.cells /\ t.col = s.col - 1 /\ t.prompted = s.prompted
      BY <1>1
    <2>4. t \in Screens
      BY <1>1, <1>2, <2>2, <2>3, ScreenType
    <2> HIDE DEF t
    <2> QED
      BY <2>1, <2>3, <2>4
  <1>4. CASE s.col = 0
    <2> DEFINE t == [s EXCEPT !.prompted = FALSE]
    <2>1. Shows(s, "BS") = t
      BY <1>4, OutputKinds DEF Shows
    <2>2. t \in [cells : Seq(Printable), col : Nat, prompted : BOOLEAN]
      BY <1>1
    <2>3. t.cells = s.cells /\ t.col = s.col
      BY <1>1
    <2>4. t \in Screens
      BY <1>1, <2>2, <2>3, ScreenType
    <2> HIDE DEF t
    <2> QED
      BY <1>4, <2>1, <2>3, <2>4
  <1> QED
    BY <1>2, <1>3, <1>4

LEMMA ShowsPrompt ==
    ASSUME NEW s \in Screens
    PROVE  LET t == Shows(s, "prompt")
           IN  t \in Screens /\ t = [cells |-> <<>>, col |-> 0, prompted |-> TRUE]
  BY OutputKinds DEF Shows, Screens

LEMMA ShowsText ==
    ASSUME NEW s \in Screens, NEW b \in {"text", "newline"}
    PROVE  LET t == Shows(s, b)
           IN  /\ t \in Screens /\ t.col = s.col /\ t.cells = s.cells /\ ~t.prompted
  BY OutputKinds DEF Shows, Screens

LEMMA ShowsType ==
    ASSUME NEW s \in Screens, NEW b \in Output
    PROVE  Shows(s, b) \in Screens
  BY ShowsPrintable, ShowsBS, ShowsPrompt, ShowsText DEF Output

-----------------------------------------------------------------------------
(* The bytes in the transmitter, shown one after the other.                *)

LEMMA LeastMember ==
    ASSUME NEW T \in SUBSET Nat, T # {}
    PROVE  \E m \in T : \A k \in T : m <= k
  <1>1. PICK m \in T : \A k \in T : ~(<<k, m>> \in OpToRel(<, Nat))
    BY NatLessThanWellFounded, WFMin
  <1>2. \A k \in T : ~(k < m)
    BY <1>1 DEF OpToRel
  <1> QED
    BY <1>2

(* What holds of 0 and passes from each number to the next holds of all.   *)
LEMMA Upwards ==
    ASSUME NEW n \in Nat, NEW H, 0 \in H, \A k \in 1 .. n : k - 1 \in H => k \in H
    PROVE  0 .. n \subseteq H
  <1> DEFINE T == {k \in 0 .. n : k \notin H}
  <1> SUFFICES ASSUME T # {} PROVE FALSE
    OBVIOUS
  <1>1. PICK m \in T : \A k \in T : m <= k
    <2>1. T \in SUBSET Nat
      OBVIOUS
    <2> HIDE DEF T
    <2> QED
      BY <2>1, LeastMember
  <1>2. m \in 1 .. n /\ m - 1 \in 0 .. n /\ m - 1 \notin T
    BY <1>1
  <1> QED
    BY <1>1, <1>2

(* The screens on the way from s through the bytes b, or the first m.      *)
RowsTo(s, b, m, g) ==
    /\ g \in [0 .. m -> Screens] /\ g[0] = s
    /\ \A k \in 1 .. m : g[k] = Shows(g[k - 1], b[k])
Rows(s, b, g) == RowsTo(s, b, Len(b), g)

LEMMA RowsExist ==
    ASSUME NEW s \in Screens, NEW b \in Seq(Output)
    PROVE  \E g : Rows(s, b, g)
  <1> DEFINE n == Len(b)
             H == {m \in 0 .. n : \E g : RowsTo(s, b, m, g)}
  <1>0. n \in Nat /\ \A k \in 1 .. n : b[k] \in Output
    BY ElementOfSeq, LenProperties
  <1>1. 0 \in H
    <2>1. RowsTo(s, b, 0, [k \in 0 .. 0 |-> s])
      BY DEF RowsTo
    <2> QED
      BY <1>0, <2>1
  <1>2. ASSUME NEW m \in 1 .. n, m - 1 \in H
        PROVE  m \in H
    <2>1. PICK g : RowsTo(s, b, m - 1, g)
      BY <1>2
    <2>2. m \in Nat /\ m > 0 /\ m - 1 \in 0 .. m - 1 /\ g \in [0 .. m - 1 -> Screens]
      BY <1>0, <2>1 DEF RowsTo
    <2>3. g[m - 1] \in Screens /\ b[m] \in Output
      BY <1>0, <2>2
    <2> DEFINE next == Shows(g[m - 1], b[m])
               h == [k \in 0 .. m |-> IF k < m THEN g[k] ELSE next]
    <2>4. next \in Screens
      BY <2>3, ShowsType
    <2> HIDE DEF next
    <2>5. h \in [0 .. m -> Screens] /\ h[0] = s
      BY <2>1, <2>2, <2>4 DEF RowsTo
    <2>6. ASSUME NEW k \in 1 .. m
          PROVE  h[k] = Shows(h[k - 1], b[k])
      <3>1. CASE k < m
        <4>1. k \in 1 .. m - 1 /\ h[k] = g[k] /\ h[k - 1] = g[k - 1]
          BY <2>2, <3>1
        <4> HIDE DEF h
        <4> QED
          BY <2>1, <4>1 DEF RowsTo
      <3>2. CASE k = m
        <4>1. h[m] = next /\ h[m - 1] = g[m - 1]
          BY <2>2
        <4> HIDE DEF h
        <4> QED
          BY <3>2, <4>1 DEF next
      <3> QED
        BY <2>2, <3>1, <3>2
    <2> HIDE DEF h
    <2>7. RowsTo(s, b, m, h)
      BY <2>5, <2>6 DEF RowsTo
    <2> QED
      BY <1>2, <2>7
  <1>3. PICK g : RowsTo(s, b, n, g)
    <2> HIDE DEF H
    <2>1. 0 .. n \subseteq H
      BY <1>0, <1>1, <1>2, Upwards
    <2>2. n \in H
      BY <1>0, <2>1
    <2> QED
      BY <2>2 DEF H
  <1>4. Rows(s, b, g)
    BY <1>3 DEF Rows, RowsTo
  <1> QED
    BY <1>4

(* The last of them is what ShowsAll computes.                             *)
LEMMA RowsEnd ==
    ASSUME NEW s, NEW b, Len(b) \in Nat, NEW g, Rows(s, b, g)
    PROVE  ShowsAll(s, b) = g[Len(b)] /\ ShowsAll(s, b) \in Screens
  <1> DEFINE n == Len(b)
             Step(f) == [i \in 0 .. n |-> IF i = 0 THEN s ELSE Shows(f[i - 1], b[i])]
             upto == CHOOSE f : f = Step(f)
             H == {k \in 0 .. n : upto[k] = g[k]}
  <1>0. /\ n \in Nat /\ g \in [0 .. n -> Screens] /\ g[0] = s
        /\ \A k \in 1 .. n : g[k] = Shows(g[k - 1], b[k])
    BY DEF Rows, RowsTo
  <1>1. ShowsAll(s, b) = upto[n]
    BY DEF ShowsAll
  <1>2. g = Step(g)
    <2>1. \A k \in 0 .. n : g[k] = IF k = 0 THEN s ELSE Shows(g[k - 1], b[k])
      <3> SUFFICES ASSUME NEW k \in 0 .. n
                   PROVE  g[k] = IF k = 0 THEN s ELSE Shows(g[k - 1], b[k])
        OBVIOUS
      <3>1. k = 0 \/ k \in 1 .. n
        BY <1>0
      <3> QED
        BY <1>0, <3>1
    <2> QED
      BY <1>0, <2>1
  <1>3. upto = Step(upto)
    BY <1>2
  <1> HIDE DEF upto
  <1>4. \A k \in 0 .. n : upto[k] = IF k = 0 THEN s ELSE Shows(upto[k - 1], b[k])
    BY <1>3
  <1>5. 0 \in H
    BY <1>0, <1>4
  <1>6. ASSUME NEW k \in 1 .. n, k - 1 \in H
        PROVE  k \in H
    BY <1>0, <1>4, <1>6
  <1>7. n \in H
    <2> HIDE DEF H
    <2>1. 0 .. n \subseteq H
      BY <1>0, <1>5, <1>6, Upwards
    <2> QED
      BY <1>0, <2>1
  <1>8. g[n] \in Screens
    BY <1>0
  <1> QED
    BY <1>1, <1>7, <1>8

LEMMA ShowsNone ==
    ASSUME NEW s \in Screens
    PROVE  ShowsAll(s, <<>>) = s
  <1>1. Len(<<>>) = 0 /\ <<>> \in Seq(Output)
    OBVIOUS
  <1>2. PICK g : Rows(s, <<>>, g)
    BY <1>1, RowsExist
  <1>3. ShowsAll(s, <<>>) = g[0]
    BY <1>1, <1>2, RowsEnd
  <1> QED
    BY <1>2, <1>3 DEF Rows, RowsTo

(* A byte more is shown last.                                              *)
LEMMA ShowsOneMore ==
    ASSUME NEW s \in Screens, NEW q \in Seq(Output), NEW x \in Output
    PROVE  ShowsAll(s, Append(q, x)) = Shows(ShowsAll(s, q), x)
  <1>1. PICK g : Rows(s, q, g)
    BY RowsExist
  <1> DEFINE n == Len(q)
             last == Shows(g[n], x)
             h == [k \in 0 .. n + 1 |-> IF k = n + 1 THEN last ELSE g[k]]
  <1>2. /\ n \in Nat /\ Len(Append(q, x)) = n + 1
        /\ Append(q, x)[n + 1] = x /\ \A k \in 1 .. n : Append(q, x)[k] = q[k]
    BY AppendProperties, LenProperties
  <1>3. /\ g \in [0 .. n -> Screens] /\ g[0] = s
        /\ \A k \in 1 .. n : g[k] = Shows(g[k - 1], q[k])
    BY <1>1 DEF Rows, RowsTo
  <1>4. ShowsAll(s, q) = g[n] /\ g[n] \in Screens
    BY <1>1, <1>2, <1>3, RowsEnd
  <1>5. last \in Screens
    BY <1>4, ShowsType
  <1> HIDE DEF last
  <1>6. h \in [0 .. n + 1 -> Screens] /\ h[0] = s /\ h[n + 1] = last /\ h[n] = g[n]
        /\ \A k \in 0 .. n : h[k] = g[k]
    BY <1>2, <1>3, <1>5
  <1> HIDE DEF h
  <1> DEFINE b == Append(q, x)
  <1>7. ASSUME NEW k \in 1 .. n + 1
        PROVE  h[k] = Shows(h[k - 1], b[k])
    <2>1. CASE k = n + 1
      BY <1>2, <1>6, <2>1 DEF last
    <2>2. CASE k # n + 1
      <3>1. k \in 1 .. n /\ k \in 0 .. n /\ k - 1 \in 0 .. n
        BY <1>2, <2>2
      <3> QED
        BY <1>2, <1>3, <1>6, <3>1
    <2> QED
      BY <2>1, <2>2
  <1>8. Rows(s, b, h) /\ Len(b) = n + 1
    BY <1>2, <1>6, <1>7 DEF Rows, RowsTo
  <1> HIDE DEF b
  <1>9. ShowsAll(s, b) = last
    <2>1. Len(b) \in Nat
      BY <1>2, <1>8
    <2> QED
      BY <1>6, <1>8, <2>1, RowsEnd
  <1> QED
    BY <1>4, <1>9 DEF b, last

(* The first byte may be shown before the others.                          *)
LEMMA ShowsFirst ==
    ASSUME NEW s \in Screens, NEW q \in Seq(Output), q # <<>>
    PROVE  ShowsAll(Shows(s, Head(q)), Tail(q)) = ShowsAll(s, q)
  <1>1. PICK g : Rows(s, q, g)
    BY RowsExist
  <1> DEFINE n == Len(q)
             t == Tail(q)
             h == [k \in 0 .. n - 1 |-> g[k + 1]]
  <1>2. /\ n \in Nat /\ n > 0 /\ Head(q) = q[1] /\ Len(t) = n - 1
        /\ \A k \in 1 .. n - 1 : t[k] = q[k + 1]
    BY HeadTailProperties, EmptySeq, LenProperties
  <1>3. /\ g \in [0 .. n -> Screens] /\ g[0] = s
        /\ \A k \in 1 .. n : g[k] = Shows(g[k - 1], q[k])
    BY <1>1 DEF Rows, RowsTo
  <1> HIDE DEF n, t
  <1>4. h \in [0 .. n - 1 -> Screens]
    <2>1. \A k \in 0 .. n - 1 : k + 1 \in 0 .. n
      BY <1>2
    <2> QED
      BY <1>3, <2>1
  <1>5. h[0] = Shows(s, Head(q)) /\ h[n - 1] = g[n]
    <2>1. 0 \in 0 .. n - 1 /\ n - 1 \in 0 .. n - 1 /\ (n - 1) + 1 = n /\ 1 \in 1 .. n /\ 1 - 1 = 0
      BY <1>2
    <2>2. h[0] = g[1] /\ h[n - 1] = g[n]
      BY <2>1
    <2> HIDE DEF h
    <2> QED
      BY <1>2, <1>3, <2>1, <2>2
  <1>6. ASSUME NEW k \in 1 .. n - 1
        PROVE  h[k] = Shows(h[k - 1], t[k])
    <2>1. k \in 0 .. n - 1 /\ k - 1 \in 0 .. n - 1 /\ k + 1 \in 1 .. n /\ (k + 1) - 1 = k /\ (k - 1) + 1 = k
      BY <1>2
    <2>2. h[k] = g[k + 1] /\ h[k - 1] = g[k]
      BY <2>1
    <2> HIDE DEF h
    <2>3. g[k + 1] = Shows(g[k], q[k + 1])
      BY <1>3, <2>1
    <2> QED
      BY <1>2, <2>2, <2>3
  <1> HIDE DEF h
  <1>7. Rows(Shows(s, Head(q)), t, h)
    BY <1>2, <1>4, <1>5, <1>6 DEF Rows, RowsTo
  <1>8. ShowsAll(Shows(s, Head(q)), t) = g[n]
    <2>1. Len(t) \in Nat
      BY <1>2
    <2> QED
      BY <1>2, <1>5, <1>7, <2>1, RowsEnd
  <1>9. ShowsAll(s, q) = g[n]
    BY <1>1, <1>2, RowsEnd DEF n
  <1> QED
    BY <1>8, <1>9 DEF t

-----------------------------------------------------------------------------
(* Sequences.                                                              *)

LEMMA Bounded ==
    ASSUME NEW S, NEW n \in Nat, NEW x
    PROVE  x \in BoundedSeq(S, n) <=> x \in Seq(S) /\ Len(x) <= n
  <1>1. x \in BoundedSeq(S, n) <=> \E m \in 0 .. n : x \in [1 .. m -> S]
    BY DEF BoundedSeq, SeqOf
  <1>2. ASSUME NEW m \in 0 .. n, x \in [1 .. m -> S]
        PROVE  x \in Seq(S) /\ Len(x) <= n
    BY <1>2
  <1>3. ASSUME x \in Seq(S), Len(x) <= n
        PROVE  \E m \in 0 .. n : x \in [1 .. m -> S]
    BY <1>3, LenProperties
  <1> QED
    BY <1>1, <1>2, <1>3

LEMMA Short ==
    ASSUME NEW S, NEW n \in Nat \ {0}
    PROVE  <<>> \in BoundedSeq(S, n) /\ \A x \in S : <<x>> \in BoundedSeq(S, n)
  <1>1. <<>> \in Seq(S) /\ Len(<<>>) = 0
    OBVIOUS
  <1>2. ASSUME NEW x \in S
        PROVE  <<x>> \in Seq(S) /\ Len(<<x>>) = 1
    OBVIOUS
  <1>3. n \in Nat /\ 0 <= n /\ 1 <= n
    OBVIOUS
  <1>4. <<>> \in BoundedSeq(S, n)
    BY <1>1, <1>3, Bounded
  <1>5. ASSUME NEW x \in S
        PROVE  <<x>> \in BoundedSeq(S, n)
    BY <1>2, <1>3, Bounded
  <1> QED
    BY <1>4, <1>5

(* "^U" puts three bytes for each byte of the line.                        *)
RuboutBytes(bytes) ==
    \A j \in 0 .. Len(bytes) - 1 :
        bytes[Len(bytes) - j] = IF j % 3 = 1 THEN "space" ELSE "BS"

LEMMA RuboutShape ==
    /\ Rubout \in Seq(Output) /\ Len(Rubout) = 3 /\ Rubout # <<>>
    /\ RuboutBytes(Rubout)
  BY OutputKinds DEF Rubout, RuboutBytes, Output

LEMMA RuboutsShape ==
    ASSUME NEW n \in Nat
    PROVE  Rubouts(n) \in Seq(Output) /\ Len(Rubouts(n)) = 3 * n /\ RuboutBytes(Rubouts(n))
  <1> DEFINE r == Rubouts(n)
  <1>1. Rubout[1] = "BS" /\ Rubout[2] = "space" /\ Rubout[3] = "BS" /\ Len(Rubout) = 3
    BY DEF Rubout
  <1>2. r = [i \in 1 .. n * 3 |-> Rubout[1 + ((i - 1) % 3)]]
    BY <1>1 DEF Rubouts
  <1>3. \A i \in 1 .. n * 3 : Rubout[1 + ((i - 1) % 3)] \in Output
    <2>1. \A i \in 1 .. n * 3 : (i - 1) % 3 \in 0 .. 2
      OBVIOUS
    <2> QED
      BY <1>1, <2>1, OutputKinds DEF Output
  <1>4. n * 3 \in Nat /\ 3 * n = n * 3
    OBVIOUS
  <1>5. r \in [1 .. n * 3 -> Output]
    BY <1>2, <1>3
  <1> HIDE DEF r
  <1>6. r \in Seq(Output) /\ Len(r) = 3 * n
    BY <1>4, <1>5
  <1>7. RuboutBytes(r)
    <2> SUFFICES ASSUME NEW j \in 0 .. 3 * n - 1
                 PROVE  r[3 * n - j] = IF j % 3 = 1 THEN "space" ELSE "BS"
      BY <1>6 DEF RuboutBytes
    <2>1. 3 * n - j \in 1 .. n * 3
      OBVIOUS
    <2>2. (3 * n - j - 1) % 3 = IF j % 3 = 0 THEN 2 ELSE IF j % 3 = 1 THEN 1 ELSE 0
      OBVIOUS
    <2> QED
      BY <1>1, <1>2, <2>1, <2>2
  <1> QED
    BY <1>6, <1>7 DEF r

-----------------------------------------------------------------------------
(* Type correctness.                                                       *)

LEMMA WriteType ==
    ASSUME ConsoleType, NEW bytes \in Seq(Output), NEW s \in Stops, NEW n \in 0 .. LINE_MAX,
           Write(bytes, s, n)
    PROVE  /\ out' \in Seq(Output) /\ after' \in Stop
           /\ state' \in Stops \cup {"writing"} /\ len' \in 0 .. LINE_MAX
           /\ out' # <<>> <=> state' = "writing"
  BY DEF Write, ConsoleType, TypeOK, Stop, Stops

(* What feed does with a byte, case by case.                               *)
LEMMA FeedCases ==
    ASSUME NEW byte \in Keys, byte # "tab", feed(byte)
    PROVE  \/ /\ byte \in Printable /\ Fits
              /\ buf' = [buf EXCEPT ![len + 1] = byte] /\ Write(<<byte>>, "reading", len + 1)
           \/ byte = "BS" /\ len > 0 /\ Write(Rubout, "reading", len - 1) /\ UNCHANGED buf
           \/ byte = "^U" /\ Write(Rubouts(len), "reading", 0) /\ UNCHANGED buf
           \/ byte = "^C" /\ Write(<<"text", "newline", "prompt">>, "idle", 0) /\ UNCHANGED buf
           \/ byte = "CR" /\ Write(<<"newline">>, "evaluating", len) /\ UNCHANGED buf
           \/ Write(<<>>, "reading", len) /\ UNCHANGED buf
  <1>1. CASE byte \in Printable /\ Fits
    BY <1>1, OutputKinds DEF feed
  <1>2. CASE byte = "BS" /\ len > 0
    BY <1>2, OutputKinds DEF feed
  <1>3. CASE byte = "^U"
    BY <1>3, OutputKinds DEF feed
  <1>4. CASE byte = "^C"
    BY <1>4, OutputKinds DEF feed
  <1>5. CASE byte = "CR"
    BY <1>5, OutputKinds DEF feed
  <1>6. CASE ~(byte \in Printable /\ Fits) /\ ~(byte = "BS" /\ len > 0) /\ byte \notin {"^U", "^C", "CR"}
    BY <1>6 DEF feed
  <1> QED
    BY <1>1, <1>2, <1>3, <1>4, <1>5, <1>6

(* The byte Poll feeds.                                                    *)
LEMMA PolledByte ==
    ASSUME ConsoleType, rx # <<>>
    PROVE  /\ rx \in Seq(Keys) /\ Tail(rx) \in BoundedSeq(Keys, RX_DEPTH)
           /\ (IF Head(rx) = "tab" THEN "space" ELSE Head(rx)) \in Keys \ {"tab"}
  <1>1. rx \in Seq(Keys) /\ Len(rx) <= RX_DEPTH /\ RX_DEPTH \in Nat
    BY Bounded, ConsoleAssumption DEF ConsoleType, TypeOK
  <1>2. Tail(rx) \in Seq(Keys) /\ Len(Tail(rx)) <= RX_DEPTH /\ Head(rx) \in Keys
    BY <1>1
  <1> QED
    BY <1>1, <1>2, Bounded, OutputKinds DEF Keys

LEMMA TypeInit == Init => ConsoleType
  <1> SUFFICES ASSUME Init PROVE ConsoleType
    OBVIOUS
  <1>1. LINE_MAX \in Nat /\ RX_DEPTH \in Nat /\ RX_DEPTH >= 1 /\ TX_DEPTH \in Nat \ {0}
    BY ConsoleAssumption
  <1>2. rx \in BoundedSeq(Keys, RX_DEPTH)
    <2>1. rx = <<>> \/ \E b \in Keys : rx = <<b>>
      BY DEF Init
    <2> QED
      BY <1>1, <2>1, Short
  <1>3. tx \in BoundedSeq(Output, TX_DEPTH)
    BY <1>1, Short DEF Init
  <1>4. buf \in [1 .. LINE_MAX -> Printable]
    BY OutputKinds DEF Init, Blank
  <1>5. screen \in Screens
    BY DEF Init, Screens
  <1>6. out \in Seq(Output) /\ (out # <<>> <=> state = "writing") /\ after \in Stop /\ len \in 0 .. LINE_MAX
    BY <1>1 DEF Init, Stop, Stops
  <1>7. screen.cells \in Seq(Printable) /\ screen.col \in 0 .. Len(screen.cells)
    BY DEF Init
  <1> QED
    BY <1>2, <1>3, <1>4, <1>5, <1>6, <1>7 DEF Init, ConsoleType, TypeOK

LEMMA TypeNext == ConsoleType /\ [Next]_vars => ConsoleType'
  <1> SUFFICES ASSUME ConsoleType, [Next]_vars PROVE ConsoleType'
    OBVIOUS
  <1>0. /\ LINE_MAX \in Nat \ {0} /\ RX_DEPTH \in Nat \ {0} /\ len \in 0 .. LINE_MAX
        /\ TX_DEPTH \in Nat \ {0} /\ tx \in BoundedSeq(Output, TX_DEPTH)
    BY ConsoleAssumption DEF ConsoleType, TypeOK
  <1>a. ASSUME NEW bytes \in Seq(Output), NEW s \in Stops, NEW n \in 0 .. LINE_MAX,
               Write(bytes, s, n), buf' \in [1 .. LINE_MAX -> Printable], rx' \in BoundedSeq(Keys, RX_DEPTH),
               enabled' \in BOOLEAN, lost' \in BOOLEAN, UNCHANGED <<target, tx, screen, pasting, dropped, resets>>
        PROVE  ConsoleType'
    BY <1>a, WriteType DEF ConsoleType, TypeOK, Stops
  <1>b. /\ <<"text">> \in Seq(Output) /\ <<"prompt">> \in Seq(Output) /\ <<"text", "prompt">> \in Seq(Output)
        /\ <<"newline">> \in Seq(Output) /\ <<>> \in Seq(Output)
        /\ <<"text", "newline", "prompt">> \in Seq(Output)
    BY DEF Output
  <1>c. /\ buf \in [1 .. LINE_MAX -> Printable] /\ rx \in BoundedSeq(Keys, RX_DEPTH)
        /\ enabled \in BOOLEAN /\ lost \in BOOLEAN
    BY DEF ConsoleType, TypeOK
  <1>d. 0 \in 0 .. LINE_MAX
    BY <1>0
  <1>1. CASE Arrive
    <2>1. rx' \in BoundedSeq(Keys, RX_DEPTH)
      <3>1. CASE \E b \in Keys : Len(rx) < RX_DEPTH /\ rx' = Append(rx, b)
        <4>1. rx \in Seq(Keys) /\ Len(rx) <= RX_DEPTH
          BY <1>0, Bounded DEF ConsoleType, TypeOK
        <4>2. rx' \in Seq(Keys) /\ Len(rx') <= RX_DEPTH
          BY <1>0, <3>1, <4>1
        <4> QED
          BY <1>0, <4>2, Bounded
      <3>2. CASE UNCHANGED rx
        BY <3>2 DEF ConsoleType, TypeOK
      <3> QED
        BY <1>1, <3>1, <3>2 DEF Arrive
    <2> QED
      BY <1>1, <2>1 DEF Arrive, ConsoleType, TypeOK
  <1>2. CASE Transmitted
    <2>1. Head(tx) \in Output /\ tx' \in Seq(Output) /\ Len(tx') <= TX_DEPTH
      <3>1. tx \in Seq(Output) /\ tx # <<>> /\ Len(tx) <= TX_DEPTH /\ tx' = Tail(tx)
        BY <1>0, <1>2, Bounded DEF Transmitted
      <3> QED
        BY <1>0, <3>1, HeadTailProperties, LenProperties
    <2>2. screen' \in Screens
      <3>1. CASE ~dropped
        BY <1>2, <2>1, <3>1, ShowsType DEF Transmitted, ConsoleType
      <3>2. CASE dropped
        <4>1. StillPrompted(screen, Head(tx)) \in BOOLEAN
          BY ScreenType DEF StillPrompted, ConsoleType
        <4>2. screen' = [cells |-> <<>>, col |-> 0, prompted |-> StillPrompted(screen, Head(tx))]
          BY <1>2, <3>2 DEF Transmitted
        <4> QED
          BY <4>1, <4>2 DEF Screens
      <3> QED
        BY <3>1, <3>2
    <2>3. screen'.cells \in Seq(Printable) /\ screen'.col \in 0 .. Len(screen'.cells)
      BY <2>2, ScreenType
    <2>4. tx' \in BoundedSeq(Output, TX_DEPTH)
      BY <1>0, <2>1, Bounded
    <2> QED
      BY <1>2, <2>2, <2>3, <2>4 DEF Transmitted, ConsoleType, TypeOK
  <1>3. CASE put_byte
    <2>1. out \in Seq(Output) /\ out # <<>> /\ after \in Stop
      BY <1>3 DEF put_byte, ConsoleType, TypeOK
    <2>2. Head(out) \in Output /\ Tail(out) \in Seq(Output) /\ (Len(out) = 1 <=> Tail(out) = <<>>)
      <3>1. Head(out) \in Output /\ Tail(out) \in Seq(Output) /\ Len(Tail(out)) = Len(out) - 1
        BY <2>1, HeadTailProperties
      <3>2. Len(out) \in Nat /\ Len(Tail(out)) \in Nat
        BY <2>1, <3>1
      <3>3. Tail(out) = <<>> <=> Len(Tail(out)) = 0
        BY <3>1, <3>2, EmptySeq
      <3> QED
        BY <3>1, <3>2, <3>3
    <2>3. tx' \in BoundedSeq(Output, TX_DEPTH) /\ dropped' \in BOOLEAN
      <3>1. CASE Room
        <4>1. tx \in Seq(Output) /\ Len(tx) < TX_DEPTH /\ tx' = Append(tx, Head(out)) /\ UNCHANGED dropped
          BY <1>0, <1>3, <3>1, Bounded DEF put_byte, Room
        <4>2. tx' \in Seq(Output) /\ Len(tx') = Len(tx) + 1
          BY <2>2, <4>1, AppendProperties
        <4>3. Len(tx') <= TX_DEPTH
          BY <1>0, <4>1, <4>2, LenProperties
        <4> QED
          BY <1>0, <4>1, <4>2, <4>3, Bounded DEF ConsoleType
      <3>2. CASE ~Room
        BY <1>0, <1>3, <3>2 DEF put_byte
      <3> QED
        BY <3>1, <3>2
    <2>4. out' \in Seq(Output) /\ (out' # <<>> <=> state' = "writing") /\ len' \in 0 .. LINE_MAX
          /\ state' \in Stops \cup {"writing"}
      BY <1>0, <1>3, <2>1, <2>2 DEF put_byte, Stop, Stops
    <2> QED
      BY <1>3, <2>3, <2>4 DEF put_byte, ConsoleType, TypeOK, Stops
  <1>4. CASE Boot
    BY <1>0, <1>4, <1>a, <1>b DEF Boot, uart_init, ConsoleType, TypeOK, Stops
  <1>5. CASE Drain
    <2>1. rx' \in BoundedSeq(Keys, RX_DEPTH)
      BY <1>5, PolledByte DEF Drain
    <2> QED
      BY <1>5, <2>1 DEF Drain, ConsoleType, TypeOK
  <1>6. CASE Drained
    BY <1>0, <1>6, <1>a, <1>b DEF Drained, ConsoleType, TypeOK, Stops
  <1>7. CASE Poll
    <2> DEFINE byte == IF Head(rx) = "tab" THEN "space" ELSE Head(rx)
    <2>1. byte \in Keys \ {"tab"} /\ rx' \in BoundedSeq(Keys, RX_DEPTH) /\ feed(byte)
      BY <1>7, PolledByte DEF Poll
    <2> HIDE DEF byte
    <2>2. UNCHANGED <<target, enabled, tx, screen, pasting, lost, dropped, resets>> /\ enabled \in BOOLEAN /\ lost \in BOOLEAN
          /\ buf \in [1 .. LINE_MAX -> Printable]
      BY <1>7 DEF Poll, ConsoleType, TypeOK
    <2>3. CASE byte \in Printable /\ Fits
               /\ buf' = [buf EXCEPT ![len + 1] = byte] /\ Write(<<byte>>, "reading", len + 1)
      <3>1. <<byte>> \in Seq(Output)
        BY <2>3 DEF Output
      <3>2. len + 1 \in 0 .. LINE_MAX
        BY <1>0, <2>3 DEF Fits
      <3>3. buf' \in [1 .. LINE_MAX -> Printable]
        BY <2>2, <2>3
      <3> QED
        BY <1>a, <2>1, <2>2, <2>3, <3>1, <3>2, <3>3 DEF Stops
    <2>4. CASE len > 0 /\ Write(Rubout, "reading", len - 1) /\ UNCHANGED buf
      <3>1. len - 1 \in 0 .. LINE_MAX
        BY <1>0, <2>4
      <3> QED
        BY <1>a, <2>1, <2>2, <2>4, <3>1, RuboutShape DEF Stops
    <2>5. CASE Write(Rubouts(len), "reading", 0) /\ UNCHANGED buf
      <3>1. 0 \in 0 .. LINE_MAX /\ Rubouts(len) \in Seq(Output)
        BY <1>0, RuboutsShape
      <3> QED
        BY <1>a, <2>1, <2>2, <2>5, <3>1 DEF Stops
    <2>6. CASE Write(<<"text", "newline", "prompt">>, "idle", 0) /\ UNCHANGED buf
      <3> DEFINE bytes == <<"text", "newline", "prompt">>
      <3>1. bytes \in Seq(Output) /\ Write(bytes, "idle", 0)
        BY <1>b, <2>6
      <3> HIDE DEF bytes
      <3>2. "idle" \in Stops /\ 0 \in 0 .. LINE_MAX
        BY <1>0 DEF Stops
      <3> QED
        BY <1>a, <2>1, <2>2, <2>6, <3>1, <3>2
    <2>7. CASE Write(<<"newline">>, "evaluating", len) /\ UNCHANGED buf
      BY <1>0, <1>a, <1>b, <2>1, <2>2, <2>7 DEF Stops
    <2>8. CASE Write(<<>>, "reading", len) /\ UNCHANGED buf
      BY <1>0, <1>a, <1>b, <2>1, <2>2, <2>8 DEF Stops
    <2> QED
      BY <2>1, <2>3, <2>4, <2>5, <2>6, <2>7, <2>8, FeedCases
  <1>8. CASE PollEmpty
    BY <1>8 DEF PollEmpty, Polling, ConsoleType, TypeOK
  <1>9. CASE Evaluate
    <2>1. /\ UNCHANGED <<target, tx, screen, pasting, dropped, resets>>
          /\ buf' \in [1 .. LINE_MAX -> Printable] /\ rx' \in BoundedSeq(Keys, RX_DEPTH)
          /\ enabled' \in BOOLEAN /\ lost' \in BOOLEAN
      BY <1>c, <1>9 DEF Evaluate
    <2>2. PICK bytes \in {<<>>, <<"text">>}, s \in {"printing silent", "printing text", "parked"} : Write(bytes, s, 0)
      BY <1>9 DEF Evaluate
    <2>3. bytes \in Seq(Output)
      BY <1>b, Zenon
    <2>4. s \in Stops
      BY Zenon DEF Stops
    <2> QED
      BY <1>a, <1>d, <2>1, <2>2, <2>3, <2>4
  <1>10. CASE Printing
    <2>1. /\ UNCHANGED <<target, tx, screen, pasting, dropped, resets>>
          /\ buf' \in [1 .. LINE_MAX -> Printable] /\ rx' \in BoundedSeq(Keys, RX_DEPTH)
          /\ enabled' \in BOOLEAN /\ lost' \in BOOLEAN
      BY <1>c, <1>10 DEF Printing
    <2>2. PICK bytes \in {<<"prompt">>, <<"text", "prompt">>, <<"text">>}, s \in {"idle", "parked"} : Write(bytes, s, len)
      BY <1>10 DEF Printing
    <2>3. bytes \in Seq(Output)
      BY <1>b, Zenon
    <2>4. s \in Stops
      BY DEF Stops
    <2> QED
      BY <1>0, <1>a, <2>1, <2>2, <2>3, <2>4
  <1>11. CASE Reset
    <2>1. screen' \in Screens /\ screen'.cells = screen.cells /\ screen'.col = screen.col
      <3>1. screen \in [cells : Seq(Printable), col : Nat, prompted : BOOLEAN] /\ screen.col <= Len(screen.cells)
        BY ScreenType DEF ConsoleType
      <3>2. screen' = [screen EXCEPT !.prompted = FALSE]
        BY <1>11 DEF Reset
      <3>3. screen' \in [cells : Seq(Printable), col : Nat, prompted : BOOLEAN]
            /\ screen'.cells = screen.cells /\ screen'.col = screen.col
        BY <3>1, <3>2
      <3> QED
        BY <3>1, <3>3, ScreenType
    <2>2. rx' \in BoundedSeq(Keys, RX_DEPTH)
      <3>1. rx' \in {rx, <<>>}
        BY <1>11 DEF Reset
      <3>2. <<>> \in BoundedSeq(Keys, RX_DEPTH)
        BY <1>0, Short
      <3> QED
        BY <1>c, <3>1, <3>2
    <2>3. tx' \in BoundedSeq(Output, TX_DEPTH)
      <3>1. tx' = <<>>
        BY <1>11 DEF Reset
      <3> QED
        BY <1>0, <3>1, Short
    <2>4. buf' \in [1 .. LINE_MAX -> Printable]
      BY <1>11, OutputKinds DEF Reset, Blank
    <2>5. out' \in Seq(Output) /\ (out' # <<>> <=> state' = "writing") /\ after' \in Stop /\ len' \in 0 .. LINE_MAX
      BY <1>0, <1>11 DEF Reset, Stop, Stops
    <2>6. screen'.cells \in Seq(Printable) /\ screen'.col \in 0 .. Len(screen'.cells)
      BY <2>1, ScreenType
    <2>7. /\ state' = "boot" /\ enabled' \in BOOLEAN /\ lost' = FALSE /\ dropped' = FALSE
          /\ pasting' \in BOOLEAN /\ target' \in {"arm", "riscv"} /\ resets' \in Nat
      BY <1>11 DEF Reset, ConsoleType
    <2> QED
      BY <2>1, <2>2, <2>3, <2>4, <2>5, <2>6, <2>7 DEF ConsoleType, TypeOK
  <1>12. CASE UNCHANGED vars
    BY <1>12 DEF vars, ConsoleType, TypeOK
  <1> QED
    BY <1>1, <1>2, <1>3, <1>4, <1>5, <1>6, <1>7, <1>8, <1>9, <1>10, <1>11, <1>12 DEF Next, Loop

LEMMA TypeStays == Spec => []ConsoleType
  BY TypeInit, TypeNext, PTL DEF Spec

(* Every variable of the console keeps its type: LINE_BUF is never written *)
(* past LINE_MAX, bytes are pending in the state writing only.             *)
THEOREM ConsoleTypeCorrect == Spec => []TypeOK
  <1>1. ConsoleType => TypeOK
    BY DEF ConsoleType
  <1> QED
    BY <1>1, TypeStays, PTL

-----------------------------------------------------------------------------
(* The screen and the line.                                                *)

(* The screen once the bytes in the transmitter are shown.                 *)
Settled == ShowsAll(screen, tx)

(* The first n cells are those of the line, and from a cell on all is      *)
(* blank.                                                                  *)
Shown(line, s, n) == n <= Len(s.cells) /\ \A i \in 1 .. n : s.cells[i] = line[i]
Cleared(s, n) == \A i \in n + 1 .. Len(s.cells) : s.cells[i] = "space"
Synced(line, s, n) == s.col = n /\ Shown(line, s, n) /\ Cleared(s, n)

(* The bytes left to put bring the line to n bytes: the echo of the last   *)
(* one, or k bytes of rubouts, the first of which may be half put.         *)
Echoing(line, s, n, bytes) == n > 0 /\ bytes = <<line[n]>> /\ Synced(line, s, n - 1)
Rubbing(line, s, n, k) ==
    \E m \in Nat :
        \/ k = 3 * m /\ Synced(line, s, n + m)
        \/ k = 3 * m + 2 /\ s.col = n + m /\ Shown(line, s, n + m) /\ Cleared(s, n + m + 1)
        \/ k = 3 * m + 1 /\ s.col = n + m + 1 /\ Shown(line, s, n + m) /\ Cleared(s, n + m)

(* What the pending bytes are, by the station they lead to.                *)
PendingInv ==
    /\ after.state \in {"draining", "idle", "reading", "evaluating", "parked"}
    /\ after.state \in {"draining", "parked"} => out = <<"text">> /\ after.len = 0
    /\ after.state = "idle" => out[Len(out)] = "prompt" /\ after.len = 0
    /\ after.state = "evaluating" => out = <<"newline">> /\ (~dropped => Synced(buf, Settled, after.len))
    /\ after.state = "reading" /\ ~dropped =>
          /\ Settled.prompted
          /\ \/ Echoing(buf, Settled, after.len, out)
             \/ RuboutBytes(out) /\ Rubbing(buf, Settled, after.len, Len(out))

LineInv ==
    /\ Polling /\ ~dropped => Synced(buf, Settled, len) /\ Settled.prompted
    /\ state = "evaluating" /\ ~dropped => Synced(buf, Settled, len)
    /\ state \in {"boot", "draining", "printing text", "printing silent", "parked"} => len = 0
    /\ state = "writing" => PendingInv

(* Before the first prompt nothing but the banner is on its way; what is   *)
(* on the screen came through a UART that is on.  On ARM nothing drops.    *)
Early == state \in {"boot", "draining"} \/ (state = "writing" /\ after.state = "draining")

BootInv ==
    /\ target = "arm" => ~dropped
    /\ screen.prompted => enabled
    /\ Early => ~screen.prompted /\ tx \in Seq({"text"})
    /\ ~Early /\ ~pasting => ~lost

ConsoleInv == ConsoleType /\ LineInv /\ BootInv

LEMMA SettledType ==
    ASSUME ConsoleType
    PROVE  Settled \in Screens
  <1>1. screen \in Screens /\ tx \in Seq(Output)
    BY ConsoleAssumption, Bounded DEF ConsoleType, TypeOK
  <1>2. PICK g : Rows(screen, tx, g)
    BY <1>1, RowsExist
  <1> QED
    BY <1>1, <1>2, RowsEnd, LenProperties DEF Settled

(* One byte of a rubout.                                                   *)
LEMMA RubByte ==
    ASSUME NEW line, NEW s \in Screens, NEW n \in Nat, NEW k \in Nat, k > 0,
           Rubbing(line, s, n, k),
           NEW b, b = IF (k - 1) % 3 = 1 THEN "space" ELSE "BS"
    PROVE  Rubbing(line, Shows(s, b), n, k - 1) /\ Shows(s, b).prompted = s.prompted
  <1> DEFINE t == Shows(s, b)
  <1>1. s.cells \in Seq(Printable) /\ Len(s.cells) \in Nat /\ s.col \in Nat
    BY ScreenType
  <1>2. PICK m \in Nat :
          \/ k = 3 * m /\ Synced(line, s, n + m)
          \/ k = 3 * m + 2 /\ s.col = n + m /\ Shown(line, s, n + m) /\ Cleared(s, n + m + 1)
          \/ k = 3 * m + 1 /\ s.col = n + m + 1 /\ Shown(line, s, n + m) /\ Cleared(s, n + m)
    BY DEF Rubbing
  <1>3. CASE k = 3 * m /\ Synced(line, s, n + m)
    <2>1. m - 1 \in Nat /\ k - 1 = 3 * (m - 1) + 2 /\ (k - 1) % 3 = 2
      BY <1>3
    <2>2. b = "BS" /\ s.col > 0
      BY <1>3, <2>1 DEF Synced
    <2>3. t.cells = s.cells /\ t.col = s.col - 1 /\ t.prompted = s.prompted
      BY <2>2, ShowsBS
    <2> HIDE DEF t
    <2>4. t.col = n + (m - 1) /\ Shown(line, t, n + (m - 1)) /\ Cleared(t, n + (m - 1) + 1)
      BY <1>1, <1>3, <2>1, <2>3 DEF Synced, Shown, Cleared
    <2>5. Rubbing(line, t, n, k - 1)
      BY <2>1, <2>4 DEF Rubbing
    <2> QED
      BY <2>3, <2>5 DEF t
  <1>4. CASE k = 3 * m + 2 /\ s.col = n + m /\ Shown(line, s, n + m) /\ Cleared(s, n + m + 1)
    <2>1. k - 1 = 3 * m + 1 /\ (k - 1) % 3 = 1
      BY <1>4
    <2>2. b = "space" /\ b \in Printable
      BY <2>1, OutputKinds
    <2>3. /\ t.col = s.col + 1 /\ t.prompted = s.prompted
          /\ Len(t.cells) = IF s.col = Len(s.cells) THEN s.col + 1 ELSE Len(s.cells)
          /\ t.cells[s.col + 1] = b
          /\ \A i \in 1 .. Len(t.cells) : i # s.col + 1 => t.cells[i] = s.cells[i]
      BY <2>2, ShowsPrintable
    <2> HIDE DEF t
    <2>4. n + m <= Len(s.cells) /\ Len(t.cells) \in Nat /\ Len(s.cells) <= Len(t.cells)
      BY <1>1, <1>4, <2>3 DEF Shown
    <2>5. Shown(line, t, n + m)
      BY <1>1, <1>4, <2>3, <2>4 DEF Shown
    <2>6. Cleared(t, n + m)
      <3> SUFFICES ASSUME NEW i \in n + m + 1 .. Len(t.cells) PROVE t.cells[i] = "space"
        BY DEF Cleared
      <3>1. CASE i = n + m + 1
        BY <1>4, <2>2, <2>3, <3>1
      <3>2. CASE i # n + m + 1
        BY <1>1, <1>4, <2>3, <2>4, <3>2 DEF Cleared
      <3> QED
        BY <3>1, <3>2
    <2>7. Rubbing(line, t, n, k - 1)
      BY <1>4, <2>1, <2>3, <2>5, <2>6 DEF Rubbing
    <2> QED
      BY <2>3, <2>7 DEF t
  <1>5. CASE k = 3 * m + 1 /\ s.col = n + m + 1 /\ Shown(line, s, n + m) /\ Cleared(s, n + m)
    <2>1. k - 1 = 3 * m /\ (k - 1) % 3 = 0
      BY <1>5
    <2>2. b = "BS" /\ s.col > 0
      BY <1>5, <2>1
    <2>3. t.cells = s.cells /\ t.col = s.col - 1 /\ t.prompted = s.prompted
      BY <2>2, ShowsBS
    <2> HIDE DEF t
    <2>4. Synced(line, t, n + m)
      BY <1>1, <1>5, <2>3 DEF Synced, Shown, Cleared
    <2>5. Rubbing(line, t, n, k - 1)
      BY <2>1, <2>4 DEF Rubbing
    <2> QED
      BY <2>3, <2>5 DEF t
  <1> QED
    BY <1>2, <1>3, <1>4, <1>5

(* The first byte of a rubout, and the others.                             *)
LEMMA RuboutTail ==
    ASSUME NEW bytes \in Seq(Output), bytes # <<>>, RuboutBytes(bytes)
    PROVE  /\ Head(bytes) = IF (Len(bytes) - 1) % 3 = 1 THEN "space" ELSE "BS"
           /\ RuboutBytes(Tail(bytes))
  <1>1. Len(bytes) \in Nat /\ Len(bytes) > 0 /\ Head(bytes) = bytes[1]
    BY EmptySeq
  <1>2. Len(Tail(bytes)) = Len(bytes) - 1 /\ \A i \in 1 .. Len(Tail(bytes)) : Tail(bytes)[i] = bytes[i + 1]
    BY HeadTailProperties
  <1> DEFINE n == Len(bytes)
             tail == Tail(bytes)
  <1> HIDE DEF n, tail
  <1>3. n - 1 \in 0 .. n - 1 /\ n - (n - 1) = 1
    BY <1>1 DEF n
  <1>4. \A j \in 0 .. n - 1 : bytes[n - j] = IF j % 3 = 1 THEN "space" ELSE "BS"
    BY DEF RuboutBytes, n
  <1>5. Head(bytes) = IF (n - 1) % 3 = 1 THEN "space" ELSE "BS"
    BY <1>1, <1>3, <1>4
  <1>6. Len(tail) = n - 1 /\ \A i \in 1 .. n - 1 : tail[i] = bytes[i + 1]
    BY <1>2 DEF n, tail
  <1>7. ASSUME NEW j \in 0 .. n - 2
        PROVE  tail[(n - 1) - j] = IF j % 3 = 1 THEN "space" ELSE "BS"
    <2>1. (n - 1) - j \in 1 .. n - 1 /\ (n - 1) - j + 1 = n - j /\ j \in 0 .. n - 1
      BY <1>1 DEF n
    <2> QED
      BY <1>4, <1>6, <2>1
  <1>8. RuboutBytes(tail)
    <2>1. Len(tail) - 1 = n - 2
      BY <1>1, <1>6 DEF n
    <2> QED
      BY <1>6, <1>7, <2>1 DEF RuboutBytes
  <1> QED
    BY <1>5, <1>8 DEF n, tail

(* The echo of the last byte.                                              *)
LEMMA EchoByte ==
    ASSUME NEW line, NEW s \in Screens, NEW n \in Nat, n > 0, line[n] \in Printable,
           Synced(line, s, n - 1)
    PROVE  Synced(line, Shows(s, line[n]), n) /\ Shows(s, line[n]).prompted = s.prompted
  <1> DEFINE t == Shows(s, line[n])
  <1>1. s.cells \in Seq(Printable) /\ Len(s.cells) \in Nat /\ s.col = n - 1 /\ s.col <= Len(s.cells)
    BY ScreenType DEF Synced
  <1>2. /\ t.col = s.col + 1 /\ t.prompted = s.prompted
        /\ Len(t.cells) = IF s.col = Len(s.cells) THEN s.col + 1 ELSE Len(s.cells)
        /\ t.cells[s.col + 1] = line[n]
        /\ \A i \in 1 .. Len(t.cells) : i # s.col + 1 => t.cells[i] = s.cells[i]
    BY ShowsPrintable
  <1> HIDE DEF t
  <1>3. s.col + 1 = n /\ t.col = n /\ n <= Len(t.cells) /\ Len(t.cells) \in Nat
    BY <1>1, <1>2
  <1>4. Shown(line, t, n)
    <2> SUFFICES ASSUME NEW i \in 1 .. n PROVE t.cells[i] = line[i]
      BY <1>3 DEF Shown
    <2>1. CASE i = n
      BY <1>2, <1>3, <2>1
    <2>2. CASE i # n
      BY <1>1, <1>2, <1>3, <2>2 DEF Synced, Shown
    <2> QED
      BY <2>1, <2>2
  <1>5. Cleared(t, n)
    BY <1>1, <1>2, <1>3 DEF Synced, Cleared
  <1> QED
    BY <1>2, <1>3, <1>4, <1>5 DEF Synced, t

-----------------------------------------------------------------------------
(* The invariant of the line.                                              *)

LEMMA LineInit == Init => LineInv /\ BootInv
  <1> SUFFICES ASSUME Init PROVE LineInv /\ BootInv
    OBVIOUS
  <1>1. state = "boot" /\ len = 0 /\ tx = <<>> /\ ~dropped /\ ~lost /\ ~screen.prompted
    BY DEF Init
  <1>2. tx \in Seq({"text"})
    BY <1>1
  <1> QED
    BY <1>1, <1>2 DEF LineInv, BootInv, Polling, Early

(* Only put_byte and a reset change what the terminal comes to show.       *)
LEMMA SettledStays ==
    ASSUME UNCHANGED <<tx, screen>>
    PROVE  Settled' = Settled
  BY DEF Settled

LEMMA SettledShown ==
    ASSUME ConsoleType, Transmitted, ~dropped
    PROVE  Settled' = Settled
  <1>1. screen \in Screens /\ tx \in Seq(Output) /\ tx # <<>>
    BY ConsoleAssumption, Bounded DEF ConsoleType, TypeOK, Transmitted
  <1>2. screen' = Shows(screen, Head(tx)) /\ tx' = Tail(tx)
    BY DEF Transmitted
  <1> QED
    BY <1>1, <1>2, ShowsFirst DEF Settled

(* A step that leaves the line, the pending bytes and the screen alone.    *)
LEMMA LineStays ==
    ASSUME LineInv, UNCHANGED <<state, buf, len, out, after, dropped>>, ~dropped => Settled' = Settled
    PROVE  LineInv'
  BY DEF LineInv, PendingInv, Polling

LEMMA BootStep ==
    ASSUME ConsoleType, LineInv, BootInv, Next
    PROVE  BootInv'
  <1>1. CASE Arrive
    <2>1. ~Early /\ ~pasting => ~lost'
      <3> SUFFICES ASSUME ~Early, ~pasting PROVE ~lost'
        OBVIOUS
      <3>1. Quiet
        BY <1>1 DEF Arrive
      <3>2. enabled /\ Len(rx) < RX_DEPTH
        BY <3>1, ConsoleAssumption, EmptySeq DEF Quiet, BootInv
      <3> QED
        BY <1>1, <3>2 DEF Arrive, BootInv
    <2> QED
      BY <1>1, <2>1 DEF Arrive, BootInv, Early
  <1>2. CASE Transmitted
    <2>1. Early => ~screen'.prompted /\ tx' \in Seq({"text"})
      <3> SUFFICES ASSUME Early PROVE ~screen'.prompted /\ tx' \in Seq({"text"})
        OBVIOUS
      <3>1. tx \in Seq({"text"}) /\ tx # <<>> /\ ~screen.prompted /\ screen \in Screens
        BY <1>2 DEF BootInv, Transmitted, ConsoleType
      <3>2. Head(tx) = "text" /\ Tail(tx) \in Seq({"text"})
        BY <3>1, HeadTailProperties
      <3>3. ~Shows(screen, "text").prompted /\ ~StillPrompted(screen, "text")
        BY <3>1, ShowsText DEF StillPrompted
      <3> QED
        BY <1>2, <3>2, <3>3 DEF Transmitted
    <2> QED
      BY <1>2, <2>1 DEF Transmitted, BootInv, Early
  <1>3. CASE put_byte
    <2>1. state = "writing" /\ state' \in {"writing", after.state} /\ UNCHANGED <<target, after, enabled, screen, pasting, lost>>
      BY <1>3 DEF put_byte
    <2>2. after.state \in Stops /\ after.state \notin {"boot", "writing"}
      BY <2>1 DEF ConsoleType, Stop, Stops, LineInv, PendingInv
    <2>3. Early => Head(out) = "text"
      BY <2>1 DEF LineInv, PendingInv, Early
    <2>4. Early' <=> Early
      BY <2>1, <2>2 DEF Early
    <2>5. Early => tx' \in Seq({"text"})
      <3>1. CASE Room
        BY <1>3, <2>3, <3>1, AppendProperties DEF put_byte, BootInv
      <3>2. CASE ~Room
        BY <1>3, <3>2 DEF put_byte, BootInv
      <3> QED
        BY <3>1, <3>2
    <2>6. target = "arm" => ~dropped'
      BY <1>3 DEF put_byte, BootInv
    <2> QED
      BY <2>1, <2>4, <2>5, <2>6 DEF BootInv
  <1>4. CASE Boot
    BY <1>4 DEF Boot, uart_init, Write, BootInv, Early
  <1>5. CASE Drain
    BY <1>5 DEF Drain, BootInv, Early
  <1>6. CASE Drained
    BY <1>6 DEF Drained, Write, BootInv, Early
  <1>7. CASE Poll
    <2> DEFINE byte == IF Head(rx) = "tab" THEN "space" ELSE Head(rx)
    <2>1. byte \in Keys \ {"tab"} /\ feed(byte) /\ Polling /\ UNCHANGED <<target, enabled, tx, screen, pasting, lost, dropped>>
      BY <1>7, PolledByte DEF Poll
    <2> HIDE DEF byte
    <2>2. state' \in {"reading", "idle", "evaluating", "writing"} /\ (state' = "writing" => after'.state \in {"reading", "idle", "evaluating"})
      BY <2>1, FeedCases DEF Write
    <2>3. ~Early /\ ~Early'
      BY <2>1, <2>2 DEF Early, Polling
    <2> QED
      BY <2>1, <2>3 DEF BootInv
  <1>8. CASE PollEmpty
    BY <1>8 DEF PollEmpty, Polling, BootInv, Early
  <1>9. CASE Evaluate
    <2>1. UNCHANGED <<target, enabled, tx, screen, pasting, lost, dropped>> /\ state = "evaluating"
      BY <1>9 DEF Evaluate
    <2>2. state' \in {"printing silent", "printing text", "parked", "writing"} /\ (state' = "writing" => after'.state \in {"printing silent", "printing text", "parked"})
      <3>1. \E bytes : \E s \in {"printing silent", "printing text", "parked"} : Write(bytes, s, 0)
        BY <1>9 DEF Evaluate
      <3>2. PICK bytes, s : s \in {"printing silent", "printing text", "parked"} /\ Write(bytes, s, 0)
        BY <3>1
      <3>3. after'.state = s /\ state' \in {s, "writing"}
        BY <3>2 DEF Write
      <3> QED
        BY <3>2, <3>3
    <2>3. ~Early /\ ~Early'
      BY <2>1, <2>2 DEF Early
    <2> QED
      BY <2>1, <2>3 DEF BootInv
  <1>10. CASE Printing
    <2>1. UNCHANGED <<target, enabled, tx, screen, pasting, lost, dropped>> /\ state \in {"printing silent", "printing text"}
      BY <1>10 DEF Printing
    <2>2. state' \in {"idle", "parked", "writing"} /\ (state' = "writing" => after'.state \in {"idle", "parked"})
      <3>1. \E bytes : \E s \in {"idle", "parked"} : Write(bytes, s, len)
        BY <1>10 DEF Printing
      <3> QED
        BY <3>1 DEF Write
    <2>3. ~Early /\ ~Early'
      BY <2>1, <2>2 DEF Early
    <2> QED
      BY <2>1, <2>3 DEF BootInv
  <1>11. CASE Reset
    <2>1. ~screen'.prompted
      <3>1. screen \in [cells : Seq(Printable), col : Nat, prompted : BOOLEAN]
        BY ScreenType DEF ConsoleType
      <3> QED
        BY <1>11, <3>1 DEF Reset
    <2>2. tx' \in Seq({"text"}) /\ ~dropped' /\ ~lost'
      BY <1>11 DEF Reset
    <2>3. Early'
      BY <1>11 DEF Reset, Early
    <2> QED
      BY <2>1, <2>2, <2>3 DEF BootInv
  <1> QED
    BY <1>1, <1>2, <1>3, <1>4, <1>5, <1>6, <1>7, <1>8, <1>9, <1>10, <1>11 DEF Next, Loop

(* put_byte: the echo, one byte of a rubout, or the text before a stop.    *)
LEMMA PutStep ==
    ASSUME ConsoleType, LineInv, BootInv, put_byte
    PROVE  LineInv'
  <1> DEFINE s == Settled
             b == Head(out)
             n == after.len
  <1>1. /\ state = "writing" /\ out' = Tail(out)
        /\ UNCHANGED <<buf, after, screen>>
        /\ Len(out) = 1 => state' = after.state /\ len' = n
        /\ Len(out) # 1 => UNCHANGED <<state, len>>
        /\ ~dropped' => ~dropped /\ tx' = Append(tx, b)
    BY DEF put_byte, ConsoleType
  <1>2. /\ out \in Seq(Output) /\ out # <<>> /\ Len(out) \in Nat /\ Len(out) > 0
        /\ b \in Output /\ b = out[1] /\ Tail(out) \in Seq(Output) /\ Len(Tail(out)) = Len(out) - 1
        /\ \A i \in 1 .. Len(out) - 1 : Tail(out)[i] = out[i + 1]
    <2>1. out \in Seq(Output) /\ out # <<>>
      BY <1>1 DEF ConsoleType, TypeOK
    <2>2. Len(out) \in Nat /\ Len(out) > 0 /\ b = out[1]
      BY <2>1, EmptySeq
    <2> QED
      BY <2>1, <2>2, HeadTailProperties
  <1>3. s \in Screens /\ n \in 0 .. LINE_MAX /\ n \in Nat /\ buf \in [1 .. LINE_MAX -> Printable]
    <2>1. Settled \in Screens
      BY SettledType
    <2>2. after.len \in 0 .. LINE_MAX /\ buf \in [1 .. LINE_MAX -> Printable]
      BY DEF ConsoleType, TypeOK, Stop
    <2> QED
      BY <2>1, <2>2
  <1>4. ~dropped' => Settled' = Shows(s, b)
    <2>1. screen \in Screens /\ tx \in Seq(Output)
      BY ConsoleAssumption, Bounded DEF ConsoleType, TypeOK
    <2> QED
      BY <1>1, <1>2, <2>1, ShowsOneMore DEF Settled
  <1>5. PendingInv
    BY <1>1 DEF LineInv
  <1> HIDE DEF s, b, n
  <1>d. CASE dropped'
    <2>1. CASE Len(out) = 1
      <3>1. state' = after.state /\ len' = n
        BY <1>1, <2>1
      <3> QED
        BY <1>5, <1>d, <3>1 DEF LineInv, PendingInv, Polling, n
    <2>2. CASE Len(out) # 1
      <3>1. after.state \in {"idle", "reading"} /\ state' = "writing"
        BY <1>1, <1>5, <2>2 DEF PendingInv
      <3>2. after.state = "idle" => out'[Len(out')] = "prompt" /\ n = 0
        BY <1>1, <1>2, <1>5, <2>2 DEF PendingInv, n
      <3> QED
        BY <1>1, <1>d, <3>1, <3>2 DEF LineInv, PendingInv, Polling, n
    <2> QED
      BY <2>1, <2>2
  <1> SUFFICES ASSUME ~dropped' PROVE LineInv'
    BY <1>d
  <1>e. ~dropped
    BY <1>1
  <1>6. CASE after.state \in {"draining", "parked"}
    <2>1. out = <<"text">> /\ n = 0
      BY <1>5, <1>6 DEF PendingInv, n
    <2>2. state' = after.state /\ len' = 0
      BY <1>1, <2>1
    <2> QED
      BY <1>6, <2>2 DEF LineInv, Polling
  <1>7. CASE after.state = "idle"
    <2>1. out[Len(out)] = "prompt" /\ n = 0
      BY <1>5, <1>7 DEF PendingInv, n
    <2>2. CASE Len(out) = 1
      <3>1. state' = "idle" /\ len' = 0
        BY <1>1, <1>7, <2>1, <2>2
      <3>2. Settled' = [cells |-> <<>>, col |-> 0, prompted |-> TRUE]
        BY <1>2, <1>3, <1>4, <2>1, <2>2, ShowsPrompt
      <3>3. Synced(buf', Settled', 0) /\ Settled'.prompted
        BY <3>2 DEF Synced, Shown, Cleared
      <3> QED
        BY <3>1, <3>3 DEF LineInv, Polling
    <2>3. CASE Len(out) # 1
      <3>1. state' = "writing" /\ out'[Len(out')] = "prompt"
        BY <1>1, <1>2, <2>1, <2>3
      <3> QED
        BY <1>1, <1>7, <2>1, <3>1 DEF LineInv, PendingInv, Polling, n
    <2> QED
      BY <2>2, <2>3
  <1>8. CASE after.state = "evaluating"
    <2>1. out = <<"newline">> /\ Synced(buf, s, n)
      BY <1>5, <1>8, <1>e DEF PendingInv, n, s
    <2>2. state' = "evaluating" /\ len' = n /\ b = "newline"
      BY <1>1, <1>2, <1>8, <2>1
    <2>3. Settled'.cells = s.cells /\ Settled'.col = s.col
      BY <1>3, <1>4, <2>2, ShowsText
    <2>4. Synced(buf', Settled', len')
      BY <1>1, <2>1, <2>2, <2>3 DEF Synced, Shown, Cleared
    <2> QED
      BY <2>2, <2>4 DEF LineInv, Polling
  <1>9. CASE after.state = "reading"
    <2>1. s.prompted
      BY <1>5, <1>9, <1>e DEF PendingInv, s
    <2>2. CASE Echoing(buf, s, n, out)
      <3>1. n > 0 /\ out = <<buf[n]>> /\ Synced(buf, s, n - 1)
        BY <2>2 DEF Echoing
      <3>2. Len(out) = 1 /\ b = buf[n]
        BY <1>2, <3>1
      <3>3. buf[n] \in Printable
        BY <1>3, <3>1
      <3>4. Synced(buf, Settled', n) /\ Settled'.prompted
        BY <1>3, <1>4, <2>1, <3>1, <3>2, <3>3, EchoByte
      <3> QED
        BY <1>1, <1>9, <3>2, <3>4 DEF LineInv, Polling
    <2>3. CASE RuboutBytes(out) /\ Rubbing(buf, s, n, Len(out))
      <3>1. b = (IF (Len(out) - 1) % 3 = 1 THEN "space" ELSE "BS") /\ RuboutBytes(out')
        BY <1>1, <1>2, <2>3, RuboutTail DEF b
      <3>2. Rubbing(buf, Settled', n, Len(out) - 1) /\ Settled'.prompted
        BY <1>2, <1>3, <1>4, <2>1, <2>3, <3>1, RubByte
      <3>3. CASE Len(out) = 1
        <4>1. Rubbing(buf, Settled', n, 0)
          BY <3>2, <3>3
        <4>2. PICK m \in Nat : 0 = 3 * m /\ Synced(buf, Settled', n + m)
          BY <4>1 DEF Rubbing
        <4>3. Synced(buf, Settled', n)
          BY <1>3, <4>2
        <4> QED
          BY <1>1, <1>9, <3>2, <3>3, <4>3 DEF LineInv, Polling
      <3>4. CASE Len(out) # 1
        BY <1>1, <1>2, <1>9, <3>1, <3>2, <3>4 DEF LineInv, PendingInv, Polling, n
      <3> QED
        BY <3>3, <3>4
    <2> QED
      BY <1>5, <1>9, <1>e, <2>2, <2>3 DEF PendingInv, s, n
  <1> QED
    BY <1>5, <1>6, <1>7, <1>8, <1>9 DEF PendingInv

(* A step that puts a text and then stops where no line is edited.         *)
LEMMA TextStep ==
    ASSUME NEW bytes, NEW s \in {"draining", "printing silent", "printing text", "parked"}, Write(bytes, s, 0),
           bytes = <<>> \/ (bytes = <<"text">> /\ s \in {"draining", "parked"})
    PROVE  LineInv'
  <1>1. CASE bytes = <<>>
    BY <1>1 DEF Write, LineInv, Polling
  <1>2. CASE bytes = <<"text">> /\ s \in {"draining", "parked"}
    <2>1. bytes # <<>>
      BY <1>2
    <2>2. state' = "writing" /\ after'.state = s /\ after'.len = 0 /\ out' = <<"text">>
      BY <1>2, <2>1 DEF Write
    <2> QED
      BY <1>2, <2>2 DEF LineInv, PendingInv, Polling
  <1> QED
    BY <1>1, <1>2

(* A step that puts a text which ends in a prompt.                         *)
LEMMA PromptStep ==
    ASSUME NEW bytes, Write(bytes, "idle", 0), bytes # <<>>, bytes[Len(bytes)] = "prompt"
    PROVE  LineInv'
  <1>1. state' = "writing" /\ after' = [state |-> "idle", len |-> 0] /\ out' = bytes
    BY DEF Write
  <1>2. after'.state = "idle" /\ after'.len = 0 /\ out'[Len(out')] = "prompt"
    BY <1>1
  <1> QED
    BY <1>1, <1>2 DEF LineInv, PendingInv, Polling

(* What feed does with a byte.                                             *)
LEMMA FeedStep ==
    ASSUME ConsoleType, LineInv, Poll
    PROVE  LineInv'
  <1> DEFINE byte == IF Head(rx) = "tab" THEN "space" ELSE Head(rx)
             s == Settled
  <1>1. byte \in Keys \ {"tab"} /\ feed(byte) /\ Polling /\ UNCHANGED <<tx, screen, dropped>>
    BY PolledByte DEF Poll
  <1> HIDE DEF byte
  <1>2. Settled' = s /\ UNCHANGED dropped
    BY <1>1, SettledStays
  <1>3. ~dropped => Synced(buf, s, len) /\ s.prompted
    BY <1>1 DEF LineInv
  <1>4. len \in 0 .. LINE_MAX /\ buf \in [1 .. LINE_MAX -> Printable] /\ LINE_MAX \in Nat
    BY ConsoleAssumption DEF ConsoleType, TypeOK
  <1>5. s.cells \in Seq(Printable) /\ Len(s.cells) \in Nat
    BY SettledType, ScreenType
  <1> HIDE DEF s
  <1>6. CASE /\ byte \in Printable /\ Fits
             /\ buf' = [buf EXCEPT ![len + 1] = byte] /\ Write(<<byte>>, "reading", len + 1)
    <2>1. buf'[len + 1] = byte /\ \A i \in 1 .. len : buf'[i] = buf[i]
      BY <1>4, <1>6 DEF Fits
    <2>2. ~dropped => Synced(buf', s, len)
      BY <1>3, <2>1 DEF Synced, Shown
    <2>3. state' = "writing" /\ after' = [state |-> "reading", len |-> len + 1] /\ out' = <<byte>>
      BY <1>6 DEF Write
    <2>4. after'.state = "reading" /\ after'.len = len + 1 /\ out' = <<buf'[len + 1]>>
      BY <2>1, <2>3
    <2>5. ~dropped => Echoing(buf', s, len + 1, out')
      BY <1>4, <2>2, <2>4 DEF Echoing
    <2> QED
      BY <1>2, <1>3, <2>3, <2>4, <2>5 DEF LineInv, PendingInv, Polling
  <1>7. CASE len > 0 /\ Write(Rubout, "reading", len - 1) /\ UNCHANGED buf
    <2>1. state' = "writing" /\ after' = [state |-> "reading", len |-> len - 1] /\ out' = Rubout
      BY <1>7, RuboutShape DEF Write
    <2>2. after'.state = "reading" /\ after'.len = len - 1 /\ Len(out') = 3 /\ RuboutBytes(out')
      BY <2>1, RuboutShape
    <2>3. ~dropped => Rubbing(buf, s, len - 1, 3)
      <3>1. 3 = 3 * 1 /\ (len - 1) + 1 = len
        BY <1>4
      <3> QED
        BY <1>3, <3>1 DEF Rubbing
    <2> QED
      BY <1>2, <1>3, <1>7, <2>1, <2>2, <2>3 DEF LineInv, PendingInv, Polling
  <1>8. CASE Write(Rubouts(len), "reading", 0) /\ UNCHANGED buf
    <2> DEFINE bytes == Rubouts(len)
    <2>1. bytes \in Seq(Output) /\ Len(bytes) = 3 * len /\ RuboutBytes(bytes)
      <3>1. len \in Nat
        BY <1>4
      <3> QED
        BY <3>1, RuboutsShape
    <2>2. Write(bytes, "reading", 0)
      BY <1>8
    <2> HIDE DEF bytes
    <2>3. CASE len = 0
      <3>1. bytes = <<>>
        BY <2>1, <2>3, EmptySeq
      <3>2. state' = "reading" /\ len' = 0
        BY <2>2, <3>1 DEF Write
      <3> QED
        BY <1>2, <1>3, <1>8, <2>3, <3>2 DEF LineInv, Polling
    <2>4. CASE len > 0
      <3>1. bytes # <<>>
        BY <1>4, <2>1, <2>4, EmptySeq
      <3>2. state' = "writing" /\ after' = [state |-> "reading", len |-> 0] /\ out' = bytes
        BY <2>2, <3>1 DEF Write
      <3>3. after'.state = "reading" /\ after'.len = 0
        BY <3>2
      <3>4. ~dropped => Rubbing(buf, s, 0, 3 * len)
        <4>1. len \in Nat /\ 0 + len = len
          BY <1>4
        <4> QED
          BY <1>3, <4>1 DEF Rubbing
      <3> QED
        BY <1>2, <1>3, <1>8, <2>1, <3>2, <3>3, <3>4 DEF LineInv, PendingInv, Polling
    <2> QED
      BY <1>4, <2>3, <2>4
  <1>9. CASE Write(<<"text", "newline", "prompt">>, "idle", 0) /\ UNCHANGED buf
    <2> DEFINE bytes == <<"text", "newline", "prompt">>
    <2>1. bytes # <<>> /\ Len(bytes) = 3 /\ bytes[3] = "prompt"
      OBVIOUS
    <2>2. bytes[Len(bytes)] = "prompt" /\ Write(bytes, "idle", 0)
      BY <1>9, <2>1
    <2> HIDE DEF bytes
    <2> QED
      BY <2>1, <2>2, PromptStep
  <1>10. CASE Write(<<"newline">>, "evaluating", len) /\ UNCHANGED buf
    <2>1. state' = "writing" /\ after' = [state |-> "evaluating", len |-> len] /\ out' = <<"newline">>
      BY <1>10 DEF Write
    <2>2. after'.state = "evaluating" /\ after'.len = len
      BY <2>1
    <2> QED
      BY <1>2, <1>3, <1>10, <2>1, <2>2 DEF LineInv, PendingInv, Polling
  <1>11. CASE Write(<<>>, "reading", len) /\ UNCHANGED buf
    BY <1>2, <1>3, <1>11 DEF Write, LineInv, Polling
  <1> QED
    BY <1>1, <1>6, <1>7, <1>8, <1>9, <1>10, <1>11, FeedCases

LEMMA LineStep ==
    ASSUME ConsoleType, LineInv, BootInv, Next
    PROVE  LineInv'
  <1>1. CASE Arrive
    BY <1>1, LineStays, SettledStays DEF Arrive
  <1>2. CASE Transmitted
    BY <1>2, LineStays, SettledShown DEF Transmitted
  <1>3. CASE put_byte
    BY <1>3, PutStep
  <1>4. CASE Boot
    <2>1. Write(<<"text">>, "draining", 0)
      BY <1>4 DEF Boot, LineInv
    <2> QED
      BY <2>1, TextStep
  <1>5. CASE Drain
    BY <1>5, LineStays, SettledStays DEF Drain
  <1>6. CASE Drained
    <2> DEFINE bytes == <<"prompt">>
    <2>1. Write(bytes, "idle", 0) /\ bytes # <<>> /\ bytes[Len(bytes)] = "prompt"
      BY <1>6 DEF Drained, LineInv
    <2> HIDE DEF bytes
    <2> QED
      BY <2>1, PromptStep
  <1>7. CASE Poll
    BY <1>7, FeedStep
  <1>8. CASE PollEmpty
    <2>1. Settled' = Settled /\ Polling /\ UNCHANGED <<buf, len, dropped>> /\ state' = "reading"
      BY <1>8, SettledStays DEF PollEmpty
    <2> QED
      BY <2>1 DEF LineInv, Polling
  <1>9. CASE Evaluate
    <2>1. CASE \E s \in {"printing text", "printing silent", "parked"} : Write(<<>>, s, 0)
      BY <2>1, TextStep
    <2>2. CASE Write(<<"text">>, "parked", 0)
      BY <2>2, TextStep
    <2> QED
      BY <1>9, <2>1, <2>2 DEF Evaluate
  <1>10. CASE Printing
    <2>1. len = 0
      BY <1>10 DEF Printing, LineInv
    <2>2. CASE Write(<<"prompt">>, "idle", 0)
      <3> DEFINE bytes == <<"prompt">>
      <3>1. Write(bytes, "idle", 0) /\ bytes # <<>> /\ bytes[Len(bytes)] = "prompt"
        BY <2>2
      <3> HIDE DEF bytes
      <3> QED
        BY <3>1, PromptStep
    <2>3. CASE Write(<<"text", "prompt">>, "idle", 0)
      <3> DEFINE bytes == <<"text", "prompt">>
      <3>1. bytes # <<>> /\ Len(bytes) = 2 /\ bytes[2] = "prompt"
        OBVIOUS
      <3>2. Write(bytes, "idle", 0) /\ bytes[Len(bytes)] = "prompt"
        BY <2>3, <3>1
      <3> HIDE DEF bytes
      <3> QED
        BY <3>1, <3>2, PromptStep
    <2>4. CASE Write(<<"text">>, "parked", 0)
      BY <2>4, TextStep
    <2> QED
      BY <1>10, <2>1, <2>2, <2>3, <2>4 DEF Printing
  <1>11. CASE Reset
    BY <1>11 DEF Reset, LineInv, Polling
  <1> QED
    BY <1>1, <1>2, <1>3, <1>4, <1>5, <1>6, <1>7, <1>8, <1>9, <1>10, <1>11 DEF Next, Loop

LEMMA ConsoleStays == Spec => []ConsoleInv
  <1>1. ConsoleInv /\ [Next]_vars => ConsoleInv'
    <2> SUFFICES ASSUME ConsoleInv, [Next]_vars PROVE ConsoleInv'
      OBVIOUS
    <2>1. CASE Next
      BY <2>1, TypeNext, LineStep, BootStep DEF ConsoleInv
    <2>2. CASE UNCHANGED vars
      <3>1. LineInv'
        BY <2>2, LineStays, SettledStays DEF vars, ConsoleInv
      <3>2. BootInv'
        BY <2>2 DEF vars, ConsoleInv, BootInv, Early
      <3> QED
        BY <2>2, <3>1, <3>2, TypeNext DEF ConsoleInv
    <2> QED
      BY <2>1, <2>2
  <1> QED
    BY <1>1, TypeInit, LineInit, PTL DEF Spec, ConsoleInv

-----------------------------------------------------------------------------
(* What you see is what is evaluated, for lines of any length, rubouts and *)
(* kills of any length, transmitters of any depth, and a reset in the      *)
(* middle of any of them: always on ARM, whose put_byte waits, and on      *)
(* RISC-V as long as its queue has dropped nothing.                        *)
THEOREM ScreenShowsLine == Spec => []ScreenIsLine
  <1>1. ConsoleInv => ScreenIsLine
    <2> SUFFICES ASSUME ConsoleInv, Polling \/ state = "evaluating", target = "arm" \/ ~dropped
                 PROVE  /\ SubSeq(Settled.cells, 1, Settled.col) = Line
                        /\ \A i \in Settled.col + 1 .. Len(Settled.cells) : Settled.cells[i] = "space"
                        /\ Polling => Settled.prompted
      BY DEF ScreenIsLine, Settled
    <2>0. ~dropped
      BY DEF ConsoleInv, BootInv
    <2>1. Synced(buf, Settled, len) /\ (Polling => Settled.prompted)
      BY <2>0 DEF ConsoleInv, LineInv
    <2>2. /\ len \in 0 .. LINE_MAX /\ LINE_MAX \in Nat /\ buf \in [1 .. LINE_MAX -> Printable]
          /\ Settled.cells \in Seq(Printable)
      <3>1. ConsoleType /\ LINE_MAX \in Nat
        BY ConsoleAssumption DEF ConsoleInv
      <3>2. len \in 0 .. LINE_MAX /\ buf \in [1 .. LINE_MAX -> Printable]
        BY <3>1 DEF ConsoleType, TypeOK
      <3>3. Settled \in [cells : Seq(Printable), col : Nat, prompted : BOOLEAN]
        BY <3>1, SettledType, ScreenType
      <3> QED
        BY <3>1, <3>2, <3>3
    <2>3. buf \in Seq(Printable) /\ Len(buf) = LINE_MAX
      BY <2>2
    <2> DEFINE c == Settled.cells
    <2>4. Settled.col = len /\ len <= Len(c) /\ \A i \in 1 .. len : c[i] = buf[i]
      BY <2>1 DEF Synced, Shown
    <2>5. c \in Seq(Printable)
      BY <2>2
    <2> HIDE DEF c
    <2>6. SubSeq(c, 1, len) = SubSeq(buf, 1, len)
      BY <2>2, <2>3, <2>4, <2>5
    <2> QED
      BY <2>1, <2>4, <2>6 DEF Synced, Cleared, Line, c
  <1> QED
    BY <1>1, ConsoleStays, PTL

(* Somebody who waits for each answer loses no byte, whatever the depth of *)
(* the receive register.                                                   *)
THEOREM WaitingTypistLosesNothing == Spec => []TypistLosesNothing
  <1>1. ConsoleInv => TypistLosesNothing
    BY DEF ConsoleInv, BootInv, TypistLosesNothing
  <1> QED
    BY <1>1, ConsoleStays, PTL
=============================================================================
