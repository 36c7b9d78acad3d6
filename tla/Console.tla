------------------------------ MODULE Console -------------------------------
(***************************************************************************)
(* The console loop (repl::run, feed, take_line of                         *)
(* src/src/drivers/repl.rs) over the polled UART (src/src/drivers/uart.rs) *)
(* from a reset on: bytes arrive in the receive register while the loop    *)
(* echoes, evaluates and prints one byte at a time, and a terminal shows   *)
(* what it transmits.                                                      *)
(*                                                                         *)
(* A multi-byte text (banner, answer, prompt, "^C", a line end) counts as  *)
(* one byte of output; what a line evaluates to is Shell's business.       *)
(***************************************************************************)
EXTENDS Naturals, Sequences, SequencesExt

CONSTANTS Chars,      \* printable bytes other than the space
          LINE_MAX,   \* bytes of LINE_BUF
          RX_DEPTH,   \* bytes the receive register holds
          TX_DEPTH,   \* bytes the transmitter holds
          MaxResets   \* bound on the resets of one behaviour

ASSUME ConsoleAssumption ==
    /\ LINE_MAX \in Nat \ {0} /\ RX_DEPTH \in Nat \ {0} /\ TX_DEPTH \in Nat \ {0}
    /\ MaxResets \in Nat
    /\ Chars \cap {"tab", "BS", "^U", "^C", "CR", "control", "space",
                 "newline", "text", "prompt"} = {}

VARIABLES
    target,    \* the build: "arm" or "riscv"
    state,     \* State, and the stations of the boot before it
    buf, len,  \* LINE_BUF and LINE_LEN
    out,       \* bytes the running step still has to put
    after,     \* what follows the last of them: [state, len]
    enabled,   \* the UART's transmitter and receiver are on
    tx,        \* the bytes the transmitter holds
    rx,        \* the receive register
    screen,    \* the terminal: [cells, col, prompted]
    pasting,   \* the terminal sends without waiting for the echo
    lost,      \* history: a byte sent since the drain was never read by feed
    dropped,   \* history: a byte put since the reset found the transmitter full
    resets

vars == <<target, state, buf, len, out, after, enabled, tx, rx, screen, pasting, lost, dropped, resets>>

Printable == Chars \cup {"space"}
Keys == Printable \cup {"tab", "BS", "^U", "^C", "CR", "control"}
Output == Printable \cup {"BS", "newline", "text", "prompt"}

Polling == state \in {"idle", "reading"}
Blank == [i \in 1 .. LINE_MAX |-> "space"]
Line == SubSeq(buf, 1, len)

-----------------------------------------------------------------------------
(* The terminal: a byte overwrites the cell under the cursor, a prompt     *)
(* starts a new row.                                                       *)
Shows(s, b) ==
    CASE b \in Printable ->
            [s EXCEPT !.cells = IF s.col < Len(@) THEN [@ EXCEPT ![s.col + 1] = b] ELSE Append(@, b),
                      !.col = @ + 1]
      [] b = "BS" /\ s.col > 0 -> [s EXCEPT !.col = @ - 1]
      [] b = "BS" /\ s.col = 0 -> [s EXCEPT !.prompted = FALSE]   \* into the prompt
      [] b = "prompt" -> [cells |-> <<>>, col |-> 0, prompted |-> TRUE]
      [] OTHER -> [s EXCEPT !.prompted = FALSE]

StillPrompted(s, b) == b = "prompt" \/ (s.prompted /\ b \in Printable \cup {"BS"})

(* The terminal once the bytes b have arrived, one after the other.        *)
ShowsAll(s, b) ==
    LET upto[i \in 0 .. Len(b)] == IF i = 0 THEN s ELSE Shows(upto[i - 1], b[i])
    IN  upto[Len(b)]

Quiet == out = <<>> /\ tx = <<>> /\ rx = <<>> /\ screen.prompted

(* A byte arrives.  A typist waits for the answer to the last one; a paste *)
(* does not, and a byte that finds the register full is gone.              *)
Arrive ==
    /\ pasting \/ Quiet
    /\ state # "parked"
    /\ IF enabled /\ Len(rx) < RX_DEPTH
       THEN rx' \in {Append(rx, b) : b \in Keys} /\ UNCHANGED lost
       ELSE lost' = TRUE /\ UNCHANGED rx
    /\ UNCHANGED <<target, state, buf, len, out, after, enabled, tx, screen, pasting, dropped, resets>>

(* The transmitter has shifted a byte out: there is room for one more.     *)
(* The row is followed until a byte is dropped; then only the prompt is.   *)
Transmitted ==
    /\ enabled /\ tx # <<>>
    /\ screen' = IF dropped THEN [cells |-> <<>>, col |-> 0, prompted |-> StillPrompted(screen, Head(tx))]
                 ELSE Shows(screen, Head(tx))
    /\ tx' = Tail(tx)
    /\ UNCHANGED <<target, state, buf, len, out, after, enabled, rx, pasting, lost, dropped, resets>>

-----------------------------------------------------------------------------
(* A step that writes bytes and then goes on in a state with a length.     *)
Write(bytes, s, n) ==
    /\ out' = bytes
    /\ after' = [state |-> s, len |-> n]
    /\ state' = IF bytes = <<>> THEN s ELSE "writing"
    /\ len' = IF bytes = <<>> THEN n ELSE len

Room == Len(tx) < TX_DEPTH

(* put_byte: the ARM build waits for TXE; the RISC-V build stores to TXDATA *)
(* at once, and a byte that finds the queue full is gone.                  *)
put_byte ==
    /\ state = "writing" /\ (target = "arm" => Room)
    /\ IF Room THEN tx' = Append(tx, Head(out)) /\ UNCHANGED dropped
       ELSE dropped' = TRUE /\ UNCHANGED tx
    /\ out' = Tail(out)
    /\ IF Len(out) = 1 THEN state' = after.state /\ len' = after.len
       ELSE UNCHANGED <<state, len>>
    /\ UNCHANGED <<target, buf, after, enabled, rx, screen, pasting, lost, resets>>

(* uart::init sets UE, TE and RE on ARM and does nothing on RISC-V.        *)
uart_init == enabled' = (target = "arm" \/ enabled)

(* Mutant: the prompt is written before the leftover bytes are dropped.    *)
BootPromptsFirst ==
    /\ state = "boot"
    /\ uart_init
    /\ Write(<<"text", "prompt">>, "draining", len)
    /\ UNCHANGED <<target, buf, tx, rx, screen, pasting, lost, dropped, resets>>

(* boot: uart::init and the banner.                                        *)
Boot ==
    /\ state = "boot"
    /\ uart_init
    /\ Write(<<"text">>, "draining", len)
    /\ UNCHANGED <<target, buf, tx, rx, screen, pasting, lost, dropped, resets>>

(* run(): drop what the receive register still holds, then prompt.         *)
Drain ==
    /\ state = "draining" /\ rx # <<>>
    /\ rx' = Tail(rx)
    /\ lost' = TRUE
    /\ UNCHANGED <<target, state, buf, len, out, after, enabled, tx, screen, pasting, dropped, resets>>

Drained ==
    /\ state = "draining" /\ rx = <<>>
    /\ Write(<<"prompt">>, "idle", len)
    /\ lost' = FALSE
    /\ UNCHANGED <<target, buf, enabled, tx, rx, screen, pasting, dropped, resets>>

(* Mutant: the cursor stays behind the erased cell.                       *)
RuboutOnce == <<"BS", "space">>

Rubout == <<"BS", "space", "BS">>
Rubouts(n) == [i \in 1 .. n * Len(Rubout) |-> Rubout[1 + ((i - 1) % Len(Rubout))]]

(* Mutant: off by one.                                                     *)
FitsOneMore == len <= LINE_MAX

Fits == len < LINE_MAX

(* feed, after a tab has become a space.                                   *)
feed(byte) ==
    CASE byte \in Printable /\ Fits ->
            buf' = [buf EXCEPT ![len + 1] = byte] /\ Write(<<byte>>, "reading", len + 1)
      [] byte = "BS" /\ len > 0 -> Write(Rubout, "reading", len - 1) /\ UNCHANGED buf
      [] byte = "^U" -> Write(Rubouts(len), "reading", 0) /\ UNCHANGED buf
      [] byte = "^C" -> Write(<<"text", "newline", "prompt">>, "idle", 0) /\ UNCHANGED buf
      [] byte = "CR" -> Write(<<"newline">>, "evaluating", len) /\ UNCHANGED buf
      [] OTHER -> Write(<<>>, "reading", len) /\ UNCHANGED buf

(* poll_get_byte answers Some: RXNE is set and DR is read.                 *)
Poll ==
    /\ Polling /\ rx # <<>>
    /\ rx' = Tail(rx)
    /\ feed(IF Head(rx) = "tab" THEN "space" ELSE Head(rx))
    /\ UNCHANGED <<target, enabled, tx, screen, pasting, lost, dropped, resets>>

(* poll_get_byte answers None.                                             *)
PollEmpty ==
    /\ Polling /\ rx = <<>>
    /\ state' = "reading"
    /\ UNCHANGED <<target, buf, len, out, after, enabled, tx, rx, screen, pasting, lost, dropped, resets>>

(* take_line and compile: an empty line has no outcome; a fault or a panic *)
(* parks the core after its message.                                       *)
Evaluate ==
    /\ state = "evaluating"
    /\ \/ Line = <<>> /\ Write(<<>>, "printing silent", 0)
       \/ Line # <<>> /\ \E s \in {"printing text", "printing silent"} : Write(<<>>, s, 0)
       \/ Line # <<>> /\ \E fault \in {<<"text">>, <<>>} : Write(fault, "parked", 0)
    /\ UNCHANGED <<target, buf, enabled, tx, rx, screen, pasting, lost, dropped, resets>>

(* Mutant: a line without an answer does not prompt.                       *)
PrintingOnlyAnswers ==
    /\ \/ state = "printing silent" /\ Write(<<>>, "idle", len)
       \/ state = "printing text" /\ Write(<<"text", "prompt">>, "idle", len)
       \/ state = "printing text" /\ Write(<<"text">>, "parked", len)
    /\ UNCHANGED <<target, buf, enabled, tx, rx, screen, pasting, lost, dropped, resets>>

(* execute or the error text, then the prompt.                             *)
Printing ==
    /\ \/ state = "printing silent" /\ Write(<<"prompt">>, "idle", len)
       \/ state = "printing text" /\ Write(<<"text", "prompt">>, "idle", len)
       \/ state = "printing text" /\ Write(<<"text">>, "parked", len)
    /\ UNCHANGED <<target, buf, enabled, tx, rx, screen, pasting, lost, dropped, resets>>

(* A reset zeroes .bss, disables an ARM UART and leaves a RISC-V one as    *)
(* the machine has it; the receive register may or may not keep its bytes. *)
Reset ==
    /\ resets < MaxResets
    /\ resets' = resets + 1
    /\ state' = "boot"
    /\ buf' = Blank /\ len' = 0
    /\ out' = <<>> /\ after' = [state |-> "boot", len |-> 0]
    /\ enabled' = (target = "riscv" /\ enabled)
    /\ tx' = <<>>
    /\ rx' \in {rx, <<>>}
    /\ screen' = [screen EXCEPT !.prompted = FALSE]
    /\ lost' = FALSE /\ dropped' = FALSE
    /\ UNCHANGED <<target, pasting>>

-----------------------------------------------------------------------------
(* Power-on: the terminal may hold anything, and the register too.  No     *)
(* code enables the RISC-V UART: QEMU's always runs, that of a chip runs   *)
(* if whatever started the core has enabled it.                            *)
Init ==
    /\ target \in {"arm", "riscv"}
    /\ state = "boot"
    /\ buf = Blank /\ len = 0
    /\ out = <<>> /\ after = [state |-> "boot", len |-> 0]
    /\ enabled \in {FALSE, target = "riscv"}
    /\ tx = <<>>
    /\ rx \in {<<>>} \cup {<<b>> : b \in Keys}
    /\ screen = [cells |-> <<>>, col |-> 0, prompted |-> FALSE]
    /\ pasting \in BOOLEAN
    /\ lost = FALSE /\ dropped = FALSE
    /\ resets = 0

Loop == put_byte \/ Boot \/ Drain \/ Drained \/ Poll \/ PollEmpty \/ Evaluate \/ Printing

Next == Arrive \/ Transmitted \/ Loop \/ Reset

(* The loop and the transmitter never stop; a poll is faster than a byte,  *)
(* so draining meets an empty register.                                    *)
Spec == Init /\ [][Next]_vars /\ WF_vars(Loop) /\ WF_vars(Transmitted) /\ SF_vars(Drained)

-----------------------------------------------------------------------------
(* Type invariant of the console.                                          *)
TypeOK ==
    /\ state \in {"boot", "draining", "writing", "idle", "reading", "evaluating",
                  "printing text", "printing silent", "parked"}
    /\ buf \in [1 .. LINE_MAX -> Printable]
    /\ len \in 0 .. LINE_MAX
    /\ out \in Seq(Output) /\ (out # <<>> <=> state = "writing")
    /\ tx \in BoundedSeq(Output, TX_DEPTH)
    /\ rx \in BoundedSeq(Keys, RX_DEPTH)
    /\ screen.cells \in Seq(Printable) /\ screen.col \in 0 .. Len(screen.cells)

(* What you see is what is evaluated: whenever the loop polls, and when it *)
(* takes the line, the terminal shows after the prompt exactly             *)
(* LINE_BUF[..LINE_LEN] (once the bytes in the transmitter are shown),     *)
(* with nothing but blanks behind; bytes past LINE_MAX neither show nor    *)
(* count.  A rubout never reaches the prompt.  On RISC-V this needs a      *)
(* queue that has kept up since the reset; on ARM the wait sees to it.     *)
ScreenIsLine ==
    /\ Polling \/ state = "evaluating"
    /\ target = "arm" \/ ~dropped
    => LET s == ShowsAll(screen, tx)
       IN  /\ SubSeq(s.cells, 1, s.col) = Line
           /\ \A i \in s.col + 1 .. Len(s.cells) : s.cells[i] = "space"
           /\ Polling => s.prompted

(* Somebody who waits for each answer loses no byte: from the first prompt *)
(* on feed reads everything such a typist sends.  (A paste may overrun the *)
(* receive register while the loop echoes or evaluates.)                   *)
TypistLosesNothing == ~pasting /\ screen.prompted => ~lost

(* Every line end comes back to a prompt, or the core is parked; on RISC-V *)
(* the prompt may be among the bytes a full queue has not taken.           *)
PromptComesBack ==
    state = "evaluating" ~> screen.prompted \/ state = "parked" \/ (target = "riscv" /\ dropped)
=============================================================================
