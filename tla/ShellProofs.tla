---------------------------- MODULE ShellProofs -----------------------------
(***************************************************************************)
(* Proofs about the session: its audit log, its function table, what its   *)
(* errors leave alone and what its capability checks promise, for any      *)
(* lines the parser can build and tables of any size.                      *)
(***************************************************************************)
EXTENDS Shell, StreamOpsProofs, FiniteSetTheorems

-----------------------------------------------------------------------------
(* The audit log.  LogInv is inductive under record_event and a reset.     *)

LogInv == Log!AuditTypeOK /\ Log!RingHoldsLatest /\ Log!CountSaturates

LEMMA RingFacts ==
    /\ AUDIT_SLOTS \in Nat /\ AUDIT_SLOTS > 0
    /\ Log!Ring = 0 .. AUDIT_SLOTS - 1 /\ 0 \in Log!Ring
    /\ Log!ZeroEntry \in Log!Entry
    /\ COUNT_MAX \in Nat
  BY ShellAssumption DEF Log!Ring, Log!ZeroEntry, Log!Entry

(* The index after the newest one, and counting back from head.            *)
LEMMA Wrapped ==
    ASSUME NEW x \in 0 .. 2 * AUDIT_SLOTS - 1
    PROVE  x % AUDIT_SLOTS = IF x < AUDIT_SLOTS THEN x ELSE x - AUDIT_SLOTS
  <1>1. AUDIT_SLOTS \in Nat /\ AUDIT_SLOTS > 0
    BY RingFacts
  <1>2. CASE x < AUDIT_SLOTS
    BY <1>1, <1>2
  <1>3. CASE x >= AUDIT_SLOTS
    <2>1. x = 1 * AUDIT_SLOTS + (x - AUDIT_SLOTS) /\ x - AUDIT_SLOTS \in 0 .. AUDIT_SLOTS - 1
      BY <1>1, <1>3
    <2>2. x % AUDIT_SLOTS = x - AUDIT_SLOTS
      BY <1>1, <2>1
    <2> QED
      BY <1>1, <1>3, <2>2
  <1> QED
    BY <1>1, <1>2, <1>3

LEMMA WrappedNext ==
    ASSUME NEW i \in 0 .. AUDIT_SLOTS - 1
    PROVE  (i + 1) % AUDIT_SLOTS = IF i + 1 = AUDIT_SLOTS THEN 0 ELSE i + 1
  <1>1. AUDIT_SLOTS \in Nat /\ AUDIT_SLOTS > 0 /\ i \in Nat /\ i + 1 <= AUDIT_SLOTS
    BY RingFacts
  <1>2. CASE i + 1 = AUDIT_SLOTS
    <2>1. AUDIT_SLOTS % AUDIT_SLOTS = 0
      BY <1>1
    <2> QED
      BY <1>2, <2>1
  <1>3. CASE i + 1 < AUDIT_SLOTS
    <2>1. (i + 1) % AUDIT_SLOTS = i + 1
      BY <1>1, <1>3
    <2> QED
      BY <1>1, <1>3, <2>1
  <1> QED
    BY <1>1, <1>2, <1>3

LEMMA SlotOfAgeIs ==
    ASSUME audit.head \in Log!Ring, NEW k \in Log!Ring
    PROVE  /\ Log!SlotOfAge(k) = IF k < audit.head THEN audit.head - 1 - k
                                 ELSE audit.head + AUDIT_SLOTS - 1 - k
           /\ Log!SlotOfAge(k) \in Log!Ring
  <1> DEFINE x == audit.head + AUDIT_SLOTS - 1 - k
  <1>1. x \in 0 .. 2 * AUDIT_SLOTS - 1
    BY RingFacts
  <1>2. Log!SlotOfAge(k) = x % AUDIT_SLOTS
    BY DEF Log!SlotOfAge
  <1>3. Log!SlotOfAge(k) = IF x < AUDIT_SLOTS THEN x ELSE x - AUDIT_SLOTS
    <2> HIDE DEF x
    <2> QED
      BY <1>1, <1>2, Wrapped
  <1> QED
    BY <1>3, RingFacts

LEMMA LogInit == Log!AuditInit => LogInv
  <1> SUFFICES ASSUME Log!AuditInit PROVE LogInv
    OBVIOUS
  <1>1. audit = Log!EmptyLog /\ recorded = <<>>
    BY DEF Log!AuditInit
  <1>2. Log!AuditTypeOK
    BY <1>1, RingFacts DEF Log!AuditTypeOK, Log!EmptyLog
  <1>3. Log!RingHoldsLatest
    BY <1>1, RingFacts, SlotOfAgeIs DEF Log!RingHoldsLatest, Log!EmptyLog
  <1>4. Log!CountSaturates
    BY <1>1, RingFacts DEF Log!CountSaturates, Log!total_audits, Log!EmptyLog
  <1> QED
    BY <1>2, <1>3, <1>4 DEF LogInv

LEMMA LogReset == Log!AuditReset => LogInv'
  <1> SUFFICES ASSUME Log!AuditReset PROVE LogInv'
    OBVIOUS
  <1>1. audit' = Log!EmptyLog /\ recorded' = <<>>
    BY DEF Log!AuditReset
  <1>2. Log!AuditTypeOK'
    BY <1>1, RingFacts DEF Log!AuditTypeOK, Log!EmptyLog
  <1>3. Log!RingHoldsLatest'
    <2>1. \A k \in Log!Ring : Log!SlotOfAge(k)' \in Log!Ring
      <3>1. ASSUME NEW k \in Log!Ring
            PROVE  (0 + AUDIT_SLOTS - 1 - k) % AUDIT_SLOTS \in Log!Ring
        BY Wrapped, RingFacts
      <3> QED
        BY <1>1, <3>1 DEF Log!SlotOfAge, Log!EmptyLog
    <2> QED
      BY <1>1, <2>1, RingFacts DEF Log!RingHoldsLatest, Log!EmptyLog
  <1>4. Log!CountSaturates'
    BY <1>1, RingFacts DEF Log!CountSaturates, Log!total_audits, Log!EmptyLog
  <1> QED
    BY <1>2, <1>3, <1>4 DEF LogInv

(* A new event is of age 0, and every other one has aged by one.           *)
LEMMA LogRecord ==
    ASSUME LogInv, NEW a \in Values, NEW v \in Values, Log!record_event(a, v)
    PROVE  LogInv'
  <1> DEFINE e == [addr |-> a, val |-> v]
             h == audit.head
             n == Len(recorded)
  <1>1. /\ audit \in [buffer : [Log!Ring -> Log!Entry], head : Log!Ring, count : 0 .. COUNT_MAX]
        /\ recorded \in Seq(Log!Entry) /\ e \in Log!Entry
    BY DEF LogInv, Log!AuditTypeOK, Log!Entry
  <1>2. /\ audit'.buffer = [audit.buffer EXCEPT ![h] = e]
        /\ audit'.head = (h + 1) % AUDIT_SLOTS
        /\ audit'.count = IF audit.count < COUNT_MAX THEN audit.count + 1 ELSE audit.count
        /\ recorded' = Append(recorded, e)
        /\ audit' = [buffer |-> audit'.buffer, head |-> audit'.head, count |-> audit'.count]
    BY DEF Log!record_event, Log!AfterEvent
  <1> HIDE DEF e
  <1>3. h \in Log!Ring /\ audit'.head = IF h + 1 = AUDIT_SLOTS THEN 0 ELSE h + 1
    <2>1. h \in 0 .. AUDIT_SLOTS - 1
      BY <1>1, RingFacts
    <2> HIDE DEF h
    <2>2. (h + 1) % AUDIT_SLOTS = IF h + 1 = AUDIT_SLOTS THEN 0 ELSE h + 1
      BY <2>1, WrappedNext
    <2> QED
      BY <1>2, <2>1, <2>2, RingFacts
  <1>4. audit'.head \in Log!Ring
    BY <1>3, RingFacts
  <1>5. n \in Nat /\ Len(recorded') = n + 1 /\ recorded'[n + 1] = e
        /\ \A i \in 1 .. n : recorded'[i] = recorded[i]
    BY <1>1, <1>2
  <1>6. Log!AuditTypeOK'
    <2>1. recorded' \in Seq(Log!Entry)
      BY <1>1, <1>2
    <2>2. audit'.buffer \in [Log!Ring -> Log!Entry] /\ audit'.count \in 0 .. COUNT_MAX
      BY <1>1, <1>2, RingFacts
    <2> QED
      BY <1>2, <1>4, <2>1, <2>2 DEF Log!AuditTypeOK
  <1>7. ASSUME NEW k \in Log!Ring
        PROVE  audit'.buffer[Log!SlotOfAge(k)'] =
                   IF k < Len(recorded') THEN recorded'[Len(recorded') - k] ELSE Log!ZeroEntry
    <2>1. Log!SlotOfAge(k)' = IF k < audit'.head THEN audit'.head - 1 - k
                              ELSE audit'.head + AUDIT_SLOTS - 1 - k
      <3> DEFINE g == audit'.head
                 x == g + AUDIT_SLOTS - 1 - k
      <3>1. g \in 0 .. AUDIT_SLOTS - 1 /\ k \in 0 .. AUDIT_SLOTS - 1 /\ AUDIT_SLOTS \in Nat
        BY <1>4, RingFacts
      <3>2. Log!SlotOfAge(k)' = x % AUDIT_SLOTS
        BY DEF Log!SlotOfAge
      <3> HIDE DEF g
      <3>3. x \in 0 .. 2 * AUDIT_SLOTS - 1 /\ (x < AUDIT_SLOTS <=> k >= g)
        BY <3>1
      <3>4. x - AUDIT_SLOTS = g - 1 - k
        BY <3>1
      <3> HIDE DEF x
      <3>5. x % AUDIT_SLOTS = IF x < AUDIT_SLOTS THEN x ELSE x - AUDIT_SLOTS
        BY <3>3, Wrapped
      <3>6. x % AUDIT_SLOTS = IF k < g THEN g - 1 - k ELSE x
        BY <3>1, <3>3, <3>4, <3>5
      <3> QED
        BY <3>2, <3>6 DEF g, x
    <2>2. CASE k = 0
      <3>1. Log!SlotOfAge(k)' = h
        BY <1>3, <2>1, <2>2, RingFacts
      <3> QED
        BY <1>1, <1>2, <1>3, <1>5, <2>2, <3>1
    <2>3. CASE k # 0
      <3>1. k \in Nat /\ k - 1 \in Log!Ring /\ k > 0
        BY <2>3, RingFacts
      <3>2. Log!SlotOfAge(k)' = Log!SlotOfAge(k - 1) /\ Log!SlotOfAge(k - 1) # h
            /\ Log!SlotOfAge(k - 1) \in Log!Ring
        <4>1. /\ Log!SlotOfAge(k - 1) = IF k - 1 < h THEN h - 1 - (k - 1)
                                        ELSE h + AUDIT_SLOTS - 1 - (k - 1)
              /\ Log!SlotOfAge(k - 1) \in Log!Ring
          BY <1>3, <3>1, SlotOfAgeIs
        <4>2. h \in 0 .. AUDIT_SLOTS - 1 /\ k \in 1 .. AUDIT_SLOTS - 1
          BY <1>3, <3>1, RingFacts
        <4> HIDE DEF h
        <4> QED
          BY <1>3, <2>1, <4>1, <4>2, RingFacts
      <3>3. audit.buffer[Log!SlotOfAge(k - 1)] =
                IF k - 1 < n THEN recorded[n - (k - 1)] ELSE Log!ZeroEntry
        BY <3>1 DEF LogInv, Log!RingHoldsLatest
      <3>4. audit'.buffer[Log!SlotOfAge(k)'] = audit.buffer[Log!SlotOfAge(k - 1)]
        BY <1>1, <1>2, <3>2
      <3> QED
        BY <1>5, <3>1, <3>3, <3>4
    <2> QED
      BY <2>2, <2>3
  <1>8. Log!RingHoldsLatest'
    BY <1>7 DEF Log!RingHoldsLatest
  <1>9. Log!CountSaturates'
    <2>1. audit.count = IF n <= COUNT_MAX THEN n ELSE COUNT_MAX
      BY DEF LogInv, Log!CountSaturates, Log!total_audits
    <2>2. audit'.count = IF n + 1 <= COUNT_MAX THEN n + 1 ELSE COUNT_MAX
      BY <1>2, <1>5, <2>1, RingFacts
    <2> QED
      BY <1>5, <2>2 DEF Log!CountSaturates, Log!total_audits
  <1> QED
    BY <1>6, <1>8, <1>9 DEF LogInv

LEMMA LogStutters == LogInv /\ UNCHANGED <<audit, recorded>> => LogInv'
  BY DEF LogInv, Log!AuditTypeOK, Log!RingHoldsLatest, Log!CountSaturates, Log!SlotOfAge,
         Log!total_audits

(* Every slot has an age.                                                  *)
LEMMA AgeOfSlot ==
    ASSUME audit.head \in Log!Ring, NEW i \in Log!Ring
    PROVE  \E k \in Log!Ring : Log!SlotOfAge(k) = i
  <1> DEFINE h == audit.head
             k == IF i < h THEN h - 1 - i ELSE h + AUDIT_SLOTS - 1 - i
  <1>1. h \in 0 .. AUDIT_SLOTS - 1 /\ i \in 0 .. AUDIT_SLOTS - 1
    BY RingFacts
  <1>2. k \in Log!Ring
    BY <1>1, RingFacts
  <1>3. Log!SlotOfAge(k) = IF k < h THEN h - 1 - k ELSE h + AUDIT_SLOTS - 1 - k
    <2> HIDE DEF k
    <2> QED
      BY <1>2, SlotOfAgeIs
  <1>4. Log!SlotOfAge(k) = i
    BY <1>1, <1>3, RingFacts
  <1> QED
    BY <1>2, <1>4

LEMMA DumpFollows == LogInv => Log!DumpIsRecent
  <1> SUFFICES ASSUME LogInv PROVE Log!DumpIsRecent
    OBVIOUS
  <1> DEFINE n == Len(recorded)
             Recent == {recorded[i] : i \in {j \in 1 .. n : j > n - AUDIT_SLOTS /\ recorded[j].addr # 0}}
  <1>1. audit.head \in Log!Ring /\ n \in Nat
    BY DEF LogInv, Log!AuditTypeOK
  <1>2. \A k \in Log!Ring : audit.buffer[Log!SlotOfAge(k)] =
            IF k < n THEN recorded[n - k] ELSE Log!ZeroEntry
    BY DEF LogInv, Log!RingHoldsLatest
  <1> HIDE DEF n
  <1>3. ASSUME NEW i \in Log!Ring, audit.buffer[i].addr # 0
        PROVE  audit.buffer[i] \in Recent
    <2>1. PICK k \in Log!Ring : Log!SlotOfAge(k) = i
      BY <1>1, AgeOfSlot
    <2>2. k < n
      BY <1>2, <1>3, <2>1 DEF Log!ZeroEntry
    <2>3. audit.buffer[i] = recorded[n - k]
      BY <1>2, <2>1, <2>2
    <2>4. n - k \in 1 .. n /\ n - k > n - AUDIT_SLOTS
      BY <1>1, <2>1, <2>2, RingFacts
    <2> QED
      BY <1>3, <2>3, <2>4
  <1>4. ASSUME NEW j \in 1 .. n, j > n - AUDIT_SLOTS, recorded[j].addr # 0
        PROVE  \E i \in Log!Ring : audit.buffer[i] = recorded[j]
    <2>1. n - j \in Log!Ring /\ n - j < n /\ n - (n - j) = j
      BY <1>1, <1>4, RingFacts
    <2>2. audit.buffer[Log!SlotOfAge(n - j)] = recorded[j]
      <3> DEFINE k == n - j
      <3>1. k \in Log!Ring /\ k < n /\ n - k = j
        BY <2>1
      <3> HIDE DEF k
      <3>2. audit.buffer[Log!SlotOfAge(k)] = recorded[j]
        BY <1>2, <3>1
      <3> QED
        BY <3>2 DEF k
    <2> QED
      BY <1>1, <2>1, <2>2, SlotOfAgeIs
  <1>5. Log!Printed = Recent
    BY <1>3, <1>4 DEF Log!Printed
  <1> QED
    BY <1>5 DEF Log!DumpIsRecent, n

-----------------------------------------------------------------------------
(* Types: what expressions, statements and lines come to.                  *)

Grants == SUBSET Values
FnSlots == [name : Names, body : Seq(Primitives), granted : Seq(Grants)]
Errors == {"none", "Syntax", "UnknownSymbol", "MissingSemicolon", "CapabilityViolation"}
Results ==
    [st : {"ok", "error", "fault"}, val : Values, err : Errors, reads : Seq(Accesses)]

LEMMA ResultFields ==
    ASSUME NEW r \in Results
    PROVE  /\ r.st \in {"ok", "error", "fault"} /\ r.val \in Values
           /\ r.err \in Errors /\ r.reads \in Seq(Accesses)
  BY DEF Results

LEMMA ErrType ==
    ASSUME NEW e \in Errors, NEW q \in Seq(Accesses)
    PROVE  Err(e, q) \in Results /\ Err(e, q).st = "error"
  BY ShellAssumption DEF Err, Results

LEMMA OkType ==
    ASSUME NEW v \in Values, NEW q \in Seq(Accesses)
    PROVE  Ok(v, q) \in Results /\ Ok(v, q).st = "ok" /\ Ok(v, q).val = v
  BY DEF Ok, Results, Errors

LEMMA FaultType == Fault \in Results /\ Fault.st = "fault"
  <1>1. <<>> \in Seq(Accesses)
    OBVIOUS
  <1> QED
    BY <1>1, ShellAssumption DEF Fault, Results, Errors

LEMMA EvalType ==
    ASSUME TypeOK, NEW t \in Terms
    PROVE  Eval(t) \in Results
  <1>1. binding \in [Names -> Values \cup {NoValue}] /\ mem \in [Values -> Values] /\ 0 \in Values
    BY ShellAssumption DEF TypeOK
  <1>2. <<>> \in Seq(Accesses)
    OBVIOUS
  <1>3. CASE t.t = "lit"
    <2>1. t.v \in Values /\ Eval(t) = Ok(t.v, <<>>)
      BY <1>3 DEF Terms, Eval
    <2> QED
      BY <1>2, <2>1, OkType
  <1>4. CASE t.t = "bad"
    <2>1. Eval(t) = Err("Syntax", <<>>)
      BY <1>4 DEF Eval
    <2> QED
      BY <1>2, <2>1, ErrType DEF Errors
  <1>5. CASE t.t = "sym"
    <2>1. t.n \in Names /\ Eval(t) = IF binding[t.n] = NoValue THEN Err("UnknownSymbol", <<>>)
                                      ELSE Ok(binding[t.n], <<>>)
      BY <1>5 DEF Terms, Eval
    <2> QED
      <3>1. Err("UnknownSymbol", <<>>) \in Results
        BY <1>2, ErrType DEF Errors
      <3>2. CASE binding[t.n] = NoValue
        BY <2>1, <3>1, <3>2
      <3>3. CASE binding[t.n] # NoValue
        <4>1. binding[t.n] \in Values
          BY <1>1, <2>1, <3>3
        <4> QED
          BY <1>2, <2>1, <3>3, <4>1, OkType
      <3> QED
        BY <3>2, <3>3
  <1>6. CASE t.t = "peek"
    <2>1. t.v \in Values /\ Eval(t) = IF t.v \in Faulting THEN Fault
                                      ELSE Ok(mem[t.v], <<<<"read", t.v, mem[t.v]>>>>)
      BY <1>6 DEF Terms, Eval
    <2>2. <<"read", t.v, mem[t.v]>> \in Accesses
      BY <1>1, <2>1 DEF Accesses
    <2>3. <<<<"read", t.v, mem[t.v]>>>> \in Seq(Accesses)
      BY <2>2
    <2> QED
      BY <1>1, <2>1, <2>3, OkType, FaultType
  <1>7. t.t \in {"lit", "bad", "sym", "peek"}
    BY DEF Terms
  <1> QED
    BY <1>3, <1>4, <1>5, <1>6, <1>7

LEMMA ThenType ==
    ASSUME NEW r \in Results, NEW s \in Results
    PROVE  /\ Then(r, s) \in Results
           /\ Then(r, s).st = "ok" => r.st = "ok" /\ s.st = "ok"
  <1>1. r.reads \o s.reads \in Seq(Accesses)
    BY ResultFields
  <1>2. \A q \in Seq(Accesses) : [s EXCEPT !.reads = q] \in Results
    BY DEF Results
  <1>3. [s EXCEPT !.reads = r.reads \o @] = [s EXCEPT !.reads = r.reads \o s.reads]
    BY DEF Results
  <1>4. \A q \in Seq(Accesses) : [s EXCEPT !.reads = q].st = s.st
    BY DEF Results
  <1> QED
    BY <1>1, <1>2, <1>3, <1>4 DEF Then

LEMMA SemicolonType ==
    ASSUME NEW r \in Results, NEW ended \in BOOLEAN
    PROVE  Semicolon(r, ended) \in Results /\ (Semicolon(r, ended).st = "ok" => Semicolon(r, ended) = r)
  <1>1. Err("MissingSemicolon", r.reads) \in Results /\ Err("MissingSemicolon", r.reads).st = "error"
    BY ErrType, ResultFields DEF Errors
  <1> QED
    BY <1>1 DEF Semicolon

LEMMA CheckType ==
    ASSUME NEW r \in Results, NEW a
    PROVE  /\ Check(r, a) \in Results
           /\ Check(r, a).st = "ok" => Check(r, a) = r /\ check_access(a)
  <1>1. /\ Err("CapabilityViolation", r.reads) \in Results
        /\ Err("CapabilityViolation", r.reads).st = "error"
    BY ErrType, ResultFields DEF Errors
  <1> QED
    BY <1>1 DEF Check

(* A statement that passes its check has an address the session may use.   *)
LEMMA AddressOnlyType ==
    ASSUME TypeOK, NEW s, s.addr \in Terms, s.ended \in BOOLEAN
    PROVE  /\ AddressOnly(s) \in Results
           /\ AddressOnly(s).st = "ok" => check_access(Eval(s.addr).val)
           /\ Eval(s.addr).val \in Values
  <1>1. Eval(s.addr) \in Results
    BY EvalType
  <1>2. Semicolon(Eval(s.addr), s.ended) \in Results
    BY <1>1, SemicolonType
  <1> QED
    BY <1>1, <1>2, CheckType, ResultFields DEF AddressOnly

LEMMA AddressAndValueType ==
    ASSUME TypeOK, NEW s, s.addr \in Terms, s.val \in Terms, s.ended \in BOOLEAN
    PROVE  /\ AddressAndValue(s) \in Results
           /\ AddressAndValue(s).st = "ok" => check_access(Eval(s.addr).val)
           /\ Eval(s.addr).val \in Values /\ Eval(s.val).val \in Values
  <1>1. Eval(s.addr) \in Results /\ Eval(s.val) \in Results
    BY EvalType
  <1>2. Then(Eval(s.addr), Eval(s.val)) \in Results
    BY <1>1, ThenType
  <1>3. Semicolon(Then(Eval(s.addr), Eval(s.val)), s.ended) \in Results
    BY <1>2, SemicolonType
  <1> QED
    BY <1>1, <1>3, CheckType, ResultFields DEF AddressAndValue

-----------------------------------------------------------------------------
(* The core of the inductive invariants: types, the shape of what is being *)
(* evaluated and printed, and the log.                                     *)

Access == {"peek", "poke", "set_bit", "clr_bit"}

LineShape ==
    /\ phase \in {"evaluating", "body"} => line \in Lines
    /\ phase = "body" => line.cmd = "fn"

PendingShape ==
    phase = "printing" =>
        /\ pending.out \in Access =>
              pending.addr \in Values /\ pending.val \in Values /\ check_access(pending.addr)
        /\ pending.out = "run" => pending.code \in Seq(Primitives)

StoringShape ==
    phase = "storing" =>
        /\ pending.out = "store"
        /\ pending.addr \in Values /\ pending.val \in Values /\ check_access(pending.addr)

CoreInv == TypeOK /\ LogInv /\ LineShape /\ PendingShape /\ StoringShape

LEMMA CoreInit == Init => CoreInv
  <1> SUFFICES ASSUME Init PROVE CoreInv
    OBVIOUS
  <1>1. LogInv
    BY LogInit DEF Init
  <1>2. TypeOK
    BY <1>1, ShellAssumption DEF Init, TypeOK, LogInv
  <1>3. LineShape /\ PendingShape /\ StoringShape
    BY DEF Init, LineShape, PendingShape, StoringShape
  <1> QED
    BY <1>1, <1>2, <1>3 DEF CoreInv

(* What every error and fault of the parser leaves.                        *)
LEMMA FailKeeps ==
    ASSUME CoreInv, NEW r, FailWith(r)
    PROVE  CoreInv'
  <1>1. LogInv'
    BY LogStutters DEF CoreInv, FailWith
  <1>2. phase' \in {"halted", "printing"} /\ (phase' = "printing" => pending'.out = "error")
        /\ line' \in {line, NoLine}
    BY DEF FailWith, Halted, Answer, Error
  <1>3. TypeOK'
    BY <1>1, <1>2 DEF CoreInv, TypeOK, LogInv, FailWith
  <1>4. LineShape' /\ PendingShape' /\ StoringShape'
    BY <1>2 DEF LineShape, PendingShape, StoringShape, Access
  <1> QED
    BY <1>1, <1>3, <1>4 DEF CoreInv

(* What an answered line leaves.                                           *)
LEMMA AnswerKeeps ==
    ASSUME CoreInv, NEW o, Answer(o),
           UNCHANGED <<claimed, mem, audit, recorded, stored>>,
           stmt' \in Nat \ {0}, stream' \in Seq(Primitives),
           binding' \in [Names -> Values \cup {NoValue}],
           fns' \in Seq(FnSlots),
           granted' \in Seq(Grants),
           o.out \in Access => o.addr \in Values /\ o.val \in Values /\ check_access(o.addr),
           o.out = "run" => o.code \in Seq(Primitives)
    PROVE  CoreInv'
  <1>1. LogInv'
    BY LogStutters DEF CoreInv
  <1>2. phase' = "printing" /\ pending' = o /\ line' = line
    BY DEF Answer
  <1>3. TypeOK'
    BY <1>1, <1>2 DEF CoreInv, TypeOK, LogInv, FnSlots, Grants
  <1>4. \A a : check_access(a)' <=> check_access(a)
    BY DEF check_access, is_superuser_active
  <1>5. LineShape' /\ PendingShape' /\ StoringShape'
    BY <1>2, <1>4 DEF LineShape, PendingShape, StoringShape
  <1> QED
    BY <1>1, <1>3, <1>5 DEF CoreInv

(* What every step that goes back to reading, or stops, leaves.            *)
LEMMA AfterKeeps ==
    ASSUME CoreInv, NEW b \in Buses, After(b), LogInv', stored' \in Seq(Log!Entry),
           UNCHANGED <<stmt, stream, granted, binding, fns, claimed>>
    PROVE  CoreInv'
  <1>1. mem' \in [Values -> Values]
    BY DEF After, Buses
  <1>2. phase' \in {"halted", "reading"} /\ line' = NoLine
    BY DEF After, Halted, Prompt
  <1>3. TypeOK'
    BY <1>1, <1>2 DEF CoreInv, TypeOK, LogInv
  <1>4. LineShape' /\ PendingShape' /\ StoringShape'
    BY <1>2 DEF LineShape, PendingShape, StoringShape
  <1> QED
    BY <1>3, <1>4 DEF CoreInv

(* The parser's steps.                                                     *)
LEMMA LineIs ==
    ASSUME CoreInv, phase \in {"evaluating", "body"}
    PROVE  IsLine(line) /\ (phase = "body" => line.cmd = "fn")
  BY LinesAssumption DEF CoreInv, LineShape

LEMMA CodeTypes ==
    ASSUME NEW a \in Values, NEW v \in Values
    PROVE  /\ PokeCode(a, v) \in Seq(Primitives)
           /\ PeekCode(a) \in Seq(Primitives)
           /\ <<Lit(v), Halt>> \in Seq(Primitives)
           /\ Halt \in Primitives
  <1>1. Lit(a) \in Primitives /\ Lit(v) \in Primitives /\ WriteReg \in Primitives
        /\ LoadReg \in Primitives /\ Halt \in Primitives
    BY DEF Primitives
  <1> QED
    BY <1>1 DEF PokeCode, PeekCode

LEMMA SlotType ==
    ASSUME TypeOK, NEW i \in DOMAIN fns
    PROVE  fns[i].body \in Seq(Primitives) /\ fns[i].granted \in Seq(Grants)
  <1>1. fns \in Seq(FnSlots)
    BY DEF TypeOK, FnSlots, Grants
  <1>2. fns[i] \in FnSlots
    BY <1>1
  <1> QED
    BY <1>2 DEF FnSlots

LEMMA BodyType ==
    ASSUME TypeOK, NEW n, Defined(n)
    PROVE  \E i \in DOMAIN fns :
              /\ FnOf(n) = fns[i] /\ BodyOf(n) = fns[i].body
              /\ BodyOf(n) \in Seq(Primitives) /\ FnOf(n).granted \in Seq(Grants)
  <1> DEFINE i == CHOOSE j \in DOMAIN fns : fns[j].name = n
  <1>1. i \in DOMAIN fns
    BY DEF Defined
  <1>2. FnOf(n) = fns[i] /\ BodyOf(n) = fns[i].body
    BY DEF FnOf, BodyOf
  <1> HIDE DEF i
  <1> QED
    BY <1>1, <1>2, SlotType

(* A statement that compiles yields code, and its addresses are granted.   *)
LEMMA StatementType ==
    ASSUME TypeOK, NEW s \in Statements
    PROVE  /\ StatementVerdict(s).st = "ok" => StatementCode(s) \in Seq(Primitives)
           /\ s.s \in {"poke", "peek", "expr", "call"}
           /\ s.s \in {"poke", "peek"} => Eval(s.addr).val \in Values
           /\ s.s = "poke" => Eval(s.val).val \in Values
           /\ s.s \in {"poke", "peek"} /\ StatementVerdict(s).st = "ok"
                => check_access(Eval(s.addr).val)
           /\ s.s = "call" /\ StatementVerdict(s).st = "ok" => Defined(s.name)
  <1>1. s.s \in {"poke", "peek", "expr", "call"}
    BY DEF Statements
  <1>2. CASE s.s = "poke"
    <2>1. s.addr \in Terms /\ s.val \in Terms /\ s.ended \in BOOLEAN
      BY <1>2 DEF Statements
    <2>2. /\ StatementCode(s) = PokeCode(Eval(s.addr).val, Eval(s.val).val)
          /\ StatementVerdict(s) = AddressAndValue(s)
      BY <1>2 DEF StatementCode, StatementVerdict
    <2> QED
      BY <1>2, <2>1, <2>2, AddressAndValueType, CodeTypes
  <1>3. CASE s.s = "peek"
    <2>1. s.addr \in Terms /\ s.ended \in BOOLEAN
      BY <1>3 DEF Statements
    <2>2. StatementCode(s) = PeekCode(Eval(s.addr).val) /\ StatementVerdict(s) = AddressOnly(s)
      BY <1>3 DEF StatementCode, StatementVerdict
    <2> QED
      BY <1>3, <2>1, <2>2, AddressOnlyType, CodeTypes
  <1>4. CASE s.s = "expr"
    <2>1. StatementCode(s) = <<>>
      BY <1>4 DEF StatementCode
    <2> QED
      BY <1>4, <2>1
  <1>5. CASE s.s = "call"
    <2>1. /\ StatementCode(s) = BodyOf(s.name)
          /\ StatementVerdict(s) = IF ~s.ended THEN Err("MissingSemicolon", <<>>)
                ELSE IF Defined(s.name) THEN Ok(0, <<>>) ELSE Err("UnknownSymbol", <<>>)
      BY <1>5 DEF StatementCode, StatementVerdict
    <2>2. StatementVerdict(s).st = "ok" => Defined(s.name)
      BY <2>1 DEF Err
    <2> QED
      BY <1>5, <2>1, <2>2, BodyType
  <1> QED
    BY <1>1, <1>2, <1>3, <1>4, <1>5

(* The grants of a statement are those of its primitives.                  *)
LEMMA GrantsType ==
    ASSUME TypeOK, NEW s \in Statements, StatementVerdict(s).st = "ok"
    PROVE  StatementGrants(s) \in Seq(Grants)
  <1>1. s.s \in {"poke", "peek", "expr", "call"} /\ StatementCode(s) \in Seq(Primitives)
    BY StatementType
  <1>2. CASE s.s = "call"
    BY <1>2, StatementType, BodyType DEF StatementGrants
  <1>3. CASE s.s # "call"
    <2> DEFINE c == StatementCode(s)
               G == {a \in {Eval(s.addr).val} : check_access(a)}
    <2>1. StatementGrants(s) = [k \in DOMAIN c |-> G] /\ DOMAIN c = 1 .. Len(c) /\ Len(c) \in Nat
      BY <1>1, <1>3 DEF StatementGrants
    <2>2. CASE s.s = "expr"
      <3>1. c = <<>>
        BY <2>2 DEF StatementCode
      <3>2. Len(c) = 0
        BY <3>1
      <3> HIDE DEF c, G
      <3> QED
        BY <2>1, <3>2
    <2>3. CASE s.s \in {"poke", "peek"}
      <3>1. G \in Grants
        BY <2>3, StatementType DEF Grants
      <3> HIDE DEF c, G
      <3> QED
        BY <2>1, <3>1
    <2> QED
      BY <1>1, <1>3, <2>2, <2>3
  <1> QED
    BY <1>2, <1>3

LEMMA CoreLet == CoreInv /\ parse_let => CoreInv'
  <1> SUFFICES ASSUME CoreInv, parse_let PROVE CoreInv'
    OBVIOUS
  <1> DEFINE r == Semicolon(Eval(line.expr), line.ended)
             o == [out |-> "bound", name |-> line.name, val |-> r.val]
  <1>1. line.name \in Names /\ line.expr \in Terms /\ line.ended \in BOOLEAN
    BY LineIs DEF parse_let, IsLine
  <1>2. r \in Results
    BY <1>1, EvalType, SemicolonType DEF CoreInv
  <1>3. CASE \E q : FailWith(q)
    BY <1>3, FailKeeps
  <1>4. CASE /\ binding' = [binding EXCEPT ![line.name] = r.val] /\ Answer(o)
             /\ UNCHANGED <<stmt, stream, granted, fns, claimed, mem, audit, recorded, stored>>
    <2>1. binding' \in [Names -> Values \cup {NoValue}]
      BY <1>1, <1>2, <1>4, ResultFields DEF CoreInv, TypeOK
    <2>2. o.out = "bound"
      OBVIOUS
    <2> HIDE DEF o
    <2> QED
      BY <1>4, <2>1, <2>2, AnswerKeeps DEF CoreInv, TypeOK, FnSlots, Grants, Access
  <1> QED
    BY <1>3, <1>4 DEF parse_let

LEMMA CoreFn == CoreInv /\ parse_fn => CoreInv'
  <1> SUFFICES ASSUME CoreInv, parse_fn PROVE CoreInv'
    OBVIOUS
  <1>1. LogInv'
    BY LogStutters DEF CoreInv, parse_fn
  <1>2. TypeOK'
    BY <1>1 DEF CoreInv, TypeOK, LogInv, parse_fn
  <1>3. LineShape' /\ PendingShape' /\ StoringShape'
    BY DEF CoreInv, parse_fn, LineShape, PendingShape, StoringShape
  <1> QED
    BY <1>1, <1>2, <1>3 DEF CoreInv

LEMMA CoreStmt == CoreInv /\ parse_body_stmt => CoreInv'
  <1> SUFFICES ASSUME CoreInv, parse_body_stmt PROVE CoreInv'
    OBVIOUS
  <1> DEFINE s == line.body[stmt]
  <1>1. s \in Statements
    <2>1. phase = "body" /\ stmt <= Len(line.body) /\ stmt \in Nat \ {0}
      BY DEF CoreInv, TypeOK, parse_body_stmt
    <2>2. line.body \in Seq(Statements)
      BY <2>1, LineIs DEF IsLine
    <2> QED
      BY <2>1, <2>2
  <1>2. CASE \E q : FailWith(q)
    BY <1>2, FailKeeps
  <1>3. CASE /\ StatementVerdict(s).st = "ok"
             /\ stream' = stream \o StatementCode(s)
             /\ granted' = granted \o StatementGrants(s)
             /\ stmt' = stmt + 1
             /\ UNCHANGED <<phase, line, pending, binding, fns, claimed, mem, audit, recorded, stored, before>>
    <2>1. LogInv'
      BY <1>3, LogStutters DEF CoreInv
    <2>2. stream' \in Seq(Primitives)
      BY <1>1, <1>3, StatementType DEF CoreInv, TypeOK
    <2>3. granted' \in Seq(SUBSET Values) /\ stmt' \in Nat \ {0}
      BY <1>1, <1>3, GrantsType DEF CoreInv, TypeOK, Grants
    <2>4. TypeOK'
      BY <1>3, <2>1, <2>2, <2>3 DEF CoreInv, TypeOK, LogInv
    <2>5. LineShape' /\ PendingShape' /\ StoringShape'
      BY <1>3 DEF CoreInv, parse_body_stmt, LineShape, PendingShape, StoringShape
    <2> QED
      BY <2>1, <2>4, <2>5 DEF CoreInv
  <1> QED
    BY <1>2, <1>3 DEF parse_body_stmt

LEMMA CoreEndFn == CoreInv /\ EndFn => CoreInv'
  <1> SUFFICES ASSUME CoreInv, EndFn PROVE CoreInv'
    OBVIOUS
  <1> DEFINE o == [out |-> "fn", name |-> line.name]
  <1>1. CASE \E q : FailWith(q)
    BY <1>1, FailKeeps
  <1>2. CASE /\ fns' = Append(fns, NewFn) /\ Answer(o)
             /\ UNCHANGED <<stmt, stream, granted, binding, claimed, mem, audit, recorded, stored>>
    <2>1. line.name \in Names
      BY LineIs DEF EndFn, IsLine
    <2>2. fns' \in Seq(FnSlots)
      <3>1. NewFn \in FnSlots
        BY <2>1 DEF CoreInv, TypeOK, NewFn, FnSlots, Grants
      <3>2. fns \in Seq(FnSlots)
        BY DEF CoreInv, TypeOK, FnSlots, Grants
      <3> QED
        BY <1>2, <3>1, <3>2
    <2>3. o.out = "fn"
      OBVIOUS
    <2> HIDE DEF o
    <2> QED
      BY <1>2, <2>2, <2>3, AnswerKeeps DEF CoreInv, TypeOK, FnSlots, Grants, Access
  <1> QED
    BY <1>1, <1>2 DEF EndFn

LEMMA CoreParseAccess == CoreInv /\ ParseAccess => CoreInv'
  <1> SUFFICES ASSUME CoreInv, ParseAccess PROVE CoreInv'
    OBVIOUS
  <1> DEFINE r == CommandVerdict(line)
             a == Eval(line.addr).val
             o == [out |-> line.cmd, addr |-> a, val |-> r.val]
  <1>1. line.cmd \in Access /\ IsLine(line)
    BY LineIs DEF ParseAccess, Access
  <1>2. r \in Results /\ a \in Values /\ (r.st = "ok" => check_access(a))
    BY <1>1, AddressOnlyType, AddressAndValueType DEF CoreInv, CommandVerdict, IsLine, Access
  <1>3. CASE \E q : FailWith(q)
    BY <1>3, FailKeeps
  <1>4. CASE /\ r.st = "ok" /\ Answer(o)
             /\ UNCHANGED <<stmt, stream, granted, binding, fns, claimed, mem, audit, recorded, stored>>
    <2>1. o.out = line.cmd /\ o.addr = a /\ o.val = r.val /\ r.val \in Values
      BY <1>2, ResultFields
    <2>2. line.cmd # "run"
      BY <1>1 DEF Access
    <2> HIDE DEF o, a, r
    <2> QED
      BY <1>2, <1>4, <2>1, <2>2, AnswerKeeps DEF CoreInv, TypeOK, FnSlots, Grants
  <1> QED
    BY <1>3, <1>4 DEF ParseAccess

LEMMA CoreParseSimple == CoreInv /\ ParseSimple => CoreInv'
  <1> SUFFICES ASSUME CoreInv, ParseSimple PROVE CoreInv'
    OBVIOUS
  <1>1. PICK o : Answer(o) /\ o.out \in {"error", "cap_claim", "cap_drop", "sys_audit"}
    BY DEF ParseSimple, Error
  <1> QED
    BY <1>1, AnswerKeeps DEF CoreInv, TypeOK, FnSlots, Grants, ParseSimple, Access

LEMMA CoreCall == CoreInv /\ build_call_program => CoreInv'
  <1> SUFFICES ASSUME CoreInv, build_call_program PROVE CoreInv'
    OBVIOUS
  <1>1. CASE \E q : FailWith(q)
    BY <1>1, FailKeeps
  <1>2. CASE /\ Defined(line.name) /\ stream' = Append(BodyOf(line.name), Halt)
             /\ Answer([out |-> "run", code |-> stream', yields_value |-> FALSE])
             /\ UNCHANGED <<stmt, granted, binding, fns, claimed, mem, audit, recorded, stored>>
    <2> DEFINE o == [out |-> "run", code |-> stream', yields_value |-> FALSE]
    <2>1. stream' \in Seq(Primitives)
      <3>1. BodyOf(line.name) \in Seq(Primitives) /\ Halt \in Primitives
        BY <1>2, BodyType DEF CoreInv, Primitives
      <3> QED
        BY <1>2, <3>1
    <2>2. o.out = "run" /\ o.code = stream' /\ Answer(o)
      BY <1>2
    <2> HIDE DEF o
    <2> QED
      BY <1>2, <2>1, <2>2, AnswerKeeps DEF CoreInv, TypeOK, FnSlots, Grants, Access
  <1> QED
    BY <1>1, <1>2 DEF build_call_program

LEMMA CoreValue == CoreInv /\ build_value_program => CoreInv'
  <1> SUFFICES ASSUME CoreInv, build_value_program PROVE CoreInv'
    OBVIOUS
  <1> DEFINE r == Semicolon(Eval(line.expr), line.ended)
  <1>1. r \in Results
    BY LineIs, EvalType, SemicolonType DEF CoreInv, build_value_program, IsLine
  <1>2. CASE \E q : FailWith(q)
    BY <1>2, FailKeeps
  <1>3. CASE /\ stream' = <<Lit(r.val), Halt>>
             /\ Answer([out |-> "run", code |-> stream', yields_value |-> TRUE])
             /\ UNCHANGED <<stmt, granted, binding, fns, claimed, mem, audit, recorded, stored>>
    <2> DEFINE o == [out |-> "run", code |-> stream', yields_value |-> TRUE]
    <2>1. stream' \in Seq(Primitives)
      BY <1>1, <1>3, CodeTypes, ResultFields
    <2>2. o.out = "run" /\ o.code = stream' /\ Answer(o)
      BY <1>3
    <2> HIDE DEF o
    <2> QED
      BY <1>3, <2>1, <2>2, AnswerKeeps DEF CoreInv, TypeOK, FnSlots, Grants, Access
  <1> QED
    BY <1>2, <1>3 DEF build_value_program

(* Printing.                                                               *)
LEMMA AccessIs ==
    ASSUME CoreInv, phase = "printing", pending.out \in Access
    PROVE  pending.addr \in Values /\ pending.val \in Values
           /\ check_access(pending.addr) /\ enforced_allows(pending.addr)
  BY DEF CoreInv, PendingShape, check_access, enforced_allows

LEMMA MemIsBus ==
    ASSUME CoreInv
    PROVE  BusOn(mem) \in Buses /\ mem \in [Values -> Values]
  BY BusOnType DEF CoreInv, TypeOK

LEMMA StoresKeeps ==
    ASSUME CoreInv, NEW b \in Buses, NEW a \in Values, NEW v \in Values, Stores(b, a, v),
           UNCHANGED <<stmt, stream, granted, binding, fns, claimed, audit, recorded>>
    PROVE  CoreInv'
  <1>1. LogInv'
    BY LogStutters DEF CoreInv
  <1>2. stored' \in Seq(Log!Entry)
    <2>1. stored \in Seq(Log!Entry) /\ [addr |-> a, val |-> v] \in Log!Entry
      BY DEF CoreInv, TypeOK, Log!Entry
    <2> QED
      BY <2>1 DEF Stores
  <1>3. BusWrite(b, a, v) \in Buses
    BY BusWriteType
  <1> QED
    BY <1>1, <1>2, <1>3, AfterKeeps DEF Stores

LEMMA PokeKeeps ==
    ASSUME CoreInv, NEW b \in Buses, NEW a \in Values, NEW v \in Values, enforced_poke(b, a, v),
           check_access(a),
           UNCHANGED <<stmt, stream, granted, binding, fns, claimed>>
    PROVE  CoreInv'
  <1>1. CASE Refused(b)
    BY <1>1, LogStutters, AfterKeeps DEF CoreInv, TypeOK, Refused
  <1>2. CASE /\ IF is_superuser_active THEN Log!record_event(a, v) ELSE UNCHANGED <<audit, recorded>>
             /\ phase' = "storing"
             /\ pending' = [out |-> "store", addr |-> a, val |-> v]
             /\ UNCHANGED <<line, mem, stored, before>>
    <2>1. LogInv'
      BY <1>2, LogRecord, LogStutters DEF CoreInv
    <2>2. TypeOK'
      BY <1>2, <2>1 DEF CoreInv, TypeOK, LogInv
    <2>3. check_access(a)'
      BY DEF check_access, is_superuser_active
    <2>4. LineShape' /\ PendingShape' /\ StoringShape'
      BY <1>2, <2>3 DEF LineShape, PendingShape, StoringShape
    <2> QED
      BY <2>1, <2>2, <2>4 DEF CoreInv
  <1> QED
    BY <1>1, <1>2 DEF enforced_poke

LEMMA CoreStoreWord == CoreInv /\ StoreWord => CoreInv'
  <1> SUFFICES ASSUME CoreInv, StoreWord PROVE CoreInv'
    OBVIOUS
  <1>1. pending.addr \in Values /\ pending.val \in Values /\ BusOn(mem) \in Buses
    BY MemIsBus DEF CoreInv, StoringShape, StoreWord
  <1> QED
    BY <1>1, StoresKeeps DEF StoreWord

LEMMA BitIndex ==
    ASSUME NEW bit \in Values
    PROVE  bit % WORD_BITS \in 0 .. WORD_BITS - 1
  <1>1. bit \in Nat
    BY BitsAssumption
  <1>2. WORD_BITS \in Nat /\ WORD_BITS > 0
    BY BitsAssumption
  <1> QED
    BY <1>1, <1>2

LEMMA CoreExecuteAccess == CoreInv /\ ExecuteAccess => CoreInv'
  <1> SUFFICES ASSUME CoreInv, ExecuteAccess PROVE CoreInv'
    OBVIOUS
  <1> DEFINE a == pending.addr
             v == pending.val
  <1>1. phase = "printing" /\ pending.out \in Access
        /\ UNCHANGED <<stmt, stream, granted, binding, fns, claimed>>
    BY DEF ExecuteAccess, Access
  <1>2. /\ a \in Values /\ v \in Values /\ check_access(a)
        /\ BusOn(mem) \in Buses /\ mem \in [Values -> Values]
    BY <1>1, AccessIs, MemIsBus
  <1>3. CASE pending.out = "peek"
    <2>1. enforced_peek(a)
      BY <1>3 DEF ExecuteAccess
    <2>2. PICK b \in Buses : After(b) /\ UNCHANGED <<audit, recorded, stored>>
      BY <1>2, <2>1, BusReadType DEF enforced_peek, Refused
    <2> QED
      BY <1>1, <2>2, AfterKeeps, LogStutters DEF CoreInv, TypeOK
  <1>4. CASE pending.out = "poke"
    <2>1. enforced_poke(BusOn(mem), a, v)
      BY <1>4 DEF ExecuteAccess
    <2> QED
      BY <1>1, <1>2, <2>1, PokeKeeps
  <1>5. CASE pending.out \in {"set_bit", "clr_bit"}
    <2> DEFINE on == pending.out = "set_bit"
               b == BusRead(BusOn(mem), a)
               w == WithBit(b.mem[a], v % WORD_BITS, on)
    <2>1. modify_bit(a, v, on)
      BY <1>5 DEF ExecuteAccess
    <2>2. b \in Buses /\ b.mem = mem
      BY <1>2, BusReadType DEF BusOn
    <2>3. w \in Values
      <3>1. v % WORD_BITS \in 0 .. WORD_BITS - 1
        BY <1>2, BitIndex
      <3>2. mem[a] \in Values /\ on \in BOOLEAN
        BY <1>2
      <3> QED
        BY <2>2, <3>1, <3>2, WordsAssumption
    <2>4. CASE After(b) /\ UNCHANGED <<audit, recorded, stored>>
      BY <1>1, <2>2, <2>4, AfterKeeps, LogStutters DEF CoreInv, TypeOK
    <2>5. CASE Halted /\ trace' = b.trace /\ UNCHANGED <<mem, audit, recorded, stored>>
      <3>1. LogInv'
        BY <2>5, LogStutters DEF CoreInv
      <3>2. TypeOK'
        BY <1>1, <2>5, <3>1 DEF CoreInv, TypeOK, LogInv, Halted
      <3>3. LineShape' /\ PendingShape' /\ StoringShape'
        BY <2>5 DEF Halted, LineShape, PendingShape, StoringShape
      <3> QED
        BY <3>1, <3>2, <3>3 DEF CoreInv
    <2>6. CASE enforced_poke(b, a, w)
      BY <1>1, <1>2, <2>2, <2>3, <2>6, PokeKeeps
    <2> QED
      BY <2>1, <2>4, <2>5, <2>6 DEF modify_bit
  <1> QED
    BY <1>1, <1>3, <1>4, <1>5 DEF Access

LEMMA CoreExecuteProgram == CoreInv /\ ExecuteProgram => CoreInv'
  <1> SUFFICES ASSUME CoreInv, ExecuteProgram PROVE CoreInv'
    OBVIOUS
  <1>1. pending.code \in Seq(Primitives)
    BY DEF CoreInv, PendingShape, ExecuteProgram
  <1>2. RunProgram(pending.code, mem) \in Buses
    BY <1>1, MemIsBus, RunProgramType
  <1> QED
    BY <1>2, AfterKeeps, LogStutters DEF CoreInv, TypeOK, ExecuteProgram

LEMMA CorePrint == CoreInv /\ (ExecuteCap \/ PrintOnly) => CoreInv'
  <1> SUFFICES ASSUME CoreInv, ExecuteCap \/ PrintOnly PROVE CoreInv'
    OBVIOUS
  <1>1. LogInv'
    BY LogStutters DEF CoreInv, ExecuteCap, PrintOnly
  <1>2. TypeOK'
    <2>1. claimed' \in SUBSET Caps
      BY DEF CoreInv, TypeOK, ExecuteCap, PrintOnly
    <2> QED
      BY <1>1, <2>1 DEF CoreInv, TypeOK, LogInv, ExecuteCap, PrintOnly, Prompt
  <1>3. LineShape' /\ PendingShape' /\ StoringShape'
    BY DEF ExecuteCap, PrintOnly, Prompt, LineShape, PendingShape, StoringShape
  <1> QED
    BY <1>1, <1>2, <1>3 DEF CoreInv

LEMMA CoreReset == CoreInv /\ Reset => CoreInv'
  <1> SUFFICES ASSUME CoreInv, Reset PROVE CoreInv'
    OBVIOUS
  <1>1. LogInv'
    BY LogReset DEF Reset
  <1>2. TypeOK'
    BY <1>1 DEF CoreInv, TypeOK, LogInv, Reset
  <1>3. LineShape' /\ PendingShape' /\ StoringShape'
    BY DEF Reset, LineShape, PendingShape, StoringShape
  <1> QED
    BY <1>1, <1>2, <1>3 DEF CoreInv

LEMMA CoreEnterLine == CoreInv /\ EnterLine => CoreInv'
  <1> SUFFICES ASSUME CoreInv, EnterLine PROVE CoreInv'
    OBVIOUS
  <1>1. LogInv'
    BY LogStutters DEF CoreInv, EnterLine
  <1>2. TypeOK'
    BY <1>1 DEF CoreInv, TypeOK, LogInv, EnterLine
  <1>3. LineShape' /\ PendingShape' /\ StoringShape'
    BY DEF EnterLine, LineShape, PendingShape, StoringShape
  <1> QED
    BY <1>1, <1>2, <1>3 DEF CoreInv

LEMMA CoreStutter == CoreInv /\ UNCHANGED vars => CoreInv'
  <1> SUFFICES ASSUME CoreInv, UNCHANGED vars PROVE CoreInv'
    OBVIOUS
  <1>1. LogInv'
    BY LogStutters DEF CoreInv, vars
  <1>2. TypeOK'
    BY <1>1 DEF CoreInv, TypeOK, LogInv, vars
  <1>3. LineShape' /\ PendingShape' /\ StoringShape'
    BY DEF CoreInv, vars, LineShape, PendingShape, StoringShape, check_access, is_superuser_active
  <1> QED
    BY <1>1, <1>2, <1>3 DEF CoreInv

LEMMA SessionCore == Spec => []CoreInv
  <1>1. CoreInv /\ [Next]_vars => CoreInv'
    BY CoreLet, CoreFn, CoreStmt, CoreEndFn, CoreParseAccess, CoreParseSimple, CoreCall, CoreValue,
       CoreExecuteAccess, CoreStoreWord, CoreExecuteProgram, CorePrint, CoreReset, CoreEnterLine, CoreStutter
    DEF Next, Evaluate, Printing
  <1> QED
    BY <1>1, CoreInit, PTL DEF Spec

(* Every variable of a session keeps its type, the memory behind compiled  *)
(* and interpreted streams of any length included.                         *)
THEOREM SessionTypeCorrect == Spec => []TypeOK
  <1>1. CoreInv => TypeOK
    BY DEF CoreInv
  <1> QED
    BY <1>1, SessionCore, PTL

(* The audit ring and its count are the end of the history of events:      *)
(* record_event overwrites the oldest entry and no other.                  *)
THEOREM LogFollowsHistory == Spec => []LogIsHistory
  <1>1. CoreInv => LogIsHistory
    BY DEF CoreInv, LogInv, LogIsHistory
  <1> QED
    BY <1>1, SessionCore, PTL

(* sys_audit shows every one of the latest events with a nonzero address   *)
(* and nothing else, wherever the head of the ring is.                     *)
THEOREM DumpShowsRecent == Spec => []DumpIsRecent
  <1>1. CoreInv => DumpIsRecent
    BY DumpFollows DEF CoreInv, DumpIsRecent
  <1> QED
    BY <1>1, SessionCore, PTL

(* The check of the parser holds when its access is executed, so the       *)
(* second check in memory.rs agrees with it.                               *)
THEOREM ChecksAgree == Spec => []CheckStillValid
  <1>1. CoreInv => CheckStillValid
    <2> SUFFICES ASSUME CoreInv, (phase = "printing" /\ pending.out \in Access) \/ phase = "storing"
                 PROVE  check_access(pending.addr) /\ enforced_allows(pending.addr)
      BY DEF CheckStillValid, Access
    <2>1. CASE phase = "printing" /\ pending.out \in Access
      BY <2>1, AccessIs
    <2>2. CASE phase = "storing"
      <3>1. check_access(pending.addr)
        BY <2>2 DEF CoreInv, StoringShape
      <3> QED
        BY <3>1 DEF check_access, enforced_allows
    <2> QED
      BY <2>1, <2>2
  <1> QED
    BY <1>1, SessionCore, PTL

-----------------------------------------------------------------------------
(* Errors.  Until a line is answered the session is what it was when the   *)
(* line was entered; an error is an answer that keeps it so.               *)

ErrorInv == ErrorsChangeNothing /\ (phase \in {"evaluating", "body"} => session = before)

LEMMA StepError == ErrorInv /\ [Next]_vars => ErrorInv'
  <1> SUFFICES ASSUME ErrorInv, [Next]_vars PROVE ErrorInv'
    OBVIOUS
  <1>1. ASSUME NEW r, FailWith(r), phase \in {"evaluating", "body"}
        PROVE  ErrorInv'
    BY <1>1 DEF ErrorInv, ErrorsChangeNothing, FailWith, Halted, Answer, session
  <1>2. ASSUME NEW o, Answer(o), o.out # "error"
        PROVE  ErrorInv'
    BY <1>2 DEF ErrorInv, ErrorsChangeNothing, Answer
  <1>3. ASSUME phase' \in {"reading", "storing", "halted"}
        PROVE  ErrorInv'
    BY <1>3 DEF ErrorInv, ErrorsChangeNothing
  <1>4. CASE EnterLine
    BY <1>4 DEF EnterLine, ErrorInv, ErrorsChangeNothing, session
  <1>5. CASE parse_let
    BY <1>1, <1>2, <1>5 DEF parse_let
  <1>6. CASE parse_fn
    BY <1>6 DEF parse_fn, ErrorInv, ErrorsChangeNothing, session
  <1>7. CASE parse_body_stmt
    <2>1. CASE \E r : FailWith(r)
      BY <1>1, <1>7, <2>1 DEF parse_body_stmt
    <2>2. CASE UNCHANGED <<phase, pending, binding, fns, claimed, mem, audit, before>>
      BY <2>2 DEF ErrorInv, ErrorsChangeNothing, session
    <2> QED
      BY <1>7, <2>1, <2>2 DEF parse_body_stmt
  <1>8. CASE EndFn
    BY <1>1, <1>2, <1>8 DEF EndFn
  <1>9. CASE ParseAccess
    BY <1>1, <1>2, <1>9 DEF ParseAccess
  <1>10. CASE ParseSimple
    <2>1. CASE line.cmd = "bad"
      BY <1>10, <2>1 DEF ParseSimple, ErrorInv, ErrorsChangeNothing, Answer, session
    <2>2. CASE line.cmd # "bad"
      BY <1>2, <1>10, <2>2 DEF ParseSimple
    <2> QED
      BY <2>1, <2>2
  <1>11. CASE build_call_program
    BY <1>1, <1>2, <1>11 DEF build_call_program
  <1>12. CASE build_value_program
    BY <1>1, <1>2, <1>12 DEF build_value_program
  <1>13. CASE Printing
    <2>1. phase' \in {"reading", "storing", "halted"}
      BY <1>13 DEF Printing, ExecuteAccess, StoreWord, Stores, ExecuteProgram, ExecuteCap, PrintOnly,
                   After, Halted, Prompt, enforced_peek, enforced_poke, modify_bit, Refused
    <2> QED
      BY <1>3, <2>1
  <1>14. CASE Reset
    BY <1>3, <1>14 DEF Reset
  <1>15. CASE UNCHANGED vars
    BY <1>15 DEF vars, ErrorInv, ErrorsChangeNothing, session
  <1> QED
    BY <1>4, <1>5, <1>6, <1>7, <1>8, <1>9, <1>10, <1>11, <1>12, <1>13, <1>14, <1>15 DEF Next, Evaluate

(* A line answered with an error, at whatever statement of whatever body,  *)
(* changed no symbol, function, claim, memory word or audit entry.         *)
THEOREM ErrorsKeepSession == Spec => []ErrorsChangeNothing
  <1>1. Init => ErrorInv
    BY DEF Init, ErrorInv, ErrorsChangeNothing
  <1>2. ErrorInv => ErrorsChangeNothing
    BY DEF ErrorInv
  <1> QED
    BY <1>1, <1>2, StepError, PTL DEF Spec

-----------------------------------------------------------------------------
(* The function table.                                                     *)

LEMMA WordCountType ==
    ASSUME NEW code \in Seq(Primitives)
    PROVE  WordCount(code) \in Nat
  <1> DEFINE L == {i \in DOMAIN code : code[i].op = "lit"}
  <1>1. IsFiniteSet(1 .. Len(code))
    BY FS_Interval
  <1>2. IsFiniteSet(L)
    BY <1>1, FS_Subset
  <1>3. Cardinality(L) \in Nat
    BY <1>2, FS_CardinalityType
  <1> QED
    BY <1>3 DEF WordCount

(* Code that ends where a statement ends.                                  *)
Whole(code) == code # <<>> => Last(code) \in {LoadReg, WriteReg}

LEMMA WholeConcat ==
    ASSUME NEW s \in Seq(Primitives), NEW t \in Seq(Primitives), Whole(s), Whole(t)
    PROVE  Whole(s \o t)
  <1>1. CASE t = <<>>
    <2>1. s \o t = s
      BY <1>1
    <2> QED
      BY <2>1
  <1>2. CASE t # <<>>
    <2>1. Last(s \o t) = Last(t)
      BY <1>2 DEF Last
    <2> QED
      BY <1>2, <2>1 DEF Whole
  <1> QED
    BY <1>1, <1>2

(* So does code in which every statement is complete.                      *)
Complete(code) == Parsed(code, "whole")

LEMMA CompleteWhole ==
    ASSUME NEW code \in Seq(Primitives), Complete(code)
    PROVE  Whole(code)
  <1> SUFFICES ASSUME code # <<>> PROVE Last(code) \in {LoadReg, WriteReg}
    BY DEF Whole
  <1> DEFINE n == Len(code)
  <1>1. n \in DOMAIN code /\ Last(code) = code[n] /\ code[n] \in Primitives
    BY DEF Last
  <1>2. PICK at : Scan(code, at) /\ at[n] = "whole"
    BY DEF Complete, Parsed
  <1>3. <<at[n - 1], code[n].op, "whole">> \in Moves
    BY <1>1, <1>2 DEF Scan
  <1>4. code[n].op \in {"load_reg", "write_reg"}
    BY <1>3 DEF Moves
  <1> QED
    BY <1>1, <1>4 DEF Primitives, Lit, LoadReg, WriteReg, Halt

(* Statements one after the other are complete where the last one is.      *)
LEMMA ParsedConcat ==
    ASSUME NEW s \in Seq(Primitives), NEW t \in Seq(Primitives), NEW place,
           Complete(s), Parsed(t, place)
    PROVE  Parsed(s \o t, place)
  <1> DEFINE m == Len(s)
             n == Len(t)
             c == s \o t
  <1>1. /\ m \in Nat /\ n \in Nat /\ Len(c) = m + n /\ DOMAIN c = 1 .. m + n
        /\ DOMAIN s = 1 .. m /\ DOMAIN t = 1 .. n
        /\ \A k \in 1 .. m : c[k] = s[k]
        /\ \A k \in 1 .. m + n : k > m => c[k] = t[k - m]
    OBVIOUS
  <1>2. PICK a \in [0 .. m -> Stages] : Scan(s, a) /\ a[m] = "whole"
    BY DEF Complete, Parsed
  <1>3. PICK b \in [0 .. n -> Stages] : Scan(t, b) /\ b[n] = place
    BY DEF Parsed
  <1> DEFINE at == [k \in 0 .. m + n |-> IF k <= m THEN a[k] ELSE b[k - m]]
  <1> HIDE DEF m, n, c
  <1>4. at \in [0 .. m + n -> Stages]
    BY <1>1, <1>2, <1>3
  <1>5. at[0] = "whole" /\ at[m + n] = place
    BY <1>1, <1>2, <1>3 DEF Scan
  <1>6. ASSUME NEW k \in 1 .. m + n
        PROVE  <<at[k - 1], c[k].op, at[k]>> \in Moves
    <2>1. CASE k <= m
      <3>1. k \in 1 .. m /\ at[k - 1] = a[k - 1] /\ at[k] = a[k] /\ c[k] = s[k]
        BY <1>1, <2>1
      <3> HIDE DEF at
      <3> QED
        BY <1>1, <1>2, <3>1 DEF Scan
    <2>2. CASE k > m
      <3> DEFINE j == k - m
      <3>1. j \in 1 .. n /\ at[k] = b[j] /\ c[k] = t[j]
        BY <1>1, <2>2
      <3>2. at[k - 1] = b[j - 1]
        <4>1. CASE k - 1 = m
          BY <1>1, <1>2, <1>3, <4>1 DEF Scan
        <4>2. CASE k - 1 > m
          BY <1>1, <4>2
        <4> QED
          BY <1>1, <2>2, <4>1, <4>2
      <3> HIDE DEF at, j
      <3> QED
        BY <1>1, <1>3, <3>1, <3>2 DEF Scan
    <2> QED
      BY <1>1, <2>1, <2>2
  <1> HIDE DEF at
  <1> QED
    BY <1>1, <1>4, <1>5, <1>6 DEF Parsed, Scan, c

LEMMA StatementsComplete ==
    /\ Complete(<<>>)
    /\ \A a, v : Complete(PokeCode(a, v)) /\ Complete(PeekCode(a))
    /\ Parsed(<<Halt>>, "end")
    /\ \A v : Parsed(<<Lit(v), Halt>>, "end")
  <1>1. Complete(<<>>)
    <2> DEFINE at == [k \in 0 .. 0 |-> "whole"]
    <2>1. at \in [0 .. Len(<<>>) -> Stages] /\ Scan(<<>>, at) /\ at[Len(<<>>)] = "whole"
      BY DEF Scan, Stages
    <2> QED
      BY <2>1 DEF Complete, Parsed
  <1>2. ASSUME NEW a, NEW v
        PROVE  Complete(PokeCode(a, v))
    <2> DEFINE c == PokeCode(a, v)
               at == [k \in 0 .. 3 |-> CASE k = 1 -> "address" [] k = 2 -> "value" [] OTHER -> "whole"]
    <2>1. Len(c) = 3 /\ DOMAIN c = 1 .. 3 /\ c[1].op = "lit" /\ c[2].op = "lit" /\ c[3].op = "write_reg"
      BY DEF PokeCode, Lit, WriteReg
    <2>2. /\ at \in [0 .. 3 -> Stages]
          /\ at[0] = "whole" /\ at[1] = "address" /\ at[2] = "value" /\ at[3] = "whole"
      BY DEF Stages
    <2> HIDE DEF c, at
    <2>3. Scan(c, at)
      BY <2>1, <2>2 DEF Scan, Moves
    <2>4. Complete(c)
      BY <2>1, <2>2, <2>3 DEF Complete, Parsed
    <2> QED
      BY <2>4 DEF c
  <1>3. ASSUME NEW a
        PROVE  Complete(PeekCode(a))
    <2> DEFINE c == PeekCode(a)
               at == [k \in 0 .. 2 |-> IF k = 1 THEN "address" ELSE "whole"]
    <2>1. Len(c) = 2 /\ DOMAIN c = 1 .. 2 /\ c[1].op = "lit" /\ c[2].op = "load_reg"
      BY DEF PeekCode, Lit, LoadReg
    <2>2. at \in [0 .. 2 -> Stages] /\ at[0] = "whole" /\ at[1] = "address" /\ at[2] = "whole"
      BY DEF Stages
    <2> HIDE DEF c, at
    <2>3. Scan(c, at)
      BY <2>1, <2>2 DEF Scan, Moves
    <2>4. Complete(c)
      BY <2>1, <2>2, <2>3 DEF Complete, Parsed
    <2> QED
      BY <2>4 DEF c
  <1>4. Parsed(<<Halt>>, "end")
    <2> DEFINE c == <<Halt>>
               at == [k \in 0 .. 1 |-> IF k = 0 THEN "whole" ELSE "end"]
    <2>1. Len(c) = 1 /\ DOMAIN c = 1 .. 1 /\ c[1].op = "halt"
      BY DEF Halt
    <2>2. at \in [0 .. 1 -> Stages] /\ at[0] = "whole" /\ at[1] = "end"
      BY DEF Stages
    <2> HIDE DEF c, at
    <2>3. Parsed(c, "end")
      BY <2>1, <2>2 DEF Scan, Moves, Parsed
    <2> QED
      BY <2>3 DEF c
  <1>5. ASSUME NEW v
        PROVE  Parsed(<<Lit(v), Halt>>, "end")
    <2> DEFINE c == <<Lit(v), Halt>>
               at == [k \in 0 .. 2 |-> CASE k = 0 -> "whole" [] k = 1 -> "address" [] OTHER -> "end"]
    <2>1. Len(c) = 2 /\ DOMAIN c = 1 .. 2 /\ c[1].op = "lit" /\ c[2].op = "halt"
      BY DEF Halt, Lit
    <2>2. at \in [0 .. 2 -> Stages] /\ at[0] = "whole" /\ at[1] = "address" /\ at[2] = "end"
      BY DEF Stages
    <2> HIDE DEF c, at
    <2>3. Parsed(c, "end")
      BY <2>1, <2>2 DEF Scan, Moves, Parsed
    <2> QED
      BY <2>3 DEF c
  <1> QED
    BY <1>1, <1>2, <1>3, <1>4, <1>5

FnInv ==
    /\ FnTableSound
    /\ \A i \in DOMAIN fns : Complete(fns[i].body)
    /\ phase = "body" => Complete(stream)

LEMMA StatementComplete ==
    ASSUME TypeOK, FnInv, NEW s \in Statements, StatementVerdict(s).st = "ok"
    PROVE  Complete(StatementCode(s))
  <1>1. s.s \in {"poke", "peek", "expr", "call"}
    BY StatementType
  <1>2. CASE s.s # "call"
    BY <1>1, <1>2, StatementsComplete DEF StatementCode
  <1>3. CASE s.s = "call"
    <2>1. PICK i \in DOMAIN fns : BodyOf(s.name) = fns[i].body
      BY <1>3, StatementType, BodyType
    <2> QED
      BY <1>3, <2>1 DEF StatementCode, FnInv
  <1> QED
    BY <1>2, <1>3

(* What a step does to the table: nothing, or a new whole body within its  *)
(* bounds, or a reset.                                                     *)
Stored ==
    /\ phase = "body" /\ phase' = "printing" /\ line.cmd = "fn"
    /\ FnError = "none"
    /\ fns' = Append(fns, NewFn)
    /\ UNCHANGED <<stream, granted, claimed>>

LEMMA StepTable ==
    ASSUME CoreInv, [Next]_vars
    PROVE  \/ Reset
           \/ Stored
           \/ UNCHANGED fns /\ (phase' = "body" => parse_fn \/ parse_body_stmt \/ UNCHANGED vars)
  <1>1. CASE parse_fn \/ parse_body_stmt
    <2>1. UNCHANGED fns
      BY <1>1 DEF parse_fn, parse_body_stmt, FailWith
    <2> QED
      BY <1>1, <2>1
  <1>2. CASE EndFn
    <2>1. CASE FnError # "none"
      BY <1>2, <2>1 DEF EndFn, FailWith, Halted, Answer
    <2>2. CASE FnError = "none"
      BY <1>2, <2>2, LineIs DEF EndFn, Stored, Answer
    <2> QED
      BY <2>1, <2>2
  <1>3. CASE EnterLine \/ parse_let \/ ParseAccess \/ ParseSimple \/ build_call_program
             \/ build_value_program
    <2>1. UNCHANGED fns
      BY <1>3 DEF EnterLine, parse_let, ParseAccess, ParseSimple, build_call_program,
                  build_value_program, FailWith
    <2>2. phase' # "body"
      BY <1>3 DEF EnterLine, parse_let, ParseAccess, ParseSimple, build_call_program,
                  build_value_program, FailWith, Halted, Answer
    <2> QED
      BY <2>1, <2>2
  <1>4. CASE Printing
    <2>1. UNCHANGED fns
      BY <1>4 DEF Printing, ExecuteAccess, StoreWord, ExecuteProgram, ExecuteCap, PrintOnly
    <2>2. phase' # "body"
      BY <1>4 DEF Printing, ExecuteAccess, StoreWord, Stores, ExecuteProgram, ExecuteCap, PrintOnly,
                  After, Halted, Prompt, enforced_peek, enforced_poke, modify_bit, Refused
    <2> QED
      BY <2>1, <2>2
  <1>5. CASE Reset
    BY <1>5
  <1>6. CASE UNCHANGED vars
    BY <1>6 DEF vars
  <1> QED
    BY <1>1, <1>2, <1>3, <1>4, <1>5, <1>6 DEF Next, Evaluate

LEMMA TableIsSeq ==
    ASSUME CoreInv
    PROVE  /\ Len(fns) \in Nat /\ DOMAIN fns = 1 .. Len(fns)
           /\ \A x : /\ Len(Append(fns, x)) = Len(fns) + 1
                     /\ DOMAIN Append(fns, x) = 1 .. Len(fns) + 1
                     /\ Append(fns, x)[Len(fns) + 1] = x
                     /\ \A i \in 1 .. Len(fns) : Append(fns, x)[i] = fns[i]
  <1>1. fns \in Seq(FnSlots)
    BY DEF CoreInv, TypeOK, FnSlots, Grants
  <1> QED
    BY <1>1

LEMMA BodyStep ==
    ASSUME CoreInv, parse_body_stmt, phase' = "body"
    PROVE  /\ line.body[stmt] \in Statements
           /\ StatementVerdict(line.body[stmt]).st = "ok"
           /\ StatementCode(line.body[stmt]) \in Seq(Primitives)
           /\ stream' = stream \o StatementCode(line.body[stmt])
           /\ granted' = granted \o StatementGrants(line.body[stmt])
           /\ stream \in Seq(Primitives) /\ UNCHANGED fns
  <1> DEFINE s == line.body[stmt]
  <1>1. s \in Statements
    <2>1. phase = "body" /\ stmt <= Len(line.body) /\ stmt \in Nat \ {0}
      BY DEF CoreInv, TypeOK, parse_body_stmt
    <2>2. line.body \in Seq(Statements)
      BY <2>1, LineIs DEF IsLine
    <2> QED
      BY <2>1, <2>2
  <1>2. ~ \E r : FailWith(r)
    BY DEF FailWith, Halted, Answer
  <1>3. /\ StatementVerdict(s).st = "ok"
        /\ stream' = stream \o StatementCode(s)
        /\ granted' = granted \o StatementGrants(s)
        /\ UNCHANGED fns
    BY <1>2 DEF parse_body_stmt
  <1> QED
    BY <1>1, <1>3, StatementType DEF CoreInv, TypeOK

LEMMA StepFn == CoreInv /\ FnInv /\ [Next]_vars => FnInv'
  <1> SUFFICES ASSUME CoreInv, FnInv, [Next]_vars PROVE FnInv'
    OBVIOUS
  <1>1. CASE Reset
    BY <1>1, ShellAssumption DEF Reset, FnInv, FnTableSound
  <1>2. CASE Stored
    <2> DEFINE new == NewFn
    <2>1. Len(fns) <= MAX_FNS /\ Len(fns) # MAX_FNS /\ ~Defined(line.name)
          /\ ~(WordCount(stream) > FN_BODY_WORDS)
      BY <1>2 DEF Stored, FnError, FnInv, FnTableSound
    <2>2. WordCount(stream) <= FN_BODY_WORDS
      <3>1. WordCount(stream) \in Nat
        BY WordCountType DEF CoreInv, TypeOK
      <3> QED
        BY <2>1, <3>1, ShellAssumption
    <2>3. Complete(stream) /\ Whole(stream)
      BY <1>2, CompleteWhole DEF Stored, FnInv, CoreInv, TypeOK
    <2>4. /\ Len(fns') = Len(fns) + 1 /\ DOMAIN fns' = 1 .. Len(fns) + 1
          /\ fns'[Len(fns) + 1] = new
          /\ \A i \in 1 .. Len(fns) : fns'[i] = fns[i]
      BY <1>2, TableIsSeq DEF Stored
    <2>5. Len(fns') <= MAX_FNS
      <3>1. Len(fns) \in Nat /\ MAX_FNS \in Nat
        BY TableIsSeq, ShellAssumption
      <3> QED
        BY <2>1, <2>4, <3>1
    <2>6. \A i \in 1 .. Len(fns) : fns[i].name # line.name
      BY <2>1, TableIsSeq DEF Defined
    <2>7. \A i, j \in 1 .. Len(fns) : fns[i].name = fns[j].name => i = j
      BY TableIsSeq DEF FnInv, FnTableSound
    <2>8. \A i, j \in DOMAIN fns' : fns'[i].name = fns'[j].name => i = j
      <3>1. new.name = line.name
        BY DEF NewFn
      <3> HIDE DEF new
      <3> QED
        BY <2>4, <2>6, <2>7, <3>1, TableIsSeq
    <2>9. \A i \in 1 .. Len(fns) : WordCount(fns[i].body) <= FN_BODY_WORDS
              /\ (fns[i].body # <<>> => Last(fns[i].body) \in {LoadReg, WriteReg})
      BY TableIsSeq DEF FnInv, FnTableSound
    <2>10. \A i \in DOMAIN fns' : WordCount(fns'[i].body) <= FN_BODY_WORDS
              /\ (fns'[i].body # <<>> => Last(fns'[i].body) \in {LoadReg, WriteReg})
      <3>1. new.body = stream
        BY DEF NewFn
      <3> HIDE DEF new
      <3> QED
        BY <2>2, <2>3, <2>4, <2>9, <3>1, TableIsSeq DEF Whole
    <2>11. \A i \in DOMAIN fns' : Complete(fns'[i].body)
      <3>1. new.body = stream
        BY DEF NewFn
      <3>2. \A i \in 1 .. Len(fns) : Complete(fns[i].body)
        BY TableIsSeq DEF FnInv
      <3> HIDE DEF new
      <3> QED
        BY <2>3, <2>4, <3>1, <3>2, TableIsSeq
    <2> QED
      BY <1>2, <2>5, <2>8, <2>10, <2>11 DEF FnInv, FnTableSound, Stored, Complete, Parsed, Scan
  <1>3. CASE UNCHANGED fns /\ (phase' = "body" => parse_fn \/ parse_body_stmt \/ UNCHANGED vars)
    <2>1. FnTableSound' /\ \A i \in DOMAIN fns' : Complete(fns'[i].body)
      BY <1>3 DEF FnInv, FnTableSound
    <2>2. CASE phase' # "body"
      BY <2>1, <2>2 DEF FnInv, Complete, Parsed, Scan
    <2>3. CASE phase' = "body"
      <3>1. Complete(stream')
        <4>1. CASE parse_fn
          BY <4>1, StatementsComplete DEF parse_fn
        <4>2. CASE parse_body_stmt
          <5>1. Complete(stream)
            BY <4>2 DEF FnInv, parse_body_stmt
          <5>2. Complete(StatementCode(line.body[stmt]))
            BY <2>3, <4>2, BodyStep, StatementComplete DEF CoreInv
          <5> QED
            BY <2>3, <4>2, <5>1, <5>2, BodyStep, ParsedConcat DEF Complete
        <4>3. CASE UNCHANGED vars
          BY <2>3, <4>3 DEF FnInv, vars
        <4> QED
          BY <1>3, <2>3, <4>1, <4>2, <4>3
      <3> QED
        BY <2>1, <3>1 DEF FnInv, Complete, Parsed, Scan
    <2> QED
      BY <2>2, <2>3
  <1> QED
    BY <1>1, <1>2, <1>3, StepTable

LEMMA SessionTable == Spec => []FnInv
  <1>1. Init => FnInv
    BY ShellAssumption DEF Init, FnInv, FnTableSound
  <1> QED
    BY <1>1, StepFn, SessionCore, PTL DEF Spec

(* alloc_fn_slot and the length check keep the table within its bounds,    *)
(* without two slots of one name, and every stored body ends a statement,  *)
(* spliced ones included.                                                  *)
THEOREM TableStaysSound == Spec => []FnTableSound
  <1>1. FnInv => FnTableSound
    BY DEF FnInv
  <1> QED
    BY <1>1, SessionTable, PTL

(* Nothing but a reset moves, replaces or removes a stored function.       *)
THEOREM FunctionsStay == Spec => FnsKept
  <1>1. CoreInv /\ [Next]_vars =>
            [Reset \/ \A i \in DOMAIN fns : i \in DOMAIN fns' /\ fns'[i] = fns[i]]_vars
    <2> SUFFICES ASSUME CoreInv, [Next]_vars, ~Reset
                 PROVE  \A i \in DOMAIN fns : i \in DOMAIN fns' /\ fns'[i] = fns[i]
      OBVIOUS
    <2>1. CASE Stored
      BY <2>1, TableIsSeq DEF Stored
    <2>2. CASE UNCHANGED fns
      BY <2>2
    <2> QED
      BY <2>1, <2>2, StepTable
  <1> QED
    BY <1>1, SessionCore, PTL DEF Spec, FnsKept

-----------------------------------------------------------------------------
(* Definition-time enforcement.                                            *)

LEMMA PrimitiveOps ==
    /\ LoadReg.op = "load_reg" /\ WriteReg.op = "write_reg"
    /\ \A v : Lit(v).op = "lit" /\ Lit(v).arg = v
  BY DEF LoadReg, WriteReg, Lit

(* Code whose address literals are granted, primitive by primitive.        *)
Granted(code, grants) == Len(grants) = Len(code) /\ AllGranted(code, grants)

LEMMA GrantedConcat ==
    ASSUME NEW s \in Seq(Primitives), NEW t \in Seq(Primitives), Whole(s), Whole(t),
           NEW g \in Seq(Grants), NEW h \in Seq(Grants), Granted(s, g), Granted(t, h)
    PROVE  Granted(s \o t, g \o h)
  <1> DEFINE c == s \o t
             d == g \o h
             m == Len(s)
             n == Len(t)
  <1>1. /\ m \in Nat /\ n \in Nat /\ DOMAIN c = 1 .. m + n /\ Len(c) = m + n
        /\ \A k \in 1 .. m : c[k] = s[k]
        /\ \A k \in 1 .. m + n : k > m => c[k] = t[k - m]
        /\ DOMAIN s = 1 .. m /\ DOMAIN t = 1 .. n
    OBVIOUS
  <1>2. /\ Len(d) = m + n
        /\ \A k \in 1 .. m : d[k] = g[k]
        /\ \A k \in 1 .. m + n : k > m => d[k] = h[k - m]
    BY DEF Granted
  <1>3. /\ m > 0 => s[m].op # "lit"
        /\ n > 0 => t[n].op # "lit"
    BY <1>1, PrimitiveOps DEF Whole, Last
  <1>4. /\ \A k \in 1 .. m : s[k].op = "lit" /\ s[k + 1].op \in {"load_reg", "lit"} => s[k].arg \in g[k]
        /\ \A k \in 1 .. n : t[k].op = "lit" /\ t[k + 1].op \in {"load_reg", "lit"} => t[k].arg \in h[k]
    BY <1>1 DEF Granted, AllGranted, AddressLiterals
  <1> HIDE DEF c, d, m, n
  <1>5. ASSUME NEW k \in 1 .. m + n, c[k].op = "lit", c[k + 1].op \in {"load_reg", "lit"}
        PROVE  c[k].arg \in d[k]
    <2>1. CASE k <= m
      <3>1. k < m
        BY <1>1, <1>3, <1>5, <2>1
      <3>2. k \in 1 .. m /\ s[k] = c[k] /\ s[k + 1] = c[k + 1] /\ d[k] = g[k]
        BY <1>1, <1>2, <3>1
      <3> QED
        BY <1>4, <1>5, <3>2
    <2>2. CASE k > m
      <3> DEFINE j == k - m
      <3>1. j \in 1 .. n /\ t[j] = c[k] /\ d[k] = h[j]
        BY <1>1, <1>2, <2>2
      <3>2. j # n
        BY <1>3, <1>5, <3>1
      <3>3. t[j + 1] = c[k + 1]
        <4>1. k + 1 \in 1 .. m + n /\ k + 1 > m /\ (k + 1) - m = j + 1
          BY <1>1, <2>2, <3>1, <3>2
        <4> HIDE DEF j
        <4> QED
          BY <1>1, <4>1
      <3> HIDE DEF j
      <3> QED
        BY <1>4, <1>5, <3>1, <3>3
    <2> QED
      BY <1>1, <2>1, <2>2
  <1>6. Granted(c, d)
    BY <1>1, <1>2, <1>5 DEF Granted, AllGranted, AddressLiterals
  <1> QED
    BY <1>6 DEF c, d

AuthInv ==
    /\ \A i \in DOMAIN fns : Granted(fns[i].body, fns[i].granted)
    /\ phase = "body" => Granted(stream, granted)

LEMMA EmptyGranted == Granted(<<>>, <<>>)
  BY DEF Granted, AllGranted, AddressLiterals

(* A statement that compiles has been granted its address, or brings what  *)
(* the function it calls was granted.                                      *)
LEMMA StatementGranted ==
    ASSUME TypeOK, AuthInv, NEW s \in Statements, StatementVerdict(s).st = "ok"
    PROVE  Granted(StatementCode(s), StatementGrants(s))
  <1>1. s.s \in {"poke", "peek", "expr", "call"}
    BY StatementType
  <1> DEFINE a == Eval(s.addr).val
             v == Eval(s.val).val
             G == {x \in {a} : check_access(x)}
             c == StatementCode(s)
  <1>2. s.s # "call" => StatementGrants(s) = [k \in DOMAIN c |-> G]
    BY DEF StatementGrants
  <1>3. s.s \in {"poke", "peek"} => a \in G
    BY StatementType
  <1>4. CASE s.s = "poke"
    <2>1. c = PokeCode(a, v)
      BY <1>4 DEF StatementCode
    <2> HIDE DEF a, v, G, c
    <2>2. Len(c) = 3 /\ DOMAIN c = 1 .. 3 /\ c[1] = Lit(a) /\ c[2] = Lit(v) /\ c[3] = WriteReg
      BY <2>1 DEF PokeCode
    <2> DEFINE g == [k \in 1 .. 3 |-> G]
    <2>3. StatementGrants(s) = g /\ Len(g) = 3 /\ g[1] = G
      BY <1>2, <1>4, <2>2
    <2> HIDE DEF g
    <2>4. Granted(c, g)
      BY <1>3, <1>4, <2>2, <2>3, PrimitiveOps DEF Granted, AllGranted, AddressLiterals
    <2> QED
      BY <2>3, <2>4 DEF c
  <1>5. CASE s.s = "peek"
    <2>1. c = PeekCode(a)
      BY <1>5 DEF StatementCode
    <2> HIDE DEF a, v, G, c
    <2>2. Len(c) = 2 /\ DOMAIN c = 1 .. 2 /\ c[1] = Lit(a) /\ c[2] = LoadReg
      BY <2>1 DEF PeekCode
    <2> DEFINE g == [k \in 1 .. 2 |-> G]
    <2>3. StatementGrants(s) = g /\ Len(g) = 2 /\ g[1] = G
      BY <1>2, <1>5, <2>2
    <2> HIDE DEF g
    <2>4. Granted(c, g)
      BY <1>3, <1>5, <2>2, <2>3, PrimitiveOps DEF Granted, AllGranted, AddressLiterals
    <2> QED
      BY <2>3, <2>4 DEF c
  <1>6. CASE s.s = "expr"
    <2>1. c = <<>>
      BY <1>6 DEF StatementCode
    <2>2. Len(c) = 0 /\ DOMAIN c = {}
      BY <2>1
    <2> HIDE DEF c, G
    <2>3. Len([k \in DOMAIN c |-> G]) = 0
      <3>1. [k \in DOMAIN c |-> G] \in Seq({G}) /\ DOMAIN [k \in DOMAIN c |-> G] = {}
        BY <2>2
      <3> QED
        BY <3>1
    <2> QED
      BY <1>2, <1>6, <2>2, <2>3 DEF Granted, AllGranted, AddressLiterals, c
  <1>7. CASE s.s = "call"
    <2>1. StatementCode(s) = BodyOf(s.name) /\ StatementGrants(s) = FnOf(s.name).granted
      BY <1>7 DEF StatementCode, StatementGrants
    <2>2. PICK i \in DOMAIN fns : FnOf(s.name) = fns[i] /\ BodyOf(s.name) = fns[i].body
      BY <1>7, StatementType, BodyType
    <2> QED
      BY <2>1, <2>2 DEF AuthInv
  <1> QED
    BY <1>1, <1>4, <1>5, <1>6, <1>7

LEMMA StepAuth == CoreInv /\ FnInv /\ AuthInv /\ [Next]_vars => AuthInv'
  <1> SUFFICES ASSUME CoreInv, FnInv, AuthInv, [Next]_vars PROVE AuthInv'
    OBVIOUS
  <1> USE DEF Granted, AllGranted, AddressLiterals
  <1>1. CASE Reset
    BY <1>1 DEF Reset, AuthInv
  <1> HIDE DEF Granted, AllGranted, AddressLiterals
  <1>2. ASSUME \A i \in DOMAIN fns' : Granted(fns'[i].body, fns'[i].granted),
               phase' = "body" => Granted(stream', granted')
        PROVE  AuthInv'
    BY <1>2 DEF AuthInv, Granted, AllGranted, AddressLiterals
  <1>3. CASE Stored
    <2>1. /\ DOMAIN fns' = 1 .. Len(fns) + 1 /\ Len(fns) \in Nat
          /\ fns'[Len(fns) + 1] = NewFn
          /\ \A i \in 1 .. Len(fns) : fns'[i] = fns[i]
      BY <1>3, TableIsSeq DEF Stored
    <2>2. Granted(NewFn.body, NewFn.granted)
      BY <1>3 DEF Stored, AuthInv, NewFn
    <2>3. \A i \in 1 .. Len(fns) : Granted(fns[i].body, fns[i].granted)
      BY TableIsSeq DEF AuthInv
    <2>4. \A i \in DOMAIN fns' : Granted(fns'[i].body, fns'[i].granted)
      BY <2>1, <2>2, <2>3
    <2> QED
      BY <1>2, <1>3, <2>4 DEF Stored
  <1>4. CASE /\ ~Reset /\ UNCHANGED fns
             /\ phase' = "body" => parse_fn \/ parse_body_stmt \/ UNCHANGED vars
    <2>1. \A i \in DOMAIN fns' : Granted(fns'[i].body, fns'[i].granted)
      BY <1>4 DEF AuthInv
    <2>2. ASSUME phase' = "body"
          PROVE  Granted(stream', granted')
      <3>1. CASE parse_fn
        BY <3>1, EmptyGranted DEF parse_fn
      <3>2. CASE parse_body_stmt
        <4> DEFINE s == line.body[stmt]
        <4>1. Granted(stream, granted) /\ Complete(stream) /\ granted \in Seq(Grants)
          BY <3>2 DEF AuthInv, FnInv, parse_body_stmt, CoreInv, TypeOK, Grants
        <4>2. /\ Granted(StatementCode(s), StatementGrants(s)) /\ Complete(StatementCode(s))
              /\ StatementGrants(s) \in Seq(Grants)
          BY <2>2, <3>2, BodyStep, StatementGranted, StatementComplete, GrantsType DEF CoreInv
        <4>3. /\ stream' = stream \o StatementCode(s) /\ granted' = granted \o StatementGrants(s)
              /\ stream \in Seq(Primitives) /\ StatementCode(s) \in Seq(Primitives)
          BY <2>2, <3>2, BodyStep
        <4> HIDE DEF s
        <4>4. Whole(stream) /\ Whole(StatementCode(s))
          BY <4>1, <4>2, <4>3, CompleteWhole
        <4>5. Granted(stream \o StatementCode(s), granted \o StatementGrants(s))
          BY <4>1, <4>2, <4>3, <4>4, GrantedConcat
        <4> QED
          BY <4>3, <4>5
      <3>3. CASE UNCHANGED vars
        BY <2>2, <3>3 DEF AuthInv, vars
      <3> QED
        BY <1>4, <2>2, <3>1, <3>2, <3>3
    <2> QED
      BY <1>2, <2>1, <2>2
  <1> QED
    BY <1>1, <1>3, <1>4, StepTable

(* "Security at definition time": every address literal of a stored body   *)
(* carries the grant check_access gave it when its own statement was       *)
(* compiled, through whatever splices it got there and whatever has been   *)
(* claimed and dropped since.                                              *)
THEOREM StoredCodeWasGranted == Spec => []StoredCodeAuthorised
  <1>1. Init => AuthInv
    BY DEF Init, AuthInv
  <1>2. AuthInv => StoredCodeAuthorised
    BY DEF AuthInv, Granted, StoredCodeAuthorised
  <1> QED
    BY <1>1, <1>2, StepAuth, SessionCore, SessionTable, PTL DEF Spec

-----------------------------------------------------------------------------
(* What the session runs.                                                  *)

FittingPrograms ==
    {code \in Seq(Primitives) : Parsed(code, "end") /\ WordCount(code) <= 2 * VM_STACK_SIZE}

ProgramsFit == phase = "printing" /\ pending.out = "run" => pending.code \in FittingPrograms

LEMMA HaltCounts ==
    ASSUME NEW code \in Seq(Primitives)
    PROVE  WordCount(Append(code, Halt)) = WordCount(code) + 1
  <1> DEFINE c == Append(code, Halt)
             n == Len(code)
  <1>1. /\ n \in Nat /\ Len(c) = n + 1 /\ DOMAIN c = 1 .. n + 1 /\ DOMAIN code = 1 .. n
        /\ c[n + 1] = Halt /\ \A k \in 1 .. n : c[k] = code[k]
    OBVIOUS
  <1>2. Halt.op # "lit"
    BY DEF Halt
  <1> HIDE DEF c, n
  <1>3. {i \in DOMAIN c : c[i].op = "lit"} = {i \in DOMAIN code : code[i].op = "lit"}
    BY <1>1, <1>2
  <1>4. WordCount(code) \in Nat /\ n = Len(code)
    BY WordCountType DEF n
  <1>5. IsFiniteSet({i \in DOMAIN code : code[i].op = "lit"})
    <2>1. IsFiniteSet(1 .. n)
      BY <1>1, FS_Interval
    <2> QED
      BY <1>1, <2>1, FS_Subset
  <1>6. Cardinality({i \in DOMAIN code : code[i].op = "lit"}) \in Nat
    BY <1>5, FS_CardinalityType
  <1>7. WordCount(c) = WordCount(code) + 1
    <2> DEFINE s == Cardinality({i \in DOMAIN code : code[i].op = "lit"})
    <2>1. WordCount(code) = n + s /\ s \in Nat
      BY <1>4, <1>6 DEF WordCount
    <2>2. WordCount(c) = n + 1 + s
      BY <1>1, <1>3, Zenon DEF WordCount
    <2> HIDE DEF s
    <2> QED
      BY <1>1, <2>1, <2>2
  <1> QED
    BY <1>7 DEF c

LEMMA ValueCounts ==
    ASSUME NEW v
    PROVE  WordCount(<<Lit(v), Halt>>) = 3
  <1> DEFINE c == <<Lit(v), Halt>>
  <1>1. Len(c) = 2 /\ DOMAIN c = 1 .. 2 /\ c[1].op = "lit" /\ c[2].op # "lit"
    BY DEF Lit, Halt
  <1> HIDE DEF c
  <1>2. {i \in DOMAIN c : c[i].op = "lit"} = {1}
    BY <1>1
  <1>3. Cardinality({1}) = 1
    BY FS_Singleton
  <1>4. WordCount(c) = 3
    BY <1>1, <1>2, <1>3 DEF WordCount
  <1> QED
    BY <1>4 DEF c

(* Every program the session runs is one StackKeepsAll is about: whole     *)
(* statements and a halt, or one literal and a halt, short enough for the  *)
(* operand stack; FN_BODY_WORDS is 32 and the stack has 64 slots.          *)
THEOREM ProgramsFitStack ==
    ASSUME FN_BODY_WORDS < 2 * VM_STACK_SIZE, VM_STACK_SIZE > 1
    PROVE  Spec => []ProgramsFit
  <1>1. CoreInv /\ FnInv /\ ProgramsFit /\ [Next]_vars => ProgramsFit'
    <2> SUFFICES ASSUME CoreInv, FnInv, ProgramsFit, [Next]_vars PROVE ProgramsFit'
      OBVIOUS
    <2>1. ASSUME pending'.code \in FittingPrograms
          PROVE  ProgramsFit'
      BY <2>1 DEF ProgramsFit
    <2>2. ASSUME phase' # "printing" \/ pending'.out # "run"
          PROVE  ProgramsFit'
      BY <2>2 DEF ProgramsFit
    <2>3. CASE build_call_program
      <3>1. CASE \E r : FailWith(r)
        BY <2>2, <3>1 DEF FailWith, Halted, Answer, Error
      <3>2. CASE /\ Defined(line.name)
                 /\ Answer([out |-> "run", code |-> Append(BodyOf(line.name), Halt), yields_value |-> FALSE])
        <4> DEFINE b == BodyOf(line.name)
        <4>1. PICK i \in DOMAIN fns : b = fns[i].body /\ b \in Seq(Primitives)
          BY <3>2, BodyType DEF CoreInv
        <4>2. Complete(b) /\ WordCount(b) <= FN_BODY_WORDS
          BY <4>1 DEF FnInv, FnTableSound
        <4> HIDE DEF b
        <4>3. WordCount(Append(b, Halt)) <= 2 * VM_STACK_SIZE
          <5>1. WordCount(b) \in Nat /\ WordCount(Append(b, Halt)) = WordCount(b) + 1
            BY <4>1, HaltCounts, WordCountType
          <5> QED
            BY <4>2, <5>1, ShellAssumption, StackAssumption
        <4>4. Parsed(Append(b, Halt), "end")
          <5>1. <<Halt>> \in Seq(Primitives)
            BY DEF Primitives
          <5>2. Parsed(b \o <<Halt>>, "end")
            BY <4>1, <4>2, <5>1, ParsedConcat, StatementsComplete
          <5>3. b \o <<Halt>> = Append(b, Halt)
            BY <4>1
          <5> QED
            BY <5>2, <5>3
        <4>5. Append(b, Halt) \in Seq(Primitives)
          BY <4>1 DEF Primitives
        <4>6. Append(b, Halt) \in FittingPrograms
          BY <4>3, <4>4, <4>5 DEF FittingPrograms
        <4> QED
          BY <2>1, <3>2, <4>6 DEF Answer, b
      <3> QED
        BY <2>3, <3>1, <3>2 DEF build_call_program
    <2>4. CASE build_value_program
      <3>1. CASE \E r : FailWith(r)
        BY <2>2, <3>1 DEF FailWith, Halted, Answer, Error
      <3>2. CASE \E v : Answer([out |-> "run", code |-> <<Lit(v), Halt>>, yields_value |-> TRUE])
        <4>1. PICK v : pending' = [out |-> "run", code |-> <<Lit(v), Halt>>, yields_value |-> TRUE]
          BY <3>2 DEF Answer
        <4>2. WordCount(<<Lit(v), Halt>>) <= 2 * VM_STACK_SIZE /\ Parsed(<<Lit(v), Halt>>, "end")
          BY ValueCounts, StatementsComplete, StackAssumption
        <4>3. phase' = "printing" /\ pending'.out = "run" /\ pending'.code = <<Lit(v), Halt>>
          BY <3>2, <4>1 DEF Answer
        <4>4. pending'.code \in Seq(Primitives)
          BY <2>4, <4>3, CoreValue DEF CoreInv, PendingShape
        <4> QED
          BY <2>1, <4>2, <4>3, <4>4 DEF FittingPrograms
      <3> QED
        BY <2>4, <3>1, <3>2 DEF build_value_program
    <2>5. CASE UNCHANGED vars
      BY <2>5 DEF vars, ProgramsFit
    <2>6. CASE parse_let \/ EndFn \/ ParseAccess \/ ParseSimple
      BY <2>2, <2>6 DEF parse_let, EndFn, ParseAccess, ParseSimple, FailWith, Halted, Answer, Error
    <2>7. CASE EnterLine \/ Printing \/ Reset \/ parse_fn
      BY <2>2, <2>7 DEF EnterLine, Reset, parse_fn, Printing, ExecuteAccess, StoreWord, Stores,
                        ExecuteProgram, ExecuteCap, PrintOnly, After, Halted, Prompt,
                        enforced_peek, enforced_poke, modify_bit, Refused
    <2>8. CASE parse_body_stmt
      BY <2>2, <2>8 DEF parse_body_stmt, FailWith, Halted, Answer, Error
    <2> QED
      BY <2>3, <2>4, <2>5, <2>6, <2>7, <2>8 DEF Next, Evaluate
  <1>2. Init => ProgramsFit
    BY DEF Init, ProgramsFit
  <1> QED
    BY <1>1, <1>2, SessionCore, SessionTable, PTL DEF Spec

-----------------------------------------------------------------------------
(* What the execution of a command does on the bus and in the log.         *)

ReadOf(a, v) == <<"read", a, v>>
WriteOf(a, v) == <<"write", a, v>>

LEMMA FreshBus ==
    ASSUME CoreInv, NEW a
    PROVE  /\ BusOn(mem) \in Buses /\ BusOn(mem).trace = <<>> /\ ~BusOn(mem).fault
           /\ BusRead(BusOn(mem), a) \in Buses
           /\ BusRead(BusOn(mem), a).mem = mem
           /\ BusRead(BusOn(mem), a).trace \in {<<>>, <<ReadOf(a, mem[a])>>}
  <1>1. /\ BusOn(mem) \in Buses /\ BusOn(mem).trace = <<>> /\ ~BusOn(mem).fault
        /\ BusOn(mem).mem = mem
    BY MemIsBus DEF BusOn
  <1>2. BusRead(BusOn(mem), a).trace \in {<<>>, <<ReadOf(a, mem[a])>>}
    BY DEF BusRead, BusOn, ReadOf
  <1> QED
    BY <1>1, <1>2, BusReadType

LEMMA WriteTrace ==
    ASSUME NEW b \in Buses, NEW a, NEW v, ~b.fault
    PROVE  /\ BusWrite(b, a, v).fault => BusWrite(b, a, v).trace = b.trace
           /\ ~BusWrite(b, a, v).fault => BusWrite(b, a, v).trace = Append(b.trace, WriteOf(a, v))
  <1>1. CASE Faults(a)
    <2>1. BusWrite(b, a, v) = [b EXCEPT !.fault = TRUE]
      BY <1>1 DEF BusWrite
    <2>2. [b EXCEPT !.fault = TRUE].fault /\ [b EXCEPT !.fault = TRUE].trace = b.trace
      BY DEF Buses
    <2> QED
      BY <2>1, <2>2
  <1>2. CASE ~Faults(a)
    <2> DEFINE m == [b.mem EXCEPT ![a] = v]
               t == Append(b.trace, WriteOf(a, v))
    <2>1. BusWrite(b, a, v) = [b EXCEPT !.mem = m, !.trace = t]
      BY <1>2 DEF BusWrite, Buses, WriteOf
    <2> HIDE DEF m, t
    <2>2. /\ [b EXCEPT !.mem = m, !.trace = t].trace = t
          /\ [b EXCEPT !.mem = m, !.trace = t].fault = b.fault
      BY DEF Buses
    <2>3. BusWrite(b, a, v).trace = t /\ ~BusWrite(b, a, v).fault
      BY <2>1, <2>2
    <2> QED
      BY <2>3 DEF t
  <1> QED
    BY <1>1, <1>2

(* Before the store a command has read at most the register of its         *)
(* argument.                                                               *)
LEMMA AccessTrace ==
    ASSUME CoreInv, ExecuteAccess
    PROVE  /\ check_access(pending.addr)
           /\ trace' \in {<<>>, <<ReadOf(pending.addr, mem[pending.addr])>>}
  <1> DEFINE a == pending.addr
             Q == {<<>>, <<ReadOf(a, mem[a])>>}
             b == BusRead(BusOn(mem), a)
  <1>1. pending.out \in Access /\ check_access(a)
    BY AccessIs DEF ExecuteAccess, Access
  <1>2. BusOn(mem).trace \in Q /\ b.trace \in Q
    BY FreshBus
  <1> HIDE DEF b, Q
  <1>3. ASSUME NEW c, c.trace \in Q,
               Refused(c) \/ After(c) \/ trace' = c.trace \/ \E v : enforced_poke(c, a, v)
        PROVE  trace' \in Q
    BY <1>3 DEF Refused, After, enforced_poke
  <1>4. CASE pending.out = "peek"
    <2>1. enforced_peek(a)
      BY <1>4 DEF ExecuteAccess
    <2>2. Refused(BusOn(mem)) \/ After(b)
      BY <2>1 DEF enforced_peek, b
    <2> QED
      BY <1>1, <1>2, <1>3, <2>2 DEF Q
  <1>5. CASE pending.out = "poke"
    <2>1. enforced_poke(BusOn(mem), a, pending.val)
      BY <1>5 DEF ExecuteAccess
    <2> QED
      BY <1>1, <1>2, <1>3, <2>1 DEF Q
  <1>6. CASE pending.out \in {"set_bit", "clr_bit"}
    <2>1. modify_bit(a, pending.val, pending.out = "set_bit")
      BY <1>6 DEF ExecuteAccess
    <2>2. After(b) \/ trace' = b.trace \/ \E v : enforced_poke(b, a, v)
      BY <2>1 DEF modify_bit, b
    <2> QED
      BY <1>1, <1>2, <1>3, <2>2 DEF Q
  <1> QED
    BY <1>1, <1>4, <1>5, <1>6 DEF Access

LEMMA StoreTrace ==
    ASSUME CoreInv, StoreWord
    PROVE  /\ check_access(pending.addr)
           /\ trace' \in {<<>>, <<WriteOf(pending.addr, pending.val)>>}
  <1> DEFINE b == BusWrite(BusOn(mem), pending.addr, pending.val)
  <1>1. check_access(pending.addr)
    BY DEF CoreInv, StoringShape, StoreWord
  <1>2. trace' = b.trace
    BY DEF StoreWord, Stores, After
  <1>3. BusOn(mem) \in Buses /\ BusOn(mem).trace = <<>> /\ ~BusOn(mem).fault
    BY FreshBus
  <1>4. b.trace = <<>> \/ b.trace = Append(<<>>, WriteOf(pending.addr, pending.val))
    BY <1>3, WriteTrace
  <1>5. Append(<<>>, WriteOf(pending.addr, pending.val)) = <<WriteOf(pending.addr, pending.val)>>
    BY DEF WriteOf
  <1> QED
    BY <1>1, <1>2, <1>4, <1>5

(* The other steps of the printing state do not touch the bus.             *)
LEMMA QuietPrinting ==
    ASSUME CoreInv, [Next]_vars, phase \in {"printing", "storing"}, pending.out # "run",
           ~ExecuteAccess, ~StoreWord, ~UNCHANGED vars
    PROVE  trace' = <<>>
  <1>1. ExecuteCap \/ PrintOnly \/ Reset
    BY DEF Next, Evaluate, Printing, EnterLine, parse_let, parse_fn, parse_body_stmt, EndFn,
           ParseAccess, ParseSimple, build_call_program, build_value_program, ExecuteProgram
  <1> QED
    BY <1>1 DEF ExecuteCap, PrintOnly, Reset

(* What a command reads or writes when it is executed is granted at that   *)
(* instant: reg_set_bit's unchecked read included.                         *)
THEOREM CommandsStayGated == Spec => CommandsGated
  <1>1. CoreInv /\ [Next]_vars =>
            [pending.out # "run" /\ phase \in {"printing", "storing"} =>
                 \A i \in DOMAIN trace' : check_access(trace'[i][2])]_vars
    <2> SUFFICES ASSUME CoreInv, [Next]_vars, ~UNCHANGED vars,
                        phase \in {"printing", "storing"}, pending.out # "run",
                        NEW i \in DOMAIN trace'
                 PROVE  check_access(trace'[i][2])
      OBVIOUS
    <2>1. ASSUME NEW a, NEW x, x[2] = a, check_access(a), trace' \in {<<>>, <<x>>}
          PROVE  check_access(trace'[i][2])
      <3>1. trace'[i] = x
        BY <2>1
      <3> QED
        BY <2>1, <3>1
    <2>2. \A a, v : ReadOf(a, v)[2] = a /\ WriteOf(a, v)[2] = a
      BY DEF ReadOf, WriteOf
    <2>3. CASE ExecuteAccess
      <3> DEFINE x == ReadOf(pending.addr, mem[pending.addr])
      <3>1. x[2] = pending.addr /\ check_access(pending.addr) /\ trace' \in {<<>>, <<x>>}
        BY <2>2, <2>3, AccessTrace
      <3> HIDE DEF x
      <3> QED
        BY <2>1, <3>1
    <2>4. CASE StoreWord
      <3> DEFINE x == WriteOf(pending.addr, pending.val)
      <3>1. x[2] = pending.addr /\ check_access(pending.addr) /\ trace' \in {<<>>, <<x>>}
        BY <2>2, <2>4, StoreTrace
      <3> HIDE DEF x
      <3> QED
        BY <2>1, <3>1
    <2>5. CASE ~ExecuteAccess /\ ~StoreWord
      BY <2>5, QuietPrinting
    <2> QED
      BY <2>3, <2>4, <2>5
  <1> QED
    BY <1>1, SessionCore, PTL DEF Spec, CommandsGated

-----------------------------------------------------------------------------
(* The log and the writes.                                                 *)

(* "Every write is logged", for the writes of commands: under SUPERUSER a  *)
(* write has its record before it reaches the bus, and nothing is recorded *)
(* that is not the next write, a fault or a reset in between included.     *)
THEOREM CommandWritesLogged == Spec => []LogLeadsWrites
  <1>1. LogLeadsWrites /\ [Next]_vars => LogLeadsWrites'
    <2> SUFFICES ASSUME LogLeadsWrites, [Next]_vars PROVE LogLeadsWrites'
      OBVIOUS
    <2> DEFINE event(a, v) == [addr |-> a, val |-> v]
    <2>1. ASSUME phase # "storing", phase' # "storing", UNCHANGED <<recorded, stored>>
          PROVE  LogLeadsWrites'
      BY <2>1 DEF LogLeadsWrites
    <2>2. ASSUME NEW b, After(b) PROVE phase' # "storing"
      BY <2>2 DEF After, Halted, Prompt
    <2>3. ASSUME NEW r, FailWith(r) PROVE phase' # "storing" /\ UNCHANGED <<recorded, stored>>
      BY <2>3 DEF FailWith, Halted, Answer
    <2>4. ASSUME NEW b, NEW a, NEW v, phase = "printing", enforced_poke(b, a, v), UNCHANGED claimed
          PROVE  LogLeadsWrites'
      <3>1. CASE Refused(b)
        BY <2>1, <2>2, <2>4, <3>1 DEF Refused
      <3>2. CASE /\ phase' = "storing"
                 /\ pending' = [out |-> "store", addr |-> a, val |-> v]
                 /\ IF is_superuser_active THEN Log!record_event(a, v) ELSE UNCHANGED <<audit, recorded>>
                 /\ UNCHANGED stored
        <4>1. recorded = stored /\ (is_superuser_active' <=> is_superuser_active)
          BY <2>4 DEF LogLeadsWrites, is_superuser_active
        <4>2. recorded' = IF is_superuser_active THEN Append(recorded, event(a, v)) ELSE recorded
          BY <3>2 DEF Log!record_event
        <4>3. event(pending'.addr, pending'.val) = event(a, v)
          BY <3>2
        <4> QED
          BY <3>2, <4>1, <4>2, <4>3 DEF LogLeadsWrites
      <3> QED
        BY <2>4, <3>1, <3>2 DEF enforced_poke
    <2>5. CASE EnterLine \/ parse_fn
      BY <2>1, <2>5 DEF EnterLine, parse_fn
    <2>6. CASE parse_let
      BY <2>1, <2>3, <2>6 DEF parse_let, Answer
    <2>7. CASE parse_body_stmt
      BY <2>1, <2>3, <2>7 DEF parse_body_stmt
    <2>8. CASE EndFn
      BY <2>1, <2>3, <2>8 DEF EndFn, Answer
    <2>9. CASE ParseAccess
      BY <2>1, <2>3, <2>9 DEF ParseAccess, Answer
    <2>10. CASE ParseSimple
      BY <2>1, <2>10 DEF ParseSimple, Answer
    <2>11. CASE build_call_program
      BY <2>1, <2>3, <2>11 DEF build_call_program, Answer
    <2>12. CASE build_value_program
      BY <2>1, <2>3, <2>12 DEF build_value_program, Answer
    <2>13. CASE ExecuteAccess
      <3>1. CASE pending.out = "peek"
        BY <2>1, <2>2, <2>13, <3>1 DEF ExecuteAccess, enforced_peek, Refused
      <3>2. CASE pending.out = "poke"
        BY <2>4, <2>13, <3>2 DEF ExecuteAccess
      <3>3. CASE pending.out \in {"set_bit", "clr_bit"}
        BY <2>1, <2>2, <2>4, <2>13, <3>3 DEF ExecuteAccess, modify_bit, Halted
      <3> QED
        BY <2>13, <3>1, <3>2, <3>3 DEF ExecuteAccess
    <2>14. CASE StoreWord
      <3>1. recorded = IF is_superuser_active THEN Append(stored, event(pending.addr, pending.val))
                       ELSE stored
        BY <2>14 DEF StoreWord, LogLeadsWrites
      <3>2. recorded' = recorded /\ stored' = recorded
        BY <2>14, <3>1 DEF StoreWord, Stores
      <3>3. phase' # "storing"
        BY <2>2, <2>14 DEF StoreWord, Stores
      <3> QED
        BY <3>2, <3>3 DEF LogLeadsWrites
    <2>15. CASE ExecuteProgram
      BY <2>1, <2>2, <2>15 DEF ExecuteProgram
    <2>16. CASE ExecuteCap \/ PrintOnly
      BY <2>1, <2>16 DEF ExecuteCap, PrintOnly, Prompt
    <2>17. CASE Reset
      BY <2>17 DEF Reset, LogLeadsWrites, Log!AuditReset
    <2>18. CASE UNCHANGED vars
      BY <2>18 DEF vars, LogLeadsWrites, is_superuser_active
    <2> QED
      BY <2>5, <2>6, <2>7, <2>8, <2>9, <2>10, <2>11, <2>12, <2>13, <2>14, <2>15, <2>16, <2>17, <2>18
      DEF Next, Evaluate, Printing
  <1>2. Init => LogLeadsWrites
    BY DEF Init, LogLeadsWrites, Log!AuditInit
  <1> QED
    BY <1>1, <1>2, PTL DEF Spec
=============================================================================
