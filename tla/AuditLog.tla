------------------------------ MODULE AuditLog ------------------------------
(***************************************************************************)
(* The superuser audit log (src/src/capabilities/audit.rs): a ring of      *)
(* AUDIT_SLOTS entries, the index of the next one to overwrite and a       *)
(* saturating count.  The cycle time stamps are left out.                  *)
(***************************************************************************)
EXTENDS Naturals, Sequences

CONSTANTS Words,        \* 32-bit words, 0 among them
          AUDIT_SLOTS,  \* entries of the ring (16)
          COUNT_MAX     \* usize::MAX, where the count saturates

VARIABLES audit,     \* SUPERUSER_AUDIT_LOG
          recorded   \* history: every event since boot, oldest first

Entry == [addr : Words, val : Words]
ZeroEntry == [addr |-> 0, val |-> 0]
Ring == 0 .. AUDIT_SLOTS - 1

EmptyLog == [buffer |-> [i \in Ring |-> ZeroEntry], head |-> 0, count |-> 0]

AuditInit == audit = EmptyLog /\ recorded = <<>>

(* Mutant: head moves before the write.                                    *)
AfterEventMoveFirst(log, e) ==
    [buffer |-> [log.buffer EXCEPT ![(log.head + 1) % AUDIT_SLOTS] = e],
     head   |-> (log.head + 1) % AUDIT_SLOTS,
     count  |-> IF log.count < COUNT_MAX THEN log.count + 1 ELSE log.count]

AfterEvent(log, e) ==
    [buffer |-> [log.buffer EXCEPT ![log.head] = e],
     head   |-> (log.head + 1) % AUDIT_SLOTS,
     count  |-> IF log.count < COUNT_MAX THEN log.count + 1 ELSE log.count]

record_event(a, v) ==
    /\ audit' = AfterEvent(audit, [addr |-> a, val |-> v])
    /\ recorded' = Append(recorded, [addr |-> a, val |-> v])

(* A reset zeroes .bss, where the log lives.                               *)
AuditReset == audit' = EmptyLog /\ recorded' = <<>>

total_audits == audit.count

(* Mutant: only the entries below head are printed.                        *)
PrintedBelowHead ==
    {audit.buffer[i] : i \in {j \in Ring : j < audit.head /\ audit.buffer[j].addr # 0}}

(* sys_audit prints the entries in buffer order, skipping address 0.       *)
Printed == {audit.buffer[i] : i \in {j \in Ring : audit.buffer[j].addr # 0}}

-----------------------------------------------------------------------------
(* Type invariant of the log.                                              *)
AuditTypeOK ==
    /\ audit \in [buffer : [Ring -> Entry], head : Ring, count : 0 .. COUNT_MAX]
    /\ recorded \in Seq(Entry)

(* Age k counts back from the newest event.                                *)
SlotOfAge(k) == (audit.head + AUDIT_SLOTS - 1 - k) % AUDIT_SLOTS

(* The ring holds exactly the latest events: walking back from head meets  *)
(* them newest first, and slots no event has reached yet are still zero.   *)
RingHoldsLatest ==
    \A k \in Ring :
        audit.buffer[SlotOfAge(k)] =
            IF k < Len(recorded) THEN recorded[Len(recorded) - k] ELSE ZeroEntry

(* The count is the number of events since boot until it saturates; it     *)
(* never wraps to a small number.                                          *)
CountSaturates ==
    total_audits = IF Len(recorded) <= COUNT_MAX THEN Len(recorded) ELSE COUNT_MAX

(* The dump never shows anything but one of the latest events, and shows   *)
(* every one of them whose address is not 0.                               *)
DumpIsRecent ==
    Printed = {recorded[i] : i \in {j \in 1 .. Len(recorded) :
                  /\ j > Len(recorded) - AUDIT_SLOTS
                  /\ recorded[j].addr # 0}}
=============================================================================
