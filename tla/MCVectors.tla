----------------------------- MODULE MCVectors ------------------------------
(* The shipped flash table, two interrupt lines, a ring of three slots.    *)
EXTENDS Vectors

MCFlash ==
    [e \in 0 .. 15 |->
        CASE e = 0 -> "stack_top"
          [] e = 1 -> "Reset"
          [] e \in (2 .. 6) \cup {11, 12, 14, 15} -> "fault_hang"
          [] OTHER -> "reserved"]
MCExceptions == {2, 3, 5, 15}
=============================================================================
