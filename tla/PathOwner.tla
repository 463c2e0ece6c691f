------------------------------- MODULE PathOwner --------------------------------
(***************************************************************************)
(* What sm5714_battery.c promises about the battery path, whatever calls    *)
(* interleave and whichever transfers fail: the connector is taken for host *)
(* mode only from a path nobody else uses, and while host mode has it the   *)
(* gate to the pack does not move.  The pump may put its claim up at any    *)
(* moment, also under host mode: set_direct_charge() does not look at       *)
(* otg_active (568-578), and the claim then waits for a bus that never      *)
(* comes.                                                                   *)
(***************************************************************************)

VARIABLES
  host,   \* the boost drives the connector
  pump,   \* the 2:1 pump has claimed the path
  gate    \* Q4 is closed: the switching charger feeds the pack

vars == <<host, pump, gate>>

Init == ~host /\ ~pump /\ ~gate

TakeHost == /\ ~host /\ ~pump /\ ~gate
            /\ host' = TRUE /\ UNCHANGED <<pump, gate>>
LeaveHost == /\ host
             /\ host' = FALSE /\ UNCHANGED <<pump, gate>>
MoveClaim == pump' = ~pump /\ UNCHANGED <<host, gate>>
MoveGate == /\ ~host
            /\ gate' = ~gate /\ UNCHANGED <<host, pump>>

Next == TakeHost \/ LeaveHost \/ MoveClaim \/ MoveGate
Spec == Init /\ [][Next]_vars
================================================================================
