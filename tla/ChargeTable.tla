------------------------------ MODULE ChargeTable ------------------------------
(***************************************************************************)
(* The decisions sm5714_battery.c takes without touching a register: the    *)
(* wired thermal state machine, the currents of the switching charger, and  *)
(* which PD contracts it accepts.  Temperatures are tenths of a degree,     *)
(* currents mA, voltages mV, as in the driver.                              *)
(***************************************************************************)
EXTENDS Integers

ThermalStates == {"NORMAL", "REDUCED", "STOP"}
UsbTypes == {"UNKNOWN", "SDP", "DCP", "CDP", "PD"}

AtMost(a, b) == IF a <= b THEN a ELSE b

\* A stopped charger comes back into the reduced band below 46.0 C, a reduced
\* one stays reduced above 42.0 C, and the rest is decided by temperature alone.
ChargeThermalState(state, temp) ==
  IF temp >= 500 \/ (state = "STOP" /\ temp >= 460) THEN "STOP"
  ELSE IF temp >= 460 \/ (state # "NORMAL" /\ temp > 420) THEN "REDUCED"
  ELSE "NORMAL"

\* A contract TCPM negotiated that is worth more than the BC1.2 port type.
Negotiated(mv, ma) == mv >= 5000 /\ ma >= 500

\* The input current VBUSCNTL is raised to once Q4 is closed.
InputMa(mv, ma, usb_type, fast_charge) ==
  IF Negotiated(mv, ma)
    THEN AtMost(ma, IF ~fast_charge /\ mv > 5000 THEN 1660 ELSE 3000)
    ELSE IF usb_type = "DCP" THEN 1800 ELSE IF usb_type = "CDP" THEN 1500 ELSE 500

\* Mutant: the warm band keeps the full current.
FastMaUnclamped(mv, ma, usb_type, fast_charge, state) ==
  IF Negotiated(mv, ma) THEN 2800 ELSE IF usb_type = "DCP" THEN 2200 ELSE 500

\* The battery current CHGCNTL2 asks for.
FastMa(mv, ma, usb_type, fast_charge, state) ==
  LET goal == IF Negotiated(mv, ma)
                THEN IF fast_charge THEN 3150 ELSE 2800
                ELSE IF usb_type = "DCP" THEN 2200
                ELSE IF usb_type = "CDP" THEN 1500 ELSE 500
  IN IF state = "REDUCED" THEN AtMost(goal, 2100) ELSE goal

\* set_pd_contract() stores these and answers -ERANGE to everything else.
ContractInRange(mv, ma) == (mv = 0 \/ mv \in 5000..9000) /\ ma <= 3000
================================================================================
