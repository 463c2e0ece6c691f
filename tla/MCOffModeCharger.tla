----------------------------- MODULE MCOffModeCharger -----------------------------
(* Instances of OffModeCharger for TLC. *)
EXTENDS OffModeCharger
================================================================================
