------------------------------ MODULE MCTypeCPort ------------------------------
(* Instances of TypeCPort for TLC: every constant is a number or a flag that *)
(* the configuration gives.                                                  *)
EXTENDS TypeCPort
================================================================================
