---------------------------------- MODULE MCLink ----------------------------------
(* The redriver and the PD messages of one Type-C link on small instances.  *)
(* TCPM drives both through callbacks that share nothing and a property     *)
(* reads one of them, so each moves while the other rests.                  *)
EXTENDS Retimer, PdTransport

Lanes == TransportInit /\ Next /\ UNCHANGED transport
Words == Init /\ TransportNext /\ UNCHANGED retimer
LinkInit == Init /\ TransportInit
LinkSpec == LinkInit /\ [][Lanes \/ Words]_<<retimer, transport>>
================================================================================
