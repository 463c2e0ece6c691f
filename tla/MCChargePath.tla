------------------------------ MODULE MCChargePath ------------------------------
(* Small instances of ChargePath for TLC.                                   *)
EXTENDS ChargePath

\* The contracts of a 9 V PD source and what TCPM reports on a port reset.
MCContracts == {<<0, 0>>, <<9000, 3000>>}
MCTwoContracts == {<<0, 0>>, <<5000, 500>>, <<9000, 3000>>}
\* One PPS contract set_pd_contract() refuses, one it stores (pps_op_curr_ma
\* lowered for staged validation).
MCPps == {<<9700, 4500>>, <<8600, 3000>>}
MCOnePps == {<<9700, 4500>>}
MCPortTypes == {"SDP"}
MCDcp == {"DCP"}
\* Cool enough to start the pump, warm (46.0 C), and at the hard stop (50.0 C).
MCTemps == {300, 460, 500}
MCCool == {300}
================================================================================
