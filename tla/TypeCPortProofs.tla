----------------------------- MODULE TypeCPortProofs -----------------------------
(***************************************************************************)
(* A power role swap for any number of messages, sleeps and attachments the *)
(* chip keeps to itself.  Two things the driver relies on without saying    *)
(* so: a swap that TCPM carries out was remembered by the interrupt thread, *)
(* so that the CC pins are never forced, and only the PS_RDY that releases  *)
(* them ends the hold of a Source-to-Sink swap.                             *)
(***************************************************************************)
EXTENDS TypeCPort, TLAPS

\* A swap holds CC only where it was remembered, and TCPM has the new source's
\* PS_RDY only once the swap is forgotten.
HoldInv ==
  /\ hold \in {"none", "held", "frozen", "stray"}
  /\ hold \in {"held", "frozen"} => pr_swap_src_to_snk /\ tcpm \in {"to_snk_cc", "to_snk_on"}
  /\ pd = "ps_rdy" => ~pr_swap_src_to_snk
  /\ rx \in {"none", "pr_swap", "ps_rdy"}

PortTypes ==
  /\ partner \in {"open", "source", "sink"} /\ cc \in {"open", "source", "sink"}
  /\ rx \in {"none", "pr_swap", "ps_rdy"}
\* The chip toggles by itself: nobody forced a role on it.
Pull == cntl = IF tcpm = "reset" THEN "off" ELSE "drp"
\* A swap under way, and a request TCPM may still accept, is remembered for the
\* role the tablet has.
Remembered ==
  /\ tcpm \in {"to_snk_off", "to_snk_cc"} => pr_swap_src_to_snk
  /\ tcpm \in {"to_src_off", "to_src_cc"} => pr_swap_snk_to_src
  /\ pd = "pr_swap" => /\ tcpm \notin {"toggling", "to_src_cc", "to_src_on"}
                       /\ tcpm \in {"src", "reset_off"} => pr_swap_src_to_snk
                       /\ tcpm = "snk" => pr_swap_snk_to_src
\* The partner has the other role, and the chip shows it ...
Settled == /\ cc = partner
           /\ tcpm \in {"src", "reset_off", "to_snk_off", "to_snk_cc", "to_src_on"} => partner # "source"
           /\ tcpm \in {"snk", "to_src_off", "to_src_cc"} => partner # "sink"
\* ... or it is another one, put in while the tablet slept: it has said nothing yet.
Replaced == /\ tcpm \in {"snk", "src", "reset_off"} /\ cc \in {"open", partner}
            /\ rx = "none" /\ pd \in {"none", "hard_reset"}
Partnered == partner # "open" =>
  /\ tcpm = "toggling" => cc \in {"open", partner}
  /\ tcpm = "to_snk_on" => cc = "source" /\ (partner = "sink" => hold = "held")
  /\ tcpm \in {"toggling", "reset", "to_snk_on"} \/ Settled \/ Replaced
\* What may be in the receive window, and with TCPM, in each of its states.  A
\* message outlives a port reset only with the detach that goes before it.
ReadyIn == {"to_snk_on", "to_src_off", "reset"}
Mail ==
  /\ rx # "none" => partner # "open"
  /\ rx = "pr_swap" => tcpm \notin {"toggling", "to_src_cc", "to_src_on"}
  /\ rx = "ps_rdy" => tcpm \in ReadyIn /\ (tcpm = "to_snk_on" => partner # "sink")
  /\ pd = "ps_rdy" => /\ rx = "none" /\ tcpm \in ReadyIn
                      /\ tcpm = "to_snk_on" => partner # "sink"
  /\ rx # "none" /\ tcpm = "reset" => cc # "open" \/ "detach" \in ints
SwapInv == PortTypes /\ Pull /\ Remembered /\ Partnered /\ Mail

--------------------------------------------------------------------------------
(* The hold of the CC pins.                                                 *)

LEMMA HoldInit == Init => HoldInv
BY DEF Init, HoldInv

LEMMA HoldStep ==
  ASSUME HoldInv, [Next]_vars
  PROVE  HoldInv'
<1> USE DEF HoldInv
<1>1. CASE Insert
  BY <1>1 DEF Insert, chip, swap
<1>2. CASE Remove
  BY <1>2 DEF Remove, swap
<1>3. CASE Detect
  BY <1>3 DEF Detect, Detectable, Attached, swap
<1>4. CASE PartnerSwaps
  BY <1>4 DEF PartnerSwaps, Sends, swap
<1>5. CASE PartnerResets
  BY <1>5 DEF PartnerResets, Sends, swap
<1>6. CASE PartnerReady
  BY <1>6 DEF PartnerReady, swap
<1>7. CASE IrqRead
  BY <1>7 DEF IrqRead, Received
<1>8. CASE IrqTail
  BY <1>8 DEF IrqTail, chip, swap
<1>9. CASE WatchWork
  BY <1>9 DEF WatchWork, chip, swap
<1>10. CASE ResyncWork
  BY <1>10 DEF ResyncWork, chip, swap
<1>11. CASE Suspend
  BY <1>11 DEF Suspend, chip, swap
<1>12. CASE Resume
  BY <1>12 DEF Resume, chip, swap
<1>13. CASE TcpmFinds
  BY <1>13 DEF TcpmFinds, Runs, Proceeds, SetVbusOn, chip, swap
<1>14. CASE TcpmLoses
  BY <1>14 DEF TcpmLoses, Proceeds, StartToggling
<1>15. CASE TcpmIgnores
  BY <1>15 DEF TcpmIgnores, Runs, Proceeds, chip, swap
<1>16. CASE TcpmToggles
  BY <1>16 DEF TcpmToggles, Proceeds, StartToggling
<1>17. CASE TcpmSwap
  BY <1>17 DEF TcpmSwap, Runs, Proceeds, chip, swap
<1>18. CASE ToSnkOff
  BY <1>18 DEF ToSnkOff, Runs, Proceeds, SetVbusOff, Swapping, swap
<1>19. CASE ToSnkCc
  BY <1>19 DEF ToSnkCc, Runs, Proceeds, SetCcRd, swap
<1>20. CASE ToSnkOn
  BY <1>20 DEF ToSnkOn, Runs, Proceeds, chip, swap
<1>21. CASE ToSrcOff
  BY <1>21 DEF ToSrcOff, Runs, Proceeds, chip, swap
<1>22. CASE ToSrcCc
  BY <1>22 DEF ToSrcCc, Runs, Proceeds, SetCcRp, swap
<1>23. CASE ToSrcOn
  BY <1>23 DEF ToSrcOn, Runs, Proceeds, SetVbusOn, chip
<1>24. CASE TcpmRecovers
  BY <1>24 DEF TcpmRecovers, Runs, Proceeds, SetCcOpen, Swapping
<1>25. CASE TcpmResets
  BY <1>25 DEF TcpmResets, Runs, Proceeds, SetVbusOff, chip, swap, Swapping
<1>26. CASE TcpmRestarts
  BY <1>26 DEF TcpmRestarts, Runs, Proceeds, SetVbusOn, chip
<1>27. CASE TcpmDrops
  BY <1>27 DEF TcpmDrops, Runs, Proceeds, chip, swap
<1>28. CASE TcpmAsks
  BY <1>28 DEF TcpmAsks, Sends, chip, swap
<1>29. CASE UNCHANGED vars
  BY <1>29 DEF vars, chip, swap
<1> QED
  BY <1>1, <1>2, <1>3, <1>4, <1>5, <1>6, <1>7, <1>8, <1>9, <1>10, <1>11, <1>12, <1>13,
     <1>14, <1>15, <1>16, <1>17, <1>18, <1>19, <1>20, <1>21, <1>22, <1>23, <1>24, <1>25,
     <1>26, <1>27, <1>28, <1>29
     DEF Next, World, Driver, Tcpm

\* For any number of messages, hard resets, sleeps and silent attachments, whoever
\* asks for the swap and however it ends: what a swap holds or freezes is let go
\* when it is over, by the PS_RDY of the new source or by the set_cc(OPEN) of an
\* error recovery (set_cc(), set_vbus() and receive() of sm5714_usbpd.c).
THEOREM HeldOnlyInSwapAlways == Spec => []HeldOnlyInSwap
<1>1. HoldInv => HeldOnlyInSwap
  BY DEF HoldInv, HeldOnlyInSwap, Swapping
<1> QED
  BY <1>1, HoldInit, HoldStep, PTL DEF Spec

--------------------------------------------------------------------------------
(* The partner in a swap it asked for.                                      *)

LEMMA SwapInit == Init => SwapInv
BY DEF Init, SwapInv, PortTypes, Pull, Remembered, Settled, Replaced, Partnered, Mail, ReadyIn

LEMMA SwapStep ==
  ASSUME SwapInv, [Next]_vars, [~TcpmAsks]_vars
  PROVE  SwapInv'
<1> USE DEF SwapInv, PortTypes, Pull, Remembered, Settled, Replaced, Partnered, Mail, ReadyIn
<1>1. CASE Insert
  BY <1>1 DEF Insert, chip, swap
<1>2. CASE Remove
  BY <1>2 DEF Remove, swap
<1>3. CASE Detect
  BY <1>3 DEF Detect, Detectable, Attached, swap
<1>4. CASE PartnerSwaps
  BY <1>4 DEF PartnerSwaps, Sends, swap
<1>5. CASE PartnerResets
  BY <1>5 DEF PartnerResets, Sends, swap
<1>6. CASE PartnerReady
  BY <1>6 DEF PartnerReady, swap
<1>7. CASE IrqRead
  BY <1>7 DEF IrqRead, Received
<1>8. CASE IrqTail
  BY <1>8 DEF IrqTail, chip, swap
<1>9. CASE WatchWork
  BY <1>9 DEF WatchWork, chip, swap
<1>10. CASE ResyncWork
  BY <1>10 DEF ResyncWork, chip, swap
<1>11. CASE Suspend
  BY <1>11 DEF Suspend, chip, swap
<1>12. CASE Resume
  BY <1>12 DEF Resume, chip, swap
<1>13. CASE TcpmFinds
  BY <1>13 DEF TcpmFinds, Runs, Proceeds, SetVbusOn, chip, swap
<1>14. CASE TcpmLoses
  BY <1>14 DEF TcpmLoses, Proceeds, StartToggling
<1>15. CASE TcpmIgnores
  BY <1>15 DEF TcpmIgnores, Runs, Proceeds, chip, swap
<1>16. CASE TcpmToggles
  BY <1>16 DEF TcpmToggles, Proceeds, StartToggling
<1>17. CASE TcpmSwap
  BY <1>17 DEF TcpmSwap, Runs, Proceeds, chip, swap
<1>18. CASE ToSnkOff
  BY <1>18 DEF ToSnkOff, Runs, Proceeds, SetVbusOff, Swapping, swap
<1>19. CASE ToSnkCc
  BY <1>19 DEF ToSnkCc, Runs, Proceeds, SetCcRd, swap
<1>20. CASE ToSnkOn
  BY <1>20 DEF ToSnkOn, Runs, Proceeds, chip, swap
<1>21. CASE ToSrcOff
  BY <1>21 DEF ToSrcOff, Runs, Proceeds, chip, swap
<1>22. CASE ToSrcCc
  BY <1>22 DEF ToSrcCc, Runs, Proceeds, SetCcRp, swap
<1>23. CASE ToSrcOn
  BY <1>23 DEF ToSrcOn, Runs, Proceeds, SetVbusOn, chip
<1>24. CASE TcpmRecovers
  BY <1>24 DEF TcpmRecovers, Runs, Proceeds, SetCcOpen, Swapping
<1>25. CASE TcpmResets
  BY <1>25 DEF TcpmResets, Runs, Proceeds, SetVbusOff, chip, swap, Swapping
<1>26. CASE TcpmRestarts
  BY <1>26 DEF TcpmRestarts, Runs, Proceeds, SetVbusOn, chip
<1>27. CASE TcpmDrops
  BY <1>27 DEF TcpmDrops, Runs, Proceeds, chip, swap
<1>28. CASE TcpmAsks
  BY <1>28 DEF TcpmAsks, Sends, vars, chip, swap
<1>29. CASE UNCHANGED vars
  BY <1>29 DEF vars, chip, swap
<1> QED
  BY <1>1, <1>2, <1>3, <1>4, <1>5, <1>6, <1>7, <1>8, <1>9, <1>10, <1>11, <1>12, <1>13,
     <1>14, <1>15, <1>16, <1>17, <1>18, <1>19, <1>20, <1>21, <1>22, <1>23, <1>24, <1>25,
     <1>26, <1>27, <1>28, <1>29
     DEF Next, World, Driver, Tcpm

\* Only the chip's own detection finds the pins open.
LEMMA OnlyDetectOpens == ASSUME Next, cc' = "open", cc # "open" PROVE Detect
<1>1. CASE Insert
  BY <1>1 DEF Insert, chip, swap
<1>2. CASE Remove
  BY <1>2 DEF Remove, swap
<1>3. CASE PartnerSwaps
  BY <1>3 DEF PartnerSwaps, Sends, swap
<1>4. CASE PartnerResets
  BY <1>4 DEF PartnerResets, Sends, swap
<1>5. CASE PartnerReady
  BY <1>5 DEF PartnerReady, swap
<1>6. CASE IrqRead
  BY <1>6 DEF IrqRead, Received
<1>7. CASE IrqTail
  BY <1>7 DEF IrqTail, chip, swap
<1>8. CASE WatchWork
  BY <1>8 DEF WatchWork, chip, swap
<1>9. CASE ResyncWork
  BY <1>9 DEF ResyncWork, chip, swap
<1>10. CASE Suspend
  BY <1>10 DEF Suspend, chip, swap
<1>11. CASE Resume
  BY <1>11 DEF Resume, chip, swap
<1>12. CASE TcpmFinds
  BY <1>12 DEF TcpmFinds, Runs, Proceeds, SetVbusOn, chip, swap
<1>13. CASE TcpmLoses
  BY <1>13 DEF TcpmLoses, Proceeds, StartToggling
<1>14. CASE TcpmIgnores
  BY <1>14 DEF TcpmIgnores, Runs, Proceeds, chip, swap
<1>15. CASE TcpmToggles
  BY <1>15 DEF TcpmToggles, Proceeds, StartToggling
<1>16. CASE TcpmSwap
  BY <1>16 DEF TcpmSwap, Runs, Proceeds, chip, swap
<1>17. CASE ToSnkOff
  BY <1>17 DEF ToSnkOff, Runs, Proceeds, SetVbusOff, Swapping, swap
<1>18. CASE ToSnkCc
  BY <1>18 DEF ToSnkCc, Runs, Proceeds, SetCcRd, swap
<1>19. CASE ToSnkOn
  BY <1>19 DEF ToSnkOn, Runs, Proceeds, chip, swap
<1>20. CASE ToSrcOff
  BY <1>20 DEF ToSrcOff, Runs, Proceeds, chip, swap
<1>21. CASE ToSrcCc
  BY <1>21 DEF ToSrcCc, Runs, Proceeds, SetCcRp, swap
<1>22. CASE ToSrcOn
  BY <1>22 DEF ToSrcOn, Runs, Proceeds, SetVbusOn, chip
<1>23. CASE TcpmRecovers
  BY <1>23 DEF TcpmRecovers, Runs, Proceeds, SetCcOpen
<1>24. CASE TcpmResets
  BY <1>24 DEF TcpmResets, Runs, Proceeds, SetVbusOff, chip, swap
<1>25. CASE TcpmRestarts
  BY <1>25 DEF TcpmRestarts, Runs, Proceeds, SetVbusOn, chip
<1>26. CASE TcpmDrops
  BY <1>26 DEF TcpmDrops, Runs, Proceeds, chip, swap
<1>27. CASE TcpmAsks
  BY <1>27 DEF TcpmAsks, Sends, chip, swap
<1> QED
  BY <1>1, <1>2, <1>3, <1>4, <1>5, <1>6, <1>7, <1>8, <1>9, <1>10, <1>11, <1>12, <1>13,
     <1>14, <1>15, <1>16, <1>17, <1>18, <1>19, <1>20, <1>21, <1>22, <1>23, <1>24, <1>25,
     <1>26, <1>27
     DEF Next, World, Driver, Tcpm

\* What the detection needs to find: a partner in place that the pull hides.
LEMMA SwapKept ==
  ASSUME SwapInv, [Next]_vars
  PROVE  [(/\ tcpm \in Swapping /\ (pr_swap_src_to_snk \/ pr_swap_snk_to_src) /\ ~own
           /\ partner # "open" /\ cc = partner /\ partner' = partner)
            => cc' # "open"]_vars
<1> SUFFICES ASSUME Next, tcpm \in Swapping, partner # "open", cc = partner, cc' = "open"
             PROVE  FALSE
  OBVIOUS
<1>1. Detect
  BY OnlyDetectOpens
<1>2. cntl = "drp"
  BY DEF SwapInv, Pull, Swapping
<1> QED
  BY <1>1, <1>2 DEF Detect, Detectable

\* For any number of messages, hard resets, sleeps and silent attachments: in a
\* behaviour in which only the partner asks for swaps, none of them shows the chip
\* a partner gone that is still there (set_cc() of sm5714_usbpd.c, 389-391).
THEOREM SwapKeepsPartnerAlways == Spec /\ [][~TcpmAsks]_vars => SwapKeepsPartner
<1>1. SwapInv /\ [Next]_vars
      => [(/\ tcpm \in Swapping /\ (pr_swap_src_to_snk \/ pr_swap_snk_to_src) /\ ~own
           /\ partner # "open" /\ cc = partner /\ partner' = partner)
            => cc' # "open"]_vars
  BY SwapKept
<1> QED
  BY <1>1, SwapInit, SwapStep, PTL DEF Spec, SwapKeepsPartner
================================================================================
