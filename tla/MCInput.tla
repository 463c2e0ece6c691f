--------------------------------- MODULE MCInput ---------------------------------
(* The touch controller and the pen on small instances.  They share nothing *)
(* and a property reads one of them, so each moves while the other rests.   *)
EXTENDS TouchEvents, PenEvents

Init == TouchInit /\ PenInit
Touch == PenInit /\ TouchNext /\ UNCHANGED penvars
Pen == TouchInit /\ PenNext /\ UNCHANGED touch
Next == Touch \/ Pen
Spec == Init /\ [][Next]_<<touch, penvars>>
================================================================================
