-------------------------------- MODULE PenEvents --------------------------------
(***************************************************************************)
(* touchscreen-wacom-wez01-x716.c: the pen's packets, and the sleep of the  *)
(* system.  The digitizer and the input core, which lets go of every key    *)
(* just before the driver's own suspend runs, are external.  Position,      *)
(* pressure and tilt are left out; which keys are down is kept.             *)
(***************************************************************************)
EXTENDS Integers, Sequences

CONSTANTS
  Packets,    \* bound: packets the digitizer holds
  PenFaults,  \* bound: transfers that fail
  Nights      \* bound: suspends

ASSUME PenAssumption == Packets \in Nat \ {0} /\ PenFaults \in Nat /\ Nights \in Nat

VARIABLES
  pen,       \* where the pen is, as the digitizer last saw it
  packets,   \* coordinate packets not read yet
  sampling,  \* the digitizer scans
  keys,      \* keys the input device reports down
  prox,      \* struct wacom_wez01
  power,     \* awake, keys let go by the input core, or asleep
  missed,    \* history: a packet or the command to sample was lost, or a packet
             \* came after the keys were let go
  nights, penfaults
penvars == <<pen, packets, sampling, keys, prox, power, missed, nights, penfaults>>

\* A packet is the set of keys it says are down, with no tool when out of range.
Away == {}
InRange == {{tool} \cup tip : tool \in {"pen", "rubber"}, tip \in {{}, {"touch"}}}
PenFault == penfaults < PenFaults /\ penfaults' = penfaults + 1

--------------------------------------------------------------------------------
(* The digitizer.                                                           *)

PenMoves == /\ \E p \in InRange \cup {Away} : p # pen /\ pen' = p
            /\ IF sampling THEN Len(packets) < Packets /\ packets' = Append(packets, pen')
                           ELSE UNCHANGED packets
            /\ UNCHANGED <<sampling, keys, prox, power, missed, nights, penfaults>>

--------------------------------------------------------------------------------
(* wacom_wez01_irq_handler().                                               *)

\* Mutant: only a touching pen is taken to be in range.
PenReadsTip ==
  /\ power # "asleep" /\ packets # <<>> /\ packets' = Tail(packets)
  /\ IF Head(packets) # Away THEN keys' = Head(packets) /\ prox' = ("touch" \in Head(packets))
     ELSE IF prox THEN keys' = {} /\ prox' = FALSE ELSE UNCHANGED <<keys, prox>>
  /\ missed' = (power = "released")
  /\ UNCHANGED <<pen, sampling, power, nights, penfaults>>
\* A packet in range sets every key; one out of range lets go of them, if prox
\* says there is something to let go of.
PenReads ==
  /\ power # "asleep" /\ packets # <<>> /\ packets' = Tail(packets)
  /\ IF Head(packets) # Away THEN keys' = Head(packets) /\ prox' = TRUE
     ELSE IF prox THEN keys' = {} /\ prox' = FALSE ELSE UNCHANGED <<keys, prox>>
  /\ missed' = (power = "released")
  /\ UNCHANGED <<pen, sampling, power, nights, penfaults>>
\* The read fails: the line stays low, and the packet is still there or is gone.
PenReadFails == /\ power # "asleep" /\ packets # <<>> /\ PenFault
                /\ packets' \in {packets, Tail(packets)} /\ missed' = (packets' # packets \/ missed)
                /\ UNCHANGED <<pen, sampling, keys, prox, power, nights>>

--------------------------------------------------------------------------------
(* Sleep.                                                                   *)

\* input_dev_suspend(), before the driver's: the keys go, prox stays.
CoreReleases == /\ power = "awake" /\ nights < Nights /\ nights' = nights + 1
                /\ power' = "released" /\ keys' = {}
                /\ UNCHANGED <<pen, packets, sampling, prox, missed, penfaults>>
\* disable_irq() waits for the handler; the command's result is not looked at.
PenSuspends == /\ power = "released" /\ power' = "asleep"
               /\ \/ sampling' = FALSE /\ packets' = <<>> /\ UNCHANGED penfaults
                  \/ PenFault /\ UNCHANGED <<sampling, packets>>
               /\ UNCHANGED <<pen, keys, prox, missed, nights>>
\* Sampling again, which reports a pen that is there; then the interrupt.
PenResumes == /\ power = "asleep" /\ power' = "awake"
              /\ \/ /\ sampling' = TRUE /\ UNCHANGED <<missed, penfaults>>
                    /\ packets' = IF pen = Away \/ Len(packets) = Packets THEN packets
                                  ELSE Append(packets, pen)
                 \/ PenFault /\ missed' = TRUE /\ UNCHANGED <<sampling, packets>>
              /\ UNCHANGED <<pen, keys, prox, nights>>

PenInit == /\ pen = Away /\ packets = <<>> /\ sampling = TRUE /\ keys = {} /\ prox = FALSE
           /\ power = "awake" /\ missed = FALSE /\ nights = 0 /\ penfaults = 0
PenNext == PenMoves \/ PenReads \/ PenReadFails \/ CoreReleases \/ PenSuspends \/ PenResumes
PenSpec == PenInit /\ [][PenNext]_penvars

--------------------------------------------------------------------------------
(* Properties.                                                              *)

\* Awake and with every packet read, the keys are those of the pen as it is: up
\* once it has left, over hovering, touching, turning it round and any number of
\* sleeps.  Only a transfer that failed, or a packet between the input core's
\* suspend and the driver's (291-296), leaves them behind.
PenFollows == power = "awake" /\ sampling /\ packets = <<>> /\ ~missed =>
                keys = pen
================================================================================
