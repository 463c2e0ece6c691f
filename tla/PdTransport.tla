------------------------------- MODULE PdTransport -------------------------------
(***************************************************************************)
(* How PD messages pass sm5714_usbpd.c: pd_transmit() writes a message into *)
(* the chip's registers and asks for it to be sent, the interrupt thread    *)
(* hands on what the receive window holds and how the transmission ended;   *)
(* sm->lock keeps the two apart.  TCPM, which waits 100 ms for the end of   *)
(* a transmission, the chip's protocol engine and the partner are external. *)
(* A message is its number; a data message has a payload of the same number.*)
(***************************************************************************)
EXTENDS Integers, Sequences

CONSTANTS
  Outgoing,    \* bound: messages and hard resets TCPM sends
  Controls,    \* those of them without a payload
  Incoming,    \* bound: messages the partner sends
  WireFaults,  \* bound: register transfers that fail
  Naps         \* bound: suspends

ASSUME TransportAssumption ==
  {Outgoing, Incoming, WireFaults, Naps} \subseteq Nat /\ Controls \subseteq 1..Outgoing

VARIABLES
  \* TCPM
  asked,       \* the message it transmits, or transmitted last
  call,        \* how far pd_transmit() is: entered, its writes, waiting, over
  completion,  \* tx_complete and tx_status
  verdict,     \* what it took for the end of which transmission
  handed,      \* the messages it was handed
  \* the driver
  lock, intr,  \* sm->lock; the latches the thread has read
  listening,   \* the interrupt is enabled: between complete() and prepare()
  \* the chip
  regs,        \* header and payload to transmit
  wire,        \* what goes out now
  latches,
  window,      \* the message not acknowledged yet, or zero
  accepted,    \* the last one it took
  \* history
  sent,        \* what last went out and was acknowledged by the partner
  spoiled,     \* messages that could not be read
  stale,       \* some transmission's end was, or may be, reported too late or not at all
  wirefaults, naps
tcpm == <<asked, call, completion, verdict, handed>>
txchip == <<regs, wire, sent>>
rxchip == <<window, accepted, spoiled>>
bounds == <<wirefaults, naps>>
transport == <<tcpm, lock, intr, listening, txchip, latches, rxchip, stale, bounds>>

None == 0
Ends == {"done", "discard", "error"}
Whole(k) == [header |-> k, payload |-> IF k \in Controls THEN None ELSE k]
Idle == Whole(None)
WireFault == wirefaults < WireFaults /\ wirefaults' = wirefaults + 1 /\ UNCHANGED naps

--------------------------------------------------------------------------------
(* sm5714_usbpd_transmit().                                                 *)

\* TCPM resets its completion before the call, and the lock may be taken then.
TcpmTransmits ==
  /\ call = "over" /\ asked < Outgoing
  /\ asked' = asked + 1 /\ call' = "entered" /\ completion' = "none"
  /\ UNCHANGED <<verdict, handed, lock, intr, listening, txchip, latches, rxchip, stale, bounds>>

Locks == /\ call = "entered" /\ lock = "free"
         /\ lock' = "transmit" /\ call' = "header"
         /\ UNCHANGED <<asked, completion, verdict, handed, intr, listening, txchip, latches,
                        rxchip, stale, bounds>>
\* A write that fails ends the call with its error; the chip may have taken it.
Breaks == call' = "over" /\ lock' = "free" /\ WireFault
WritesHeader ==
  /\ call = "header"
  /\ \/ /\ regs' = [regs EXCEPT !.header = asked]
        /\ call' = (IF asked \in Controls THEN "request" ELSE "payload") /\ UNCHANGED <<lock, bounds>>
     \/ Breaks /\ regs' \in {regs, [regs EXCEPT !.header = asked]}
  /\ UNCHANGED <<asked, completion, verdict, handed, intr, listening, wire, sent, latches, rxchip,
                 stale>>
\* Mutant: the result of the payload's write is dropped.
WritesPayloadBlind ==
  /\ call = "payload" /\ call' = "request" /\ UNCHANGED lock
  /\ \/ regs' = [regs EXCEPT !.payload = asked] /\ UNCHANGED bounds
     \/ WireFault /\ UNCHANGED regs
  /\ UNCHANGED <<asked, completion, verdict, handed, intr, listening, wire, sent, latches, rxchip,
                 stale>>
WritesPayload ==
  /\ call = "payload"
  /\ \/ /\ regs' = [regs EXCEPT !.payload = asked] /\ call' = "request" /\ UNCHANGED <<lock, bounds>>
     \/ Breaks /\ regs' \in {regs, [regs EXCEPT !.payload = asked]}
  /\ UNCHANGED <<asked, completion, verdict, handed, intr, listening, wire, sent, latches, rxchip,
                 stale>>
\* The chip takes the registers as they are; a control message has no payload.
Loaded == [regs EXCEPT !.payload = IF regs.header \in Controls THEN None ELSE @]
Requests ==
  /\ call = "request"
  /\ \/ wire' = Loaded /\ call' = "waiting" /\ lock' = "free" /\ UNCHANGED <<stale, bounds>>
     \/ Breaks /\ \/ wire' = Loaded /\ stale' = TRUE
                  \/ UNCHANGED <<wire, stale>>
  /\ UNCHANGED <<asked, completion, verdict, handed, intr, listening, regs, sent, latches, rxchip>>
\* A hard reset takes one write, and goes before what is on the wire.
SendsHardReset ==
  /\ call = "header"
  /\ \/ wire' = Whole(asked) /\ call' = "waiting" /\ lock' = "free" /\ UNCHANGED <<stale, bounds>>
     \/ Breaks /\ \/ wire' = Whole(asked) /\ stale' = TRUE
                  \/ UNCHANGED <<wire, stale>>
  /\ UNCHANGED <<asked, completion, verdict, handed, intr, listening, regs, sent, latches, rxchip>>
Transmit == Locks \/ WritesHeader \/ WritesPayload \/ Requests \/ SendsHardReset

\* The wait ends with the completion, or after 100 ms: the interrupt is off or
\* the chip has nothing to say.
TcpmTakes == /\ call = "waiting" /\ completion # "none" /\ call' = "over"
             /\ verdict' = [message |-> asked, status |-> completion]
             /\ UNCHANGED <<asked, completion, handed, lock, intr, listening, txchip, latches,
                            rxchip, stale, bounds>>
TcpmTimesOut == /\ call = "waiting" /\ completion = "none" /\ call' = "over"
                /\ ~listening \/ (wire = Idle /\ (latches \cup intr) \cap Ends = {})
                /\ stale' = TRUE
                /\ UNCHANGED <<asked, completion, verdict, handed, lock, intr, listening, txchip,
                               latches, rxchip, bounds>>

--------------------------------------------------------------------------------
(* The chip and the partner.                                                *)

WireEnds == /\ wire # Idle /\ wire' = Idle
            /\ \/ latches' = latches \cup {"done"} /\ sent' = wire
               \/ latches' = latches \cup {"error"} /\ UNCHANGED sent
               \/ latches' = latches \cup {"discard"} /\ UNCHANGED sent
            /\ UNCHANGED <<tcpm, lock, intr, listening, regs, rxchip, stale, bounds>>
\* The next message is only taken into an acknowledged window.
PartnerSends == /\ window = None /\ accepted < Incoming
                /\ accepted' = accepted + 1 /\ window' = accepted'
                /\ latches' = latches \cup {"rx"}
                /\ UNCHANGED <<tcpm, lock, intr, listening, txchip, spoiled, stale, bounds>>
\* The partner's hard reset ends what is on the wire.
PartnerHardResets == /\ "reset" \notin latches /\ latches' = latches \cup {"reset"}
                     /\ wire' = Idle
                     /\ UNCHANGED <<tcpm, lock, intr, listening, regs, sent, rxchip, stale, bounds>>

--------------------------------------------------------------------------------
(* sm5714_usbpd_irq(), and the hold over suspend.                           *)

\* Reading the latches clears them, perhaps also when the read fails.
IrqReads == /\ listening /\ lock = "free" /\ latches # {}
            /\ \/ lock' = "irq" /\ intr' = latches /\ latches' = {} /\ UNCHANGED <<stale, spoiled, bounds>>
               \/ /\ WireFault /\ UNCHANGED <<lock, intr>>
                  /\ \/ UNCHANGED <<latches, stale, spoiled>>
                     \/ /\ latches' = {} /\ stale' = (stale \/ latches \cap Ends # {})
                        /\ spoiled' = IF "rx" \in latches THEN spoiled \cup {window} ELSE spoiled
            /\ UNCHANGED <<tcpm, listening, txchip, window, accepted>>

\* Mutant: a message whose payload could not be read is handed on.
IrqReceivesHalf ==
  /\ lock = "irq" /\ "rx" \in intr /\ intr' = (intr \ {"rx"}) \cup {"ack"}
  /\ handed' = Append(handed, window)
  /\ \/ UNCHANGED <<spoiled, bounds>>
     \/ WireFault /\ spoiled' = spoiled \cup {window}
  /\ UNCHANGED <<asked, call, completion, verdict, lock, listening, txchip, latches, window,
                 accepted, stale>>
\* sm5714_usbpd_receive(): without its header the window is not even
\* acknowledged; without its payload or its origin it is, and forgotten.
IrqReceives ==
  /\ lock = "irq" /\ "rx" \in intr
  /\ \/ /\ handed' = Append(handed, window) /\ intr' = (intr \ {"rx"}) \cup {"ack"}
        /\ UNCHANGED <<spoiled, bounds>>
     \/ /\ WireFault /\ spoiled' = spoiled \cup {window} /\ UNCHANGED handed
        /\ \/ intr' = intr \ {"rx"}
           \/ intr' = (intr \ {"rx"}) \cup {"ack"}
  /\ UNCHANGED <<asked, call, completion, verdict, lock, listening, txchip, latches, window,
                 accepted, stale>>
\* The result of the acknowledgement is not looked at.
IrqAcknowledges ==
  /\ lock = "irq" /\ "ack" \in intr /\ intr' = intr \ {"ack"}
  /\ \/ window' = None /\ UNCHANGED bounds
     \/ WireFault /\ UNCHANGED window
  /\ UNCHANGED <<tcpm, lock, listening, txchip, latches, accepted, spoiled, stale>>
\* One end at most is reported: success before discard before failure.
IrqCompletes ==
  /\ lock = "irq" /\ intr \cap {"rx", "ack"} = {} /\ lock' = "free" /\ intr' = {}
  /\ completion' = CASE "done" \in intr -> "done"
                     [] "done" \notin intr /\ "discard" \in intr -> "discard"
                     [] intr \cap Ends = {"error"} -> "error"
                     [] intr \cap Ends = {} -> completion
  /\ UNCHANGED <<asked, call, verdict, handed, listening, txchip, latches, rxchip, stale, bounds>>
Irq == IrqReads \/ IrqReceives \/ IrqAcknowledges \/ IrqCompletes

\* prepare() waits for the thread.
Prepare == /\ listening /\ lock # "irq" /\ naps < Naps /\ naps' = naps + 1
           /\ listening' = FALSE
           /\ UNCHANGED <<tcpm, lock, intr, txchip, latches, rxchip, stale, wirefaults>>
Complete == /\ ~listening /\ listening' = TRUE
            /\ UNCHANGED <<tcpm, lock, intr, txchip, latches, rxchip, stale, bounds>>

TransportInit ==
  /\ asked = None /\ call = "over" /\ completion = "none" /\ handed = <<>>
  /\ verdict = [message |-> None, status |-> "none"]
  /\ lock = "free" /\ intr = {} /\ listening = TRUE
  /\ regs = Whole(None) /\ wire = Idle /\ latches = {} /\ window = None /\ accepted = 0
  /\ sent = Idle /\ spoiled = {} /\ stale = FALSE /\ wirefaults = 0 /\ naps = 0
TransportNext ==
  \/ TcpmTransmits \/ Transmit \/ TcpmTakes \/ TcpmTimesOut
  \/ WireEnds \/ PartnerSends \/ PartnerHardResets
  \/ Irq \/ Prepare \/ Complete
TransportSpec == TransportInit /\ [][TransportNext]_transport

--------------------------------------------------------------------------------
(* Properties.                                                              *)

\* A transmission TCPM takes for done went out, with its own header and payload,
\* whatever writes of it or of earlier ones failed (685-700, 784-789).  Only the
\* end of a transmission TCPM no longer waits for can be taken for the next
\* one's: after a time-out, or a request that failed and was taken all the same.
SentAsAsked ==
  verdict.status = "done" /\ ~stale /\ call = "over" /\ asked = verdict.message => sent = Whole(asked)

\* Every message the chip took is handed on once and in order, half ones and
\* those behind a failed read excepted, also where the window was not
\* acknowledged or a later one waits (702-769).
HandedOnce ==
  /\ \A i \in 1..Len(handed) - 1 : handed[i] < handed[i + 1]
  /\ {handed[i] : i \in DOMAIN handed} \cap spoiled = {}
  /\ lock = "free" /\ latches = {} => {handed[i] : i \in DOMAIN handed} \cup spoiled = 1..accepted
================================================================================
