---------------------------- MODULE IsoTpLoopback ---------------------------
(***************************************************************************)
(* What format() makes of a payload is sent frame by frame and fed into a  *)
(* message that starts empty: the round trip of                            *)
(* test_iso_tp_handler_transmit.  The sender neither looks at what becomes *)
(* of a frame nor waits for flow control, and another thread may send a    *)
(* frame of its own, tester present, between two of them.                  *)
(***************************************************************************)
EXTENDS IsoTpMessage

CONSTANTS
  Lengths  \* lengths of the payloads

ASSUME LengthsAssumption == Lengths \subseteq 0..MaxPayload

VARIABLES
  length,   \* length of the payload
  padding,  \* a padding byte is configured
  fed,      \* number of frames sent
  message,  \* the message that is fed
  spoilt    \* history: a frame was lost, or another one came in between

loopbackVars == <<length, padding, fed, message, spoilt>>

FrameCount == 1 + Consecutive(length)

\* The bytes of the other thread's frame.
Foreign        == MaxPayload + 1
ForeignPayload == <<Foreign, Foreign>>

LoopbackInit ==
  /\ length \in Lengths
  /\ padding \in BOOLEAN
  /\ fed = 0 /\ spoilt = FALSE
  /\ message \in {NewMessage(NoArb), NewMessage("ecu")}

SendFrame ==
  /\ fed < FrameCount
  /\ fed' = fed + 1
  /\ message' = FlowControlled(Feed(message, Format("ecu", length, padding, fed)))
  /\ UNCHANGED <<length, padding, spoilt>>

\* send_frame() returns False, or the frame is lost on the bus.
SendFrameFails ==
  /\ fed < FrameCount
  /\ fed' = fed + 1
  /\ spoilt' = TRUE
  /\ UNCHANGED <<length, padding, message>>

\* Before the first frame and after the last one it is a message of its own.
OtherThreadSends ==
  /\ fed \in 1..(FrameCount - 1)
  /\ message' = FlowControlled(Feed(message,
                  [arb |-> "ecu", kind |-> "SF", num |-> 2,
                   data |-> Padded(ForeignPayload, padding)]))
  /\ spoilt' = TRUE
  /\ UNCHANGED <<length, padding, fed>>

LoopbackNext == SendFrame \/ SendFrameFails \/ OtherThreadSends

LoopbackSpec == LoopbackInit /\ [][LoopbackNext]_loopbackVars

-----------------------------------------------------------------------------
(* Properties *)

(* Whatever is fed, the payload collected is a beginning of the payload     *)
(* sent: no byte of padding, none twice, none left out                      *)
(* (iso_tp_message.py:109-113, 155-160).  Or it is the other thread's.      *)
CollectsPrefix ==
  \/ message.payload = ForeignPayload
  \/ /\ Len(message.payload) <= length
     /\ \A i \in DOMAIN message.payload : message.payload[i] = i

(* A message is complete only with its last frame, and has all bytes; one   *)
(* that a frame was lost of, or that the other thread's frame has come      *)
(* into, never passes for complete (iso_tp_message.py:106-120,              *)
(* iso_tp_handler.py:45-50).                                                *)
CompleteAtTheEnd ==
  message.state = "COMPLETE" /\ message.payload # ForeignPayload =>
    fed = FrameCount /\ Len(message.payload) = length /\ ~spoilt

(* "protocols maximum of 4095 bytes" (iso_tp_message.py:147-148): every     *)
(* payload that format() accepts is received completely, if nothing is lost *)
(* and nobody else sends meanwhile.                                         *)
RoundTrip == fed = FrameCount /\ ~spoilt => message.state = "COMPLETE"
=============================================================================
