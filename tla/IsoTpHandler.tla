---------------------------- MODULE IsoTpHandler ----------------------------
(***************************************************************************)
(* IsoTpHandler.receive_message() on a bus where an ECU sends messages to  *)
(* it, other nodes talk, and frames can be lost on the way.  Frames wait   *)
(* in the client's data queue until a call takes them; a call returns with *)
(* the first message it completes, with the first error or with a timeout, *)
(* and leaves the rest of the queue to the next call.                      *)
(***************************************************************************)
EXTENDS IsoTpMessage

CONSTANTS
  EcuLengths,      \* payload lengths of the ECU
  MaxMessages,  \* bound: messages of the ECU
  MaxCalls,     \* bound: calls of receive_message()
  MaxStray,     \* bound: frames that belong to no message of the ECU
  MaxLost,      \* bound: frames of the ECU lost or dropped
  MaxLate       \* bound: messages the ECU gives up although it is answered

ASSUME EcuLengthsAssumption == EcuLengths \subseteq 1..MaxPayload
ASSUME BoundsAssumption  == MaxMessages \in Nat /\ MaxCalls \in Nat /\ MaxStray \in Nat
ASSUME FaultsAssumption  == MaxLost \in Nat /\ MaxLate \in Nat

VARIABLES
  ecu,        \* what the ECU is doing
  frames,     \* frames on their way to receive_frame()
  flow,       \* a flow control frame is on its way to the ECU
  call,       \* the receive_message() call
  results,    \* what the calls have returned, in order
  strays,     \* strays sent
  lost, late  \* faults that have happened, see MaxLost and MaxLate

faults == <<lost, late>>
handlerVars   == <<ecu, frames, flow, call, results, strays, faults>>

Arbs == {"ecu", "other"}

\* A frame, the number of the ECU's message it is part of (0: none), and
\* whether its second and third byte are 7f 3e.
Frame == [frame : Frames(Arbs), of : Nat, tp : BOOLEAN]

\* msg: messages begun; length, next: of the one being sent.
EcuStates == {"idle", "awaiting", "sending"}

\* wanted: the arbitration id given; rx: the message being fed; from: the
\* messages its bytes are part of; clean: nothing was on its way when the call
\* began, and no fault since.
Outcomes == {"Message", "Error", "Timeout", "Raised"}

\* receive_message() listens to one sender, or to the first that it hears.
Wanted == {"ecu", NoArb}

NewCall(arb) ==
  [active |-> TRUE, wanted |-> arb, rx |-> NewMessage(arb), from |-> {},
   clean |-> frames = <<>> /\ ecu.state = "idle"]
NoCall == [active |-> FALSE, wanted |-> NoArb, rx |-> NewMessage(NoArb),
           from |-> {}, clean |-> FALSE]

HandlerTypeOK ==
  /\ ecu \in [state : EcuStates, msg : 0..MaxMessages, length : EcuLengths \cup {0},
              next : Nat]
  /\ frames \in Seq(Frame)
  /\ flow \in BOOLEAN
  /\ call \in [active : BOOLEAN, wanted : Wanted, rx : RxMessages(Arbs),
               from : SUBSET (0..MaxMessages), clean : BOOLEAN]
  /\ call.rx.state \in {"EXPECT_SF_OR_FF", "EXPECT_CF"}
  /\ results \in Seq([outcome : Outcomes, wanted : Wanted, rx : RxMessages(Arbs),
                      from : SUBSET (0..MaxMessages), clean : BOOLEAN])
  /\ strays \in 0..MaxStray
  /\ lost \in 0..MaxLost /\ late \in 0..MaxLate

HandlerInit ==
  /\ ecu = [state |-> "idle", msg |-> 0, length |-> 0, next |-> 0]
  /\ frames = <<>> /\ flow = FALSE
  /\ call = NoCall /\ results = <<>>
  /\ strays = 0 /\ lost = 0 /\ late = 0

-----------------------------------------------------------------------------
(* The bus and the ECU, external to src/.  The ECU counts its consecutive   *)
(* frames modulo 16 and sends them after flow control only.                 *)

Arrives(f, of, tp) == frames' = Append(frames, [frame |-> f, of |-> of, tp |-> tp])

Lose ==
  /\ lost < MaxLost
  /\ lost' = lost + 1
  /\ call' = [call EXCEPT !.clean = FALSE]
  /\ UNCHANGED late

\* Second and third byte of the frame may be 7f 3e: two bytes of data, or the
\* end of the length and one of them.
LooksAlike(f) ==
  IF f.kind = "FF" THEN f.num % 256 = 127 ELSE \A i \in 1..2 : f.data[i] # Pad

\* A frame of the ECU's current message.  It may be lost, and its data may look
\* like a tester present error.
EcuSends(f) ==
  \/ Arrives(f, ecu'.msg, FALSE) /\ UNCHANGED <<call, faults>>
  \/ LooksAlike(f) /\ Arrives(f, ecu'.msg, TRUE) /\ Lose
  \/ UNCHANGED frames /\ Lose

EcuFrame(n, i) ==
  LET f == Format("ecu", n, TRUE, i) IN
  IF f.kind = "CF" THEN [f EXCEPT !.num = i % 16] ELSE f

EcuBegins(n) ==
  /\ ecu.state = "idle"
  /\ ecu.msg < MaxMessages
  /\ ecu' = [state |-> IF n > 7 THEN "awaiting" ELSE "idle", msg |-> ecu.msg + 1,
             length |-> n, next |-> 1]
  /\ EcuSends(EcuFrame(n, 0))
  /\ UNCHANGED <<flow, results, strays>>

EcuFlowControlled ==
  /\ flow
  /\ flow' = FALSE
  /\ ecu' = [ecu EXCEPT !.state = IF @ = "awaiting" THEN "sending" ELSE @]
  /\ UNCHANGED <<frames, call, results, strays, faults>>

EcuContinues ==
  /\ ecu.state = "sending"
  /\ ecu' = [ecu EXCEPT !.next = @ + 1,
                        !.state = IF ecu.next = Consecutive(ecu.length)
                                  THEN "idle" ELSE @]
  /\ EcuSends(EcuFrame(ecu.length, ecu.next))
  /\ UNCHANGED <<flow, results, strays>>

\* Its first frame has been lost, or taken by a call that is over.
Unanswered ==
  /\ ~flow
  /\ \A i \in DOMAIN frames : frames[i].of # ecu.msg
  /\ ecu.msg \notin call.from

\* No flow control in time.  If it is still to come, that is a fault.
EcuGivesUp ==
  /\ ecu.state = "awaiting"
  /\ ecu' = [ecu EXCEPT !.state = "idle"]
  /\ \/ Unanswered /\ UNCHANGED <<call, faults>>
     \/ /\ late < MaxLate
        /\ late' = late + 1
        /\ call' = [call EXCEPT !.clean = FALSE]
        /\ UNCHANGED lost
  /\ UNCHANGED <<frames, flow, results, strays>>

\* Another node's frame, or the ECU's answer to a tester present.
Stray ==
  /\ strays < MaxStray
  /\ strays' = strays + 1
  /\ \/ \E kind \in {"SF", "CF", "FC"} :
          Arrives([arb |-> "other", kind |-> kind, num |-> 1, data |-> Slice(7, 1, 7)],
                  0, FALSE)
     \/ Arrives([arb |-> "ecu", kind |-> "SF", num |-> 3, data |-> <<1, 2, 3>>], 0, TRUE)
  /\ UNCHANGED <<ecu, flow, call, results, faults>>

-----------------------------------------------------------------------------
(* receive_message() *)

\* get_connection_status() is not Connected: an exception.
ReceiveRefused ==
  /\ ~call.active
  /\ Len(results) < MaxCalls
  /\ results' = Append(results, [outcome |-> "Raised", wanted |-> NoArb,
                                 rx |-> NewMessage(NoArb), from |-> {}, clean |-> FALSE])
  /\ UNCHANGED <<ecu, frames, flow, call, strays, faults>>

Receive ==
  /\ ~call.active
  /\ Len(results) < MaxCalls
  /\ \E arb \in Wanted : call' = NewCall(arb)
  /\ UNCHANGED <<ecu, frames, flow, results, strays, faults>>

Return(outcome, rx, from) ==
  /\ results' = Append(results, [outcome |-> outcome, wanted |-> call.wanted,
                                 rx |-> rx, from |-> from, clean |-> call.clean])
  /\ call' = NoCall

\* Mutant of Skipped: frames of other senders are fed as well.
SkippedIfTp(f) == f.tp

\* Frames of other senders and tester present errors are not fed.
Skipped(f) == call.rx.arb \notin {NoArb, f.frame.arb} \/ f.tp

\* Mutant of NextFrame: the frame that came last is taken.
LatestFrame(q) == q[Len(q)]

NextFrame(q) == q[1]

\* One turn of the loop: a frame is taken and fed, flow control is sent for a
\* first frame, and the call ends with a complete message or an error.
ReceiveFrame ==
  /\ call.active
  /\ frames # <<>>
  /\ frames' = Tail(frames)
  /\ LET f    == NextFrame(frames)
         fedm == IF Skipped(f) THEN call.rx ELSE Feed(call.rx, f.frame)
         from == IF fedm = call.rx THEN call.from ELSE call.from \cup {f.of}
     IN
     /\ flow' = (flow \/ fedm.state = "SEND_FC")
     /\ CASE fedm.state = "COMPLETE" -> Return("Message", fedm, from)
          [] fedm.state = "ERROR"    -> Return("Error", fedm, from)
          [] OTHER -> /\ call' = [call EXCEPT !.rx = FlowControlled(fedm),
                                              !.from = from]
                      /\ UNCHANGED results
  /\ UNCHANGED <<ecu, strays, faults>>

\* receive_frame() has waited in vain: an empty frame is an error.
ReceiveTimeout ==
  /\ call.active
  /\ frames = <<>>
  /\ Return("Timeout", [call.rx EXCEPT !.state = "ERROR"], call.from)
  /\ UNCHANGED <<ecu, frames, flow, strays, faults>>

HandlerNext ==
  \/ \E n \in EcuLengths : EcuBegins(n)
  \/ EcuFlowControlled \/ EcuContinues \/ EcuGivesUp \/ Stray
  \/ ReceiveRefused \/ Receive \/ ReceiveFrame \/ ReceiveTimeout

HandlerSpec == HandlerInit /\ [][HandlerNext]_handlerVars

-----------------------------------------------------------------------------
(* Properties *)

Received == {k \in DOMAIN results : results[k].outcome = "Message"}

(* What a call returns is one message as its sender made it: all its bytes  *)
(* in order, none of another message, although frames may have been lost    *)
(* and earlier calls may have left frames behind (iso_tp_handler.py:89-112).*)
(* Only a late flow control and a lost first frame together can deceive it, *)
(* as a consecutive frame does not say what it is a part of.                *)
OneWholeMessage ==
  lost = 0 \/ late = 0 =>
    \A k \in Received : LET r == results[k] IN
      /\ \E m \in 0..MaxMessages : r.from = {m}
      /\ \A i \in DOMAIN r.rx.payload : r.rx.payload[i] = i
      /\ r.rx.arb = "ecu" => Len(r.rx.payload) \in EcuLengths

(* No message of the ECU is returned twice or after a later one.            *)
ReceivedInOrder ==
  \A j, k \in Received :
    j < k /\ results[k].rx.arb = "ecu" =>
      \A a \in results[j].from, b \in results[k].from : a < b

(* "it should receive multi-frame messages" (test/protocols/test_iso_tp.py: *)
(* 141) and "it should ignore different traffic while receiving a           *)
(* multiframe message" (line 158): a call that is given the sender, begins  *)
(* on a quiet bus and meets no fault does not end in an error.              *)
NoErrorWithoutFault ==
  \A k \in DOMAIN results :
    results[k].clean /\ results[k].wanted = "ecu" => results[k].outcome # "Error"
=============================================================================
