--------------------------- MODULE MessageChannel ---------------------------
(***************************************************************************)
(* What the connection process promises its client about traffic coming    *)
(* from the CANBadger: the messages that were sent, each exactly once and  *)
(* in the order they were sent.  Messages are named by their position 1,   *)
(* 2, 3, ... in the device's output.                                       *)
(*                                                                         *)
(* A message may come without its data; then nothing is promised about     *)
(* what follows.  A lossless channel does not let that happen.             *)
(***************************************************************************)
EXTENDS Naturals, Sequences

CONSTANT Lossless

VARIABLES
  produced,   \* number of messages the device has sent so far
  delivered   \* what the client has been given: [msg, whole] records

chanVars == <<produced, delivered>>

Intact == \A k \in DOMAIN delivered : delivered[k].whole

Init == produced = 0 /\ delivered = <<>>

Produce ==
  /\ produced' = produced + 1
  /\ UNCHANGED delivered

Deliver(whole) ==
  /\ Intact
  /\ Len(delivered) < produced
  /\ Lossless => whole
  /\ delivered' = Append(delivered, [msg |-> Len(delivered) + 1, whole |-> whole])
  /\ UNCHANGED produced

Garble ==
  /\ ~Intact
  /\ Len(delivered') = Len(delivered) + 1
  /\ \A k \in DOMAIN delivered : delivered'[k] = delivered[k]
  /\ UNCHANGED produced

Next == Produce \/ (\E whole \in BOOLEAN : Deliver(whole)) \/ Garble

Spec == Init /\ [][Next]_chanVars
=============================================================================
