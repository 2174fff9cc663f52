---------------------------- MODULE IsoTpMessage ----------------------------
(***************************************************************************)
(* IsoTpMessage: a payload formatted into CAN frames, and frames fed one   *)
(* by one into a message that collects a payload.                          *)
(*                                                                         *)
(* The bytes of a payload are named 1, 2, 3, ... by their position, a      *)
(* padding byte is Pad.  A frame is what its first byte(s) say (kind and   *)
(* num: the data length of SF and FF, the counter of CF) and the rest of   *)
(* its bytes.                                                              *)
(***************************************************************************)
EXTENDS Integers, Sequences

MaxPayload == 4095

Pad   == 0
Bytes == Nat

Kinds == {"SF", "FF", "CF", "FC", "OTHER", "EMPTY"}
Frames(arbs) == [arb : arbs, kind : Kinds, num : Nat, data : Seq(Bytes)]

\* The None of a message without arb_id.
NoArb == "None"

RxStates == {"EXPECT_SF_OR_FF", "SEND_FC", "EXPECT_CF", "COMPLETE", "ERROR"}
RxMessages(arbs) ==
  [arb : arbs \cup {NoArb}, state : RxStates, payload : Seq(Bytes),
   received : Nat, len : Nat, next : Nat]

\* The constructor, for a message to receive.
NewMessage(arb) ==
  [arb |-> arb, state |-> "EXPECT_SF_OR_FF", payload |-> <<>>,
   received |-> 0, len |-> 0, next |-> 0]

-----------------------------------------------------------------------------
(* format() *)

Least(a, b) == IF a < b THEN a ELSE b

\* payload[from-1:to] of a payload of n bytes.
Slice(n, from, to) == [i \in 1..(Least(n, to) - from + 1) |-> from + i - 1]

\* pad_message(): a frame has 8 bytes, one of which is not in data.
Padded(data, padding) ==
  IF padding THEN data \o [i \in 1..(7 - Len(data)) |-> Pad] ELSE data

\* Mutant of Consecutive: the payload is divided by 7 rounding up.
ConsecutiveRoundedUp(n) == IF n > 7 THEN (n + 6) \div 7 ELSE 0

\* Number of consecutive frames of a payload of n bytes.
Consecutive(n) == IF n > 7 THEN n \div 7 ELSE 0

\* Mutant of Counter: the counter starts at 0.
CounterFromZero(i) == (i - 1) % 15

\* The counter of consecutive frame i.
Counter(i) == i % 15

\* Frame number i, from 0, of a payload of n bytes.
Format(arb, n, padding, i) ==
  IF n <= 7
  THEN [arb |-> arb, kind |-> "SF", num |-> n % 15,
        data |-> Padded(Slice(n, 1, n), padding)]
  ELSE IF i = 0
  THEN [arb |-> arb, kind |-> "FF", num |-> n, data |-> Slice(n, 1, 6)]
  ELSE [arb |-> arb, kind |-> "CF", num |-> Counter(i),
        data |-> Padded(Slice(n, 7 * i, 7 * i + 6), padding)]

-----------------------------------------------------------------------------
(* feed() *)

Fail(m) == [m EXCEPT !.state = "ERROR"]

\* The first n bytes of data, or what there is of them.
Take(data, n) == SubSeq(data, 1, Least(n, Len(data)))

FeedFirst(m, f) ==
  CASE m.arb # NoArb /\ f.arb # m.arb -> Fail(m)
    [] f.kind = "SF" /\ m.arb \in {NoArb, f.arb} ->
         [m EXCEPT !.arb = f.arb, !.state = "COMPLETE",
                   !.payload = Take(f.data, f.num),
                   !.received = Least(f.num, Len(f.data))]
    [] f.kind = "FF" /\ m.arb \in {NoArb, f.arb} ->
         [m EXCEPT !.arb = f.arb, !.state = "SEND_FC", !.payload = f.data,
                   !.received = Len(f.data), !.len = f.num, !.next = 1]
    [] f.kind \notin {"SF", "FF"} /\ m.arb \in {NoArb, f.arb} ->
         Fail([m EXCEPT !.arb = f.arb])

\* The counter of the message is not reduced modulo anything.
CounterMatches(m, f) == f.num = m.next

\* Mutant of Fresh: the padding is not cut off.
FreshOrPadding(m, f) == f.data

\* What frame f adds to the payload of m.
Fresh(m, f) == Take(f.data, Least(7, m.len - m.received))

\* A frame of 8 bytes brings 7; the padding counts as received, but is left
\* out of the payload.
FeedNext(m, f) ==
  IF f.kind = "CF" /\ CounterMatches(m, f)
  THEN LET received == m.received + Len(f.data) IN
       [m EXCEPT !.payload  = @ \o Fresh(m, f),
                 !.received = received,
                 !.next     = @ + 1,
                 !.state    = IF received >= m.len THEN "COMPLETE" ELSE @]
  ELSE Fail(m)

\* A flow control frame is ignored, and so is any frame in the other states.
Feed(m, f) ==
  CASE f.kind = "EMPTY" -> Fail(m)
    [] f.kind \notin {"EMPTY", "FC"} /\ m.state = "EXPECT_SF_OR_FF" -> FeedFirst(m, f)
    [] f.kind \notin {"EMPTY", "FC"} /\ m.state = "EXPECT_CF"       -> FeedNext(m, f)
    [] OTHER -> m

\* After a first frame the handler sends flow control and moves on.
FlowControlled(m) == IF m.state = "SEND_FC" THEN [m EXCEPT !.state = "EXPECT_CF"] ELSE m
=============================================================================
