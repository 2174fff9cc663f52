----------------------- MODULE IsoTpLoopback_proofs -------------------------
(***************************************************************************)
(* Proofs about the round trip of a payload through format() and feed(),   *)
(* and about the UDS requests that are such payloads.                      *)
(***************************************************************************)
EXTENDS UdsRequests, IsoTpMessage_proofs, Naturals_proofs

LoopTypeOK ==
  /\ length \in Lengths /\ padding \in BOOLEAN /\ spoilt \in BOOLEAN
  /\ fed \in Nat /\ fed <= FrameCount
  /\ message \in RxMessages({"ecu"})

\* A message that expects its first frame has lost it, or is yet to get it.
NotBegun ==
  message.state = "EXPECT_SF_OR_FF" => message.payload = <<>> /\ (fed > 0 => spoilt)

\* A message under way counts the frames it was fed, and has fallen behind the sender if
\* one was lost; if none was, it has all bytes there have been.
UnderWay ==
  message.state = "EXPECT_CF" =>
    /\ length > 7 /\ message.len = length
    /\ message.next >= 1 /\ message.next <= fed
    /\ spoilt <=> message.next < fed
    /\ message.received < length /\ message.received <= 7 * message.next - 1
    /\ ~spoilt => /\ message.received = 7 * message.next - 1
                  /\ FirstBytes(message.payload, message.received)

Done ==
  message.state = "COMPLETE" =>
    \/ message.payload = ForeignPayload
    \/ fed = FrameCount /\ ~spoilt /\ FirstBytes(message.payload, length)

Failed == message.state = "ERROR" => spoilt \/ length > 104

\* With 15 consecutive frames or less a counter never comes round to the one expected.
Collected ==
  ~spoilt \/ length <= 111 =>
    \/ message.payload = ForeignPayload
    \/ \E k \in 0..length : FirstBytes(message.payload, k)

LoopInv ==
  /\ LoopTypeOK /\ NotBegun /\ UnderWay /\ Done /\ Failed /\ Collected
  /\ spoilt => fed > 0
  /\ message.state # "SEND_FC"

-----------------------------------------------------------------------------
LEMMA FrameCountIs ==
  ASSUME LoopTypeOK
  PROVE  /\ length \in Nat /\ FrameCount \in Nat /\ FrameCount >= 1
         /\ length <= 7 => FrameCount = 1
         /\ length > 7 => FrameCount = 1 + length \div 7 /\ FrameCount > 1
  BY LengthsAssumption DEF LoopTypeOK, FrameCount, Consecutive, MaxPayload

\* Neither flow control nor what follows a first frame changes more than the state.
LEMMA StateOnly ==
  ASSUME NEW m \in RxMessages({"ecu"})
  PROVE  /\ FlowControlled(m) \in RxMessages({"ecu"})
         /\ m.state # "SEND_FC" => FlowControlled(m) = m
         /\ m.state = "SEND_FC" => FlowControlled(m) = [m EXCEPT !.state = "EXPECT_CF"]
<1>1. "EXPECT_CF" \in RxStates
  BY DEF RxStates
<1> QED BY <1>1 DEF FlowControlled, RxMessages

LEMMA NoneCollected == FirstBytes(<<>>, 0)
  BY DEF FirstBytes, StartsWith

\* The frame of the other thread.
ForeignFrame(pad) ==
  [arb |-> "ecu", kind |-> "SF", num |-> 2, data |-> Padded(ForeignPayload, pad)]

LEMMA ForeignFrameIs ==
  ASSUME NEW pad \in BOOLEAN
  PROVE  /\ ForeignFrame(pad) \in Frames({"ecu"})
         /\ Take(ForeignFrame(pad).data, 2) = ForeignPayload
<1> DEFINE data == Padded(ForeignPayload, pad)
<1>1. /\ ForeignPayload \in Seq(Bytes) /\ Len(ForeignPayload) = 2
      /\ \A p \in Seq(Bytes) : Len(p) = 2 /\ p[1] = ForeignPayload[1] /\ p[2] = ForeignPayload[2]
           => p = ForeignPayload
  BY DEF ForeignPayload, Foreign, MaxPayload, Bytes
<1>2. /\ data \in Seq(Bytes) /\ Len(data) = IF pad THEN 7 ELSE Len(ForeignPayload)
      /\ \A i \in 1..Len(ForeignPayload) : data[i] = ForeignPayload[i]
  <2>1. ForeignPayload \in Seq(Bytes)
    BY <1>1
  <2>2. Len(ForeignPayload) <= 7
    BY <1>1
  <2> QED BY <2>1, <2>2, PaddedIs, Zenon
<1> HIDE DEF data
<1>3. data \in Seq(Bytes) /\ Len(data) >= 2
      /\ data[1] = ForeignPayload[1] /\ data[2] = ForeignPayload[2]
  <2>1. Len(ForeignPayload) = 2
    BY <1>1
  <2>2. /\ data \in Seq(Bytes) /\ Len(data) = IF pad THEN 7 ELSE 2
        /\ \A i \in 1..2 : data[i] = ForeignPayload[i]
    BY <1>2, <2>1, Zenon
  <2>3. \A k \in {2, 7} : k >= 2
    OBVIOUS
  <2>4. Len(data) = 2 \/ Len(data) = 7
    BY <2>2, Zenon
  <2>5. Len(data) >= 2
    BY <2>3, <2>4, Zenon
  <2> QED BY <2>2, <2>5
<1>4. Least(2, Len(data)) = 2
  <2>1. Len(data) \in Nat /\ 2 \in Nat /\ 2 <= Len(data)
    BY <1>3
  <2> QED BY <2>1, LeastIs, Zenon
<1>5. /\ Take(data, 2) \in Seq(Bytes) /\ Len(Take(data, 2)) = 2
      /\ \A i \in 1..2 : Take(data, 2)[i] = data[i]
  BY <1>3, <1>4, TakeIs, Zenon
<1>6. Take(data, 2) = ForeignPayload
  <2> DEFINE p == Take(data, 2)
  <2>1. p[1] = data[1] /\ p[2] = data[2]
    BY <1>5
  <2>2. p \in Seq(Bytes) /\ Len(p) = 2 /\ p[1] = ForeignPayload[1] /\ p[2] = ForeignPayload[2]
    BY <1>3, <1>5, <2>1
  <2> HIDE DEF p
  <2>3. p = ForeignPayload
    BY <1>1, <2>2, Zenon
  <2> QED BY <2>3 DEF p
<1>7. ForeignFrame(pad) = [arb |-> "ecu", kind |-> "SF", num |-> 2, data |-> data]
  BY DEF ForeignFrame, data
<1>8. ForeignFrame(pad) \in Frames({"ecu"}) /\ ForeignFrame(pad).data = data
  BY <1>3, <1>7 DEF Frames, Kinds
<1> QED BY <1>6, <1>8

-----------------------------------------------------------------------------
(* A frame of the payload is sent, by the state of the message *)

\* A frame arrives and leaves a message that is no longer waiting to send flow control.
LEMMA TypeStep ==
  ASSUME LoopInv, NEW f \in Frames({"ecu"}), f.kind # "EMPTY",
         message' = FlowControlled(Feed(message, f))
  PROVE  message' \in RxMessages({"ecu"})
<1>1. message \in RxMessages({"ecu"})
  BY DEF LoopInv, LoopTypeOK
<1>2. message.arb \in {NoArb, f.arb}
  BY <1>1 DEF RxMessages, Frames
<1>3. message.state = "EXPECT_CF" => message.received < message.len
  BY DEF LoopInv, UnderWay
<1>4. Feed(message, f) \in RxMessages({"ecu"})
  BY <1>1, <1>2, <1>3, FeedIsMessage
<1> QED BY <1>4, StateOnly

LEMMA SendSingle ==
  ASSUME LoopInv, SendFrame, message.state = "EXPECT_SF_OR_FF", fed = 0, length <= 7
  PROVE  message'.state = "COMPLETE" /\ FirstBytes(message'.payload, length)
<1> DEFINE f == Format("ecu", length, padding, 0)
           payload == Take(f.data, length)
           received == Least(length, Len(f.data))
<1>1. length \in 0..7 /\ length \in Nat /\ padding \in BOOLEAN
  <2>1. length \in Nat
    BY FrameCountIs DEF LoopInv
  <2> QED BY <2>1 DEF LoopInv, LoopTypeOK
<1>2. f = [arb |-> "ecu", kind |-> "SF", num |-> length, data |-> f.data]
      /\ StartsWith(f.data, length, 1)
  BY <1>1, SingleFrame, Zenon
<1>3. message' = FlowControlled(Feed(message, f))
  BY DEF SendFrame
<1>4. message \in RxMessages({"ecu"}) /\ message.arb \in {NoArb, "ecu"}
  BY DEF LoopInv, LoopTypeOK, RxMessages
<1> HIDE DEF f
<1>5. f.arb = "ecu" /\ f.kind = "SF" /\ f.num = length
  BY <1>2
<1>6. Feed(message, f) = [message EXCEPT !.arb = f.arb, !.state = "COMPLETE",
                                         !.payload = payload, !.received = received]
  BY <1>4, <1>5, FeedSingle
<1>7. FirstBytes(payload, length)
  BY <1>1, <1>2, TakenFirst
<1> HIDE DEF payload, received
<1>8. Feed(message, f).state = "COMPLETE" /\ Feed(message, f).payload = payload
  BY <1>4, <1>6 DEF RxMessages
<1> QED BY <1>3, <1>7, <1>8 DEF FlowControlled

LEMMA SendFirst ==
  ASSUME LoopInv, SendFrame, message.state = "EXPECT_SF_OR_FF", fed = 0, length > 7
  PROVE  /\ message'.state = "EXPECT_CF" /\ FirstBytes(message'.payload, 6)
         /\ message'.received = 6 /\ message'.len = length /\ message'.next = 1
<1> DEFINE f == Format("ecu", length, padding, 0)
           received == Len(f.data)
<1>1. length \in Nat /\ length > 7 /\ padding \in BOOLEAN
  BY FrameCountIs DEF LoopInv, LoopTypeOK
<1>2. /\ f = [arb |-> "ecu", kind |-> "FF", num |-> length, data |-> f.data]
      /\ StartsWith(f.data, 6, 1) /\ Len(f.data) = 6
  BY <1>1, FirstFrame, Zenon
<1>3. message' = FlowControlled(Feed(message, f))
  BY DEF SendFrame
<1>4. message \in RxMessages({"ecu"}) /\ message.arb \in {NoArb, "ecu"}
  BY DEF LoopInv, LoopTypeOK, RxMessages
<1> HIDE DEF f
<1>5. f.arb = "ecu" /\ f.kind = "FF" /\ f.num = length
  BY <1>2
<1>6. Feed(message, f) = [message EXCEPT !.arb = f.arb, !.state = "SEND_FC", !.payload = f.data,
                                         !.received = received, !.len = f.num, !.next = 1]
  BY <1>4, <1>5, FeedFirstFrame
<1>7. received = 6
  BY <1>2
<1> HIDE DEF received
<1>8. FirstBytes(f.data, 6)
  BY <1>2 DEF FirstBytes
<1>9. message' = [message EXCEPT !.arb = f.arb, !.state = "EXPECT_CF", !.payload = f.data,
                                 !.received = received, !.len = f.num, !.next = 1]
  BY <1>3, <1>4, <1>6 DEF FlowControlled, RxMessages
<1> QED BY <1>4, <1>5, <1>7, <1>8, <1>9 DEF RxMessages

\* The bytes of consecutive frame fed.
Sent == Format("ecu", length, padding, fed).data

LEMMA SentFrame ==
  ASSUME LoopTypeOK, SendFrame, fed > 0
  PROVE  /\ Format("ecu", length, padding, fed) =
              [arb |-> "ecu", kind |-> "CF", num |-> Counter(fed), data |-> Sent]
         /\ length > 7 /\ fed \in Nat \ {0} /\ 7 * fed <= length
         /\ StartsWith(Sent, Least(7, length - (7 * fed - 1)), 7 * fed)
         /\ Len(Sent) \in Nat /\ Len(Sent) <= 7
         /\ Len(Sent) = Least(7, length - (7 * fed - 1)) \/ Len(Sent) = 7
<1>1. /\ length \in Nat /\ length > 7 /\ padding \in BOOLEAN
      /\ fed \in Nat \ {0} /\ fed <= length \div 7
  BY FrameCountIs DEF LoopTypeOK, SendFrame
<1>2. fed <= Consecutive(length) /\ 7 * fed <= length
  BY <1>1 DEF Consecutive
<1>3. /\ Format("ecu", length, padding, fed) =
           [arb |-> "ecu", kind |-> "CF", num |-> Counter(fed), data |-> Sent]
      /\ StartsWith(Sent, Least(7, length - (7 * fed - 1)), 7 * fed)
      /\ Len(Sent) <= 7
      /\ Len(Sent) = Least(7, length - (7 * fed - 1)) \/ Len(Sent) = 7
  BY <1>1, <1>2, ConsecutiveFrame, Zenon DEF Sent
<1>4. Len(Sent) \in Nat
  BY <1>3 DEF StartsWith
<1> QED BY <1>1, <1>2, <1>3, <1>4, Zenon

LEMMA SendUnexpected ==
  ASSUME LoopInv, SendFrame, message.state = "EXPECT_SF_OR_FF", fed > 0
  PROVE  message'.state = "ERROR" /\ message'.payload = message.payload
<1> DEFINE f == Format("ecu", length, padding, fed)
<1>1. f = [arb |-> "ecu", kind |-> "CF", num |-> Counter(fed), data |-> Sent]
  BY SentFrame DEF LoopInv
<1>2. message' = FlowControlled(Feed(message, f))
  BY DEF SendFrame
<1> HIDE DEF f
<1>3. message \in RxMessages({"ecu"}) /\ message.arb \in {NoArb, f.arb}
  BY <1>1 DEF LoopInv, LoopTypeOK, RxMessages
<1>4. Feed(message, f) = Fail([message EXCEPT !.arb = f.arb])
  BY <1>1, <1>3, FeedUnexpected
<1>5. Feed(message, f) = [message EXCEPT !.arb = f.arb, !.state = "ERROR"]
  BY <1>4 DEF Fail
<1> QED BY <1>2, <1>3, <1>5 DEF FlowControlled, RxMessages

LEMMA SendConsecutive ==
  ASSUME LoopInv, SendFrame, message.state = "EXPECT_CF"
  PROVE  \/ /\ message'.state = "ERROR" /\ message'.payload = message.payload
            /\ Counter(fed) # message.next
         \/ /\ Counter(fed) = message.next
            /\ message'.payload =
                 message.payload \o Take(Sent, Least(7, length - message.received))
            /\ message'.received = message.received + Len(Sent)
            /\ message'.next = message.next + 1 /\ message'.len = length
            /\ message'.state =
                 IF message'.received >= length THEN "COMPLETE" ELSE "EXPECT_CF"
<1> DEFINE f == Format("ecu", length, padding, fed)
<1>0. fed > 0 /\ message.len = length
  BY DEF LoopInv, LoopTypeOK, UnderWay, RxMessages
<1>1. f = [arb |-> "ecu", kind |-> "CF", num |-> Counter(fed), data |-> Sent]
  BY <1>0, SentFrame DEF LoopInv
<1>2. message' = FlowControlled(Feed(message, f))
  BY DEF SendFrame
<1> HIDE DEF f
<1>3. message \in RxMessages({"ecu"})
  BY DEF LoopInv, LoopTypeOK
<1>4. f.kind = "CF" /\ f.num = Counter(fed) /\ f.data = Sent
  BY <1>1
<1>5. Feed(message, f) = FeedNext(message, f)
  BY <1>4, FeedConsecutive
<1>6. CASE Counter(fed) # message.next
  <2>1. Feed(message, f) = [message EXCEPT !.state = "ERROR"]
    BY <1>4, <1>5, <1>6 DEF FeedNext, CounterMatches, Fail
  <2> QED BY <1>2, <1>3, <1>6, <2>1 DEF FlowControlled, RxMessages
<1>7. CASE Counter(fed) = message.next
  <2> DEFINE received == message.received + Len(Sent)
             payload  == message.payload \o Take(Sent, Least(7, length - message.received))
             state    == IF received >= length THEN "COMPLETE" ELSE "EXPECT_CF"
             next     == message.next + 1
  <2>1. Feed(message, f) = [message EXCEPT !.payload = payload, !.received = received,
                                           !.next = next, !.state = state]
    BY <1>0, <1>4, <1>5, <1>7, Zenon DEF FeedNext, CounterMatches, Fresh
  <2>2. state # "SEND_FC"
    OBVIOUS
  <2> HIDE DEF payload, state, received, next
  <2>3. /\ Feed(message, f).state = state /\ Feed(message, f).payload = payload
        /\ Feed(message, f).received = received /\ Feed(message, f).next = next
        /\ Feed(message, f).len = message.len
    BY <1>3, <2>1 DEF RxMessages
  <2>4. message' = Feed(message, f)
    BY <1>2, <2>2, <2>3 DEF FlowControlled
  <2> QED BY <1>0, <1>7, <2>3, <2>4, Zenon DEF payload, state, received, next
<1> QED BY <1>6, <1>7

-----------------------------------------------------------------------------
(* Every step keeps the invariant *)

LEMMA SendType == LoopInv /\ SendFrame => LoopTypeOK' /\ (spoilt' => fed' > 0)
<1> SUFFICES ASSUME LoopInv, SendFrame
             PROVE  LoopTypeOK' /\ (spoilt' => fed' > 0)
  OBVIOUS
<1>1. /\ LoopTypeOK /\ length \in Nat /\ FrameCount \in Nat
      /\ fed \in Nat /\ fed < FrameCount /\ padding \in BOOLEAN
  BY FrameCountIs DEF LoopInv, LoopTypeOK, SendFrame
<1>2. fed <= Consecutive(length)
  BY <1>1, LengthsAssumption DEF FrameCount, Consecutive, MaxPayload
<1> DEFINE f == Format("ecu", length, padding, fed)
<1>3. f \in Frames({"ecu"})
  BY <1>1, <1>2, FormatIsFrame
<1>4. f.kind # "EMPTY"
  BY DEF Format
<1>5. message' = FlowControlled(Feed(message, f))
  BY DEF SendFrame
<1> HIDE DEF f
<1>6. message' \in RxMessages({"ecu"})
  BY <1>3, <1>4, <1>5, TypeStep
<1> QED BY <1>1, <1>6 DEF LoopTypeOK, SendFrame, FrameCount

LEMMA SendToNew ==
  ASSUME LoopInv, SendFrame, message.state = "EXPECT_SF_OR_FF"
  PROVE  LoopInv'
<1>1. LoopTypeOK' /\ (spoilt' => fed' > 0)
  BY SendType
<1>2. /\ length' = length /\ spoilt' = spoilt /\ fed' = fed + 1 /\ FrameCount' = FrameCount
      /\ fed \in Nat /\ length \in Nat /\ fed < FrameCount /\ spoilt \in BOOLEAN
  BY FrameCountIs DEF LoopInv, LoopTypeOK, SendFrame, FrameCount
<1>3. CASE fed = 0 /\ length <= 7
  <2>1. message'.state = "COMPLETE" /\ FirstBytes(message'.payload, length)
    BY <1>3, SendSingle
  <2>2. FrameCount = 1 /\ ~spoilt
    BY <1>2, <1>3, FrameCountIs DEF LoopInv
  <2>3. length \in 0..length
    BY <1>2
  <2> QED BY <1>1, <1>2, <1>3, <2>1, <2>2, <2>3
          DEF LoopInv, NotBegun, UnderWay, Done, Failed, Collected
<1>4. CASE fed = 0 /\ length > 7
  <2>1. /\ message'.state = "EXPECT_CF" /\ FirstBytes(message'.payload, 6)
        /\ message'.received = 6 /\ message'.len = length /\ message'.next = 1
    BY <1>4, SendFirst
  <2>2. ~spoilt /\ 6 \in 0..length
    BY <1>2, <1>4 DEF LoopInv
  <2> QED BY <1>1, <1>2, <1>4, <2>1, <2>2
          DEF LoopInv, NotBegun, UnderWay, Done, Failed, Collected
<1>5. CASE fed > 0
  <2>1. message'.state = "ERROR" /\ message'.payload = message.payload
    BY <1>5, SendUnexpected
  <2>2. spoilt /\ message.payload = <<>> /\ 0 \in 0..length
    BY <1>2, <1>5 DEF LoopInv, NotBegun
  <2> QED BY <1>1, <1>2, <2>1, <2>2, NoneCollected
          DEF LoopInv, NotBegun, UnderWay, Done, Failed, Collected
<1> QED BY <1>2, <1>3, <1>4, <1>5

\* After a loss the counter is one of a later frame, and not until the 16th consecutive
\* frame does it start again.
LEMMA NoMatchAfterLoss ==
  ASSUME LoopInv, SendFrame, message.state = "EXPECT_CF", length <= 111,
         Counter(fed) = message.next
  PROVE  ~spoilt
<1>1. /\ fed \in Nat /\ fed < FrameCount /\ message.next >= 1 /\ message.next \in Nat
      /\ FrameCount = 1 + length \div 7 /\ length \in Nat
      /\ spoilt <=> message.next < fed
  BY FrameCountIs DEF LoopInv, LoopTypeOK, UnderWay, SendFrame, RxMessages
<1>2. fed <= 15
  BY <1>1
<1> QED BY <1>1, <1>2 DEF Counter

LEMMA SendToUnderWay ==
  ASSUME LoopInv, SendFrame, message.state = "EXPECT_CF"
  PROVE  LoopInv'
<1> DEFINE next     == message.next
           received == message.received
           k        == Least(7, length - received)
           sent     == Len(Sent)
<1>1. LoopTypeOK' /\ (spoilt' => fed' > 0)
  BY SendType
<1>2. /\ length' = length /\ spoilt' = spoilt /\ fed' = fed + 1 /\ FrameCount' = FrameCount
      /\ fed \in Nat /\ length \in Nat /\ fed < FrameCount /\ spoilt \in BOOLEAN
      /\ FrameCount = 1 + length \div 7
  BY FrameCountIs DEF LoopInv, LoopTypeOK, UnderWay, SendFrame, FrameCount
<1>3. /\ length > 7 /\ next \in Nat /\ next >= 1 /\ next <= fed /\ (spoilt <=> next < fed)
      /\ received \in Nat /\ received < length /\ received <= 7 * next - 1
      /\ (~spoilt => received = 7 * next - 1 /\ FirstBytes(message.payload, received))
  BY DEF LoopInv, LoopTypeOK, UnderWay, RxMessages
<1>4. /\ 7 * fed <= length /\ StartsWith(Sent, Least(7, length - (7 * fed - 1)), 7 * fed)
      /\ sent \in Nat /\ sent <= 7
      /\ sent = Least(7, length - (7 * fed - 1)) \/ sent = 7
  <2>1. fed > 0
    BY <1>2, <1>3
  <2>2. LoopTypeOK
    BY DEF LoopInv
  <2> QED BY <2>1, <2>2, SentFrame, Zenon
<1> HIDE DEF next, received, sent
<1>5. CASE message'.state = "ERROR" /\ message'.payload = message.payload
           /\ Counter(fed) # message.next
  <2>1. spoilt \/ length > 104
    BY <1>2, <1>3, <1>5 DEF Counter, next
  <2>2. Collected'
    BY <1>2, <1>5 DEF LoopInv, Collected
  <2> QED BY <1>1, <1>2, <1>5, <2>1, <2>2 DEF LoopInv, NotBegun, UnderWay, Done, Failed
<1>6. CASE /\ Counter(fed) = message.next
           /\ message'.payload = message.payload \o Take(Sent, k)
           /\ message'.received = received + sent
           /\ message'.next = next + 1 /\ message'.len = length
           /\ message'.state =
                IF message'.received >= length THEN "COMPLETE" ELSE "EXPECT_CF"
  <2>1. CASE spoilt
    <3>1. message'.received < length /\ message'.received <= 7 * (next + 1) - 1
      BY <1>2, <1>3, <1>4, <1>6, <2>1
    <3>2. message'.state = "EXPECT_CF"
      BY <1>2, <1>3, <1>4, <1>6, <3>1
    <3>3. length > 111
      BY <1>2, <1>6, <2>1, NoMatchAfterLoss
    <3>4. UnderWay'
      BY <1>2, <1>3, <1>6, <2>1, <3>1 DEF UnderWay
    <3>5. Collected'
      BY <1>2, <2>1, <3>3 DEF Collected
    <3> QED BY <1>1, <3>2, <3>4, <3>5 DEF LoopInv, NotBegun, Done, Failed
  <2>2. CASE ~spoilt
    <3>1. next = fed /\ received = 7 * fed - 1 /\ FirstBytes(message.payload, received)
      BY <1>2, <1>3, <2>2
    <3>2. k \in Nat /\ StartsWith(Sent, k, received + 1) /\ (sent = k \/ sent = 7)
      BY <1>2, <1>3, <1>4, <3>1 DEF Least
    <3> HIDE DEF k
    <3>3. FirstBytes(message'.payload, received + k)
      BY <1>3, <1>6, <3>1, <3>2, TakenNext
    <3>4. CASE 7 * fed + 7 <= length
      <4>1. k = 7 /\ sent = 7 /\ received + k = 7 * (next + 1) - 1 /\ received + k < length
        BY <1>2, <3>1, <3>2, <3>4 DEF k, Least
      <4>2. message'.state = "EXPECT_CF" /\ message'.received = received + k
        BY <1>2, <1>3, <1>6, <4>1
      <4>3. received + k \in 0..length
        BY <1>2, <1>3, <4>1
      <4> QED BY <1>1, <1>2, <1>3, <1>6, <2>2, <3>1, <3>3, <4>1, <4>2, <4>3
              DEF LoopInv, NotBegun, UnderWay, Done, Failed, Collected
    <3>5. CASE 7 * fed + 7 > length
      <4>1. k = length - received /\ received + k = length /\ received + sent >= length
        BY <1>2, <1>3, <1>4, <3>1, <3>2, <3>5 DEF k, Least
      <4>2. message'.state = "COMPLETE"
        BY <1>6, <4>1
      <4>3. fed + 1 = FrameCount /\ length \in 0..length
        BY <1>2, <3>5
      <4> QED BY <1>1, <1>2, <2>2, <3>3, <4>1, <4>2, <4>3
              DEF LoopInv, NotBegun, UnderWay, Done, Failed, Collected
    <3> QED BY <1>2, <3>4, <3>5
  <2> QED BY <2>1, <2>2
<1> QED BY <1>5, <1>6, SendConsecutive DEF next, received, sent

LEMMA SendToOver ==
  ASSUME LoopInv, SendFrame, message.state \in {"COMPLETE", "ERROR"}
  PROVE  LoopInv'
<1> DEFINE f == Format("ecu", length, padding, fed)
<1>1. f.kind # "EMPTY"
  BY DEF Format
<1>2. message' = FlowControlled(Feed(message, f))
  BY DEF SendFrame
<1> HIDE DEF f
<1>3. message' = message
  BY <1>1, <1>2, FeedOver DEF FlowControlled
<1>4. /\ length' = length /\ spoilt' = spoilt /\ FrameCount' = FrameCount
      /\ fed < FrameCount /\ FrameCount \in Nat /\ fed \in Nat
  BY FrameCountIs DEF LoopInv, LoopTypeOK, SendFrame, FrameCount
<1>5. LoopTypeOK' /\ (spoilt' => fed' > 0)
  BY SendType
<1>6. message.state = "COMPLETE" => message.payload = ForeignPayload
  BY <1>4 DEF LoopInv, Done
<1>7. Done' /\ Failed' /\ Collected'
  BY <1>3, <1>4, <1>6 DEF LoopInv, Done, Failed, Collected
<1> QED BY <1>3, <1>5, <1>7 DEF LoopInv, NotBegun, UnderWay

LEMMA SendStep == LoopInv /\ SendFrame => LoopInv'
<1>1. LoopInv => message.state \in {"EXPECT_SF_OR_FF", "EXPECT_CF", "COMPLETE", "ERROR"}
  <2>1. LoopInv => message.state \in RxStates
    BY DEF LoopInv, LoopTypeOK, RxMessages
  <2> QED BY <2>1 DEF LoopInv, RxStates
<1> QED BY <1>1, SendToNew, SendToUnderWay, SendToOver

LEMMA SendFailsStep == LoopInv /\ SendFrameFails => LoopInv'
<1> SUFFICES ASSUME LoopInv, SendFrameFails
             PROVE  LoopInv'
  OBVIOUS
<1>1. /\ length' = length /\ padding' = padding /\ message' = message /\ FrameCount' = FrameCount
      /\ spoilt' /\ spoilt' \in BOOLEAN /\ fed' = fed + 1
      /\ fed \in Nat /\ fed < FrameCount /\ FrameCount \in Nat
  BY FrameCountIs DEF LoopInv, LoopTypeOK, SendFrameFails, FrameCount
<1>2. LoopTypeOK' /\ (spoilt' => fed' > 0)
  BY <1>1 DEF LoopInv, LoopTypeOK
<1>3. UnderWay'
  <2>1. message.next \in Nat
    BY DEF LoopInv, LoopTypeOK, RxMessages
  <2> QED BY <1>1, <2>1 DEF LoopInv, UnderWay
<1>4. Done' /\ Collected'
  <2>1. message.state = "COMPLETE" => message.payload = ForeignPayload
    BY <1>1 DEF LoopInv, Done
  <2>2. Collected'
    BY <1>1 DEF LoopInv, Collected
  <2> QED BY <1>1, <2>1, <2>2 DEF Done
<1> QED BY <1>1, <1>2, <1>3, <1>4 DEF LoopInv, NotBegun, Failed

LEMMA OtherStep == LoopInv /\ OtherThreadSends => LoopInv'
<1> SUFFICES ASSUME LoopInv, OtherThreadSends
             PROVE  LoopInv'
  OBVIOUS
<1> DEFINE f == ForeignFrame(padding)
<1>1. message' = FlowControlled(Feed(message, f))
  BY DEF OtherThreadSends, ForeignFrame
<1>2. f \in Frames({"ecu"}) /\ Take(f.data, 2) = ForeignPayload
  BY ForeignFrameIs DEF LoopInv, LoopTypeOK
<1>3. f.kind = "SF" /\ f.num = 2 /\ f.arb = "ecu"
  BY DEF ForeignFrame
<1> HIDE DEF f
<1>4. /\ length' = length /\ padding' = padding /\ fed' = fed /\ FrameCount' = FrameCount
      /\ spoilt' /\ spoilt' \in BOOLEAN /\ fed \in Nat /\ fed > 0
  BY FrameCountIs DEF LoopInv, LoopTypeOK, OtherThreadSends, FrameCount
<1>5. message' \in RxMessages({"ecu"})
  BY <1>1, <1>2, <1>3, TypeStep
<1>6. LoopTypeOK' /\ (spoilt' => fed' > 0)
  BY <1>4, <1>5 DEF LoopInv, LoopTypeOK
<1>7. message \in RxMessages({"ecu"}) /\ message.arb \in {NoArb, f.arb}
  BY <1>3 DEF LoopInv, LoopTypeOK, RxMessages
<1>8. CASE message.state = "EXPECT_SF_OR_FF"
  <2> DEFINE received == Least(2, Len(f.data))
  <2>1. Feed(message, f) = [message EXCEPT !.arb = f.arb, !.state = "COMPLETE",
                              !.payload = Take(f.data, f.num), !.received = Least(f.num, Len(f.data))]
    BY <1>3, <1>7, <1>8, FeedSingle, Zenon
  <2>2. Feed(message, f) = [message EXCEPT !.arb = f.arb, !.state = "COMPLETE",
                                           !.payload = ForeignPayload, !.received = received]
    BY <1>2, <1>3, <2>1
  <2> HIDE DEF received
  <2>3. message'.state = "COMPLETE" /\ message'.payload = ForeignPayload
    BY <1>1, <1>7, <2>2 DEF FlowControlled, RxMessages
  <2> QED BY <1>6, <2>3 DEF LoopInv, NotBegun, UnderWay, Done, Failed, Collected
<1>9. CASE message.state = "EXPECT_CF"
  <2>1. Feed(message, f) = [message EXCEPT !.state = "ERROR"]
    BY <1>3, <1>9, FeedConsecutive DEF FeedNext, Fail
  <2>2. message'.state = "ERROR" /\ message'.payload = message.payload
    BY <1>1, <1>7, <2>1 DEF FlowControlled, RxMessages
  <2>3. Collected'
    BY <1>4, <2>2 DEF LoopInv, Collected
  <2> QED BY <1>4, <1>6, <2>2, <2>3 DEF LoopInv, NotBegun, UnderWay, Done, Failed
<1>10. CASE message.state = "ERROR"
  <2>1. message' = message
    BY <1>1, <1>3, <1>10, FeedOver DEF FlowControlled
  <2>2. Collected'
    BY <1>4, <2>1 DEF LoopInv, Collected
  <2> QED BY <1>4, <1>6, <1>10, <2>1, <2>2 DEF LoopInv, NotBegun, UnderWay, Done, Failed
<1>11. CASE message.state = "COMPLETE"
  <2>1. message' = message
    BY <1>1, <1>3, <1>11, FeedOver DEF FlowControlled
  <2>2. message.payload = ForeignPayload
    <3>1. fed # FrameCount
      BY FrameCountIs DEF LoopInv, LoopTypeOK, OtherThreadSends
    <3> QED BY <1>11, <3>1 DEF LoopInv, Done
  <2>3. Collected' /\ Done'
    BY <2>1, <2>2 DEF Collected, Done
  <2> QED BY <1>6, <1>11, <2>1, <2>3 DEF LoopInv, NotBegun, UnderWay, Failed
<1>12. message.state \in {"EXPECT_SF_OR_FF", "EXPECT_CF", "COMPLETE", "ERROR"}
  <2>1. message.state \in RxStates
    BY <1>7 DEF RxMessages
  <2> QED BY <2>1 DEF LoopInv, RxStates
<1> QED BY <1>8, <1>9, <1>10, <1>11, <1>12

LEMMA LoopInitial == LoopbackInit => LoopInv
<1> SUFFICES ASSUME LoopbackInit
             PROVE  LoopInv
  OBVIOUS
<1>1. length \in Lengths /\ length \in Nat /\ padding \in BOOLEAN /\ fed = 0 /\ spoilt = FALSE
  BY LengthsAssumption DEF LoopbackInit, MaxPayload
<1>2. fed <= FrameCount /\ fed \in Nat
  BY <1>1 DEF FrameCount, Consecutive
<1>3. PICK arb \in {"ecu", NoArb} : message = NewMessage(arb)
  BY DEF LoopbackInit
<1>4. message \in RxMessages({"ecu"})
  <2>1. "EXPECT_SF_OR_FF" \in RxStates
    BY DEF RxStates
  <2>2. <<>> \in Seq(Bytes)
    OBVIOUS
  <2> QED BY <1>3, <2>1, <2>2 DEF NewMessage, RxMessages
<1>5. message.state = "EXPECT_SF_OR_FF" /\ message.payload = <<>>
  BY <1>3 DEF NewMessage
<1>6. 0 \in 0..length
  BY <1>1
<1>7. LoopTypeOK
  BY <1>1, <1>2, <1>4 DEF LoopTypeOK
<1>8. Collected
  BY <1>5, <1>6, NoneCollected DEF Collected
<1> QED BY <1>1, <1>5, <1>7, <1>8 DEF LoopInv, NotBegun, UnderWay, Done, Failed

LEMMA LoopInvariant == LoopbackSpec => []LoopInv
<1>1. LoopInv /\ [LoopbackNext]_loopbackVars => LoopInv'
  <2>1. CASE LoopInv /\ LoopbackNext
    BY <2>1, SendStep, SendFailsStep, OtherStep DEF LoopbackNext
  <2>2. CASE LoopInv /\ UNCHANGED loopbackVars
    BY <2>2 DEF LoopInv, LoopTypeOK, NotBegun, UnderWay, Done, Failed, Collected, FrameCount, loopbackVars
  <2> QED BY <2>1, <2>2
<1> QED BY <1>1, LoopInitial, PTL DEF LoopbackSpec

-----------------------------------------------------------------------------
(* What the runs check, for every set of lengths *)

\* For all payloads that format() accepts: a message is complete only with the last frame,
\* with all bytes, and never if a frame was lost or another one came in between
\* (iso_tp_message.py:106-120).
THEOREM CompleteCorrect == LoopbackSpec => []CompleteAtTheEnd
<1>1. LoopInv => CompleteAtTheEnd
  BY DEF LoopInv, Done, CompleteAtTheEnd, FirstBytes
<1> QED BY <1>1, LoopInvariant, PTL

\* Payloads of up to 15 consecutive frames are collected without a gap, a repetition or a
\* byte of padding, whatever is lost.  With 16, a loss of 15 in a row goes unnoticed, as
\* the counter comes round (iso_tp_message.py:109-113).
THEOREM PrefixCorrect ==
  ASSUME Lengths \subseteq 0..111
  PROVE  LoopbackSpec => []CollectsPrefix
<1>1. LoopInv => CollectsPrefix
  <2> SUFFICES ASSUME LoopInv, message.payload # ForeignPayload
               PROVE  CollectsPrefix
    BY DEF CollectsPrefix
  <2>1. length \in Nat /\ length <= 111
    BY DEF LoopInv, LoopTypeOK
  <2>2. PICK k \in 0..length : FirstBytes(message.payload, k)
    BY <2>1 DEF LoopInv, Collected
  <2>3. message.payload \in Seq(Bytes) /\ Len(message.payload) = k
        /\ \A i \in 1..k : message.payload[i] = 1 + i - 1
    BY <2>2 DEF FirstBytes, StartsWith
  <2>4. DOMAIN message.payload = 1..k
    BY <2>3
  <2> QED BY <2>1, <2>3, <2>4 DEF CollectsPrefix
<1> QED BY <1>1, LoopInvariant, PTL

\* Payloads of up to 14 consecutive frames arrive completely, unless a frame is lost or
\* another thread sends in between (iso_tp_message.py:122-160).
THEOREM RoundTripCorrect ==
  ASSUME Lengths \subseteq 0..104
  PROVE  LoopbackSpec => []RoundTrip
<1>1. LoopInv => RoundTrip
  <2> SUFFICES ASSUME LoopInv, fed = FrameCount, ~spoilt
               PROVE  message.state = "COMPLETE"
    BY DEF RoundTrip
  <2>1. length \in Nat /\ length <= 104 /\ FrameCount \in Nat /\ FrameCount >= 1
        /\ (length > 7 => FrameCount = 1 + length \div 7)
    BY FrameCountIs DEF LoopInv, LoopTypeOK
  <2>2. message.state # "EXPECT_SF_OR_FF"
    BY <2>1 DEF LoopInv, NotBegun
  <2>3. message.state # "ERROR"
    BY <2>1 DEF LoopInv, Failed
  <2>4. message.state # "EXPECT_CF"
    <3>1. message.next \in Nat /\ message.received \in Nat
      BY DEF LoopInv, LoopTypeOK, RxMessages
    <3> SUFFICES ASSUME message.state = "EXPECT_CF" PROVE FALSE
      OBVIOUS
    <3>2. /\ length > 7 /\ message.received < length
          /\ message.next <= fed /\ ~(message.next < fed)
          /\ message.received = 7 * message.next - 1
      BY DEF LoopInv, UnderWay
    <3>3. message.next = FrameCount
      BY <2>1, <3>1, <3>2
    <3> QED BY <2>1, <3>2, <3>3
  <2>5. message.state \in RxStates
    BY DEF LoopInv, LoopTypeOK, RxMessages
  <2> QED BY <2>2, <2>3, <2>4, <2>5 DEF LoopInv, RxStates
<1> QED BY <1>1, LoopInvariant, PTL

-----------------------------------------------------------------------------
(* The numbers and lengths in a request, for bytes of any number of values *)

LEMMA PowerIs ==
  /\ Power[0] = 1
  /\ \A n \in 1..8 : Power[n] = Base * Power[n - 1]
  /\ \A n \in 0..8 : Power[n] \in Nat \ {0}
<1> DEFINE h == [k \in 1..8 |-> [x \in Nat |-> Base * x]]
           IsPower(g) == g = [n \in 0..8 |-> IF n = 0 THEN 1 ELSE Base * g[n - 1]]
<1>1. Base \in Nat /\ Base > 1
  BY BaseAssumption
<1>2. PICK g \in [0..8 -> Nat] : IsRecursion(g, 8, 1, h)
  <2>1. \A x \in Nat : Base * x \in Nat
    BY <1>1
  <2>2. h \in [1..8 -> [Nat -> Nat]]
    BY <2>1
  <2>3. 1 \in Nat /\ 8 \in Nat
    OBVIOUS
  <2> HIDE DEF h
  <2> QED BY <2>2, <2>3, Recursion
<1>3. IsPower(g)
  <2>1. \A n \in 0..8 : n # 0 => h[n][g[n - 1]] = Base * g[n - 1]
    <3>1. \A n \in 0..8 : n # 0 => n \in 1..8 /\ g[n - 1] \in Nat
      OBVIOUS
    <3> QED BY <3>1
  <2> HIDE DEF h
  <2> QED BY <1>2, <2>1 DEF IsRecursion
<1>4. Power = CHOOSE f : IsPower(f)
  BY DEF Power
<1>5. IsPower(Power)
  <2> HIDE DEF IsPower
  <2> QED BY <1>3, <1>4
<1>6. Power[0] = 1 /\ \A n \in 1..8 : Power[n] = Base * Power[n - 1]
  <2>1. 0 \in 0..8 /\ \A n \in 1..8 : n \in 0..8 /\ n # 0
    OBVIOUS
  <2> QED BY <1>5, <2>1
<1>7. \A n \in 0..8 : Power[n] \in Nat \ {0}
  <2> DEFINE Pos(n) == Power[n] \in Nat \ {0}
  <2>1. ASSUME NEW n \in 1..8, Pos(n - 1) PROVE Pos(n)
    <3>1. \A x \in Nat \ {0} : Base * x \in Nat \ {0}
      BY <1>1
    <3> QED BY <1>6, <2>1, <3>1
  <2>2. Pos(0)
    BY <1>6
  <2> HIDE DEF Pos
  <2>3. Pos(1) /\ Pos(2) /\ Pos(3) /\ Pos(4)
    BY <2>1, <2>2
  <2>4. Pos(5) /\ Pos(6) /\ Pos(7) /\ Pos(8)
    BY <2>1, <2>3
  <2>5. \A n \in 0..8 : Pos(n)
    BY <2>2, <2>3, <2>4
  <2> QED BY <2>5 DEF Pos
<1> QED BY <1>6, <1>7

\* calc_byte_size() finds bytes enough, if eight are.
LEMMA ByteSizeIs ==
  ASSUME NEW v \in Nat
  PROVE  ByteSize(v) \in 1..8 /\ (Fits(v, 8) => Fits(v, ByteSize(v)))
<1>1. CASE v < Power[7]
  <2> DEFINE enough == {n \in 1..7 : v < Power[n]}
  <2>1. 7 \in enough /\ enough \in SUBSET Nat
    BY <1>1
  <2>2. \E x \in enough : \A y \in enough : x <= y
    BY <2>1, LeastOf
  <2>3. Min(enough) \in enough
    BY <2>2 DEF Min
  <2>4. ByteSize(v) = Min(enough)
    BY <1>1 DEF ByteSize
  <2> HIDE DEF ByteSize
  <2>5. ByteSize(v) \in 1..7 /\ v < Power[ByteSize(v)]
    BY <2>3, <2>4
  <2> QED BY <2>5 DEF Fits
<1>2. CASE ~(v < Power[7])
  <2>1. ByteSize(v) = 8
    BY <1>2 DEF ByteSize
  <2> QED BY <2>1
<1> QED BY <1>1, <1>2

\* to_bytes(): digits of the number.
LEMMA NumberIs ==
  ASSUME NEW v \in Nat, NEW n \in 1..8
  PROVE  /\ Number(v, n) \in Seq(Nat) /\ Len(Number(v, n)) = n
         /\ \A i \in 1..n : Number(v, n)[i] = (v \div Power[n - i]) % Base
<1>1. \A i \in 1..n : Power[n - i] \in Nat \ {0}
  BY PowerIs
<1>2. \A i \in 1..n : (v \div Power[n - i]) % Base \in Nat
  <2>1. \A i \in 1..n : v \div Power[n - i] \in Nat
    BY <1>1, Division
  <2> QED BY <2>1, Division, BaseAssumption
<1>3. Number(v, n) = [i \in 1..n |-> (v \div Power[n - i]) % Base]
  BY DEF Number
<1> QED BY <1>2, <1>3

\* Read as a number, they give it again.
LEMMA ValueOfNumber ==
  ASSUME NEW v \in Nat, NEW n \in 1..8, Fits(v, n)
  PROVE  ValueOf(Number(v, n)) = v
<1> DEFINE d == Number(v, n)
           h == [k \in 1..n |-> [x \in Nat |-> Base * x + d[k]]]
           IsValue(g) == g = [k \in 0..Len(d) |-> IF k = 0 THEN 0 ELSE Base * g[k - 1] + d[k]]
           value == CHOOSE g : IsValue(g)
           Upto(k) == value[k] = v \div Power[n - k]
<1>1. /\ d \in Seq(Nat) /\ Len(d) = n
      /\ \A i \in 1..n : d[i] = (v \div Power[n - i]) % Base /\ d[i] \in Nat
  <2>1. d \in Seq(Nat) /\ Len(d) = n /\ \A i \in 1..n : d[i] = (v \div Power[n - i]) % Base
    BY NumberIs
  <2> HIDE DEF d
  <2> QED BY <2>1
<1>2. Base \in Nat /\ Base > 1 /\ Base \in Nat \ {0}
  BY BaseAssumption
<1>3. ValueOf(d) = value[n]
  <2>1. ValueOf(d) = value[Len(d)]
    BY DEF ValueOf
  <2> HIDE DEF d, value
  <2> QED BY <1>1, <2>1
<1> HIDE DEF d
<1>4. PICK g \in [0..n -> Nat] : IsRecursion(g, n, 0, h)
  <2>1. \A k \in 1..n : \A x \in Nat : Base * x + d[k] \in Nat
    BY <1>1, <1>2
  <2>2. h \in [1..n -> [Nat -> Nat]]
    BY <2>1
  <2>3. n \in Nat /\ 0 \in Nat
    OBVIOUS
  <2> HIDE DEF h
  <2> QED BY <2>2, <2>3, Recursion
<1>5. IsValue(g)
  <2>1. \A k \in 0..n : k # 0 => h[k][g[k - 1]] = Base * g[k - 1] + d[k]
    <3>1. \A k \in 0..n : k # 0 => k \in 1..n /\ g[k - 1] \in Nat
      OBVIOUS
    <3> QED BY <3>1
  <2> HIDE DEF h
  <2> QED BY <1>1, <1>4, <2>1 DEF IsRecursion
<1>6. IsValue(value)
  <2> HIDE DEF IsValue
  <2> QED BY <1>5
<1> HIDE DEF value
<1>7. value[0] = 0 /\ \A k \in 1..n : value[k] = Base * value[k - 1] + d[k]
  <2>1. 0 \in 0..n /\ \A k \in 1..n : k \in 0..n /\ k # 0
    OBVIOUS
  <2> QED BY <1>1, <1>6, <2>1
<1>8. Upto(0)
  <2>1. Power[n] \in Nat \ {0} /\ v < Power[n]
    <3>1. n \in 0..8
      OBVIOUS
    <3>2. Power[n] \in Nat \ {0}
      BY <3>1, PowerIs
    <3>3. v < Power[n]
      BY DEF Fits
    <3> QED BY <3>2, <3>3
  <2>2. (Power[n] * 0 + v) \div Power[n] = 0
    BY <2>1, Divided
  <2>3. Power[n] * 0 + v = v
    BY <2>1
  <2> QED BY <1>7, <2>2, <2>3
<1>9. ASSUME NEW k \in 1..n, Upto(k - 1) PROVE Upto(k)
  <2> DEFINE c == Power[n - k]
             q == v \div c
  <2>1. c \in Nat \ {0} /\ Power[n - (k - 1)] = Base * c
    <3>1. n - k \in 0..8 /\ n - (k - 1) \in 1..8 /\ n - (k - 1) - 1 = n - k
      OBVIOUS
    <3> QED BY <3>1, PowerIs
  <2>2. q \in Nat
    BY <2>1, Division
  <2>3. value[k - 1] = q \div Base
    <3>1. v \div (Base * c) = q \div Base
      BY <1>2, <2>1, DividedTwice
    <3> QED BY <1>9, <2>1, <3>1
  <2>4. d[k] = q % Base
    BY <1>1
  <2> HIDE DEF q
  <2>5. q = Base * (q \div Base) + (q % Base)
    BY <1>2, <2>2, Division
  <2>6. value[k] = Base * value[k - 1] + d[k]
    BY <1>7
  <2>7. value[k] = q
    BY <2>3, <2>4, <2>5, <2>6
  <2> QED BY <2>7 DEF q
<1>10. Upto(n)
  <2> HIDE DEF Upto
  <2> DEFINE S == {m \in Nat : m <= n => Upto(m)}
  <2>1. 0 \in S
    BY <1>8
  <2>2. ASSUME NEW m \in Nat, m \in S PROVE m + 1 \in S
    <3>1. SUFFICES ASSUME m + 1 <= n PROVE Upto(m + 1)
      OBVIOUS
    <3>2. m + 1 \in 1..n /\ (m + 1) - 1 = m /\ Upto(m)
      BY <2>2, <3>1
    <3> QED BY <1>9, <3>2
  <2>3. Nat \subseteq S
    <3> HIDE DEF S
    <3>1. \A m \in Nat : m \in S => m + 1 \in S
      BY <2>2
    <3> QED BY <2>1, <3>1, SetInduction
  <2> QED BY <2>3
<1>11. v \div 1 = v
  OBVIOUS
<1>12. value[n] = v
  BY <1>10, <1>11, PowerIs
<1> QED BY <1>3, <1>12 DEF d

\* One byte.
LEMMA OneByte ==
  ASSUME NEW v \in Nat, Fits(v, 1)
  PROVE  Number(v, 1) = <<v>>
<1>1. Power[0] = 1 /\ Power[1] = Base
  BY PowerIs, BaseAssumption
<1>2. v < Base /\ Base \in Nat \ {0}
  BY <1>1, BaseAssumption DEF Fits
<1>3. (v \div 1) % Base = v
  BY <1>2
<1>4. Number(v, 1)[1] = v
  <2>1. Number(v, 1)[1] = (v \div Power[0]) % Base
    BY DEF Number
  <2> QED BY <1>1, <1>3, <2>1
<1>5. Number(v, 1) \in Seq(Nat) /\ Len(Number(v, 1)) = 1
  BY NumberIs
<1> QED BY <1>4, <1>5

-----------------------------------------------------------------------------
(* The bytes of a request, and what is read from them *)

\* s, and then t.
IsJoined(u, s, t) ==
  /\ u \in Seq(Nat) /\ Len(u) = Len(s) + Len(t)
  /\ \A i \in 1..Len(s) : u[i] = s[i]
  /\ \A i \in 1..Len(t) : u[Len(s) + i] = t[i]

LEMMA Joined ==
  \A s, t \in Seq(Nat) : IsJoined(s \o t, s, t)
  BY DEF IsJoined

LEMMA JoinedFront ==
  ASSUME NEW s \in Seq(Nat), NEW u \in Seq(Nat), Len(s) <= Len(u),
         \A i \in 1..Len(s) : u[i] = s[i]
  PROVE  SubSeq(u, 1, Len(s)) = s
<1>1. SubSeq(u, 1, Len(s)) \in Seq(Nat)
  OBVIOUS
<1>2. Len(SubSeq(u, 1, Len(s))) = Len(s)
  OBVIOUS
<1>3. ASSUME NEW i \in 1..Len(s)
      PROVE  SubSeq(u, 1, Len(s))[i] = s[i]
  OBVIOUS
<1> QED BY <1>1, <1>2, <1>3, SeqEqual, Zenon

LEMMA RestIsSequence ==
  ASSUME NEW k \in Nat, NEW n \in Nat, k <= n, NEW u \in Seq(Nat), Len(u) = n
  PROVE  SubSeq(u, k + 1, n) \in Seq(Nat) /\ Len(SubSeq(u, k + 1, n)) = n - k
  OBVIOUS

LEMMA RestElement ==
  ASSUME NEW k \in Nat, NEW n \in Nat, k <= n, NEW u \in Seq(Nat), Len(u) = n, NEW i \in 1..(n - k)
  PROVE  SubSeq(u, k + 1, n)[i] = u[k + i]
  OBVIOUS

LEMMA JoinedRest ==
  ASSUME NEW s \in Seq(Nat), NEW t \in Seq(Nat), NEW u \in Seq(Nat), Len(u) = Len(s) + Len(t),
         \A i \in 1..Len(t) : u[Len(s) + i] = t[i]
  PROVE  SubSeq(u, Len(s) + 1, Len(u)) = t
<1> DEFINE k == Len(s)
           n == Len(u)
           rest == SubSeq(u, k + 1, n)
<1>1. k \in Nat /\ n \in Nat /\ k <= n /\ n - k = Len(t)
  OBVIOUS
<1>2. rest \in Seq(Nat) /\ Len(rest) = n - k
  BY <1>1, RestIsSequence, Zenon
<1>3. \A i \in 1..(n - k) : rest[i] = u[k + i]
  BY <1>1, RestElement, Zenon
<1>4. \A i \in 1..Len(rest) : rest[i] = t[i]
  BY <1>1, <1>2, <1>3, Zenon
<1> QED BY <1>1, <1>2, <1>4, SeqEqual, Zenon

\* A service and its byte.
LEMMA TwoBytes ==
  ASSUME NEW a \in Nat, NEW b \in Nat
  PROVE  <<a>> \o <<b>> = <<a, b>>
<1> DEFINE s == <<a>>
           t == <<b>>
           u == s \o t
<1>1. /\ s \in Seq(Nat) /\ Len(s) = 1 /\ s[1] = a
      /\ t \in Seq(Nat) /\ Len(t) = 1 /\ t[1] = b
  OBVIOUS
<1> HIDE DEF s, t
<1>2. IsJoined(u, s, t)
  BY <1>1, Joined, Zenon
<1> HIDE DEF u
<1>3. u \in Seq(Nat) /\ Len(u) = 2 /\ u[1] = a /\ u[2] = b
  BY <1>1, <1>2 DEF IsJoined
<1>4. u = <<a, b>>
  BY <1>3
<1> QED BY <1>4 DEF u, s, t

LEMMA AnyBytesIs ==
  ASSUME NEW n \in Nat
  PROVE  AnyBytes(n) \in Seq(Nat) /\ Len(AnyBytes(n)) = n
<1>1. \A i \in 1..n : i % Base \in Nat
  BY BaseAssumption
<1> QED BY <1>1 DEF AnyBytes

LEMMA EncodedIsRead ==
  ASSUME NEW r \in Requests, ~Raises(r), r.call # "upload"
  PROVE  Encoded(r) \in Seq(Nat) /\ ReadsAs(Encoded(r), r)
<1>1. /\ r.call \in {"start", "seed", "key", "data", "transfer", "upload", "download", "request"}
      /\ r.number \in Nat /\ r.length \in Nat
  BY RequestsAssumption
<1>2. CASE r.call = "start"
  <2>1. Fits(r.number, 1)
    BY <1>2 DEF Raises
  <2>2. Number(r.number, 1) = <<r.number>>
    BY <1>1, <2>1, OneByte
  <2>3. Encoded(r) = <<16>> \o <<r.number>>
    BY <1>2, <2>2, Zenon DEF Encoded
  <2>4. <<16>> \o <<r.number>> = <<16, r.number>>
    BY <1>1, TwoBytes
  <2> QED BY <1>1, <1>2, <2>3, <2>4 DEF ReadsAs
<1>3. CASE r.call = "seed"
  <2>1. Fits(r.number, 1)
    BY <1>3 DEF Raises
  <2>2. Number(r.number, 1) = <<r.number>>
    BY <1>1, <2>1, OneByte
  <2>3. Encoded(r) = <<39>> \o <<r.number>>
    BY <1>3, <2>2, Zenon DEF Encoded
  <2>4. <<39>> \o <<r.number>> = <<39, r.number>>
    BY <1>1, TwoBytes
  <2> QED BY <1>1, <1>3, <2>3, <2>4 DEF ReadsAs
<1>4. CASE r.call = "transfer"
  <2>1. Fits(r.number, 1)
    BY <1>4 DEF Raises
  <2>2. Number(r.number, 1) = <<r.number>>
    BY <1>1, <2>1, OneByte
  <2>3. Encoded(r) = <<54>> \o <<r.number>>
    BY <1>4, <2>2, Zenon DEF Encoded
  <2>4. <<54>> \o <<r.number>> = <<54, r.number>>
    BY <1>1, TwoBytes
  <2> QED BY <1>1, <1>4, <2>3, <2>4 DEF ReadsAs
<1>5. CASE r.call = "key"
  <2>1. Fits(r.number + 1, 1) /\ r.number + 1 \in Nat
    BY <1>1, <1>5 DEF Raises
  <2>2. Number(r.number + 1, 1) = <<r.number + 1>>
    BY <2>1, OneByte
  <2> DEFINE head == <<39, r.number + 1>>
             key == AnyBytes(r.length)
  <2>3. Encoded(r) = head \o key
    <3>1. Encoded(r) = <<39>> \o Number(r.number + 1, 1) \o AnyBytes(r.length)
      BY <1>5, Zenon DEF Encoded
    <3>2. <<39>> \o <<r.number + 1>> = head
      BY <2>1, TwoBytes
    <3> QED BY <2>2, <3>1, <3>2, Zenon
  <2>4. key \in Seq(Nat) /\ Len(key) = r.length
    BY <1>1, AnyBytesIs
  <2>5. head \in Seq(Nat) /\ Len(head) = 2
    BY <1>1
  <2> HIDE DEF head, key
  <2>6. IsJoined(head \o key, head, key)
    BY <2>4, <2>5, Joined, Zenon
  <2>7. /\ SubSeq(head \o key, 1, 2) = head
        /\ SubSeq(head \o key, 3, Len(head \o key)) = key
    <3> DEFINE u == head \o key
    <3> HIDE DEF u
    <3>0. /\ u \in Seq(Nat) /\ Len(u) = Len(head) + Len(key) /\ Len(head) <= Len(u)
          /\ \A i \in 1..Len(head) : u[i] = head[i]
          /\ \A i \in 1..Len(key) : u[Len(head) + i] = key[i]
      BY <2>4, <2>5, <2>6 DEF IsJoined, u
    <3>1. SubSeq(u, 1, Len(head)) = head /\ SubSeq(u, Len(head) + 1, Len(u)) = key
      BY <2>4, <2>5, <3>0, JoinedFront, JoinedRest, Zenon
    <3>2. Len(head) + 1 = 3
      BY <2>5
    <3> QED BY <2>5, <3>1, <3>2, Zenon DEF u
  <2>8. head \o key \in Seq(Nat)
    BY <2>6 DEF IsJoined
  <2> QED BY <1>5, <2>3, <2>7, <2>8 DEF ReadsAs, head, key
<1>6. CASE r.call = "data"
  <2> DEFINE d == Number(r.number, 2)
  <2>1. Fits(r.number, 2)
    BY <1>6 DEF Raises
  <2>2. d \in Seq(Nat) /\ Len(d) = 2 /\ ValueOf(d) = r.number
    <3>1. 2 \in 1..8
      OBVIOUS
    <3> QED BY <1>1, <2>1, <3>1, NumberIs, ValueOfNumber
  <2>3. Encoded(r) = <<34>> \o d
    BY <1>6, Zenon DEF Encoded
  <2> HIDE DEF d
  <2>4. /\ <<34>> \o d \in Seq(Nat) /\ Len(<<34>> \o d) = 3 /\ (<<34>> \o d)[1] = 34
        /\ (<<34>> \o d)[2] = d[1] /\ (<<34>> \o d)[3] = d[2]
    <3>1. <<34>> \in Seq(Nat) /\ Len(<<34>>) = 1 /\ <<34>>[1] = 34
      OBVIOUS
    <3>2. IsJoined(<<34>> \o d, <<34>>, d)
      BY <2>2, <3>1, Joined, Zenon
    <3> QED BY <2>2, <3>1, <3>2 DEF IsJoined
  <2>5. SubSeq(<<34>> \o d, 2, 3) = d
    BY <2>2, <2>4
  <2> QED BY <1>6, <2>2, <2>3, <2>4, <2>5 DEF ReadsAs
<1>7. CASE r.call = "request"
  <2>1. Encoded(r) = AnyBytes(r.length)
    BY <1>7 DEF Encoded
  <2> QED BY <1>1, <1>7, <2>1, AnyBytesIs DEF ReadsAs
<1>8. CASE r.call = "download"
  BY <1>8 DEF Raises
<1> QED BY <1>1, <1>2, <1>3, <1>4, <1>5, <1>6, <1>7, <1>8

-----------------------------------------------------------------------------
(* The requests *)

RequestInv ==
  /\ LoopInv /\ request \in Requests
  /\ length = IF Raises(request) THEN 0 ELSE Len(Encoded(request))
  /\ Raises(request) => fed = 0

LEMMA RequestInvHolds == RequestSpec => []RequestInv
<1>1. RequestInit => RequestInv
  BY LoopInitial DEF RequestInit, RequestInv, LoopbackInit
<1>2. RequestInv /\ [RequestNext]_requestVars => RequestInv'
  <2>1. CASE RequestInv /\ RequestNext
    <3>1. LoopInv' /\ length' = length
      BY <2>1, SendStep, SendFailsStep, OtherStep
         DEF RequestInv, RequestNext, LoopbackNext, SendFrame, SendFrameFails, OtherThreadSends
    <3> QED BY <2>1, <3>1 DEF RequestInv, RequestNext
  <2>2. CASE RequestInv /\ UNCHANGED requestVars
    <3>1. LoopInv'
      BY <2>2 DEF RequestInv, LoopInv, LoopTypeOK, NotBegun, UnderWay, Done, Failed, Collected,
                  FrameCount, loopbackVars, requestVars
    <3> QED BY <2>2, <3>1 DEF RequestInv, loopbackVars, requestVars
  <2> QED BY <2>1, <2>2
<1> QED BY <1>1, <1>2, PTL DEF RequestSpec

\* For all calls but uploads and downloads, with arguments of any size, and bytes of any
\* number of values: what the ECU reads from a complete request is what the caller has
\* asked for, a key with each of its bytes.  And calc_byte_size() finds bytes enough for
\* the addresses and sizes of uploads (uds/session.py:137-151, 252-269).
THEOREM RequestsCorrect == RequestSpec => []RequestsAreReadable
<1>1. RequestInv => RequestsAreReadable
  <2> SUFFICES ASSUME RequestInv
               PROVE  RequestsAreReadable
    OBVIOUS
  <2>1. ASSUME request.call = "upload", Fits(request.address, 8), Fits(request.size, 8)
        PROVE  ~Raises(request)
    <3>1. request.address \in Nat /\ request.size \in Nat
      BY RequestsAssumption DEF RequestInv
    <3> QED BY <2>1, <3>1, ByteSizeIs DEF Raises
  <2>2. ASSUME fed = FrameCount, message.state = "COMPLETE", message.payload # ForeignPayload,
               request.call # "upload"
        PROVE  ReadsAs(Reassembled, request)
    <3>1. ~Raises(request)
      BY <2>2, FrameCountIs DEF RequestInv, LoopInv
    <3>2. FirstBytes(message.payload, length) /\ length = Len(Encoded(request))
      BY <2>2, <3>1 DEF RequestInv, LoopInv, Done
    <3>3. Encoded(request) \in Seq(Nat) /\ ReadsAs(Encoded(request), request)
      BY <2>2, <3>1, EncodedIsRead DEF RequestInv
    <3>4. /\ DOMAIN message.payload = 1..Len(Encoded(request))
          /\ \A i \in 1..Len(Encoded(request)) : message.payload[i] = i
      BY <3>2, <3>3 DEF FirstBytes, StartsWith
    <3>5. Reassembled = [i \in 1..Len(Encoded(request)) |-> Encoded(request)[i]]
      BY <3>4 DEF Reassembled
    <3>6. Reassembled = Encoded(request)
      BY <3>3, <3>5
    <3> QED BY <3>3, <3>6
  <2> QED BY <2>1, <2>2 DEF RequestsAreReadable, InRange
<1> QED BY <1>1, RequestInvHolds, PTL
=============================================================================
