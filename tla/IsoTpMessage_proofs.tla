------------------------ MODULE IsoTpMessage_proofs -------------------------
(***************************************************************************)
(* Lemmas about the frames of a payload and about what feeding one does to *)
(* a message, for payloads of every length.                                *)
(***************************************************************************)
EXTENDS IsoTpMessage, SequenceTheorems, TLAPS

-----------------------------------------------------------------------------
(* Sequences of bytes *)

LEMMA LeastIs ==
  \A a, b \in Nat :
    Least(a, b) \in Nat /\ (a <= b => Least(a, b) = a) /\ (b <= a => Least(a, b) = b)
  BY DEF Least

LEMMA SliceIs ==
  ASSUME NEW n \in Nat, NEW from \in Nat \ {0}, NEW to \in Nat, from <= n + 1, from <= to + 1
  PROVE  /\ Slice(n, from, to) \in Seq(Bytes)
         /\ Len(Slice(n, from, to)) = Least(n, to) - from + 1
         /\ \A i \in 1..(Least(n, to) - from + 1) : Slice(n, from, to)[i] = from + i - 1
<1> DEFINE k == Least(n, to) - from + 1
<1>1. k \in Nat
  BY DEF Least
<1>2. \A i \in 1..k : from + i - 1 \in Bytes
  BY <1>1 DEF Bytes
<1>3. Slice(n, from, to) = [i \in 1..k |-> from + i - 1]
  BY DEF Slice
<1> HIDE DEF k
<1>4. /\ Slice(n, from, to) \in Seq(Bytes) /\ Len(Slice(n, from, to)) = k
      /\ \A i \in 1..k : Slice(n, from, to)[i] = from + i - 1
  BY <1>1, <1>2, <1>3
<1> QED BY <1>4 DEF k

LEMMA PaddedIs ==
  ASSUME NEW data \in Seq(Bytes), Len(data) <= 7, NEW padding \in BOOLEAN
  PROVE  /\ Padded(data, padding) \in Seq(Bytes)
         /\ Len(Padded(data, padding)) = IF padding THEN 7 ELSE Len(data)
         /\ \A i \in 1..Len(data) : Padded(data, padding)[i] = data[i]
<1>1. CASE ~padding
  BY <1>1 DEF Padded
<1>2. CASE padding
  <2> DEFINE pads == [i \in 1..(7 - Len(data)) |-> Pad]
             k    == Len(data)
  <2>1. 7 - k \in Nat /\ k \in Nat
    OBVIOUS
  <2>2. pads \in Seq(Bytes) /\ Len(pads) = 7 - k
    BY <2>1 DEF Pad, Bytes
  <2> HIDE DEF pads
  <2>3. /\ data \o pads \in Seq(Bytes) /\ Len(data \o pads) = k + Len(pads)
        /\ \A i \in 1..k : (data \o pads)[i] = data[i]
    BY <2>2
  <2>4. Padded(data, padding) = data \o pads
    BY <1>2 DEF Padded, pads
  <2> HIDE DEF k
  <2>5. Len(Padded(data, padding)) = 7
    BY <2>1, <2>2, <2>3, <2>4
  <2>6. Len(Padded(data, padding)) = IF padding THEN 7 ELSE Len(data)
    BY <1>2, <2>5, Zenon
  <2>7. \A i \in 1..Len(data) : Padded(data, padding)[i] = data[i]
    BY <2>3, <2>4, Zenon DEF k
  <2> QED BY <2>3, <2>4, <2>6, <2>7, Zenon
<1> QED BY <1>1, <1>2

LEMMA TakeIs ==
  ASSUME NEW data \in Seq(Bytes), NEW n \in Nat
  PROVE  /\ Take(data, n) \in Seq(Bytes)
         /\ Len(Take(data, n)) = Least(n, Len(data))
         /\ \A i \in 1..Least(n, Len(data)) : Take(data, n)[i] = data[i]
<1> DEFINE k == Least(n, Len(data))
<1>1. k \in Nat /\ k <= Len(data)
  BY DEF Least
<1>2. Take(data, n) = SubSeq(data, 1, k)
  BY DEF Take
<1> HIDE DEF k
<1>3. /\ Take(data, n) \in Seq(Bytes) /\ Len(Take(data, n)) = k
      /\ \A i \in 1..k : Take(data, n)[i] = data[i]
  BY <1>1, <1>2
<1> QED BY <1>3 DEF k

-----------------------------------------------------------------------------
(* Frames *)

\* A sequence of k bytes and more that starts with from, from + 1, ...
StartsWith(data, k, from) ==
  data \in Seq(Bytes) /\ Len(data) >= k /\ \A i \in 1..k : data[i] = from + i - 1

\* The bytes of a consecutive frame: all of those that are due, 7 but in the last frame.
LEMMA ConsecutiveFrame ==
  ASSUME NEW arb, NEW n \in Nat, n > 7, NEW padding \in BOOLEAN,
         NEW i \in Nat \ {0}, i <= Consecutive(n)
  PROVE  LET f == Format(arb, n, padding, i)
             k == Least(7, n - (7 * i - 1))
         IN  /\ f = [arb |-> arb, kind |-> "CF", num |-> Counter(i), data |-> f.data]
             /\ k \in 1..7 /\ StartsWith(f.data, k, 7 * i)
             /\ Len(f.data) <= 7 /\ Len(f.data) >= k
             /\ (Len(f.data) = k \/ Len(f.data) = 7)
<1> DEFINE k    == Least(7, n - (7 * i - 1))
           data == Slice(n, 7 * i, 7 * i + 6)
           f    == Format(arb, n, padding, i)
<1>1. 7 * i <= n
  BY DEF Consecutive
<1>2. k \in 1..7 /\ Least(n, 7 * i + 6) - 7 * i + 1 = k
  BY <1>1 DEF Least
<1>3. data \in Seq(Bytes) /\ Len(data) = k /\ \A j \in 1..k : data[j] = 7 * i + j - 1
  <2>1. 7 * i \in Nat \ {0} /\ 7 * i + 6 \in Nat /\ 7 * i <= n + 1 /\ 7 * i <= 7 * i + 6 + 1
    BY <1>1
  <2> HIDE DEF k
  <2> QED BY <1>2, <2>1, SliceIs
<1>4. f = [arb |-> arb, kind |-> "CF", num |-> Counter(i), data |-> Padded(data, padding)]
  BY DEF Format
<1> HIDE DEF k, data, f
<1>5. Len(data) <= 7
  BY <1>2, <1>3
<1>6. /\ Padded(data, padding) \in Seq(Bytes)
      /\ Len(Padded(data, padding)) = IF padding THEN 7 ELSE k
      /\ \A j \in 1..k : Padded(data, padding)[j] = data[j]
  BY <1>3, <1>5, PaddedIs
<1>7. f.data = Padded(data, padding)
  BY <1>4
<1>8. Len(f.data) = k \/ Len(f.data) = 7
  BY <1>6, <1>7
<1>9. Len(f.data) <= 7 /\ Len(f.data) >= k
  <2>1. \A m \in {k, 7} : m <= 7 /\ m >= k
    BY <1>2
  <2> QED BY <1>8, <2>1, Zenon
<1>10. \A j \in 1..k : f.data[j] = 7 * i + j - 1
  BY <1>3, <1>6, <1>7
<1>11. StartsWith(f.data, k, 7 * i)
  BY <1>6, <1>7, <1>9, <1>10 DEF StartsWith
<1>12. f = [arb |-> arb, kind |-> "CF", num |-> Counter(i), data |-> f.data]
  BY <1>4, <1>7
<1> QED BY <1>2, <1>8, <1>9, <1>11, <1>12, Zenon DEF f, k

LEMMA FirstFrame ==
  ASSUME NEW arb, NEW n \in Nat, n > 7, NEW padding \in BOOLEAN
  PROVE  LET f == Format(arb, n, padding, 0)
         IN  /\ f = [arb |-> arb, kind |-> "FF", num |-> n, data |-> f.data]
             /\ StartsWith(f.data, 6, 1) /\ Len(f.data) = 6
<1> DEFINE data == Slice(n, 1, 6)
           f    == Format(arb, n, padding, 0)
<1>1. Least(n, 6) = 6
  BY DEF Least
<1>2. data \in Seq(Bytes) /\ Len(data) = 6 /\ \A j \in 1..6 : data[j] = 1 + j - 1
  <2>1. 1 \in Nat \ {0} /\ 6 \in Nat /\ 1 <= n + 1 /\ 1 <= 6 + 1
    OBVIOUS
  <2>2. /\ data \in Seq(Bytes) /\ Len(data) = Least(n, 6) - 1 + 1
        /\ \A j \in 1..(Least(n, 6) - 1 + 1) : data[j] = 1 + j - 1
    BY <2>1, SliceIs, Zenon
  <2> HIDE DEF data
  <2> QED BY <1>1, <2>2
<1>3. f = [arb |-> arb, kind |-> "FF", num |-> n, data |-> data]
  BY DEF Format
<1> HIDE DEF data, f
<1>4. f.data = data
  BY <1>3
<1>5. StartsWith(data, 6, 1)
  BY <1>2 DEF StartsWith
<1> QED BY <1>2, <1>3, <1>4, <1>5, Zenon DEF f

LEMMA SingleFrame ==
  ASSUME NEW arb, NEW n \in 0..7, NEW padding \in BOOLEAN
  PROVE  LET f == Format(arb, n, padding, 0)
         IN  /\ f = [arb |-> arb, kind |-> "SF", num |-> n, data |-> f.data]
             /\ StartsWith(f.data, n, 1)
<1> DEFINE data == Slice(n, 1, n)
           f    == Format(arb, n, padding, 0)
<1>1. Least(n, n) = n /\ n % 15 = n
  BY DEF Least
<1>2. data \in Seq(Bytes) /\ Len(data) = n /\ \A j \in 1..n : data[j] = j
  <2>1. n \in Nat /\ 1 \in Nat \ {0} /\ 1 <= n + 1
    OBVIOUS
  <2>2. /\ data \in Seq(Bytes) /\ Len(data) = Least(n, n) - 1 + 1
        /\ \A j \in 1..(Least(n, n) - 1 + 1) : data[j] = 1 + j - 1
    BY <2>1, SliceIs, Zenon
  <2> HIDE DEF data
  <2> QED BY <1>1, <2>2
<1>3. f = [arb |-> arb, kind |-> "SF", num |-> n, data |-> Padded(data, padding)]
  BY <1>1 DEF Format
<1> HIDE DEF data, f
<1>4. /\ Padded(data, padding) \in Seq(Bytes)
      /\ Len(Padded(data, padding)) = IF padding THEN 7 ELSE n
      /\ \A j \in 1..n : Padded(data, padding)[j] = data[j]
  BY <1>2, PaddedIs
<1>5. f.data = Padded(data, padding)
  BY <1>3
<1>6. StartsWith(f.data, n, 1)
  BY <1>2, <1>4, <1>5 DEF StartsWith
<1> QED BY <1>3, <1>5, <1>6, Zenon DEF f

-----------------------------------------------------------------------------
(* Payloads *)

\* The first k bytes of a payload, and nothing else.
FirstBytes(payload, k) == StartsWith(payload, k, 1) /\ Len(payload) = k

LEMMA TakenFirst ==
  ASSUME NEW data, NEW k \in Nat, StartsWith(data, k, 1)
  PROVE  FirstBytes(Take(data, k), k)
<1>1. data \in Seq(Bytes) /\ Len(data) >= k /\ \A i \in 1..k : data[i] = 1 + i - 1
  BY DEF StartsWith
<1>2. Least(k, Len(data)) = k
  BY <1>1 DEF Least
<1>3. /\ Take(data, k) \in Seq(Bytes) /\ Len(Take(data, k)) = k
      /\ \A i \in 1..k : Take(data, k)[i] = data[i]
  BY <1>1, <1>2, TakeIs, Zenon
<1>4. Len(Take(data, k)) >= k
  BY <1>3
<1> QED BY <1>1, <1>3, <1>4 DEF FirstBytes, StartsWith

LEMMA TakenNext ==
  ASSUME NEW payload, NEW n \in Nat, FirstBytes(payload, n),
         NEW data, NEW k \in Nat, StartsWith(data, k, n + 1)
  PROVE  FirstBytes(payload \o Take(data, k), n + k)
<1> DEFINE more == Take(data, k)
<1>1. data \in Seq(Bytes) /\ Len(data) >= k /\ \A i \in 1..k : data[i] = n + 1 + i - 1
  BY DEF StartsWith
<1>2. Least(k, Len(data)) = k
  BY <1>1 DEF Least
<1>3. more \in Seq(Bytes) /\ Len(more) = k /\ \A i \in 1..k : more[i] = data[i]
  BY <1>1, <1>2, TakeIs, Zenon
<1>4. payload \in Seq(Bytes) /\ Len(payload) = n /\ \A i \in 1..n : payload[i] = 1 + i - 1
  BY DEF FirstBytes, StartsWith
<1> HIDE DEF more
<1> DEFINE all == payload \o more
<1>5. /\ all \in Seq(Bytes) /\ Len(all) = Len(payload) + Len(more)
      /\ \A i \in 1..Len(payload) : all[i] = payload[i]
      /\ \A i \in 1..Len(more) : all[Len(payload) + i] = more[i]
  BY <1>3, <1>4
<1> HIDE DEF all
<1>6. Len(all) = n + k
  BY <1>3, <1>4, <1>5
<1>7. \A i \in 1..(n + k) : all[i] = 1 + i - 1
  <2>1. \A i \in 1..n : all[i] = 1 + i - 1
    <3>1. \A i \in 1..n : all[i] = payload[i]
      BY <1>4, <1>5
    <3>2. \A i \in 1..n : payload[i] = 1 + i - 1
      BY <1>4
    <3> QED BY <3>1, <3>2
  <2>2. \A i \in 1..k : all[n + i] = n + i
    <3>1. \A i \in 1..k : all[n + i] = more[i]
      BY <1>3, <1>4, <1>5
    <3>2. \A i \in 1..k : more[i] = n + i
      BY <1>1, <1>3
    <3> QED BY <3>1, <3>2
  <2>3. \A i \in 1..(n + k) : i \in 1..n \/ (i - n \in 1..k /\ n + (i - n) = i)
    OBVIOUS
  <2> QED BY <2>1, <2>2, <2>3
<1>8. n + k \in Nat /\ n + k >= n + k
  OBVIOUS
<1> QED BY <1>5, <1>6, <1>7, <1>8 DEF FirstBytes, StartsWith, all, more

-----------------------------------------------------------------------------
(* What feeding a frame does, by the state of the message *)

LEMMA FeedSingle ==
  ASSUME NEW m, NEW f, m.state = "EXPECT_SF_OR_FF", m.arb \in {NoArb, f.arb}, f.kind = "SF"
  PROVE  Feed(m, f) = [m EXCEPT !.arb = f.arb, !.state = "COMPLETE",
                                !.payload = Take(f.data, f.num),
                                !.received = Least(f.num, Len(f.data))]
<1>1. Feed(m, f) = FeedFirst(m, f)
  BY DEF Feed
<1> QED BY <1>1 DEF FeedFirst

LEMMA FeedFirstFrame ==
  ASSUME NEW m, NEW f, m.state = "EXPECT_SF_OR_FF", m.arb \in {NoArb, f.arb}, f.kind = "FF"
  PROVE  Feed(m, f) = [m EXCEPT !.arb = f.arb, !.state = "SEND_FC", !.payload = f.data,
                                !.received = Len(f.data), !.len = f.num, !.next = 1]
<1>1. Feed(m, f) = FeedFirst(m, f)
  BY DEF Feed
<1> QED BY <1>1 DEF FeedFirst

LEMMA FeedUnexpected ==
  ASSUME NEW m, NEW f, m.state = "EXPECT_SF_OR_FF", m.arb \in {NoArb, f.arb},
         f.kind \in {"CF", "OTHER"}
  PROVE  Feed(m, f) = Fail([m EXCEPT !.arb = f.arb])
<1>1. Feed(m, f) = FeedFirst(m, f)
  BY DEF Feed
<1> QED BY <1>1 DEF FeedFirst

LEMMA FeedFlowControl ==
  ASSUME NEW m, NEW f, f.kind = "FC"
  PROVE  Feed(m, f) = m
  BY DEF Feed

LEMMA FeedConsecutive ==
  ASSUME NEW m, NEW f, m.state = "EXPECT_CF", f.kind \in {"SF", "FF", "CF", "OTHER"}
  PROVE  Feed(m, f) = FeedNext(m, f)
  BY DEF Feed

LEMMA FeedOver ==
  ASSUME NEW m, NEW f, m.state \in {"COMPLETE", "ERROR"}, f.kind # "EMPTY"
  PROVE  Feed(m, f) = m
  BY DEF Feed

LEMMA FormatIsFrame ==
  ASSUME NEW arbs, NEW arb \in arbs, NEW n \in Nat, NEW padding \in BOOLEAN,
         NEW i \in Nat, i <= Consecutive(n)
  PROVE  Format(arb, n, padding, i) \in Frames(arbs)
<1> DEFINE f == Format(arb, n, padding, i)
<1>1. CASE n <= 7
  <2>1. Format(arb, n, padding, i) = Format(arb, n, padding, 0) /\ n \in 0..7
    BY <1>1 DEF Format
  <2>2. f = [arb |-> arb, kind |-> "SF", num |-> n, data |-> f.data] /\ f.data \in Seq(Bytes)
    BY <2>1, SingleFrame, Zenon DEF StartsWith
  <2> HIDE DEF f
  <2>3. f \in Frames(arbs)
    BY <2>2 DEF Frames, Kinds
  <2> QED BY <2>3 DEF f
<1>2. CASE n > 7 /\ i = 0
  <2>1. f = [arb |-> arb, kind |-> "FF", num |-> n, data |-> f.data] /\ f.data \in Seq(Bytes)
    BY <1>2, FirstFrame, Zenon DEF StartsWith
  <2> HIDE DEF f
  <2>2. f \in Frames(arbs)
    BY <2>1 DEF Frames, Kinds
  <2> QED BY <2>2 DEF f
<1>3. CASE n > 7 /\ i > 0
  <2>1. i \in Nat \ {0} /\ Counter(i) \in Nat
    BY <1>3 DEF Counter
  <2>2. /\ f = [arb |-> arb, kind |-> "CF", num |-> Counter(i), data |-> f.data]
        /\ f.data \in Seq(Bytes)
    <3>1. n > 7 /\ i \in Nat \ {0}
      BY <1>3
    <3>2. /\ f = [arb |-> arb, kind |-> "CF", num |-> Counter(i), data |-> f.data]
          /\ StartsWith(f.data, Least(7, n - (7 * i - 1)), 7 * i)
      BY <3>1, ConsecutiveFrame, Zenon
    <3> QED BY <3>2, Zenon DEF StartsWith
  <2> HIDE DEF f
  <2>3. f \in Frames(arbs)
    BY <2>1, <2>2 DEF Frames, Kinds
  <2> QED BY <2>3 DEF f
<1> QED BY <1>1, <1>2, <1>3

LEMMA FeedIsMessage ==
  ASSUME NEW arbs, NEW m \in RxMessages(arbs), NEW f \in Frames(arbs), f.kind # "EMPTY",
         m.state = "EXPECT_SF_OR_FF" => m.arb \in {NoArb, f.arb},
         m.state = "EXPECT_CF" => m.received < m.len
  PROVE  Feed(m, f) \in RxMessages(arbs)
<1> USE DEF RxMessages
<1>0. /\ "SEND_FC" \in RxStates /\ "COMPLETE" \in RxStates /\ "ERROR" \in RxStates
  BY DEF RxStates
<1>1. /\ f.arb \in arbs /\ f.kind \in {"SF", "FF", "CF", "FC", "OTHER"}
      /\ f.num \in Nat /\ f.data \in Seq(Bytes)
  BY DEF Frames, Kinds
<1>2. Len(f.data) \in Nat
  BY <1>1
<1>3. \A n \in Nat : Take(f.data, n) \in Seq(Bytes) /\ Least(n, Len(f.data)) \in Nat
  <2> TAKE n \in Nat
  <2>1. Least(n, Len(f.data)) \in Nat
    BY <1>2 DEF Least
  <2> QED BY <1>1, <2>1, TakeIs
<1>4. CASE f.kind = "FC" \/ m.state \in {"COMPLETE", "ERROR", "SEND_FC"}
  <2>1. Feed(m, f) = m
    BY <1>1, <1>4 DEF Feed
  <2> QED BY <2>1
<1>5. CASE m.state = "EXPECT_SF_OR_FF" /\ f.kind = "SF"
  <2> DEFINE payload  == Take(f.data, f.num)
             received == Least(f.num, Len(f.data))
  <2>1. Feed(m, f) = [m EXCEPT !.arb = f.arb, !.state = "COMPLETE",
                               !.payload = payload, !.received = received]
    BY <1>5, FeedSingle
  <2>2. payload \in Seq(Bytes) /\ received \in Nat
    BY <1>1, <1>3
  <2> HIDE DEF payload, received
  <2> QED BY <1>0, <1>1, <2>1, <2>2
<1>6. CASE m.state = "EXPECT_SF_OR_FF" /\ f.kind = "FF"
  <2> DEFINE received == Len(f.data)
             next     == 1
  <2>1. Feed(m, f) = [m EXCEPT !.arb = f.arb, !.state = "SEND_FC", !.payload = f.data,
                               !.received = received, !.len = f.num, !.next = next]
    BY <1>6, FeedFirstFrame
  <2>2. received \in Nat /\ next \in Nat
    BY <1>2
  <2> HIDE DEF received, next
  <2> QED BY <1>0, <1>1, <2>1, <2>2
<1>7. CASE m.state = "EXPECT_SF_OR_FF" /\ f.kind \in {"CF", "OTHER"}
  <2>1. Feed(m, f) = Fail([m EXCEPT !.arb = f.arb])
    BY <1>7, FeedUnexpected
  <2>2. Feed(m, f) = [m EXCEPT !.arb = f.arb, !.state = "ERROR"]
    BY <2>1 DEF Fail
  <2> QED BY <1>0, <1>1, <2>2
<1>8. CASE m.state = "EXPECT_CF" /\ f.kind # "FC"
  <2> DEFINE received == m.received + Len(f.data)
             payload  == m.payload \o Fresh(m, f)
             state    == IF received >= m.len THEN "COMPLETE" ELSE m.state
             next     == m.next + 1
  <2>1. \/ Feed(m, f) = [m EXCEPT !.state = "ERROR"]
        \/ Feed(m, f) = [m EXCEPT !.payload = payload, !.received = received,
                                  !.next = next, !.state = state]
    <3>1. Feed(m, f) = FeedNext(m, f)
      BY <1>1, <1>8, FeedConsecutive
    <3> QED BY <3>1, Zenon DEF FeedNext, Fail
  <2>2. Least(7, m.len - m.received) \in Nat
    BY <1>8 DEF Least
  <2>3. payload \in Seq(Bytes)
    <3>1. Fresh(m, f) \in Seq(Bytes)
      BY <1>3, <2>2 DEF Fresh
    <3> QED BY <3>1
  <2>4. received \in Nat /\ state \in RxStates /\ next \in Nat
    BY <1>0, <1>2
  <2> HIDE DEF received, payload, state, next
  <2> QED BY <1>0, <2>1, <2>3, <2>4
<1>9. m.state \in {"EXPECT_SF_OR_FF", "EXPECT_CF", "COMPLETE", "ERROR", "SEND_FC"}
  <2>1. m.state \in RxStates
    OBVIOUS
  <2> QED BY <2>1 DEF RxStates
<1> QED BY <1>1, <1>4, <1>5, <1>6, <1>7, <1>8, <1>9
=============================================================================
