------------------------- MODULE IsoTpHandler_proofs -------------------------
(***************************************************************************)
(* Proofs about IsoTpHandler, for messages of every length, any number of  *)
(* messages, calls and strays, and any faults.                             *)
(*                                                                         *)
(* The queue is seen as the set of its frames of the ECU, each known by    *)
(* its message and its number in it (Items), which stand in the order in   *)
(* which they were sent (Ordered); that is enough for Inv and the order of *)
(* what is returned.  Then come the frames that are no longer there:       *)
(* Missing ones have been lost or taken, and without a loss they lie       *)
(* before all that waits, and before what the call expects (Chain).  Last, *)
(* what a call has collected so far is compared with the message it comes  *)
(* from (Story): the ECU forgets the length of a message when it begins    *)
(* the next one, so the invariant says that there are lengths L of the     *)
(* messages for which all is as it should be.                              *)
(***************************************************************************)
EXTENDS IsoTpHandler, IsoTpMessage_proofs

-----------------------------------------------------------------------------
(* The frames of the ECU *)

\* The number of a frame in its message: a consecutive frame starts with byte
\* 7, 14, ... of the payload.
Index(g) == IF g.kind = "CF" THEN g.data[1] \div 7 ELSE 0

LEMMA ConsecutiveIs ==
  \A n \in Nat : /\ Consecutive(n) \in Nat
                 /\ n <= 7 => Consecutive(n) = 0
                 /\ n > 7 => /\ Consecutive(n) \in Nat \ {0} /\ 7 * Consecutive(n) <= n
                             /\ n < 7 * Consecutive(n) + 7
  BY DEF Consecutive

\* What the bytes of frame i of a payload of n bytes are.
Holds(g, n, i) ==
  /\ g.arb = "ecu" /\ g.data \in Seq(Bytes)
  /\ n <= 7 => g.kind = "SF" /\ g.num = n /\ StartsWith(g.data, n, 1)
  /\ n > 7 /\ i = 0 => /\ g.kind = "FF" /\ g.num = n
                       /\ StartsWith(g.data, 6, 1) /\ Len(g.data) = 6
  /\ n > 7 /\ i > 0 => /\ g.kind = "CF" /\ g.num = i % 16
                       /\ StartsWith(g.data, Least(7, n - (7 * i - 1)), 7 * i)
                       /\ Len(g.data) \in Nat
                       /\ (Len(g.data) = Least(7, n - (7 * i - 1)) \/ Len(g.data) = 7)

LEMMA EcuFrameIs ==
  ASSUME NEW n \in Nat, NEW i \in Nat, i <= Consecutive(n)
  PROVE  /\ EcuFrame(n, i) \in Frames(Arbs)
         /\ Holds(EcuFrame(n, i), n, i)
         /\ Index(EcuFrame(n, i)) = i
<1> DEFINE f == Format("ecu", n, TRUE, i)
<1>0. TRUE \in BOOLEAN /\ "ecu" \in Arbs
  BY DEF Arbs
<1>1. f \in Frames(Arbs)
  BY <1>0, FormatIsFrame, Zenon
<1>2. EcuFrame(n, i) = IF f.kind = "CF" THEN [f EXCEPT !.num = i % 16] ELSE f
  BY DEF EcuFrame
<1>3. f.data \in Seq(Bytes)
  BY <1>1 DEF Frames
<1>4. CASE n <= 7
  <2>1. i = 0 /\ n \in 0..7
    BY <1>4, ConsecutiveIs
  <2>2. /\ f = [arb |-> "ecu", kind |-> "SF", num |-> n, data |-> f.data]
        /\ StartsWith(f.data, n, 1)
    BY <2>1, <1>0, SingleFrame, Zenon
  <2> HIDE DEF f
  <2>3. EcuFrame(n, i) = f /\ f.arb = "ecu" /\ f.kind = "SF" /\ f.num = n
    BY <1>2, <2>2
  <2> QED BY <1>1, <1>3, <1>4, <2>1, <2>2, <2>3 DEF Holds, Index
<1>5. CASE n > 7 /\ i = 0
  <2>2. /\ f = [arb |-> "ecu", kind |-> "FF", num |-> n, data |-> f.data]
        /\ StartsWith(f.data, 6, 1) /\ Len(f.data) = 6
    BY <1>5, <1>0, FirstFrame, Zenon
  <2> HIDE DEF f
  <2>3. EcuFrame(n, i) = f /\ f.arb = "ecu" /\ f.kind = "FF" /\ f.num = n
    BY <1>2, <2>2
  <2> QED BY <1>1, <1>3, <1>5, <2>2, <2>3 DEF Holds, Index
<1>6. CASE n > 7 /\ i > 0
  <2> DEFINE k == Least(7, n - (7 * i - 1))
  <2>1. i \in Nat \ {0}
    BY <1>6
  <2>2. /\ f = [arb |-> "ecu", kind |-> "CF", num |-> Counter(i), data |-> f.data]
        /\ k \in 1..7 /\ StartsWith(f.data, k, 7 * i)
        /\ Len(f.data) = k \/ Len(f.data) = 7
    BY <1>6, <1>0, <2>1, ConsecutiveFrame, Zenon
  <2> HIDE DEF f, k
  <2>3. EcuFrame(n, i) = [f EXCEPT !.num = i % 16] /\ i % 16 \in Nat
    BY <1>2, <2>2
  <2>4. EcuFrame(n, i) = [arb |-> "ecu", kind |-> "CF", num |-> i % 16, data |-> f.data]
    BY <2>2, <2>3
  <2>5. EcuFrame(n, i) \in Frames(Arbs)
    BY <1>1, <2>3 DEF Frames
  <2>6. Len(f.data) \in Nat /\ f.data[1] = 7 * i
    BY <2>2, SMTT(30) DEF StartsWith
  <2>7. Index(EcuFrame(n, i)) = i
    BY <2>4, <2>6 DEF Index
  <2>8. Holds(EcuFrame(n, i), n, i)
    BY <1>3, <1>6, <2>2, <2>4, <2>6 DEF Holds, k
  <2> QED BY <2>5, <2>7, <2>8
<1> QED BY <1>4, <1>5, <1>6

-----------------------------------------------------------------------------
(* The queue *)

\* Where the frames of the ECU are that a call will feed.
Queue == {p \in DOMAIN frames : frames[p].of # 0 /\ ~frames[p].tp}

Item(f) == <<f.of, Index(f.frame)>>

\* The same frames: their messages and their numbers in them.
Items == {Item(frames[p]) : p \in Queue}

\* Frame i of message m is sent before frame j of message k.
Before(m, i, k, j) == m < k \/ (m = k /\ i < j)

\* The frames that are not lost stay in the order in which they were sent.
Ordered ==
  \A p, q \in Queue : p < q => Before(frames[p].of, Index(frames[p].frame),
                                      frames[q].of, Index(frames[q].frame))

\* What there is in the queue beside tester present errors.
PartOK(g)  == \E n \in EcuLengths : \E i \in 0..Consecutive(n) : g = EcuFrame(n, i)
StrayOK(g) == /\ g \in Frames(Arbs) /\ g.arb = "other" /\ g.kind \in {"SF", "CF", "FC"}
              /\ g.num = 1 /\ g.data = Slice(7, 1, 7)
FrameOK(f) == ~f.tp => IF f.of = 0 THEN StrayOK(f.frame) ELSE PartOK(f.frame)
FramesOK   == \A p \in DOMAIN frames : FrameOK(frames[p])

LEMMA LengthIs ==
  \A n \in EcuLengths : n \in Nat /\ n >= 1
  BY EcuLengthsAssumption DEF MaxPayload

LEMMA PartIs ==
  ASSUME NEW g, PartOK(g)
  PROVE  /\ g \in Frames(Arbs) /\ Index(g) \in Nat
         /\ \E n \in EcuLengths : Index(g) <= Consecutive(n) /\ Holds(g, n, Index(g))
<1>0. PICK n \in EcuLengths : \E i \in 0..Consecutive(n) : g = EcuFrame(n, i)
  BY DEF PartOK
<1>1. PICK i \in 0..Consecutive(n) : g = EcuFrame(n, i)
  BY <1>0
<1>2. n \in Nat /\ i \in Nat /\ i <= Consecutive(n)
  BY <1>1, LengthIs, ConsecutiveIs
<1> QED BY <1>1, <1>2, EcuFrameIs

\* A frame is added: to the ECU's, unless it is a stray or looks like an error.
LEMMA Appended ==
  ASSUME frames \in Seq(Frame), NEW x \in Frame, frames' = Append(frames, x)
  PROVE  /\ frames' \in Seq(Frame) /\ DOMAIN frames' = DOMAIN frames \cup {Len(frames) + 1}
         /\ Len(frames) + 1 \notin DOMAIN frames /\ DOMAIN frames = 1..Len(frames)
         /\ Len(frames) \in Nat
         /\ \A p \in DOMAIN frames : frames'[p] = frames[p]
         /\ frames'[Len(frames) + 1] = x
  OBVIOUS

LEMMA NotAdded ==
  ASSUME frames \in Seq(Frame), NEW x \in Frame, frames' = Append(frames, x),
         x.of = 0 \/ x.tp
  PROVE  Queue' = Queue /\ Items' = Items /\ (Ordered => Ordered')
<1>1. /\ DOMAIN frames' = DOMAIN frames \cup {Len(frames) + 1}
      /\ Len(frames) + 1 \notin DOMAIN frames
      /\ \A p \in DOMAIN frames : frames'[p] = frames[p]
      /\ frames'[Len(frames) + 1] = x
  BY Appended
<1>2. Queue' = Queue
  BY <1>1 DEF Queue
<1>3. \A p \in Queue : frames'[p] = frames[p]
  BY <1>1 DEF Queue
<1>4. Items' = Items
  BY <1>2, <1>3 DEF Items
<1> QED BY <1>2, <1>3, <1>4 DEF Ordered

LEMMA Added ==
  ASSUME frames \in Seq(Frame), NEW x \in Frame, frames' = Append(frames, x),
         x.of # 0, ~x.tp, Ordered, NEW m, NEW i, Item(x) = <<m, i>>,
         \A k, j : <<k, j>> \in Items => Before(k, j, m, i)
  PROVE  Items' = Items \cup {<<m, i>>} /\ Ordered'
<1> DEFINE q == Len(frames) + 1
<1>1. /\ DOMAIN frames' = DOMAIN frames \cup {q}
      /\ q \notin DOMAIN frames /\ DOMAIN frames = 1..Len(frames) /\ Len(frames) \in Nat
      /\ \A p \in DOMAIN frames : frames'[p] = frames[p]
      /\ frames'[q] = x
  BY Appended
<1>2. q \in Nat /\ \A p \in DOMAIN frames : p \in Nat /\ p < q
  BY <1>1
<1> HIDE DEF q
<1>3. Queue' = Queue \cup {q}
  BY <1>1 DEF Queue
<1>4. Queue \subseteq DOMAIN frames
  BY DEF Queue
<1>5. Items' = {Item(frames'[p]) : p \in Queue \cup {q}}
  BY <1>3 DEF Items
<1>6. Items' = Items \cup {Item(x)}
  BY <1>1, <1>4, <1>5 DEF Items
<1>7. x.of = m /\ Index(x.frame) = i
  BY DEF Item
<1>8. \A p \in Queue : Before(frames[p].of, Index(frames[p].frame), m, i)
  BY DEF Items, Item
<1>9. ASSUME NEW a \in Queue', NEW b \in Queue', a < b
      PROVE  Before(frames'[a].of, Index(frames'[a].frame), frames'[b].of, Index(frames'[b].frame))
  <2>1. a \in Queue /\ frames'[a] = frames[a]
    BY <1>1, <1>2, <1>3, <1>4, <1>9
  <2>2. CASE b = q
    BY <2>1, <2>2, <1>1, <1>7, <1>8
  <2>3. CASE b \in Queue
    BY <2>1, <2>3, <1>1, <1>4, <1>9 DEF Ordered
  <2> QED BY <2>2, <2>3, <1>3
<1>10. Ordered'
  BY <1>9 DEF Ordered
<1> QED BY <1>6, <1>10

\* The first frame is taken: if it is one of the ECU's, the others come after it.
LEMMA Tailed ==
  ASSUME frames \in Seq(Frame), frames # <<>>, frames' = Tail(frames)
  PROVE  /\ frames' \in Seq(Frame) /\ frames[1] \in Frame /\ 1 \in DOMAIN frames
         /\ \A p \in DOMAIN frames' : /\ p \in Nat /\ p >= 1 /\ p + 1 \in DOMAIN frames
                                      /\ frames'[p] = frames[p + 1]
         /\ \A p \in DOMAIN frames : /\ p \in Nat /\ p >= 1
                                     /\ p # 1 => p - 1 \in DOMAIN frames'
  OBVIOUS

LEMMA QueuedIs ==
  ASSUME frames \in Seq(Frame), FramesOK, NEW p \in Queue
  PROVE  /\ frames[p] \in Frame /\ frames[p].of \in Nat \ {0} /\ ~frames[p].tp
         /\ PartOK(frames[p].frame) /\ Index(frames[p].frame) \in Nat
         /\ Item(frames[p]) \in Items
<1>1. p \in DOMAIN frames /\ frames[p].of # 0 /\ ~frames[p].tp
  BY DEF Queue
<1>2. frames[p] \in Frame
  BY <1>1
<1>3. PartOK(frames[p].frame)
  BY <1>1 DEF FramesOK, FrameOK
<1> QED BY <1>1, <1>2, <1>3, PartIs DEF Items, Frame

LEMMA Removed ==
  ASSUME frames \in Seq(Frame), frames # <<>>, frames' = Tail(frames), Ordered, FramesOK
  PROVE  /\ Ordered' /\ FramesOK'
         /\ 1 \notin Queue => Items' = Items
         /\ 1 \in Queue =>
              /\ Item(frames[1]) \in Items
              /\ Items' = Items \ {Item(frames[1])}
              /\ \A k, j : <<k, j>> \in Items' =>
                   Before(frames[1].of, Index(frames[1].frame), k, j)
<1>1. /\ 1 \in DOMAIN frames
      /\ \A p \in DOMAIN frames' : /\ p \in Nat /\ p >= 1 /\ p + 1 \in DOMAIN frames
                                   /\ frames'[p] = frames[p + 1]
      /\ \A p \in DOMAIN frames : /\ p \in Nat /\ p >= 1
                                  /\ p # 1 => p - 1 \in DOMAIN frames'
  BY Tailed
<1>2. \A p \in Queue' : /\ p \in Nat /\ p >= 1 /\ p + 1 \in Queue /\ p + 1 > 1
                        /\ frames'[p] = frames[p + 1]
  BY <1>1 DEF Queue
<1>3. \A p \in Queue : p # 1 => p - 1 \in Queue' /\ frames'[p - 1] = frames[p]
  <2>1. SUFFICES ASSUME NEW p \in Queue, p # 1
                 PROVE  p - 1 \in Queue' /\ frames'[p - 1] = frames[p]
    OBVIOUS
  <2>2. p \in DOMAIN frames /\ frames[p].of # 0 /\ ~frames[p].tp
    BY DEF Queue
  <2>3. p - 1 \in DOMAIN frames' /\ p \in Nat
    BY <1>1, <2>1, <2>2
  <2>4. frames'[p - 1] = frames[(p - 1) + 1] /\ (p - 1) + 1 = p
    BY <1>1, <2>3
  <2> QED BY <2>2, <2>3, <2>4 DEF Queue
<1>4. Ordered'
  <2>1. SUFFICES ASSUME NEW a \in Queue', NEW b \in Queue', a < b
                 PROVE  Before(frames'[a].of, Index(frames'[a].frame),
                               frames'[b].of, Index(frames'[b].frame))
    BY DEF Ordered
  <2>2. a + 1 \in Queue /\ b + 1 \in Queue /\ a + 1 < b + 1
    BY <1>2, <2>1
  <2>3. frames'[a] = frames[a + 1] /\ frames'[b] = frames[b + 1]
    BY <1>2
  <2>4. Before(frames[a + 1].of, Index(frames[a + 1].frame),
               frames[b + 1].of, Index(frames[b + 1].frame))
    BY <2>2, Zenon DEF Ordered
  <2> QED BY <2>3, <2>4
<1>5. FramesOK'
  BY <1>1 DEF FramesOK
<1>6. \A y : y \in Items' <=> \E p \in Queue : p # 1 /\ y = Item(frames[p])
  <2>1. ASSUME NEW y, y \in Items' PROVE \E p \in Queue : p # 1 /\ y = Item(frames[p])
    <3>1. PICK p \in Queue' : y = Item(frames'[p])
      BY <2>1 DEF Items
    <3>2. p + 1 \in Queue /\ p + 1 # 1
      BY <1>2
    <3>3. frames'[p] = frames[p + 1]
      BY <1>2
    <3> QED BY <3>1, <3>2, <3>3, Zenon
  <2>2. ASSUME NEW p \in Queue, p # 1 PROVE Item(frames[p]) \in Items'
    <3>1. p - 1 \in Queue' /\ frames'[p - 1] = frames[p]
      BY <1>3, <2>2
    <3>2. Item(frames[p]) = Item(frames'[p - 1])
      BY <3>1
    <3> QED BY <3>1, <3>2 DEF Items
  <2> QED BY <2>1, <2>2
<1>7. \A y : y \in Items <=> \E p \in Queue : y = Item(frames[p])
  BY DEF Items
<1>8. CASE 1 \notin Queue
  BY <1>4, <1>5, <1>6, <1>7, <1>8
<1>9. CASE 1 \in Queue
  <2>1. \A p \in Queue : p # 1 => Before(frames[1].of, Index(frames[1].frame),
                                         frames[p].of, Index(frames[p].frame))
    <3>1. \A p \in Queue : p # 1 => 1 < p
      BY <1>1 DEF Queue
    <3> QED BY <3>1, <1>9 DEF Ordered
  <2>2. ASSUME NEW k, NEW j, <<k, j>> \in Items'
        PROVE  Before(frames[1].of, Index(frames[1].frame), k, j)
    <3>1. PICK p \in Queue : p # 1 /\ <<k, j>> = Item(frames[p])
      BY <1>6, <2>2
    <3>2. k = frames[p].of /\ j = Index(frames[p].frame)
      BY <3>1 DEF Item
    <3> QED BY <2>1, <3>1, <3>2
  <2>3. Item(frames[1]) \notin Items'
    <3>1. SUFFICES ASSUME NEW p \in Queue, p # 1, Item(frames[1]) = Item(frames[p]) PROVE FALSE
      BY <1>6
    <3>2. frames[1].of = frames[p].of /\ Index(frames[1].frame) = Index(frames[p].frame)
      BY <3>1 DEF Item
    <3>3. frames[1].of \in Nat /\ Index(frames[1].frame) \in Nat
      BY <1>9, QueuedIs
    <3> QED BY <2>1, <3>1, <3>2, <3>3 DEF Before
  <2> QED BY <1>4, <1>5, <1>6, <1>7, <1>9, <2>2, <2>3
<1> QED BY <1>8, <1>9

-----------------------------------------------------------------------------
(* The invariant: what is known whatever is lost or late *)

Busy  == ecu.state # "idle"
New   == call.active /\ call.rx.state = "EXPECT_SF_OR_FF"
Going == call.active /\ call.rx.state = "EXPECT_CF"

EcuOK ==
  /\ Busy => /\ ecu.msg \in Nat \ {0} /\ ecu.length \in EcuLengths /\ ecu.length > 7
             /\ ecu.next \in Nat \ {0} /\ ecu.next <= Consecutive(ecu.length)
  /\ ecu.state = "awaiting" => ecu.next = 1

\* What is in the queue has been sent.
Placed ==
  \A m, i : <<m, i>> \in Items =>
    /\ m \in Nat /\ m >= 1 /\ m <= ecu.msg /\ i \in Nat
    /\ Busy /\ m = ecu.msg => i < ecu.next

CallOK ==
  /\ ~call.active => call = NoCall
  /\ New => call.rx = NewMessage(call.wanted) /\ call.from = {}
  /\ Going => /\ call.rx.arb = "ecu" /\ call.rx.received < call.rx.len
              /\ call.from # {} /\ \A x \in call.from : x \in Nat /\ x >= 1 /\ x <= ecu.msg

\* The messages that have been returned, wholly or in part.
Taken == UNION {results[k].from : k \in Received}

\* What may still be returned is later than what has been.
TakenOK ==
  /\ \A a \in Taken : /\ a \in Nat /\ a <= ecu.msg
                      /\ \A m : <<m, 0>> \in Items => m > a
                      /\ \A x \in call.from : x > a
  /\ \A x \in call.from : \A m, i : <<m, i>> \in Items => m >= x /\ (i = 0 => m > x)

Inv == /\ HandlerTypeOK /\ FramesOK /\ EcuOK /\ Ordered /\ Placed
       /\ CallOK /\ TakenOK /\ ReceivedInOrder

LEMMA InitInv == HandlerInit => Inv
<1>1. SUFFICES ASSUME HandlerInit PROVE Inv
  OBVIOUS
<1> USE <1>1 DEF HandlerInit
<1>2. frames = <<>> /\ DOMAIN frames = {} /\ Queue = {} /\ Items = {}
  BY DEF Queue, Items
<1>3. results = <<>> /\ Received = {} /\ Taken = {}
  BY DEF Received, Taken
<1>4. call = NoCall /\ call.active = FALSE /\ call.from = {}
  BY DEF NoCall
<1>5. NewMessage(NoArb) \in RxMessages(Arbs)
  BY DEF NewMessage, RxMessages, RxStates
<1>6. /\ call \in [active : BOOLEAN, wanted : Wanted, rx : RxMessages(Arbs),
                   from : SUBSET (0..MaxMessages), clean : BOOLEAN]
      /\ call.rx.state = "EXPECT_SF_OR_FF"
  BY <1>4, <1>5 DEF NoCall, Wanted, NewMessage
<1>7. /\ frames \in Seq(Frame) /\ flow \in BOOLEAN
      /\ results \in Seq([outcome : Outcomes, wanted : Wanted, rx : RxMessages(Arbs),
                          from : SUBSET (0..MaxMessages), clean : BOOLEAN])
  <2>1. \A S : <<>> \in Seq(S)
    OBVIOUS
  <2> QED BY <1>2, <1>3, <2>1, Zenon
<1>8. /\ ecu \in [state : EcuStates, msg : 0..MaxMessages, length : EcuLengths \cup {0}, next : Nat]
      /\ strays \in 0..MaxStray /\ lost \in 0..MaxLost /\ late \in 0..MaxLate
  BY BoundsAssumption, FaultsAssumption DEF EcuStates
<1>9. HandlerTypeOK
  BY <1>6, <1>7, <1>8, Zenon DEF HandlerTypeOK
<1>10. FramesOK /\ Ordered /\ Placed
  BY <1>2 DEF FramesOK, Ordered, Placed
<1>11. EcuOK
  BY DEF EcuOK, Busy
<1>12. CallOK /\ TakenOK
  BY <1>2, <1>3, <1>4 DEF CallOK, TakenOK, New, Going
<1>13. ReceivedInOrder
  BY <1>3 DEF ReceivedInOrder
<1> QED BY <1>9, <1>10, <1>11, <1>12, <1>13 DEF Inv

-----------------------------------------------------------------------------
(* What is taken from the queue *)

\* Results only ever grow.
LEMMA Returned ==
  ASSUME HandlerTypeOK, NEW r, results' = Append(results, r)
  PROVE  /\ r.outcome = "Message" => Taken' = Taken \cup r.from
         /\ r.outcome # "Message" => Taken' = Taken
         /\ ReceivedInOrder /\ (r.outcome = "Message" /\ r.rx.arb = "ecu" =>
                                  \A a \in Taken, b \in r.from : a < b)
              => ReceivedInOrder'
<1> DEFINE n == Len(results)
<1>1. /\ n \in Nat /\ DOMAIN results = 1..n /\ DOMAIN results' = 1..(n + 1)
      /\ \A k \in 1..n : results'[k] = results[k]
      /\ results'[n + 1] = r
  <2>1. results \in Seq([outcome : Outcomes, wanted : Wanted, rx : RxMessages(Arbs),
                          from : SUBSET (0..MaxMessages), clean : BOOLEAN])
    BY DEF HandlerTypeOK
  <2> QED BY <2>1
<1> HIDE DEF n
<1>2. \A k : k \in 1..n => k \in Nat /\ k < n + 1 /\ k # n + 1
  BY <1>1
<1>3. \A k : k \in 1..(n + 1) <=> k \in 1..n \/ k = n + 1
  BY <1>1
<1>4. \A k : k \in Received' <=> k \in Received \/ (k = n + 1 /\ r.outcome = "Message")
  BY <1>1, <1>2, <1>3 DEF Received
<1>5. \A k \in Received : k \in 1..n /\ results'[k] = results[k]
  BY <1>1 DEF Received
<1>6. \A a : a \in Taken' <=> a \in Taken \/ (r.outcome = "Message" /\ a \in r.from)
  BY <1>1, <1>4, <1>5 DEF Taken
<1>7. ASSUME ReceivedInOrder,
             r.outcome = "Message" /\ r.rx.arb = "ecu" => \A a \in Taken, b \in r.from : a < b
      PROVE  ReceivedInOrder'
  <2>1. SUFFICES ASSUME NEW j \in Received', NEW k \in Received', j < k,
                        results'[k].rx.arb = "ecu"
                 PROVE  \A a \in results'[j].from, b \in results'[k].from : a < b
    BY DEF ReceivedInOrder
  <2>2. CASE k \in Received
    <3>1. j \in Received
      BY <1>1, <1>2, <1>4, <1>5, <2>1, <2>2
    <3> QED BY <1>5, <1>7, <2>1, <2>2, <3>1 DEF ReceivedInOrder
  <2>3. CASE k = n + 1 /\ r.outcome = "Message"
    <3>1. j \in Received
      BY <1>1, <1>4, <2>1, <2>3
    <3>2. results'[j].from \subseteq Taken
      BY <1>5, <3>1 DEF Taken
    <3> QED BY <1>1, <1>7, <2>1, <2>3, <3>2
  <2> QED BY <1>4, <2>2, <2>3
<1> QED BY <1>6, <1>7

-----------------------------------------------------------------------------
(* The steps of the ECU *)

\* Frame i of a message with n bytes, after all those in the queue: it gets
\* there, or one is lost.
LEMMA EcuSent ==
  ASSUME HandlerTypeOK, FramesOK, Ordered,
         NEW n \in EcuLengths, NEW i \in Nat, i <= Consecutive(n), EcuSends(EcuFrame(n, i)),
         NEW m \in Nat \ {0}, ecu'.msg = m,
         \A k, j : <<k, j>> \in Items => Before(k, j, m, i)
  PROVE  /\ frames' \in Seq(Frame) /\ FramesOK' /\ Ordered'
         /\ \/ /\ Items' = Items \cup {<<m, i>>} /\ UNCHANGED <<call, faults>>
               /\ frames' = Append(frames, [frame |-> EcuFrame(n, i), of |-> m, tp |-> FALSE])
            \/ /\ Items' = Items /\ Lose
               /\ frames' = frames \/
                  frames' = Append(frames, [frame |-> EcuFrame(n, i), of |-> m, tp |-> TRUE])
<1> DEFINE g    == EcuFrame(n, i)
           good == [frame |-> g, of |-> m, tp |-> FALSE]
           bad  == [frame |-> g, of |-> m, tp |-> TRUE]
<1>0. frames \in Seq(Frame)
  BY DEF HandlerTypeOK
<1>1. n \in Nat /\ i \in 0..Consecutive(n)
  BY LengthIs, ConsecutiveIs
<1>2. g \in Frames(Arbs) /\ Index(g) = i
  BY <1>1, EcuFrameIs
<1>3. PartOK(g)
  BY <1>1 DEF PartOK
<1>4. \/ frames' = Append(frames, good) /\ UNCHANGED <<call, faults>>
      \/ frames' = Append(frames, bad) /\ Lose
      \/ frames' = frames /\ Lose
  BY DEF EcuSends, Arrives
<1> HIDE DEF g
<1>5. good \in Frame /\ bad \in Frame
  BY <1>2 DEF Frame
<1>6. FrameOK(good) /\ FrameOK(bad)
  BY <1>3 DEF FrameOK
<1>7. ASSUME NEW x \in Frame, FrameOK(x), frames' = Append(frames, x)
      PROVE  frames' \in Seq(Frame) /\ FramesOK'
  <2>1. /\ frames' \in Seq(Frame) /\ DOMAIN frames' = DOMAIN frames \cup {Len(frames) + 1}
        /\ \A p \in DOMAIN frames : frames'[p] = frames[p]
        /\ frames'[Len(frames) + 1] = x
    BY <1>0, <1>7, Appended
  <2> QED BY <1>7, <2>1 DEF FramesOK
<1>8. CASE frames' = Append(frames, good) /\ UNCHANGED <<call, faults>>
  <2>1. Item(good) = <<m, i>> /\ good.of # 0 /\ ~good.tp
    BY <1>2 DEF Item
  <2> HIDE DEF good
  <2>2. Items' = Items \cup {<<m, i>>} /\ Ordered'
    BY <1>0, <1>5, <1>8, <2>1, Added, Zenon
  <2> QED BY <1>5, <1>6, <1>7, <1>8, <2>2 DEF good, g
<1>9. CASE frames' = Append(frames, bad) /\ Lose
  <2>1. bad.tp
    OBVIOUS
  <2> HIDE DEF bad
  <2>2. Items' = Items /\ Ordered'
    BY <1>0, <1>5, <1>9, <2>1, NotAdded, Zenon
  <2> QED BY <1>5, <1>6, <1>7, <1>9, <2>2 DEF bad, g
<1>10. CASE frames' = frames /\ Lose
  <2>1. Items' = Items /\ Ordered' /\ FramesOK'
    BY <1>10 DEF Items, Queue, Ordered, FramesOK
  <2> QED BY <1>0, <1>10, <2>1
<1> QED BY <1>4, <1>8, <1>9, <1>10

\* A call is not touched but for its cleanness.
LEMMA Unharmed ==
  ASSUME HandlerTypeOK, UNCHANGED call \/ call' = [call EXCEPT !.clean = FALSE]
  PROVE  /\ call'.active = call.active /\ call'.wanted = call.wanted
         /\ call'.rx = call.rx /\ call'.from = call.from
         /\ New' = New /\ Going' = Going
         /\ call' \in [active : BOOLEAN, wanted : Wanted, rx : RxMessages(Arbs),
                       from : SUBSET (0..MaxMessages), clean : BOOLEAN]
         /\ call = NoCall => call' = NoCall
<1>1. call \in [active : BOOLEAN, wanted : Wanted, rx : RxMessages(Arbs),
                from : SUBSET (0..MaxMessages), clean : BOOLEAN]
  BY DEF HandlerTypeOK
<1>2. /\ call'.active = call.active /\ call'.wanted = call.wanted
      /\ call'.rx = call.rx /\ call'.from = call.from
  BY <1>1
<1>3. call' \in [active : BOOLEAN, wanted : Wanted, rx : RxMessages(Arbs),
                 from : SUBSET (0..MaxMessages), clean : BOOLEAN]
  BY <1>1
<1>4. call = NoCall => call' = NoCall
  BY DEF NoCall
<1> QED BY <1>2, <1>3, <1>4 DEF New, Going

LEMMA LoseIs ==
  ASSUME HandlerTypeOK, Lose
  PROVE  /\ call' = [call EXCEPT !.clean = FALSE] /\ lost' = lost + 1 /\ late' = late
         /\ lost' \in 0..MaxLost /\ late' \in 0..MaxLate
  BY FaultsAssumption DEF HandlerTypeOK, Lose

\* What the steps that leave the results alone have to show for them.
LEMMA SameResults ==
  ASSUME UNCHANGED results
  PROVE  Received' = Received /\ Taken' = Taken /\ (ReceivedInOrder => ReceivedInOrder')
  BY DEF Received, Taken, ReceivedInOrder

LEMMA EcuIs ==
  ASSUME HandlerTypeOK
  PROVE  /\ ecu.state \in EcuStates /\ ecu.msg \in 0..MaxMessages /\ ecu.msg \in Nat
         /\ ecu.length \in EcuLengths \cup {0} /\ ecu.next \in Nat
         /\ ecu = [state |-> ecu.state, msg |-> ecu.msg, length |-> ecu.length, next |-> ecu.next]
  BY BoundsAssumption DEF HandlerTypeOK

LEMMA BeginsInv ==
  ASSUME Inv, NEW n \in EcuLengths, EcuBegins(n)
  PROVE  Inv'
<1> DEFINE m == ecu.msg + 1
<1>1. HandlerTypeOK /\ FramesOK /\ EcuOK /\ Ordered /\ Placed /\ CallOK /\ TakenOK /\ ReceivedInOrder
  BY DEF Inv
<1>2. /\ ecu' = [state |-> IF n > 7 THEN "awaiting" ELSE "idle",
                  msg |-> m, length |-> n, next |-> 1]
      /\ ecu.msg < MaxMessages /\ EcuSends(EcuFrame(n, 0))
      /\ UNCHANGED <<flow, results, strays>>
  BY DEF EcuBegins
<1>3. ecu.msg \in Nat /\ ecu.msg \in 0..MaxMessages /\ m \in Nat \ {0} /\ m \in 0..MaxMessages
  BY <1>1, <1>2, EcuIs, BoundsAssumption
<1>4. n \in Nat /\ 0 \in Nat /\ Consecutive(n) \in Nat /\ 0 <= Consecutive(n)
  BY LengthIs, ConsecutiveIs
<1>5. ecu'.msg = m /\ ecu'.length = n /\ ecu'.next = 1 /\ (ecu'.state # "idle" => n > 7)
  BY <1>2
<1>6. \A k, j : <<k, j>> \in Items => k < m /\ Before(k, j, m, 0)
  BY <1>1, <1>3 DEF Placed, Before
<1> HIDE DEF m
<1>7. /\ frames' \in Seq(Frame) /\ FramesOK' /\ Ordered'
      /\ \/ Items' = Items \cup {<<m, 0>>} /\ UNCHANGED <<call, faults>>
         \/ Items' = Items /\ Lose
  BY <1>1, <1>2, <1>3, <1>4, <1>5, <1>6, EcuSent
<1>8. UNCHANGED call \/ call' = [call EXCEPT !.clean = FALSE]
  BY <1>1, <1>7, LoseIs
<1>9. /\ call'.active = call.active /\ call'.wanted = call.wanted
      /\ call'.rx = call.rx /\ call'.from = call.from
      /\ New' = New /\ Going' = Going
      /\ call' \in [active : BOOLEAN, wanted : Wanted, rx : RxMessages(Arbs),
                    from : SUBSET (0..MaxMessages), clean : BOOLEAN]
      /\ call = NoCall => call' = NoCall
  BY <1>1, <1>8, Unharmed, Zenon
<1>10. lost' \in 0..MaxLost /\ late' \in 0..MaxLate
  BY <1>1, <1>7, LoseIs DEF HandlerTypeOK, faults
<1>11. ecu' \in [state : EcuStates, msg : 0..MaxMessages, length : EcuLengths \cup {0}, next : Nat]
  BY <1>2, <1>3 DEF EcuStates
<1>12. HandlerTypeOK'
  BY <1>1, <1>2, <1>7, <1>9, <1>10, <1>11, Zenon DEF HandlerTypeOK
<1>13. EcuOK'
  BY <1>3, <1>4, <1>5, ConsecutiveIs DEF EcuOK, Busy
<1>14. \A k, j : <<k, j>> \in Items' => <<k, j>> \in Items \/ (k = m /\ j = 0)
  BY <1>7
<1>15. Placed'
  BY <1>1, <1>3, <1>5, <1>6, <1>14 DEF Placed
<1>16. \A x \in call.from : x \in Nat /\ x < m
  <2>1. Going => \A x \in call.from : x \in Nat /\ x >= 1 /\ x <= ecu.msg
    BY <1>1 DEF CallOK
  <2>2. Going \/ call.from = {}
    BY <1>1 DEF CallOK, HandlerTypeOK, New, Going, NoCall
  <2> QED BY <1>3, <2>1, <2>2 DEF m
<1>17. CallOK'
  <2>1. \A x \in call.from : x <= ecu.msg => x <= m
    BY <1>3, <1>16
  <2> QED BY <1>1, <1>5, <1>9, <2>1 DEF CallOK
<1>18. Taken' = Taken /\ ReceivedInOrder'
  BY <1>1, <1>2, SameResults
<1>19. \A a \in Taken : a \in Nat /\ a <= ecu.msg /\ a < m
  BY <1>1, <1>3 DEF TakenOK, m
<1>20. TakenOK'
  <2>1. \A a \in Taken : a \in Nat /\ a <= m /\ (\A x \in call.from : x > a)
    BY <1>1, <1>3, <1>19 DEF TakenOK
  <2>2. \A a \in Taken : \A k : <<k, 0>> \in Items' => k > a
    BY <1>1, <1>3, <1>14, <1>19 DEF TakenOK
  <2>3. \A x \in call.from : \A k, j : <<k, j>> \in Items' => k >= x /\ (j = 0 => k > x)
    BY <1>1, <1>3, <1>14, <1>16 DEF TakenOK
  <2> QED BY <1>5, <1>9, <1>18, <2>1, <2>2, <2>3 DEF TakenOK
<1> QED BY <1>7, <1>12, <1>13, <1>15, <1>17, <1>18, <1>20 DEF Inv

LEMMA ContinuesInv ==
  ASSUME Inv, EcuContinues
  PROVE  Inv'
<1> DEFINE m == ecu.msg
           i == ecu.next
           n == ecu.length
<1>1. HandlerTypeOK /\ FramesOK /\ EcuOK /\ Ordered /\ Placed /\ CallOK /\ TakenOK /\ ReceivedInOrder
  BY DEF Inv
<1>2. /\ ecu.state = "sending"
      /\ ecu' = [ecu EXCEPT !.next = @ + 1,
                            !.state = IF i = Consecutive(n) THEN "idle" ELSE @]
      /\ EcuSends(EcuFrame(n, i))
      /\ UNCHANGED <<flow, results, strays>>
  BY DEF EcuContinues
<1>3. /\ m \in Nat \ {0} /\ n \in EcuLengths /\ n > 7 /\ n \in Nat
      /\ i \in Nat /\ i >= 1 /\ i <= Consecutive(n) /\ Busy
  BY <1>1, <1>2, LengthIs DEF EcuOK, Busy
<1>4. ecu'.msg = m /\ ecu'.length = n /\ ecu'.next = i + 1
      /\ (ecu'.state # "idle" => i # Consecutive(n) /\ ecu'.state = "sending")
  BY <1>1, <1>2, EcuIs
<1>5. ecu' \in [state : EcuStates, msg : 0..MaxMessages, length : EcuLengths \cup {0}, next : Nat]
  <2>1. ecu \in [state : EcuStates, msg : 0..MaxMessages, length : EcuLengths \cup {0}, next : Nat]
    BY <1>1 DEF HandlerTypeOK
  <2>2. "idle" \in EcuStates /\ i + 1 \in Nat
    BY <1>3 DEF EcuStates
  <2>3. IF i = Consecutive(n) THEN "idle" \in EcuStates ELSE ecu.state \in EcuStates
    BY <2>1, <2>2
  <2> QED BY <1>2, <2>1, <2>2, <2>3
<1>6. \A k, j : <<k, j>> \in Items => Before(k, j, m, i)
  BY <1>1, <1>3 DEF Placed, Before
<1> HIDE DEF m, i, n
<1>7. /\ frames' \in Seq(Frame) /\ FramesOK' /\ Ordered'
      /\ \/ Items' = Items \cup {<<m, i>>} /\ UNCHANGED <<call, faults>>
         \/ Items' = Items /\ Lose
  BY <1>1, <1>2, <1>3, <1>4, <1>6, EcuSent
<1>8. UNCHANGED call \/ call' = [call EXCEPT !.clean = FALSE]
  BY <1>1, <1>7, LoseIs
<1>9. /\ call'.active = call.active /\ call'.wanted = call.wanted
      /\ call'.rx = call.rx /\ call'.from = call.from
      /\ New' = New /\ Going' = Going
      /\ call' \in [active : BOOLEAN, wanted : Wanted, rx : RxMessages(Arbs),
                    from : SUBSET (0..MaxMessages), clean : BOOLEAN]
      /\ call = NoCall => call' = NoCall
  BY <1>1, <1>8, Unharmed, Zenon
<1>10. lost' \in 0..MaxLost /\ late' \in 0..MaxLate
  BY <1>1, <1>7, LoseIs DEF HandlerTypeOK, faults
<1>11. HandlerTypeOK'
  BY <1>1, <1>2, <1>5, <1>7, <1>9, <1>10, Zenon DEF HandlerTypeOK
<1>12. EcuOK'
  BY <1>3, <1>4, ConsecutiveIs DEF EcuOK, Busy
<1>13. \A k, j : <<k, j>> \in Items' => <<k, j>> \in Items \/ (k = m /\ j = i)
  BY <1>7
<1>14. Placed'
  <2>1. \A k, j : <<k, j>> \in Items =>
          k \in Nat /\ k >= 1 /\ k <= m /\ j \in Nat /\ (k = m => j < i)
    BY <1>1, <1>3 DEF Placed, m, i
  <2> QED BY <1>3, <1>4, <1>13, <2>1 DEF Placed
<1>15. \A x \in call.from : x \in Nat /\ x <= m
  <2>1. Going => \A x \in call.from : x \in Nat /\ x >= 1 /\ x <= ecu.msg
    BY <1>1 DEF CallOK
  <2>2. Going \/ call.from = {}
    BY <1>1 DEF CallOK, HandlerTypeOK, New, Going, NoCall
  <2> QED BY <1>3, <2>1, <2>2 DEF m
<1>16. CallOK'
  <2>1. ecu'.msg = ecu.msg
    BY <1>4 DEF m
  <2> QED BY <1>1, <1>9, <2>1, Zenon DEF CallOK
<1>17. Taken' = Taken /\ ReceivedInOrder'
  BY <1>1, <1>2, SameResults
<1>18. TakenOK'
  <2>1. \A a \in Taken : a \in Nat /\ a <= m /\ (\A x \in call.from : x > a)
    BY <1>1 DEF TakenOK, m
  <2>2. \A a \in Taken : \A k : <<k, 0>> \in Items' => k > a
    BY <1>1, <1>3, <1>13 DEF TakenOK
  <2>3. \A x \in call.from : \A k, j : <<k, j>> \in Items' => k >= x /\ (j = 0 => k > x)
    BY <1>1, <1>3, <1>13, <1>15 DEF TakenOK
  <2> QED BY <1>4, <1>9, <1>17, <2>1, <2>2, <2>3 DEF TakenOK
<1> QED BY <1>7, <1>11, <1>12, <1>14, <1>16, <1>17, <1>18 DEF Inv

LEMMA FlowControlledInv ==
  ASSUME Inv, EcuFlowControlled
  PROVE  Inv'
<1>1. HandlerTypeOK /\ FramesOK /\ EcuOK /\ Ordered /\ Placed /\ CallOK /\ TakenOK /\ ReceivedInOrder
  BY DEF Inv
<1>2. /\ flow' = FALSE /\ UNCHANGED <<frames, call, results, strays, faults>>
      /\ ecu' = [ecu EXCEPT !.state = IF @ = "awaiting" THEN "sending" ELSE @]
  BY DEF EcuFlowControlled
<1>3. /\ ecu'.msg = ecu.msg /\ ecu'.length = ecu.length /\ ecu'.next = ecu.next
      /\ Busy' = Busy /\ ecu'.state # "awaiting"
      /\ ecu' \in [state : EcuStates, msg : 0..MaxMessages, length : EcuLengths \cup {0}, next : Nat]
  BY <1>1, <1>2 DEF HandlerTypeOK, EcuStates, Busy
<1>4. Queue' = Queue /\ Items' = Items /\ Ordered' /\ FramesOK'
  BY <1>1, <1>2 DEF Queue, Items, Ordered, FramesOK
<1>5. HandlerTypeOK'
  BY <1>1, <1>2, <1>3 DEF HandlerTypeOK, faults
<1>6. EcuOK' /\ Placed'
  BY <1>1, <1>3, <1>4 DEF EcuOK, Placed
<1>7. Taken' = Taken /\ ReceivedInOrder'
  BY <1>1, <1>2, SameResults
<1>8. CallOK'
  BY <1>1, <1>2, <1>3 DEF CallOK, New, Going
<1>9. TakenOK'
  BY <1>1, <1>2, <1>3, <1>4, <1>7 DEF TakenOK
<1> QED BY <1>4, <1>5, <1>6, <1>7, <1>8, <1>9 DEF Inv

LEMMA GivesUpInv ==
  ASSUME Inv, EcuGivesUp
  PROVE  Inv'
<1>1. HandlerTypeOK /\ FramesOK /\ EcuOK /\ Ordered /\ Placed /\ CallOK /\ TakenOK /\ ReceivedInOrder
  BY DEF Inv
<1>2. /\ ecu' = [ecu EXCEPT !.state = "idle"] /\ UNCHANGED <<frames, flow, results, strays>>
      /\ \/ UNCHANGED <<call, faults>>
         \/ /\ late < MaxLate /\ late' = late + 1 /\ lost' = lost
            /\ call' = [call EXCEPT !.clean = FALSE]
  BY DEF EcuGivesUp
<1>3. /\ ecu'.msg = ecu.msg /\ ~Busy' /\ ecu'.state = "idle"
      /\ ecu' \in [state : EcuStates, msg : 0..MaxMessages, length : EcuLengths \cup {0}, next : Nat]
  BY <1>1, <1>2 DEF HandlerTypeOK, EcuStates, Busy
<1>4. Queue' = Queue /\ Items' = Items /\ Ordered' /\ FramesOK'
  BY <1>1, <1>2 DEF Queue, Items, Ordered, FramesOK
<1>5. UNCHANGED call \/ call' = [call EXCEPT !.clean = FALSE]
  BY <1>2
<1>6. /\ call'.active = call.active /\ call'.wanted = call.wanted
      /\ call'.rx = call.rx /\ call'.from = call.from
      /\ New' = New /\ Going' = Going
      /\ call' \in [active : BOOLEAN, wanted : Wanted, rx : RxMessages(Arbs),
                    from : SUBSET (0..MaxMessages), clean : BOOLEAN]
      /\ call = NoCall => call' = NoCall
  BY <1>1, <1>5, Unharmed, Zenon
<1>7. lost' \in 0..MaxLost /\ late' \in 0..MaxLate
  BY <1>1, <1>2, FaultsAssumption DEF HandlerTypeOK, faults
<1>8. HandlerTypeOK'
  BY <1>1, <1>2, <1>3, <1>6, <1>7, Zenon DEF HandlerTypeOK
<1>9. EcuOK' /\ Placed'
  BY <1>1, <1>3, <1>4 DEF EcuOK, Placed
<1>10. Taken' = Taken /\ ReceivedInOrder'
  BY <1>1, <1>2, SameResults
<1>11. CallOK'
  BY <1>1, <1>3, <1>6, Zenon DEF CallOK
<1>12. TakenOK'
  BY <1>1, <1>3, <1>4, <1>6, <1>10, Zenon DEF TakenOK
<1> QED BY <1>4, <1>8, <1>9, <1>10, <1>11, <1>12 DEF Inv

\* A stray is fed to nobody's message but that of a call for any sender.
LEMMA Strayed ==
  ASSUME HandlerTypeOK, FramesOK, Ordered, Stray
  PROVE  /\ frames' \in Seq(Frame) /\ FramesOK' /\ Ordered' /\ Items' = Items /\ Queue' = Queue
         /\ \E x \in Frame : x.of = 0 /\ frames' = Append(frames, x)
         /\ UNCHANGED <<ecu, flow, call, results, faults>> /\ strays' \in 0..MaxStray
<1> DEFINE seven == Slice(7, 1, 7)
           other(kind) == [frame |-> [arb |-> "other", kind |-> kind, num |-> 1, data |-> seven],
                           of |-> 0, tp |-> FALSE]
           three  == <<1, 2, 3>>
           answer == [frame |-> [arb |-> "ecu", kind |-> "SF", num |-> 3, data |-> three],
                      of |-> 0, tp |-> TRUE]
<1>0. frames \in Seq(Frame)
  BY DEF HandlerTypeOK
<1>1. seven \in Seq(Bytes)
  <2>1. 7 \in Nat /\ 1 \in Nat \ {0} /\ 1 <= 7 + 1
    OBVIOUS
  <2> QED BY <2>1, SliceIs, Zenon
<1>2. three \in Seq(Bytes)
  BY DEF Bytes
<1>3. \/ \E kind \in {"SF", "CF", "FC"} : frames' = Append(frames, other(kind))
      \/ frames' = Append(frames, answer)
  BY DEF Stray, Arrives
<1>4. /\ UNCHANGED <<ecu, flow, call, results, faults>> /\ strays' \in 0..MaxStray
  BY BoundsAssumption DEF Stray, HandlerTypeOK
<1>5. \A kind \in {"SF", "CF", "FC"} : other(kind) \in Frame /\ FrameOK(other(kind))
  <2> HIDE DEF seven
  <2>1. SUFFICES ASSUME NEW kind \in {"SF", "CF", "FC"}
                 PROVE  other(kind) \in Frame /\ FrameOK(other(kind))
    OBVIOUS
  <2>2. kind \in Kinds /\ "other" \in Arbs /\ 1 \in Nat
    BY DEF Kinds, Arbs
  <2>3. [arb |-> "other", kind |-> kind, num |-> 1, data |-> seven] \in Frames(Arbs)
    BY <1>1, <2>2, Zenon DEF Frames
  <2>4. other(kind) \in Frame
    BY <2>3 DEF Frame
  <2>5. StrayOK([arb |-> "other", kind |-> kind, num |-> 1, data |-> seven])
    BY <2>3 DEF StrayOK, seven
  <2> QED BY <2>4, <2>5 DEF FrameOK
<1>6. answer \in Frame /\ FrameOK(answer)
  <2> HIDE DEF three
  <2>1. "SF" \in Kinds /\ "ecu" \in Arbs /\ 3 \in Nat
    BY DEF Kinds, Arbs
  <2>2. [arb |-> "ecu", kind |-> "SF", num |-> 3, data |-> three] \in Frames(Arbs)
    BY <1>2, <2>1, Zenon DEF Frames
  <2> QED BY <2>2 DEF Frame, FrameOK
<1>7. \E x \in Frame : FrameOK(x) /\ x.of = 0 /\ frames' = Append(frames, x)
  <2>1. answer.of = 0 /\ \A kind : other(kind).of = 0
    OBVIOUS
  <2> HIDE DEF other, answer
  <2> QED BY <1>3, <1>5, <1>6, <2>1, Zenon
<1>8. PICK x \in Frame : FrameOK(x) /\ x.of = 0 /\ frames' = Append(frames, x)
  BY <1>7
<1>9. Queue' = Queue /\ Items' = Items /\ Ordered'
  BY <1>0, <1>8, NotAdded, Zenon
<1>10. frames' \in Seq(Frame) /\ FramesOK'
  <2>1. /\ frames' \in Seq(Frame) /\ DOMAIN frames' = DOMAIN frames \cup {Len(frames) + 1}
        /\ \A p \in DOMAIN frames : frames'[p] = frames[p]
        /\ frames'[Len(frames) + 1] = x
    BY <1>0, <1>8, Appended
  <2> QED BY <1>8, <2>1 DEF FramesOK
<1> QED BY <1>4, <1>8, <1>9, <1>10, Zenon

LEMMA StrayInv ==
  ASSUME Inv, Stray
  PROVE  Inv'
<1>1. HandlerTypeOK /\ FramesOK /\ EcuOK /\ Ordered /\ Placed /\ CallOK /\ TakenOK /\ ReceivedInOrder
  BY DEF Inv
<1>2. /\ frames' \in Seq(Frame) /\ FramesOK' /\ Ordered' /\ Items' = Items
      /\ UNCHANGED <<ecu, flow, call, results, faults>> /\ strays' \in 0..MaxStray
  BY <1>1, Strayed, Zenon
<1>3. HandlerTypeOK'
  BY <1>1, <1>2 DEF HandlerTypeOK, faults
<1>4. EcuOK' /\ Placed'
  BY <1>1, <1>2 DEF EcuOK, Placed, Busy
<1>5. Taken' = Taken /\ ReceivedInOrder'
  BY <1>1, <1>2, SameResults
<1>6. CallOK'
  BY <1>1, <1>2 DEF CallOK, New, Going
<1>7. TakenOK'
  BY <1>1, <1>2, <1>5 DEF TakenOK
<1> QED BY <1>2, <1>3, <1>4, <1>5, <1>6, <1>7 DEF Inv

-----------------------------------------------------------------------------
(* The steps of receive_message() *)

\* The message when the frame has been fed, and what its bytes are part of.
Fed     == IF Skipped(frames[1]) THEN call.rx ELSE Feed(call.rx, frames[1].frame)
FedFrom == IF Fed = call.rx THEN call.from ELSE call.from \cup {frames[1].of}

LEMMA ReceiveIs ==
  ASSUME ReceiveFrame
  PROVE  /\ call.active /\ frames # <<>> /\ frames' = Tail(frames)
         /\ UNCHANGED <<ecu, strays, faults>>
         /\ flow' = (flow \/ Fed.state = "SEND_FC")
         /\ Fed.state = "COMPLETE" => Return("Message", Fed, FedFrom)
         /\ Fed.state = "ERROR" => Return("Error", Fed, FedFrom)
         /\ Fed.state # "COMPLETE" /\ Fed.state # "ERROR" =>
              /\ call' = [call EXCEPT !.rx = FlowControlled(Fed), !.from = FedFrom]
              /\ UNCHANGED results
  BY DEF ReceiveFrame, NextFrame, Fed, FedFrom

\* The outcomes of a turn, for the frame that is taken.
Top == frames[1].frame
Whose == frames[1].of

HeadPassed == 1 \notin Queue /\ UNCHANGED <<flow, call, results>>

HeadStray ==
  /\ 1 \notin Queue /\ New /\ call.wanted = NoArb /\ UNCHANGED flow
  /\ \E rx \in RxMessages(Arbs) :
       /\ rx.arb = "other"
       /\ \/ Return("Error", rx, {0})
          \/ Return("Message", rx, {0}) /\ FirstBytes(rx.payload, 1)

HeadFails ==
  /\ 1 \in Queue /\ UNCHANGED flow
  /\ \E rx \in RxMessages(Arbs) : Return("Error", rx, call.from \cup {Whose})
  /\ \/ New /\ Top.kind = "CF"
     \/ Going /\ ~(Top.kind = "CF" /\ Top.num = call.rx.next)

HeadSingle ==
  /\ 1 \in Queue /\ New /\ Top.kind = "SF" /\ UNCHANGED flow
  /\ \E rx \in RxMessages(Arbs) :
       rx.arb = "ecu" /\ rx.payload = Take(Top.data, Top.num) /\ Return("Message", rx, {Whose})

HeadFirst ==
  /\ 1 \in Queue /\ New /\ Top.kind = "FF" /\ flow' = TRUE /\ UNCHANGED results
  /\ \E rx \in RxMessages(Arbs) :
       /\ rx.arb = "ecu" /\ rx.state = "EXPECT_CF" /\ rx.payload = Top.data
       /\ rx.received = Len(Top.data) /\ rx.len = Top.num /\ rx.next = 1
       /\ call' = [call EXCEPT !.rx = rx, !.from = {Whose}]

HeadNext ==
  /\ 1 \in Queue /\ Going /\ Top.kind = "CF" /\ Top.num = call.rx.next /\ UNCHANGED flow
  /\ \E rx \in RxMessages(Arbs) :
       /\ rx.arb = "ecu" /\ rx.payload = call.rx.payload \o Fresh(call.rx, Top)
       /\ rx.received = call.rx.received + Len(Top.data) /\ rx.len = call.rx.len
       /\ rx.next = call.rx.next + 1
       /\ IF rx.received >= rx.len
          THEN Return("Message", rx, call.from \cup {Whose})
          ELSE /\ rx.state = "EXPECT_CF" /\ UNCHANGED results
               /\ call' = [call EXCEPT !.rx = rx, !.from = call.from \cup {Whose}]

Turn == HeadPassed \/ HeadStray \/ HeadFails \/ HeadSingle \/ HeadFirst \/ HeadNext

LEMMA CallIs ==
  ASSUME HandlerTypeOK, CallOK, call.active
  PROVE  /\ call \in [active : BOOLEAN, wanted : Wanted, rx : RxMessages(Arbs),
                      from : SUBSET (0..MaxMessages), clean : BOOLEAN]
         /\ call.rx \in RxMessages(Arbs) /\ call.wanted \in {"ecu", NoArb}
         /\ New \/ Going
         /\ New => call.rx = NewMessage(call.wanted) /\ call.rx.arb = call.wanted /\ call.from = {}
         /\ Going => call.rx.arb = "ecu" /\ call.rx.received < call.rx.len
<1>1. /\ call \in [active : BOOLEAN, wanted : Wanted, rx : RxMessages(Arbs),
                   from : SUBSET (0..MaxMessages), clean : BOOLEAN]
      /\ call.rx.state \in {"EXPECT_SF_OR_FF", "EXPECT_CF"}
  BY DEF HandlerTypeOK
<1>2. New \/ Going
  BY <1>1 DEF New, Going
<1>3. New => call.rx = NewMessage(call.wanted) /\ call.rx.arb = call.wanted /\ call.from = {}
  BY DEF CallOK, NewMessage
<1> QED BY <1>1, <1>2, <1>3 DEF CallOK, Wanted

\* A frame that is not fed, or ignored, changes nothing.
LEMMA PassedOver ==
  ASSUME HandlerTypeOK, CallOK, ReceiveFrame, Fed = call.rx
  PROVE  UNCHANGED <<flow, call, results>>
<1>1. /\ call \in [active : BOOLEAN, wanted : Wanted, rx : RxMessages(Arbs),
                   from : SUBSET (0..MaxMessages), clean : BOOLEAN]
      /\ call.rx.state \in {"EXPECT_SF_OR_FF", "EXPECT_CF"} /\ flow \in BOOLEAN
  BY DEF HandlerTypeOK
<1>2. FedFrom = call.from /\ FlowControlled(Fed) = call.rx
  BY <1>1 DEF FedFrom, FlowControlled
<1>3. /\ call' = [call EXCEPT !.rx = call.rx, !.from = call.from] /\ UNCHANGED results
      /\ flow' = (flow \/ FALSE)
  BY <1>1, <1>2, ReceiveIs
<1>4. call' = call
  BY <1>1, <1>3
<1> QED BY <1>1, <1>3, <1>4

LEMMA NotQueued ==
  ASSUME Inv, ReceiveFrame, 1 \notin Queue
  PROVE  HeadPassed \/ HeadStray
<1> DEFINE f == frames[1]
<1>1. HandlerTypeOK /\ FramesOK /\ CallOK
  BY DEF Inv
<1>2. 1 \in DOMAIN frames /\ f \in Frame /\ call.active
  BY <1>1, ReceiveIs, Tailed DEF HandlerTypeOK
<1>3. f.tp \/ f.of = 0
  BY <1>2 DEF Queue
<1>4. CASE f.tp
  <2>1. Fed = call.rx
    BY <1>4 DEF Fed, Skipped
  <2> QED BY <1>1, <2>1, PassedOver DEF HeadPassed
<1>5. CASE ~f.tp /\ Skipped(f)
  <2>1. Fed = call.rx
    BY <1>5 DEF Fed
  <2> QED BY <1>1, <2>1, PassedOver DEF HeadPassed
<1>6. CASE ~f.tp /\ ~Skipped(f)
  <2>1. /\ f.of = 0 /\ Top \in Frames(Arbs) /\ Top.arb = "other"
        /\ Top.kind \in {"SF", "CF", "FC"} /\ Top.num = 1 /\ Top.data = Slice(7, 1, 7)
    BY <1>1, <1>2, <1>3, <1>6 DEF FramesOK, FrameOK, StrayOK, Top
  <2>2. call.rx.arb \in {NoArb, "other"}
    BY <1>6, <2>1 DEF Skipped, Top
  <2>3. New /\ call.wanted = NoArb /\ call.rx.arb = NoArb /\ call.from = {}
        /\ call.rx.state = "EXPECT_SF_OR_FF" /\ call.rx \in RxMessages(Arbs)
    BY <1>1, <1>2, <2>2, CallIs DEF NoArb, New
  <2>4. Fed = Feed(call.rx, Top)
    BY <1>6 DEF Fed, Top
  <2>5. call.rx.arb \in {NoArb, Top.arb}
    BY <2>3
  <2>6. Fed \in RxMessages(Arbs)
    <3>1. /\ Top.kind # "EMPTY" /\ (call.rx.state = "EXPECT_CF" => call.rx.received < call.rx.len)
      BY <2>1, <2>3
    <3> QED BY <2>1, <2>3, <2>4, <2>5, <3>1, FeedIsMessage, Zenon
  <2>7. Fed # call.rx => FedFrom = {0}
    BY <2>1, <2>3 DEF FedFrom
  <2>8. CASE Top.kind = "FC"
    <3>1. Fed = call.rx
      BY <2>4, <2>8, FeedFlowControl
    <3> QED BY <1>1, <3>1, PassedOver DEF HeadPassed
  <2>9. CASE Top.kind = "CF"
    <3>1. Fed = [call.rx EXCEPT !.arb = Top.arb, !.state = "ERROR"]
      BY <2>3, <2>4, <2>5, <2>9, FeedUnexpected DEF Fail
    <3>2. Fed.state = "ERROR" /\ Fed.arb = "other"
      BY <2>1, <2>3, <3>1 DEF RxMessages
    <3>3. Return("Error", Fed, {0})
      BY <2>3, <2>7, <3>2, ReceiveIs
    <3>4. UNCHANGED flow
      BY <1>1, <3>2, ReceiveIs DEF HandlerTypeOK
    <3> QED BY <2>3, <2>6, <3>2, <3>3, <3>4 DEF HeadStray
  <2>10. CASE Top.kind = "SF"
    <3> DEFINE payload  == Take(Top.data, Top.num)
               received == Least(Top.num, Len(Top.data))
    <3>1. Fed = [call.rx EXCEPT !.arb = Top.arb, !.state = "COMPLETE",
                                !.payload = payload, !.received = received]
      BY <2>3, <2>4, <2>5, <2>10, FeedSingle, Zenon
    <3>2. FirstBytes(payload, 1)
      <4>1. StartsWith(Slice(7, 1, 7), 1, 1)
        <5>1. 7 \in Nat /\ 1 \in Nat \ {0} /\ 1 <= 7 + 1 /\ Least(7, 7) = 7
          BY DEF Least
        <5>2. /\ Slice(7, 1, 7) \in Seq(Bytes) /\ Len(Slice(7, 1, 7)) = Least(7, 7) - 1 + 1
              /\ \A i \in 1..(Least(7, 7) - 1 + 1) : Slice(7, 1, 7)[i] = 1 + i - 1
          BY <5>1, SliceIs, Zenon
        <5> QED BY <5>1, <5>2 DEF StartsWith
      <4>2. 1 \in Nat
        OBVIOUS
      <4> QED BY <2>1, <4>1, <4>2, TakenFirst
    <3> HIDE DEF payload, received
    <3>3. Fed.state = "COMPLETE" /\ Fed.arb = "other" /\ Fed.payload = payload
      BY <2>1, <2>3, <3>1 DEF RxMessages
    <3>4. Return("Message", Fed, {0})
      BY <2>3, <2>7, <3>3, ReceiveIs
    <3>5. UNCHANGED flow
      BY <1>1, <3>3, ReceiveIs DEF HandlerTypeOK
    <3> QED BY <2>3, <2>6, <3>2, <3>3, <3>4, <3>5 DEF HeadStray
  <2> QED BY <2>1, <2>8, <2>9, <2>10
<1> QED BY <1>4, <1>5, <1>6

\* What is known of the first frame of the ECU.
LEMMA HeadIs ==
  ASSUME Inv, ReceiveFrame, 1 \in Queue
  PROVE  /\ Top \in Frames(Arbs) /\ Index(Top) \in Nat
         /\ Whose \in Nat \ {0} /\ Whose <= ecu.msg /\ Whose \in 0..MaxMessages
         /\ <<Whose, Index(Top)>> \in Items
         /\ Top.arb = "ecu" /\ Top.kind \in {"SF", "FF", "CF"}
         /\ Top.kind = "CF" <=> Index(Top) # 0
         /\ Top.kind = "FF" => Len(Top.data) = 6 /\ 6 < Top.num
<1>1. HandlerTypeOK /\ FramesOK /\ Placed
  BY DEF Inv
<1>2. /\ frames[1] \in Frame /\ Whose \in Nat \ {0} /\ PartOK(Top)
      /\ Index(Top) \in Nat /\ Item(frames[1]) \in Items
  BY <1>1, QueuedIs DEF HandlerTypeOK, Top, Whose
<1>3. <<Whose, Index(Top)>> \in Items
  BY <1>2 DEF Item, Top, Whose
<1>4. Whose <= ecu.msg /\ Whose \in 0..MaxMessages
  BY <1>1, <1>2, <1>3, EcuIs, BoundsAssumption DEF Placed
<1>5. PICK n \in EcuLengths : Index(Top) <= Consecutive(n) /\ Holds(Top, n, Index(Top))
  BY <1>2, PartIs
<1>6. /\ Top \in Frames(Arbs) /\ n \in Nat /\ Consecutive(n) \in Nat
      /\ n <= 7 => Consecutive(n) = 0
  BY <1>2, PartIs, LengthIs, ConsecutiveIs
<1>7. n <= 7 => Top.kind = "SF" /\ Index(Top) = 0
  BY <1>2, <1>5, <1>6 DEF Holds
<1>8. n > 7 /\ Index(Top) = 0 => Top.kind = "FF" /\ Len(Top.data) = 6 /\ 6 < Top.num
  BY <1>2, <1>5, <1>6 DEF Holds
<1>9. n > 7 /\ Index(Top) # 0 => Top.kind = "CF"
  BY <1>2, <1>5, <1>6 DEF Holds
<1>10. Top.arb = "ecu"
  BY <1>5 DEF Holds
<1> QED BY <1>2, <1>3, <1>4, <1>6, <1>7, <1>8, <1>9, <1>10

LEMMA QueuedFed ==
  ASSUME Inv, ReceiveFrame, 1 \in Queue
  PROVE  Fed = Feed(call.rx, Top) /\ Fed \in RxMessages(Arbs) /\ call.rx \in RxMessages(Arbs)
<1>1. HandlerTypeOK /\ CallOK /\ call.active
  BY ReceiveIs DEF Inv
<1>2. /\ call.rx \in RxMessages(Arbs) /\ call.rx.arb \in {NoArb, "ecu"}
      /\ call.rx.state = "EXPECT_CF" => call.rx.received < call.rx.len
  BY <1>1, CallIs DEF New, Going
<1>3. /\ Top \in Frames(Arbs) /\ Top.arb = "ecu" /\ Top.kind # "EMPTY"
      /\ ~frames[1].tp
  BY HeadIs DEF Queue
<1>4. Fed = Feed(call.rx, Top)
  BY <1>2, <1>3 DEF Fed, Skipped, Top
<1> QED BY <1>2, <1>3, <1>4, FeedIsMessage, Zenon

LEMMA Queued ==
  ASSUME Inv, ReceiveFrame, 1 \in Queue
  PROVE  HeadFails \/ HeadSingle \/ HeadFirst \/ HeadNext
<1> DEFINE k == call.from \cup {Whose}
<1>1. HandlerTypeOK /\ CallOK /\ call.active
  BY ReceiveIs DEF Inv
<1>2. /\ Fed = Feed(call.rx, Top) /\ Fed \in RxMessages(Arbs) /\ call.rx \in RxMessages(Arbs)
      /\ (New \/ Going) /\ call.rx.arb \in {NoArb, "ecu"}
  BY <1>1, QueuedFed, CallIs
<1>3. /\ Top \in Frames(Arbs) /\ Top.arb = "ecu" /\ Top.kind \in {"SF", "FF", "CF"}
  BY HeadIs
<1>4. Fed # call.rx => FedFrom = k
  BY DEF FedFrom, Whose
<1>5. New => call.from = {} /\ k = {Whose}
  BY <1>1, CallIs
<1>6. flow \in BOOLEAN
  BY <1>1 DEF HandlerTypeOK
<1>7. CASE New /\ Top.kind = "CF"
  <2>1. Fed = [call.rx EXCEPT !.arb = Top.arb, !.state = "ERROR"]
    BY <1>2, <1>3, <1>7, FeedUnexpected DEF Fail, New
  <2>2. Fed.state = "ERROR" /\ Fed # call.rx
    BY <1>2, <1>7, <2>1 DEF RxMessages, New
  <2>3. Return("Error", Fed, k) /\ UNCHANGED flow
    BY <1>4, <1>6, <2>2, ReceiveIs
  <2> QED BY <1>2, <1>7, <2>3 DEF HeadFails
<1>8. CASE New /\ Top.kind = "SF"
  <2> DEFINE payload  == Take(Top.data, Top.num)
             received == Least(Top.num, Len(Top.data))
  <2>1. Fed = [call.rx EXCEPT !.arb = Top.arb, !.state = "COMPLETE",
                              !.payload = payload, !.received = received]
    BY <1>2, <1>3, <1>8, FeedSingle DEF New
  <2> HIDE DEF payload, received
  <2>2. Fed.state = "COMPLETE" /\ Fed # call.rx /\ Fed.arb = "ecu" /\ Fed.payload = payload
    BY <1>2, <1>3, <1>8, <2>1 DEF RxMessages, New
  <2>3. Return("Message", Fed, {Whose}) /\ UNCHANGED flow
    BY <1>4, <1>5, <1>6, <1>8, <2>2, ReceiveIs
  <2> QED BY <1>2, <1>8, <2>2, <2>3 DEF HeadSingle, payload
<1>9. CASE New /\ Top.kind = "FF"
  <2> DEFINE received == Len(Top.data)
  <2>1. Fed = [call.rx EXCEPT !.arb = Top.arb, !.state = "SEND_FC", !.payload = Top.data,
                              !.received = received, !.len = Top.num, !.next = 1]
    BY <1>2, <1>3, <1>9, FeedFirstFrame DEF New
  <2> HIDE DEF received
  <2>2. /\ Fed.state = "SEND_FC" /\ Fed # call.rx
        /\ FlowControlled(Fed) = [call.rx EXCEPT !.arb = Top.arb, !.state = "EXPECT_CF",
                                    !.payload = Top.data, !.received = received,
                                    !.len = Top.num, !.next = 1]
    BY <1>2, <1>3, <1>9, <2>1 DEF RxMessages, New, FlowControlled
  <2>3. FlowControlled(Fed) \in RxMessages(Arbs)
    <3>1. "EXPECT_CF" \in RxStates
      BY DEF RxStates
    <3>2. FlowControlled(Fed) = [Fed EXCEPT !.state = "EXPECT_CF"]
      BY <2>2 DEF FlowControlled
    <3> QED BY <1>2, <3>1, <3>2 DEF RxMessages
  <2>4. /\ flow' = TRUE /\ UNCHANGED results
        /\ call' = [call EXCEPT !.rx = FlowControlled(Fed), !.from = {Whose}]
    BY <1>4, <1>5, <1>6, <1>9, <2>2, ReceiveIs
  <2> DEFINE rx == FlowControlled(Fed)
  <2>5. /\ rx.arb = "ecu" /\ rx.state = "EXPECT_CF" /\ rx.payload = Top.data
        /\ rx.received = received /\ rx.len = Top.num /\ rx.next = 1
    BY <1>2, <1>3, <2>2 DEF RxMessages
  <2> HIDE DEF rx
  <2> QED BY <1>9, <2>3, <2>4, <2>5 DEF HeadFirst, received, rx
<1>10. CASE Going
  <2>1. Fed = FeedNext(call.rx, Top) /\ call.rx.arb = "ecu" /\ call.rx.state = "EXPECT_CF"
    BY <1>1, <1>2, <1>3, <1>10, FeedConsecutive DEF Going, CallOK
  <2>2. CASE ~(Top.kind = "CF" /\ Top.num = call.rx.next)
    <3>1. Fed = [call.rx EXCEPT !.state = "ERROR"]
      BY <2>1, <2>2 DEF FeedNext, CounterMatches, Fail
    <3>2. Fed.state = "ERROR" /\ Fed # call.rx
      BY <1>2, <2>1, <3>1 DEF RxMessages
    <3>3. Return("Error", Fed, k) /\ UNCHANGED flow
      BY <1>4, <1>6, <3>2, ReceiveIs
    <3> QED BY <1>2, <1>10, <2>2, <3>3 DEF HeadFails
  <2>3. CASE Top.kind = "CF" /\ Top.num = call.rx.next
    <3> DEFINE payload  == call.rx.payload \o Fresh(call.rx, Top)
               received == call.rx.received + Len(Top.data)
               state    == IF received >= call.rx.len THEN "COMPLETE" ELSE call.rx.state
    <3>1. Fed = [call.rx EXCEPT !.payload = payload, !.received = received,
                                !.next = @ + 1, !.state = state]
      BY <2>1, <2>3 DEF FeedNext, CounterMatches
    <3>2. state = IF received >= call.rx.len THEN "COMPLETE" ELSE "EXPECT_CF"
      BY <2>1
    <3> HIDE DEF payload, received, state
    <3>3. /\ Fed.arb = "ecu" /\ Fed.payload = payload /\ Fed.received = received
          /\ Fed.len = call.rx.len /\ Fed.next = call.rx.next + 1 /\ Fed.state = state
      BY <1>2, <2>1, <3>1 DEF RxMessages
    <3>4. Fed # call.rx
      BY <1>2, <3>3 DEF RxMessages
    <3>5. FedFrom = k
      BY <1>4, <3>4
    <3>6. CASE received >= call.rx.len
      <4>1. Fed.state = "COMPLETE"
        BY <3>2, <3>3, <3>6
      <4>2. Return("Message", Fed, k) /\ UNCHANGED flow
        BY <1>6, <3>5, <4>1, ReceiveIs
      <4> QED BY <1>2, <1>10, <2>3, <3>3, <3>6, <4>2 DEF HeadNext, payload, received
    <3>7. CASE ~(received >= call.rx.len)
      <4>1. Fed.state = "EXPECT_CF"
        BY <3>2, <3>3, <3>7
      <4>2. FlowControlled(Fed) = Fed
        BY <4>1 DEF FlowControlled
      <4>3. call' = [call EXCEPT !.rx = Fed, !.from = k] /\ UNCHANGED <<results, flow>>
        BY <1>6, <3>5, <4>1, <4>2, ReceiveIs
      <4> QED BY <1>2, <1>10, <2>3, <3>3, <3>7, <4>1, <4>3 DEF HeadNext, payload, received
    <3> QED BY <3>6, <3>7
  <2> QED BY <2>2, <2>3
<1> QED BY <1>2, <1>3, <1>7, <1>8, <1>9, <1>10

LEMMA EachTurn ==
  ASSUME Inv, ReceiveFrame
  PROVE  Turn
  BY NotQueued, Queued DEF Turn

LEMMA ReturnInv ==
  ASSUME Inv, call.active, UNCHANGED <<ecu, strays, faults>>, flow' \in BOOLEAN,
         frames' \in Seq(Frame), FramesOK', Ordered', Items' \subseteq Items,
         NEW o \in Outcomes, NEW rx \in RxMessages(Arbs), NEW from \in SUBSET (0..MaxMessages),
         Return(o, rx, from),
         o = "Message" => \A x \in from : /\ x <= ecu.msg
                                          /\ rx.arb = "ecu" => \A a \in Taken : a < x
                                          /\ \A m : <<m, 0>> \in Items' => m > x
  PROVE  Inv'
<1> DEFINE r == [outcome |-> o, wanted |-> call.wanted, rx |-> rx, from |-> from,
                 clean |-> call.clean]
           R == [outcome : Outcomes, wanted : Wanted, rx : RxMessages(Arbs),
                 from : SUBSET (0..MaxMessages), clean : BOOLEAN]
<1>1. HandlerTypeOK /\ FramesOK /\ EcuOK /\ Ordered /\ Placed /\ CallOK /\ TakenOK /\ ReceivedInOrder
  BY DEF Inv
<1>2. results' = Append(results, r) /\ call' = NoCall
  BY DEF Return
<1>3. call.wanted \in Wanted /\ call.clean \in BOOLEAN
  BY <1>1 DEF HandlerTypeOK
<1>4. r \in R
  BY <1>3
<1>5. results' \in Seq(R)
  <2>1. results \in Seq(R)
    BY <1>1 DEF HandlerTypeOK
  <2> HIDE DEF r, R
  <2> QED BY <1>2, <1>4, <2>1
<1>6. /\ NoCall \in [active : BOOLEAN, wanted : Wanted, rx : RxMessages(Arbs),
                     from : SUBSET (0..MaxMessages), clean : BOOLEAN]
      /\ NoCall.rx.state \in {"EXPECT_SF_OR_FF", "EXPECT_CF"}
      /\ NoCall.active = FALSE /\ NoCall.from = {}
  <2>1. NewMessage(NoArb) \in RxMessages(Arbs)
    BY DEF NewMessage, RxMessages, RxStates
  <2> QED BY <2>1 DEF NoCall, Wanted, NewMessage
<1>7. HandlerTypeOK'
  BY <1>1, <1>2, <1>5, <1>6 DEF HandlerTypeOK, faults
<1>8. EcuOK' /\ Placed'
  BY <1>1 DEF EcuOK, Placed, Busy
<1>9. CallOK'
  BY <1>2, <1>6 DEF CallOK, New, Going
<1>10. /\ r.outcome = o /\ r.from = from /\ r.rx = rx
  OBVIOUS
<1> HIDE DEF r
<1>11. /\ o = "Message" => Taken' = Taken \cup from
       /\ o # "Message" => Taken' = Taken
       /\ (o = "Message" /\ rx.arb = "ecu" => \A a \in Taken, b \in from : a < b)
            => ReceivedInOrder'
  BY <1>1, <1>2, <1>10, Returned
<1>12. ReceivedInOrder'
  BY <1>11
<1>13. \A a \in Taken' : /\ a \in Nat /\ a <= ecu.msg
                         /\ \A m : <<m, 0>> \in Items' => m > a
  <2>1. \A a \in Taken : /\ a \in Nat /\ a <= ecu.msg
                         /\ \A m : <<m, 0>> \in Items' => m > a
    BY <1>1 DEF TakenOK
  <2>2. \A x \in from : x \in Nat
    BY BoundsAssumption
  <2> QED BY <1>11, <2>1, <2>2
<1>14. TakenOK'
  BY <1>2, <1>6, <1>13 DEF TakenOK
<1> QED BY <1>7, <1>8, <1>9, <1>12, <1>14 DEF Inv

LEMMA ReceiveFrameInv ==
  ASSUME Inv, ReceiveFrame
  PROVE  Inv'
<1>1. HandlerTypeOK /\ FramesOK /\ EcuOK /\ Ordered /\ Placed /\ CallOK /\ TakenOK /\ ReceivedInOrder
  BY DEF Inv
<1>2. /\ call.active /\ frames # <<>> /\ frames' = Tail(frames)
      /\ UNCHANGED <<ecu, strays, faults>>
  BY ReceiveIs
<1>3. /\ frames' \in Seq(Frame) /\ Ordered' /\ FramesOK'
      /\ 1 \notin Queue => Items' = Items
      /\ 1 \in Queue =>
           /\ Item(frames[1]) \in Items
           /\ Items' = Items \ {Item(frames[1])}
           /\ \A k, j : <<k, j>> \in Items' => Before(Whose, Index(Top), k, j)
  BY <1>1, <1>2, Removed, Tailed DEF HandlerTypeOK, Whose, Top
<1>4. Items' \subseteq Items
  BY <1>3
<1>5. "Message" \in Outcomes /\ "Error" \in Outcomes
  BY DEF Outcomes
<1>6. /\ call \in [active : BOOLEAN, wanted : Wanted, rx : RxMessages(Arbs),
                   from : SUBSET (0..MaxMessages), clean : BOOLEAN]
      /\ call.rx.state \in {"EXPECT_SF_OR_FF", "EXPECT_CF"}
      /\ flow \in BOOLEAN
  BY <1>1 DEF HandlerTypeOK
<1>7. CASE HeadPassed
  <2>1. Items' = Items /\ UNCHANGED <<flow, call, results>>
    BY <1>3, <1>7 DEF HeadPassed
  <2>2. HandlerTypeOK'
    BY <1>1, <1>2, <1>3, <2>1 DEF HandlerTypeOK, faults
  <2>3. EcuOK' /\ Placed'
    BY <1>1, <1>2, <2>1 DEF EcuOK, Placed, Busy
  <2>4. Taken' = Taken /\ ReceivedInOrder'
    BY <1>1, <2>1, SameResults
  <2>5. CallOK'
    BY <1>1, <1>2, <2>1 DEF CallOK, New, Going
  <2>6. TakenOK'
    BY <1>1, <1>2, <2>1, <2>4 DEF TakenOK
  <2> QED BY <1>3, <2>2, <2>3, <2>4, <2>5, <2>6 DEF Inv
<1>8. CASE HeadStray
  <2>1. flow' \in BOOLEAN
    BY <1>6, <1>8 DEF HeadStray
  <2>2. PICK rx \in RxMessages(Arbs) : /\ rx.arb = "other"
                                       /\ Return("Error", rx, {0}) \/ Return("Message", rx, {0})
    BY <1>8 DEF HeadStray
  <2>3. {0} \in SUBSET (0..MaxMessages) /\ 0 <= ecu.msg
    BY <1>1, EcuIs, BoundsAssumption
  <2>4. \A m : <<m, 0>> \in Items' => m > 0
    BY <1>1, <1>4 DEF Placed
  <2>5. \A x \in {0} : /\ x <= ecu.msg
                       /\ rx.arb = "ecu" => \A a \in Taken : a < x
                       /\ \A m : <<m, 0>> \in Items' => m > x
    BY <2>2, <2>3, <2>4
  <2> QED BY <1>2, <1>3, <1>4, <1>5, <2>1, <2>2, <2>3, <2>5, ReturnInv
<1>9. ASSUME 1 \in Queue
      PROVE  /\ Whose \in 0..MaxMessages /\ Whose \in Nat /\ Whose >= 1 /\ Whose <= ecu.msg
             /\ <<Whose, Index(Top)>> \in Items /\ Index(Top) \in Nat
             /\ Top.kind = "CF" <=> Index(Top) # 0
             /\ Top.kind = "FF" => Len(Top.data) = 6 /\ 6 < Top.num
             /\ \A k, j : <<k, j>> \in Items' =>
                  k \in Nat /\ j \in Nat /\ k >= Whose /\ (j = 0 => k > Whose)
             /\ call.from \cup {Whose} \in SUBSET (0..MaxMessages)
             /\ {Whose} \in SUBSET (0..MaxMessages)
  <2>1. /\ Whose \in Nat \ {0} /\ Whose <= ecu.msg /\ Whose \in 0..MaxMessages
        /\ <<Whose, Index(Top)>> \in Items /\ Index(Top) \in Nat
        /\ Top.kind = "CF" <=> Index(Top) # 0
        /\ Top.kind = "FF" => Len(Top.data) = 6 /\ 6 < Top.num
    BY <1>9, HeadIs
  <2>2. \A k, j : <<k, j>> \in Items' => k \in Nat /\ j \in Nat
    BY <1>1, <1>4 DEF Placed
  <2>3. \A k, j : <<k, j>> \in Items' => k >= Whose /\ (j = 0 => k > Whose)
    BY <1>3, <1>9, <2>1, <2>2 DEF Before
  <2> QED BY <1>6, <2>1, <2>2, <2>3
<1>10. CASE HeadFails
  <2>1. flow' \in BOOLEAN /\ 1 \in Queue
    BY <1>6, <1>10 DEF HeadFails
  <2>2. PICK rx \in RxMessages(Arbs) : Return("Error", rx, call.from \cup {Whose})
    BY <1>10 DEF HeadFails
  <2>3. call.from \cup {Whose} \in SUBSET (0..MaxMessages)
    BY <1>9, <2>1
  <2> QED BY <1>2, <1>3, <1>4, <1>5, <2>1, <2>2, <2>3, ReturnInv
<1>11. CASE HeadSingle
  <2>1. flow' \in BOOLEAN /\ 1 \in Queue /\ Top.kind = "SF"
    BY <1>6, <1>11 DEF HeadSingle
  <2>2. PICK rx \in RxMessages(Arbs) : Return("Message", rx, {Whose})
    BY <1>11 DEF HeadSingle
  <2>3. {Whose} \in SUBSET (0..MaxMessages) /\ <<Whose, 0>> \in Items /\ Whose <= ecu.msg
    BY <1>9, <2>1
  <2>4. \A a \in Taken : a < Whose
    BY <1>1, <1>9, <2>1, <2>3 DEF TakenOK
  <2>5. \A m : <<m, 0>> \in Items' => m > Whose
    BY <1>9, <2>1
  <2>6. \A x \in {Whose} : /\ x <= ecu.msg
                           /\ rx.arb = "ecu" => \A a \in Taken : a < x
                           /\ \A m : <<m, 0>> \in Items' => m > x
    BY <2>3, <2>4, <2>5
  <2> QED BY <1>2, <1>3, <1>4, <1>5, <2>1, <2>2, <2>3, <2>6, ReturnInv
<1>12. ASSUME NEW rx \in RxMessages(Arbs), NEW from \in SUBSET (0..MaxMessages), 1 \in Queue,
              rx.arb = "ecu", rx.state = "EXPECT_CF", rx.received < rx.len,
              call' = [call EXCEPT !.rx = rx, !.from = from], UNCHANGED results,
              flow' \in BOOLEAN, Whose \in from,
              \A x \in from : /\ x >= 1 /\ x <= ecu.msg /\ x <= Whose
                              /\ \A a \in Taken : x > a
       PROVE  Inv'
  <2>1. /\ call' \in [active : BOOLEAN, wanted : Wanted, rx : RxMessages(Arbs),
                      from : SUBSET (0..MaxMessages), clean : BOOLEAN]
        /\ call'.rx = rx /\ call'.from = from /\ call'.active = TRUE
    BY <1>2, <1>6, <1>12
  <2>2. HandlerTypeOK'
    BY <1>1, <1>2, <1>3, <1>12, <2>1 DEF HandlerTypeOK, faults
  <2>3. EcuOK' /\ Placed'
    BY <1>1, <1>2, <1>4 DEF EcuOK, Placed, Busy
  <2>4. Taken' = Taken /\ ReceivedInOrder'
    BY <1>1, <1>12, SameResults
  <2>5. \A x \in from : x \in Nat
    BY BoundsAssumption
  <2>6. CallOK'
    BY <1>2, <1>12, <2>1, <2>5 DEF CallOK, New, Going
  <2>7. \A x \in from : \A k, j : <<k, j>> \in Items' => k >= x /\ (j = 0 => k > x)
    BY <1>9, <1>12, <2>5
  <2>8. TakenOK'
    BY <1>1, <1>2, <1>4, <1>12, <2>1, <2>4, <2>7 DEF TakenOK
  <2> QED BY <1>3, <2>2, <2>3, <2>4, <2>6, <2>8 DEF Inv
<1>13. CASE HeadFirst
  <2>1. 1 \in Queue /\ Top.kind = "FF" /\ flow' = TRUE /\ UNCHANGED results
    BY <1>13 DEF HeadFirst
  <2>2. PICK rx \in RxMessages(Arbs) :
          /\ rx.arb = "ecu" /\ rx.state = "EXPECT_CF"
          /\ rx.received = Len(Top.data) /\ rx.len = Top.num
          /\ call' = [call EXCEPT !.rx = rx, !.from = {Whose}]
    BY <1>13 DEF HeadFirst
  <2>3. {Whose} \in SUBSET (0..MaxMessages) /\ <<Whose, 0>> \in Items /\ rx.received < rx.len
    BY <1>9, <2>1, <2>2
  <2>4. \A a \in Taken : a < Whose /\ a \in Nat
    BY <1>1, <1>9, <2>1, <2>3 DEF TakenOK
  <2>5. \A x \in {Whose} : /\ x >= 1 /\ x <= ecu.msg /\ x <= Whose
                           /\ \A a \in Taken : x > a
    BY <1>9, <2>1, <2>4
  <2> QED BY <1>12, <2>1, <2>2, <2>3, <2>5
<1>14. CASE HeadNext
  <2>1. 1 \in Queue /\ Going /\ UNCHANGED flow
    BY <1>14 DEF HeadNext
  <2> DEFINE from == call.from \cup {Whose}
  <2>2. PICK rx \in RxMessages(Arbs) :
          /\ rx.arb = "ecu"
          /\ IF rx.received >= rx.len
             THEN Return("Message", rx, from)
             ELSE /\ rx.state = "EXPECT_CF" /\ UNCHANGED results
                  /\ call' = [call EXCEPT !.rx = rx, !.from = from]
    BY <1>14 DEF HeadNext
  <2>3. from \in SUBSET (0..MaxMessages) /\ flow' \in BOOLEAN
    BY <1>6, <1>9, <2>1
  <2>4. \A x \in call.from : x \in Nat /\ x >= 1 /\ x <= ecu.msg /\ x <= Whose
    BY <1>1, <1>9, <2>1 DEF CallOK, TakenOK
  <2>5. \A a \in Taken : a \in Nat /\ \A x \in call.from : x > a
    BY <1>1 DEF TakenOK
  <2>6. \A a \in Taken : Whose > a
    <3>1. PICK x \in call.from : TRUE
      BY <1>1, <2>1 DEF CallOK
    <3> QED BY <1>9, <2>1, <2>4, <2>5, <3>1
  <2>7. \A x \in from : /\ x \in Nat /\ x >= 1 /\ x <= ecu.msg /\ x <= Whose
                        /\ \A a \in Taken : x > a
    BY <1>9, <2>1, <2>4, <2>5, <2>6
  <2>8. Whose \in from
    OBVIOUS
  <2> HIDE DEF from
  <2>9. CASE rx.received >= rx.len
    <3>1. Return("Message", rx, from)
      BY <2>2, <2>9
    <3>2. \A x \in from : /\ x <= ecu.msg
                          /\ rx.arb = "ecu" => \A a \in Taken : a < x
                          /\ \A m : <<m, 0>> \in Items' => m > x
      <4>1. \A m : <<m, 0>> \in Items' => m \in Nat /\ m > Whose
        BY <1>9, <2>1
      <4> QED BY <1>9, <2>1, <2>5, <2>7, <4>1
    <3> QED BY <1>2, <1>3, <1>4, <1>5, <2>3, <3>1, <3>2, ReturnInv
  <2>10. CASE ~(rx.received >= rx.len)
    <3>1. /\ rx.state = "EXPECT_CF" /\ UNCHANGED results
          /\ call' = [call EXCEPT !.rx = rx, !.from = from]
      BY <2>2, <2>10
    <3>2. rx.received < rx.len
      BY <2>10 DEF RxMessages
    <3> QED BY <1>12, <2>1, <2>2, <2>3, <2>7, <2>8, <3>1, <3>2
  <2> QED BY <2>9, <2>10
<1> QED BY <1>7, <1>8, <1>10, <1>11, <1>13, <1>14, EachTurn DEF Turn

LEMMA ReceiveInv ==
  ASSUME Inv, Receive
  PROVE  Inv'
<1>1. HandlerTypeOK /\ FramesOK /\ EcuOK /\ Ordered /\ Placed /\ CallOK /\ TakenOK /\ ReceivedInOrder
  BY DEF Inv
<1>2. UNCHANGED <<ecu, frames, flow, results, strays, faults>>
  BY DEF Receive
<1>3. PICK arb \in Wanted : call' = NewCall(arb)
  BY DEF Receive
<1> DEFINE quiet == frames = <<>> /\ ecu.state = "idle"
<1>4. NewMessage(arb) \in RxMessages(Arbs) /\ NewMessage(arb).state = "EXPECT_SF_OR_FF"
  <2>1. arb \in Arbs \cup {NoArb} /\ "EXPECT_SF_OR_FF" \in RxStates /\ <<>> \in Seq(Bytes)
    BY DEF Wanted, Arbs, RxStates
  <2> QED BY <2>1 DEF NewMessage, RxMessages
<1>5. quiet \in BOOLEAN
  OBVIOUS
<1>6. call' = [active |-> TRUE, wanted |-> arb, rx |-> NewMessage(arb),
               from |-> {}, clean |-> quiet]
  BY <1>3 DEF NewCall
<1> HIDE DEF quiet
<1>7. /\ call' \in [active : BOOLEAN, wanted : Wanted, rx : RxMessages(Arbs),
                    from : SUBSET (0..MaxMessages), clean : BOOLEAN]
      /\ call'.active = TRUE /\ call'.rx = NewMessage(arb) /\ call'.wanted = arb /\ call'.from = {}
      /\ call'.clean = quiet
  BY <1>4, <1>5, <1>6
<1>8. call'.rx.state = "EXPECT_SF_OR_FF"
  BY <1>4, <1>7
<1>9. HandlerTypeOK'
  BY <1>1, <1>2, <1>7, <1>8 DEF HandlerTypeOK, faults
<1>10. Queue' = Queue /\ Items' = Items /\ Ordered' /\ FramesOK'
  BY <1>1, <1>2 DEF Queue, Items, Ordered, FramesOK
<1>11. EcuOK' /\ Placed'
  BY <1>1, <1>2, <1>10 DEF EcuOK, Placed, Busy
<1>12. Taken' = Taken /\ ReceivedInOrder'
  BY <1>1, <1>2, SameResults
<1>13. CallOK'
  BY <1>7, <1>8 DEF CallOK, New, Going
<1>14. TakenOK'
  BY <1>1, <1>2, <1>7, <1>10, <1>12 DEF TakenOK
<1> QED BY <1>9, <1>10, <1>11, <1>12, <1>13, <1>14 DEF Inv

LEMMA RefusedInv ==
  ASSUME Inv, ReceiveRefused
  PROVE  Inv'
<1> DEFINE r == [outcome |-> "Raised", wanted |-> NoArb, rx |-> NewMessage(NoArb), from |-> {},
                 clean |-> FALSE]
           R == [outcome : Outcomes, wanted : Wanted, rx : RxMessages(Arbs),
                 from : SUBSET (0..MaxMessages), clean : BOOLEAN]
<1>1. HandlerTypeOK /\ FramesOK /\ EcuOK /\ Ordered /\ Placed /\ CallOK /\ TakenOK /\ ReceivedInOrder
  BY DEF Inv
<1>2. results' = Append(results, r) /\ UNCHANGED <<ecu, frames, flow, call, strays, faults>>
  BY DEF ReceiveRefused
<1>3. r \in R
  <2>1. NewMessage(NoArb) \in RxMessages(Arbs)
    BY DEF NewMessage, RxMessages, RxStates
  <2>2. "Raised" \in Outcomes /\ NoArb \in Wanted /\ {} \in SUBSET (0..MaxMessages)
    BY DEF Outcomes, Wanted
  <2> QED BY <2>1, <2>2
<1>4. results' \in Seq(R)
  <2>1. results \in Seq(R)
    BY <1>1 DEF HandlerTypeOK
  <2> HIDE DEF r, R
  <2> QED BY <1>2, <1>3, <2>1
<1>5. r.outcome # "Message"
  OBVIOUS
<1> HIDE DEF r
<1>6. Taken' = Taken /\ ReceivedInOrder'
  BY <1>1, <1>2, <1>5, Returned
<1>7. HandlerTypeOK'
  BY <1>1, <1>2, <1>4 DEF HandlerTypeOK, faults
<1>8. Queue' = Queue /\ Items' = Items /\ Ordered' /\ FramesOK'
  BY <1>1, <1>2 DEF Queue, Items, Ordered, FramesOK
<1>9. EcuOK' /\ Placed' /\ CallOK'
  BY <1>1, <1>2, <1>8 DEF EcuOK, Placed, Busy, CallOK, New, Going
<1>10. TakenOK'
  BY <1>1, <1>2, <1>6, <1>8 DEF TakenOK
<1> QED BY <1>6, <1>7, <1>8, <1>9, <1>10 DEF Inv

LEMMA TimeoutInv ==
  ASSUME Inv, ReceiveTimeout
  PROVE  Inv'
<1>1. HandlerTypeOK /\ FramesOK /\ Ordered
  BY DEF Inv
<1>2. /\ call.active /\ UNCHANGED <<ecu, frames, flow, strays, faults>>
      /\ Return("Timeout", [call.rx EXCEPT !.state = "ERROR"], call.from)
  BY DEF ReceiveTimeout
<1>3. [call.rx EXCEPT !.state = "ERROR"] \in RxMessages(Arbs)
  <2>1. call.rx \in RxMessages(Arbs) /\ "ERROR" \in RxStates
    BY <1>1 DEF HandlerTypeOK, RxStates
  <2> QED BY <2>1 DEF RxMessages
<1>4. call.from \in SUBSET (0..MaxMessages) /\ "Timeout" \in Outcomes
  BY <1>1 DEF HandlerTypeOK, Outcomes
<1>5. /\ frames' \in Seq(Frame) /\ flow' \in BOOLEAN
      /\ Items' \subseteq Items /\ Ordered' /\ FramesOK'
  BY <1>1, <1>2 DEF HandlerTypeOK, Queue, Items, Ordered, FramesOK
<1> QED BY <1>2, <1>3, <1>4, <1>5, ReturnInv

LEMMA StutterInv ==
  ASSUME Inv, UNCHANGED handlerVars
  PROVE  Inv'
<1>1. HandlerTypeOK /\ FramesOK /\ EcuOK /\ Ordered /\ Placed /\ CallOK /\ TakenOK /\ ReceivedInOrder
  BY DEF Inv
<1>2. UNCHANGED <<ecu, frames, flow, call, results, strays, lost, late>>
  BY DEF handlerVars, faults
<1>3. HandlerTypeOK'
  BY <1>1, <1>2 DEF HandlerTypeOK
<1>4. Queue' = Queue /\ Items' = Items /\ Ordered' /\ FramesOK'
  BY <1>1, <1>2 DEF Queue, Items, Ordered, FramesOK
<1>5. EcuOK' /\ Placed' /\ CallOK'
  BY <1>1, <1>2, <1>4 DEF EcuOK, Placed, Busy, CallOK, New, Going
<1>6. Taken' = Taken /\ ReceivedInOrder'
  BY <1>1, <1>2, SameResults
<1>7. TakenOK'
  BY <1>1, <1>2, <1>4, <1>6 DEF TakenOK
<1> QED BY <1>3, <1>4, <1>5, <1>6, <1>7 DEF Inv

LEMMA NextInv == Inv /\ [HandlerNext]_handlerVars => Inv'
<1>1. SUFFICES ASSUME Inv, [HandlerNext]_handlerVars PROVE Inv'
  OBVIOUS
<1>2. ASSUME NEW n \in EcuLengths, EcuBegins(n) PROVE Inv'
  BY <1>1, <1>2, BeginsInv
<1>3. CASE EcuFlowControlled
  BY <1>1, <1>3, FlowControlledInv
<1>4. CASE EcuContinues
  BY <1>1, <1>4, ContinuesInv
<1>5. CASE EcuGivesUp
  BY <1>1, <1>5, GivesUpInv
<1>6. CASE Stray
  BY <1>1, <1>6, StrayInv
<1>7. CASE ReceiveRefused
  BY <1>1, <1>7, RefusedInv
<1>8. CASE Receive
  BY <1>1, <1>8, ReceiveInv
<1>9. CASE ReceiveFrame
  BY <1>1, <1>9, ReceiveFrameInv
<1>10. CASE ReceiveTimeout
  BY <1>1, <1>10, TimeoutInv
<1>11. CASE UNCHANGED handlerVars
  BY <1>1, <1>11, StutterInv
<1> QED
  BY <1>1, <1>2, <1>3, <1>4, <1>5, <1>6, <1>7, <1>8, <1>9, <1>10, <1>11 DEF HandlerNext

\* Every variable keeps its type, and the queue, the ECU, the call under way and
\* the results go together as Inv says (iso_tp_handler.py:53-112).
THEOREM InvCorrect == HandlerSpec => []Inv
  BY InitInv, NextInv, PTL DEF HandlerSpec

\* No message of the ECU is returned twice or after a later one, whatever the
\* bus loses, whoever else talks and however the calls end.
THEOREM OrderCorrect == HandlerSpec => []ReceivedInOrder
<1>1. Inv => ReceivedInOrder
  BY DEF Inv
<1> QED BY <1>1, InvCorrect, PTL

-----------------------------------------------------------------------------
(* Frames that have been taken, or lost *)

\* Frame i of message k will come, if the ECU does not give it up.
Coming(k, i) == <<k, i>> \in Items \/ (Busy /\ k = ecu.msg /\ i = ecu.next)

\* It has been sent, as a later one shows, and is no longer in the queue.
Missing(k, j) == j \in Nat /\ <<k, j>> \notin Items /\ \E i \in Nat : j < i /\ Coming(k, i)

\* Where nothing has been lost the frames that are missing have been taken.
ChainBus  == lost = 0 =>
  \A k, j : Missing(k, j) => \A m, i : <<m, i>> \in Items => Before(k, j, m, i)
ChainNew  == call.clean /\ New => \A k, j : ~Missing(k, j)
ChainCall == (lost = 0 \/ call.clean) /\ Going =>
  \A m \in call.from : \A k, j : Missing(k, j) => Before(k, j, m, call.rx.next)

Chain == ChainBus /\ ChainNew /\ ChainCall

\* What the steps of the ECU and of the bus leave to the call.
SameCall ==
  /\ call'.active = call.active /\ call'.wanted = call.wanted
  /\ call'.rx = call.rx /\ call'.from = call.from
  /\ call'.clean => call.clean
  /\ lost' = 0 => lost = 0
  /\ late' = 0 => late = 0

LEMMA FaultsAre ==
  ASSUME HandlerTypeOK
  PROVE  lost \in Nat /\ late \in Nat /\ call.clean \in BOOLEAN /\ call.active \in BOOLEAN
  BY FaultsAssumption DEF HandlerTypeOK

LEMMA NoFault ==
  ASSUME HandlerTypeOK, UNCHANGED <<call, faults>>
  PROVE  SameCall /\ New' = New /\ Going' = Going
  BY FaultsAre DEF SameCall, faults, New, Going

LEMMA LostIs ==
  ASSUME HandlerTypeOK, Lose
  PROVE  /\ SameCall /\ New' = New /\ Going' = Going
         /\ call'.clean = FALSE /\ lost' # 0 /\ lost' \in Nat /\ late' = late
<1>1. call' = [call EXCEPT !.clean = FALSE] /\ lost' = lost + 1 /\ late' = late
  BY LoseIs
<1>2. /\ call'.active = call.active /\ call'.wanted = call.wanted
      /\ call'.rx = call.rx /\ call'.from = call.from
      /\ New' = New /\ Going' = Going
  BY <1>1, Unharmed, Zenon
<1>3. call'.clean = FALSE
  <2>1. call \in [active : BOOLEAN, wanted : Wanted, rx : RxMessages(Arbs),
                  from : SUBSET (0..MaxMessages), clean : BOOLEAN]
    BY DEF HandlerTypeOK
  <2> QED BY <1>1, <2>1
<1>4. lost \in Nat /\ lost' # 0 /\ lost' \in Nat
  BY <1>1, FaultsAre
<1> QED BY <1>1, <1>2, <1>3, <1>4 DEF SameCall

\* Frame i of message m, of n bytes, is sent: it gets there, or one is lost.
Sends(n, m, i) ==
  \/ /\ Items' = Items \cup {<<m, i>>} /\ UNCHANGED <<call, faults>>
     /\ frames' = Append(frames, [frame |-> EcuFrame(n, i), of |-> m, tp |-> FALSE])
  \/ /\ Items' = Items /\ Lose
     /\ frames' = frames \/
        frames' = Append(frames, [frame |-> EcuFrame(n, i), of |-> m, tp |-> TRUE])

LEMMA BeginsIs ==
  ASSUME Inv, NEW n \in EcuLengths, EcuBegins(n)
  PROVE  /\ ecu.state = "idle" /\ ~Busy /\ ecu.msg \in Nat
         /\ ecu'.msg = ecu.msg + 1 /\ ecu'.length = n /\ ecu'.next = 1
         /\ ecu'.state = (IF n > 7 THEN "awaiting" ELSE "idle") /\ (Busy' <=> n > 7)
         /\ Sends(n, ecu.msg + 1, 0) /\ UNCHANGED <<flow, results>>
         /\ \A k, j : <<k, j>> \in Items => k \in Nat /\ k < ecu.msg + 1 /\ j \in Nat
         /\ SameCall /\ New' = New /\ Going' = Going
<1> DEFINE m == ecu.msg + 1
<1>1. HandlerTypeOK /\ FramesOK /\ Ordered /\ Placed
  BY DEF Inv
<1>2. /\ ecu' = [state |-> IF n > 7 THEN "awaiting" ELSE "idle",
                  msg |-> m, length |-> n, next |-> 1]
      /\ ecu.state = "idle" /\ EcuSends(EcuFrame(n, 0)) /\ UNCHANGED <<flow, results>>
  BY DEF EcuBegins
<1>3. ecu.msg \in Nat /\ m \in Nat \ {0}
  BY <1>1, EcuIs
<1>4. 0 \in Nat /\ 0 <= Consecutive(n)
  BY LengthIs, ConsecutiveIs
<1>5. /\ ecu'.msg = m /\ ecu'.length = n /\ ecu'.next = 1
      /\ ecu'.state = (IF n > 7 THEN "awaiting" ELSE "idle") /\ (Busy' <=> n > 7) /\ ~Busy
  BY <1>2 DEF Busy
<1>6. \A k, j : <<k, j>> \in Items => k \in Nat /\ k < m /\ j \in Nat /\ Before(k, j, m, 0)
  BY <1>1, <1>3 DEF Placed, Before
<1>7. Sends(n, m, 0)
  <2> HIDE DEF m
  <2> QED BY <1>1, <1>2, <1>3, <1>4, <1>5, <1>6, EcuSent DEF Sends
<1>8. SameCall /\ New' = New /\ Going' = Going
  BY <1>1, <1>7, NoFault, LostIs DEF Sends
<1> QED BY <1>2, <1>3, <1>5, <1>6, <1>7, <1>8

LEMMA ContinuesIs ==
  ASSUME Inv, EcuContinues
  PROVE  /\ ecu.state = "sending" /\ Busy /\ ecu.msg \in Nat \ {0}
         /\ ecu.length \in EcuLengths /\ ecu.length > 7
         /\ ecu.next \in Nat \ {0} /\ ecu.next <= Consecutive(ecu.length)
         /\ ecu'.msg = ecu.msg /\ ecu'.length = ecu.length /\ ecu'.next = ecu.next + 1
         /\ ecu'.state \in {"idle", "sending"} /\ (Busy' <=> ecu.next # Consecutive(ecu.length))
         /\ Sends(ecu.length, ecu.msg, ecu.next) /\ UNCHANGED <<flow, results>>
         /\ \A k, j : <<k, j>> \in Items => /\ k \in Nat /\ k <= ecu.msg /\ j \in Nat
                                            /\ k = ecu.msg => j < ecu.next
         /\ SameCall /\ New' = New /\ Going' = Going
<1> DEFINE m == ecu.msg
           i == ecu.next
           n == ecu.length
<1>1. HandlerTypeOK /\ FramesOK /\ EcuOK /\ Ordered /\ Placed
  BY DEF Inv
<1>2. /\ ecu.state = "sending"
      /\ ecu' = [ecu EXCEPT !.next = @ + 1,
                            !.state = IF i = Consecutive(n) THEN "idle" ELSE @]
      /\ EcuSends(EcuFrame(n, i)) /\ UNCHANGED <<flow, results>>
  BY DEF EcuContinues
<1>3. /\ m \in Nat \ {0} /\ n \in EcuLengths /\ n > 7 /\ n \in Nat
      /\ i \in Nat \ {0} /\ i <= Consecutive(n) /\ Busy
  BY <1>1, <1>2, LengthIs DEF EcuOK, Busy
<1>4. /\ ecu'.msg = m /\ ecu'.length = n /\ ecu'.next = i + 1
      /\ ecu'.state = IF i = Consecutive(n) THEN "idle" ELSE "sending"
  BY <1>1, <1>2, EcuIs
<1>5. ecu'.state \in {"idle", "sending"} /\ (Busy' <=> i # Consecutive(n))
  BY <1>4 DEF Busy
<1>6. \A k, j : <<k, j>> \in Items => /\ k \in Nat /\ k <= m /\ j \in Nat
                                      /\ k = m => j < i
                                      /\ Before(k, j, m, i)
  BY <1>1, <1>3 DEF Placed, Before
<1>7. Sends(n, m, i)
  <2> HIDE DEF m, i, n
  <2>1. i \in Nat
    BY <1>3
  <2> QED BY <1>1, <1>2, <1>3, <1>4, <1>6, <2>1, EcuSent DEF Sends
<1>8. SameCall /\ New' = New /\ Going' = Going
  BY <1>1, <1>7, NoFault, LostIs DEF Sends
<1> QED BY <1>2, <1>3, <1>4, <1>5, <1>6, <1>7, <1>8

LEMMA FlowControlledIs ==
  ASSUME Inv, EcuFlowControlled
  PROVE  /\ flow /\ flow' = FALSE /\ UNCHANGED <<frames, call, results, faults>>
         /\ ecu'.msg = ecu.msg /\ ecu'.length = ecu.length /\ ecu'.next = ecu.next
         /\ ecu'.state = (IF ecu.state = "awaiting" THEN "sending" ELSE ecu.state)
         /\ Busy' = Busy /\ Items' = Items /\ Queue' = Queue
         /\ SameCall /\ New' = New /\ Going' = Going
<1>1. HandlerTypeOK
  BY DEF Inv
<1>2. /\ flow /\ flow' = FALSE /\ UNCHANGED <<frames, call, results, faults>>
      /\ ecu' = [ecu EXCEPT !.state = IF @ = "awaiting" THEN "sending" ELSE @]
  BY DEF EcuFlowControlled
<1>3. /\ ecu'.msg = ecu.msg /\ ecu'.length = ecu.length /\ ecu'.next = ecu.next
      /\ ecu'.state = (IF ecu.state = "awaiting" THEN "sending" ELSE ecu.state)
      /\ Busy' = Busy
  BY <1>1, <1>2, EcuIs DEF Busy
<1>4. Items' = Items /\ Queue' = Queue
  BY <1>2 DEF Items, Queue
<1>5. SameCall /\ New' = New /\ Going' = Going
  BY <1>1, <1>2, NoFault
<1> QED BY <1>2, <1>3, <1>4, <1>5

LEMMA GivesUpIs ==
  ASSUME Inv, EcuGivesUp
  PROVE  /\ ecu.state = "awaiting" /\ ecu'.state = "idle" /\ ~Busy'
         /\ ecu'.msg = ecu.msg /\ UNCHANGED <<frames, flow, results>>
         /\ \/ Unanswered /\ UNCHANGED <<call, faults>>
            \/ late' # 0 /\ late' \in Nat /\ lost' = lost /\ call'.clean = FALSE
         /\ Items' = Items /\ Queue' = Queue
         /\ SameCall /\ New' = New /\ Going' = Going
<1>1. HandlerTypeOK
  BY DEF Inv
<1>2. /\ ecu.state = "awaiting" /\ ecu' = [ecu EXCEPT !.state = "idle"]
      /\ UNCHANGED <<frames, flow, results>>
      /\ \/ Unanswered /\ UNCHANGED <<call, faults>>
         \/ /\ late < MaxLate /\ late' = late + 1 /\ lost' = lost
            /\ call' = [call EXCEPT !.clean = FALSE]
  BY DEF EcuGivesUp
<1>3. ecu'.msg = ecu.msg /\ ~Busy' /\ ecu'.state = "idle"
  BY <1>1, <1>2, EcuIs DEF Busy
<1>4. Items' = Items /\ Queue' = Queue
  BY <1>2 DEF Items, Queue
<1>5. CASE UNCHANGED <<call, faults>> /\ Unanswered
  BY <1>1, <1>2, <1>3, <1>4, <1>5, NoFault
<1>6. CASE /\ late' = late + 1 /\ lost' = lost
           /\ call' = [call EXCEPT !.clean = FALSE]
  <2>1. /\ call'.active = call.active /\ call'.wanted = call.wanted
        /\ call'.rx = call.rx /\ call'.from = call.from
        /\ New' = New /\ Going' = Going
    BY <1>1, <1>6, Unharmed, Zenon
  <2>2. call'.clean = FALSE
    <3>1. call \in [active : BOOLEAN, wanted : Wanted, rx : RxMessages(Arbs),
                    from : SUBSET (0..MaxMessages), clean : BOOLEAN]
      BY <1>1 DEF HandlerTypeOK
    <3> QED BY <1>6, <3>1
  <2>3. late' # 0 /\ late' \in Nat
    BY <1>1, <1>6, FaultsAre
  <2> QED BY <1>2, <1>3, <1>4, <1>6, <2>1, <2>2, <2>3 DEF SameCall
<1> QED BY <1>2, <1>5, <1>6

\* Nothing more is missing.
LEMMA ChainSame ==
  ASSUME Chain, SameCall, New' = New, Going' = Going, Items' \subseteq Items,
         \A k, j : Missing(k, j)' => Missing(k, j)
  PROVE  Chain'
<1>1. ChainBus'
  BY DEF Chain, ChainBus, SameCall
<1>2. ChainNew'
  BY DEF Chain, ChainNew, SameCall
<1>3. ChainCall'
  BY DEF Chain, ChainCall, SameCall
<1> QED BY <1>1, <1>2, <1>3 DEF Chain

\* A fault frees from the promise.
LEMMA ChainLost ==
  ASSUME HandlerTypeOK, Lose
  PROVE  Chain'
  BY LostIs DEF Chain, ChainBus, ChainNew, ChainCall

LEMMA BeginsChain ==
  ASSUME Inv, Chain, NEW n \in EcuLengths, EcuBegins(n)
  PROVE  Chain'
<1> DEFINE m == ecu.msg + 1
<1>1. /\ ~Busy /\ ecu.msg \in Nat /\ ecu'.msg = m /\ ecu'.next = 1
      /\ Sends(n, m, 0)
      /\ \A k, j : <<k, j>> \in Items => k \in Nat /\ k < m /\ j \in Nat
      /\ SameCall /\ New' = New /\ Going' = Going
  BY BeginsIs
<1>2. HandlerTypeOK
  BY DEF Inv
<1>3. CASE Items' = Items \cup {<<m, 0>>} /\ UNCHANGED <<call, faults>>
  <2>1. m \in Nat
    BY <1>1
  <2> HIDE DEF m
  <2>2. \A k, j : <<k, j>> \in Items' <=> <<k, j>> \in Items \/ (k = m /\ j = 0)
    BY <1>3
  <2>3. ASSUME NEW k, NEW j, Missing(k, j)'
        PROVE  Missing(k, j) /\ k \in Nat /\ k < m
    <3>1. /\ j \in Nat /\ <<k, j>> \notin Items' /\ <<k, j>> \notin Items
          /\ \E i \in Nat : j < i /\ Coming(k, i)'
      BY <2>2, <2>3 DEF Missing
    <3>2. PICK i \in Nat : j < i /\ Coming(k, i)'
      BY <3>1
    <3>3. <<k, i>> \in Items' \/ (k = m /\ i = 1)
      BY <1>1, <3>2 DEF Coming
    <3>4. <<k, i>> \in Items
      BY <2>2, <3>1, <3>2, <3>3
    <3> QED BY <1>1, <3>1, <3>2, <3>4 DEF Missing, Coming
  <2>4. ChainBus'
    <3>1. SUFFICES ASSUME lost' = 0, NEW k, NEW j, Missing(k, j)',
                          NEW k2, NEW i2, <<k2, i2>> \in Items'
                   PROVE  Before(k, j, k2, i2)
      BY DEF ChainBus
    <3>2. Missing(k, j) /\ k < m
      BY <2>3, <3>1
    <3>3. CASE <<k2, i2>> \in Items
      BY <1>1, <3>1, <3>2, <3>3 DEF Chain, ChainBus, SameCall
    <3>4. CASE k2 = m
      BY <3>2, <3>4 DEF Before
    <3> QED BY <2>2, <3>1, <3>3, <3>4
  <2>5. ChainNew' /\ ChainCall'
    BY <1>1, <2>3 DEF Chain, ChainNew, ChainCall, SameCall
  <2> QED BY <2>4, <2>5 DEF Chain
<1>4. CASE Lose
  BY <1>2, <1>4, ChainLost
<1> QED BY <1>1, <1>3, <1>4 DEF Sends

LEMMA ContinuesChain ==
  ASSUME Inv, Chain, EcuContinues
  PROVE  Chain'
<1> DEFINE m == ecu.msg
           f == ecu.next
<1>1. /\ Busy /\ m \in Nat \ {0} /\ f \in Nat \ {0} /\ ecu'.msg = m /\ ecu'.next = f + 1
      /\ Sends(ecu.length, m, f)
      /\ \A k, j : <<k, j>> \in Items => /\ k \in Nat /\ k <= m /\ j \in Nat
                                         /\ k = m => j < f
      /\ SameCall /\ New' = New /\ Going' = Going
  BY ContinuesIs
<1>2. HandlerTypeOK
  BY DEF Inv
<1>3. CASE Items' = Items \cup {<<m, f>>} /\ UNCHANGED <<call, faults>>
  <2>0. \A k, i : Coming(k, i) <=> <<k, i>> \in Items \/ (k = m /\ i = f)
    BY <1>1 DEF Coming
  <2>1. \A k, i : Coming(k, i)' => <<k, i>> \in Items' \/ (k = m /\ i = f + 1)
    BY <1>1 DEF Coming
  <2> HIDE DEF m, f
  <2>2. \A k, j : <<k, j>> \in Items' <=> <<k, j>> \in Items \/ (k = m /\ j = f)
    BY <1>3
  <2>3. ASSUME NEW k, NEW j, Missing(k, j)'
        PROVE  Missing(k, j) /\ Before(k, j, m, f)
    <3>1. /\ j \in Nat /\ <<k, j>> \notin Items' /\ <<k, j>> \notin Items /\ ~(k = m /\ j = f)
          /\ \E i \in Nat : j < i /\ Coming(k, i)'
      BY <2>2, <2>3 DEF Missing
    <3>2. PICK i \in Nat : j < i /\ Coming(k, i)'
      BY <3>1
    <3>3. CASE k = m
      <4>0. f \in Nat /\ \A b : <<m, b>> \in Items => b \in Nat /\ b < f
        BY <1>1
      <4>1. i <= f + 1
        <5>1. <<m, i>> \in Items \/ i = f \/ i = f + 1
          BY <2>1, <2>2, <3>2, <3>3
        <5> QED BY <4>0, <5>1
      <4>2. j < f
        BY <1>1, <3>1, <3>2, <3>3, <4>1
      <4>3. Missing(k, j)
        BY <1>1, <2>0, <3>1, <3>3, <4>2 DEF Missing
      <4> QED BY <3>3, <4>2, <4>3 DEF Before
    <3>4. CASE k # m
      <4>1. <<k, i>> \in Items
        BY <2>1, <2>2, <3>2, <3>4
      <4>2. Missing(k, j)
        BY <2>0, <3>1, <3>2, <4>1 DEF Missing
      <4> QED BY <1>1, <3>4, <4>1, <4>2 DEF Before
    <3> QED BY <3>3, <3>4
  <2>4. ChainBus'
    <3>1. SUFFICES ASSUME lost' = 0, NEW k, NEW j, Missing(k, j)',
                          NEW k2, NEW i2, <<k2, i2>> \in Items'
                   PROVE  Before(k, j, k2, i2)
      BY DEF ChainBus
    <3>2. Missing(k, j) /\ Before(k, j, m, f)
      BY <2>3, <3>1
    <3> QED BY <1>1, <2>2, <3>1, <3>2 DEF Chain, ChainBus, SameCall
  <2>5. ChainNew' /\ ChainCall'
    BY <1>1, <2>3 DEF Chain, ChainNew, ChainCall, SameCall
  <2> QED BY <2>4, <2>5 DEF Chain
<1>4. CASE Lose
  BY <1>2, <1>4, ChainLost
<1> QED BY <1>1, <1>3, <1>4 DEF Sends

LEMMA OthersChain ==
  ASSUME Inv, Chain, EcuFlowControlled \/ EcuGivesUp \/ Stray
  PROVE  Chain'
<1>1. HandlerTypeOK /\ FramesOK /\ Ordered
  BY DEF Inv
<1>2. CASE EcuFlowControlled
  <2>1. /\ Items' = Items /\ Busy' = Busy /\ ecu'.msg = ecu.msg /\ ecu'.next = ecu.next
        /\ SameCall /\ New' = New /\ Going' = Going
    BY <1>2, FlowControlledIs
  <2>2. \A k, j : Missing(k, j)' => Missing(k, j)
    BY <2>1 DEF Missing, Coming
  <2> QED BY <2>1, <2>2, ChainSame
<1>3. CASE EcuGivesUp
  <2>1. Items' = Items /\ ~Busy' /\ SameCall /\ New' = New /\ Going' = Going
    BY <1>3, GivesUpIs
  <2>2. \A k, j : Missing(k, j)' => Missing(k, j)
    BY <2>1 DEF Missing, Coming
  <2> QED BY <2>1, <2>2, ChainSame
<1>4. CASE Stray
  <2>1. Items' = Items /\ UNCHANGED <<ecu, call, faults>>
    BY <1>1, <1>4, Strayed, Zenon
  <2>2. SameCall /\ New' = New /\ Going' = Going
    BY <1>1, <2>1, NoFault
  <2>3. \A k, j : Missing(k, j)' => Missing(k, j)
    BY <2>1 DEF Missing, Coming, Busy
  <2> QED BY <2>1, <2>2, <2>3, ChainSame
<1> QED BY <1>2, <1>3, <1>4

\* What a turn leaves in the queue.
LEMMA TurnIs ==
  ASSUME Inv, ReceiveFrame
  PROVE  /\ call.active /\ UNCHANGED <<ecu, faults>> /\ frames' = Tail(frames) /\ frames # <<>>
         /\ 1 \notin Queue => Items' = Items
         /\ 1 \in Queue =>
              /\ <<Whose, Index(Top)>> \in Items
              /\ Items' = Items \ {<<Whose, Index(Top)>>}
              /\ \A k, j : <<k, j>> \in Items' =>
                   k \in Nat /\ j \in Nat /\ Before(Whose, Index(Top), k, j)
              /\ Whose \in Nat \ {0} /\ Whose <= ecu.msg /\ Index(Top) \in Nat
              /\ Top.kind = "CF" <=> Index(Top) # 0
<1>1. HandlerTypeOK /\ FramesOK /\ Ordered /\ Placed
  BY DEF Inv
<1>2. /\ call.active /\ frames # <<>> /\ frames' = Tail(frames)
      /\ UNCHANGED <<ecu, strays, faults>>
  BY ReceiveIs
<1>3. /\ 1 \notin Queue => Items' = Items
      /\ 1 \in Queue =>
           /\ Item(frames[1]) \in Items
           /\ Items' = Items \ {Item(frames[1])}
           /\ \A k, j : <<k, j>> \in Items' => Before(Whose, Index(Top), k, j)
  BY <1>1, <1>2, Removed DEF HandlerTypeOK, Whose, Top
<1>4. Item(frames[1]) = <<Whose, Index(Top)>>
  BY DEF Item, Whose, Top
<1>5. \A k, j : <<k, j>> \in Items => k \in Nat /\ j \in Nat
  BY <1>1 DEF Placed
<1> QED BY <1>2, <1>3, <1>4, <1>5, HeadIs

LEMMA MissingAfter ==
  ASSUME Inv, ReceiveFrame, NEW k, NEW j, Missing(k, j)'
  PROVE  /\ 1 \notin Queue => Missing(k, j)
         /\ 1 \in Queue => Missing(k, j) \/ (k = Whose /\ j = Index(Top))
<1>1. /\ UNCHANGED <<ecu, faults>>
      /\ 1 \notin Queue => Items' = Items
      /\ 1 \in Queue => Items' = Items \ {<<Whose, Index(Top)>>}
  BY TurnIs
<1>2. \A i : Coming(k, i)' => Coming(k, i)
  BY <1>1 DEF Coming, Busy
<1> QED BY <1>1, <1>2 DEF Missing

LEMMA TurnChainBus ==
  ASSUME Inv, ChainBus, ReceiveFrame
  PROVE  ChainBus'
<1>1. SUFFICES ASSUME lost' = 0, NEW k, NEW j, Missing(k, j)',
                      NEW m, NEW i, <<m, i>> \in Items'
               PROVE  Before(k, j, m, i)
  BY DEF ChainBus
<1>2. lost = 0 /\ <<m, i>> \in Items
  BY <1>1, TurnIs DEF faults
<1>3. CASE Missing(k, j)
  BY <1>2, <1>3 DEF ChainBus
<1>4. CASE 1 \in Queue /\ k = Whose /\ j = Index(Top)
  BY <1>1, <1>4, TurnIs
<1> QED BY <1>1, <1>3, <1>4, MissingAfter

-----------------------------------------------------------------------------
(* The lengths of the messages *)

\* A frame of the message with L[k] bytes, if it is part of message k.
Told(L, f) == /\ Index(f.frame) <= Consecutive(L[f.of])
              /\ f.frame = EcuFrame(L[f.of], Index(f.frame))

\* L is the length of every message that the ECU has begun.
Sized(L) ==
  /\ L \in [Nat -> Nat]
  /\ \A m \in 1..ecu.msg : L[m] \in EcuLengths
  /\ Busy => ecu.length = L[ecu.msg]
  /\ \A p \in Queue : Told(L, frames[p])

LEMMA ToldAppended ==
  ASSUME NEW L, frames \in Seq(Frame), NEW x \in Frame, frames' = Append(frames, x),
         \A p \in Queue : Told(L, frames[p]), x.tp \/ Told(L, x)
  PROVE  \A p \in Queue' : Told(L, frames'[p])
<1>1. /\ DOMAIN frames' = DOMAIN frames \cup {Len(frames) + 1}
      /\ \A p \in DOMAIN frames : frames'[p] = frames[p]
      /\ frames'[Len(frames) + 1] = x
  BY Appended
<1>2. \A p \in Queue' : (p \in Queue /\ frames'[p] = frames[p]) \/ (frames'[p] = x /\ ~x.tp)
  BY <1>1 DEF Queue
<1>3. SUFFICES ASSUME NEW p \in Queue' PROVE Told(L, frames'[p])
  OBVIOUS
<1>4. CASE p \in Queue /\ frames'[p] = frames[p]
  BY <1>4
<1>5. CASE frames'[p] = x /\ ~x.tp
  BY <1>5
<1> QED BY <1>2, <1>4, <1>5

LEMMA ToldSame ==
  ASSUME NEW L, UNCHANGED frames, \A p \in Queue : Told(L, frames[p])
  PROVE  \A p \in Queue' : Told(L, frames'[p])
  BY DEF Queue

LEMMA ToldTail ==
  ASSUME NEW L, frames \in Seq(Frame), frames # <<>>, frames' = Tail(frames),
         \A p \in Queue : Told(L, frames[p])
  PROVE  \A p \in Queue' : Told(L, frames'[p])
<1>1. \A p \in DOMAIN frames' : /\ p \in Nat /\ p >= 1 /\ p + 1 \in DOMAIN frames
                                /\ frames'[p] = frames[p + 1]
  BY Tailed
<1>2. SUFFICES ASSUME NEW p \in Queue' PROVE Told(L, frames'[p])
  OBVIOUS
<1>3. p + 1 \in Queue /\ frames'[p] = frames[p + 1]
  BY <1>1 DEF Queue
<1>4. Told(L, frames[p + 1])
  BY <1>3
<1> QED BY <1>3, <1>4

\* A frame that is sent is one of the message.
LEMMA SendsTold ==
  ASSUME Inv, NEW L, \A p \in Queue : Told(L, frames[p]),
         NEW m \in Nat \ {0}, L[m] \in EcuLengths,
         NEW i \in Nat, i <= Consecutive(L[m]), Sends(L[m], m, i)
  PROVE  \A p \in Queue' : Told(L, frames'[p])
<1> DEFINE g    == EcuFrame(L[m], i)
           good == [frame |-> g, of |-> m, tp |-> FALSE]
           bad  == [frame |-> g, of |-> m, tp |-> TRUE]
<1>1. frames \in Seq(Frame)
  BY DEF Inv, HandlerTypeOK
<1>2. g \in Frames(Arbs) /\ Index(g) = i
  BY LengthIs, EcuFrameIs
<1>3. good \in Frame /\ bad \in Frame /\ Told(L, good) /\ bad.tp
  <2>1. Told(L, good)
    BY <1>2 DEF Told
  <2> HIDE DEF g
  <2> QED BY <1>2, <2>1 DEF Frame
<1>4. \/ frames' = Append(frames, good) \/ frames' = Append(frames, bad) \/ frames' = frames
  BY DEF Sends
<1> HIDE DEF good, bad
<1>5. CASE frames' = Append(frames, good)
  BY <1>1, <1>3, <1>5, ToldAppended, Zenon
<1>6. CASE frames' = Append(frames, bad)
  BY <1>1, <1>3, <1>6, ToldAppended, Zenon
<1>7. CASE frames' = frames
  BY <1>7, ToldSame
<1> QED BY <1>4, <1>5, <1>6, <1>7

\* The lengths, when message m begins.
Longer(L, m, n) == [k \in Nat |-> IF k = m THEN n ELSE L[k]]

LEMMA BeginsSized ==
  ASSUME Inv, NEW L, Sized(L), NEW n \in EcuLengths, EcuBegins(n), NEW m, m = ecu.msg + 1
  PROVE  /\ Sized(Longer(L, m, n))'
         /\ Longer(L, m, n)[m] = n
         /\ \A k \in 1..ecu.msg : Longer(L, m, n)[k] = L[k]
<1> DEFINE M == Longer(L, m, n)
<1>1. /\ ecu.msg \in Nat /\ ecu'.msg = m /\ ecu'.length = n
      /\ Sends(n, m, 0)
      /\ \A k, j : <<k, j>> \in Items => k \in Nat /\ k < m
  BY BeginsIs
<1>2. n \in Nat /\ 0 <= Consecutive(n)
  BY LengthIs, ConsecutiveIs
<1>3. /\ M \in [Nat -> Nat] /\ M[m] = n /\ \A k \in Nat : k # m => M[k] = L[k]
  BY <1>1, <1>2 DEF Longer, Sized
<1>4. m \in Nat \ {0} /\ 0 \in Nat
  BY <1>1
<1>5. \A k \in 1..ecu.msg : M[k] = L[k]
  BY <1>1, <1>3
<1> HIDE DEF M
<1>6. \A k \in 1..m : M[k] \in EcuLengths
  BY <1>1, <1>3 DEF Sized
<1>7. \A p \in Queue : Told(M, frames[p])
  <2>1. SUFFICES ASSUME NEW p \in Queue PROVE Told(M, frames[p])
    OBVIOUS
  <2>2. Item(frames[p]) \in Items /\ Told(L, frames[p])
    BY QueuedIs DEF Inv, HandlerTypeOK, Sized
  <2>3. frames[p].of \in Nat /\ frames[p].of < m
    BY <1>1, <2>2 DEF Item
  <2>4. M[frames[p].of] = L[frames[p].of]
    BY <1>3, <1>4, <2>3
  <2> QED BY <2>2, <2>4 DEF Told
<1>8. \A p \in Queue' : Told(M, frames'[p])
  BY <1>1, <1>2, <1>3, <1>4, <1>7, SendsTold
<1> QED BY <1>1, <1>3, <1>5, <1>6, <1>8 DEF Sized, M

LEMMA ContinuesSized ==
  ASSUME Inv, NEW L, Sized(L), EcuContinues
  PROVE  Sized(L)'
<1>1. /\ Busy /\ ecu.msg \in Nat \ {0} /\ ecu.length \in EcuLengths
      /\ ecu.next \in Nat /\ ecu.next <= Consecutive(ecu.length)
      /\ ecu'.msg = ecu.msg /\ ecu'.length = ecu.length
      /\ Sends(ecu.length, ecu.msg, ecu.next)
  BY ContinuesIs
<1>2. ecu.length = L[ecu.msg] /\ \A p \in Queue : Told(L, frames[p])
  BY <1>1 DEF Sized
<1>3. \A p \in Queue' : Told(L, frames'[p])
  BY <1>1, <1>2, SendsTold
<1> QED BY <1>1, <1>2, <1>3 DEF Sized

LEMMA OthersSized ==
  ASSUME Inv, NEW L, Sized(L), EcuFlowControlled \/ EcuGivesUp \/ Stray
  PROVE  Sized(L)'
<1>1. HandlerTypeOK /\ FramesOK /\ Ordered
  BY DEF Inv
<1>2. CASE EcuFlowControlled
  BY <1>2, FlowControlledIs, ToldSame DEF Sized
<1>3. CASE EcuGivesUp
  BY <1>3, GivesUpIs, ToldSame DEF Sized
<1>4. CASE Stray
  <2>1. UNCHANGED ecu /\ Queue' = Queue /\ \E x \in Frame : x.of = 0 /\ frames' = Append(frames, x)
    BY <1>1, <1>4, Strayed, Zenon
  <2>2. PICK x \in Frame : x.of = 0 /\ frames' = Append(frames, x)
    BY <2>1
  <2>3. frames \in Seq(Frame)
    BY <1>1 DEF HandlerTypeOK
  <2>4. \A p \in DOMAIN frames : frames'[p] = frames[p]
    BY <2>2, <2>3, Appended
  <2>5. \A p \in Queue' : Told(L, frames'[p])
    BY <2>1, <2>4 DEF Sized, Queue
  <2> QED BY <2>1, <2>5 DEF Sized, Busy
<1> QED BY <1>2, <1>3, <1>4

LEMMA TurnSized ==
  ASSUME Inv, NEW L, Sized(L), ReceiveFrame
  PROVE  Sized(L)'
<1>1. UNCHANGED ecu /\ frames' = Tail(frames) /\ frames # <<>> /\ frames \in Seq(Frame)
  BY TurnIs DEF Inv, HandlerTypeOK
<1>2. \A p \in Queue' : Told(L, frames'[p])
  BY <1>1, ToldTail DEF Sized
<1> QED BY <1>1, <1>2 DEF Sized, Busy

\* What the first frame holds of its message.
LEMMA HeadHolds ==
  ASSUME Inv, NEW L, Sized(L), ReceiveFrame, 1 \in Queue
  PROVE  /\ L[Whose] \in EcuLengths /\ L[Whose] \in Nat /\ L[Whose] >= 1
         /\ Index(Top) \in Nat /\ Index(Top) <= Consecutive(L[Whose])
         /\ Holds(Top, L[Whose], Index(Top))
<1>1. Whose \in 1..ecu.msg /\ Index(Top) \in Nat
  BY HeadIs DEF Inv, HandlerTypeOK
<1>2. L[Whose] \in EcuLengths /\ L[Whose] \in Nat /\ L[Whose] >= 1
  BY <1>1, LengthIs DEF Sized
<1>3. Told(L, frames[1])
  BY DEF Sized
<1>4. Index(Top) <= Consecutive(L[Whose]) /\ Top = EcuFrame(L[Whose], Index(Top))
  BY <1>3 DEF Told, Top, Whose
<1>5. Holds(EcuFrame(L[Whose], Index(Top)), L[Whose], Index(Top))
  BY <1>1, <1>2, <1>4, EcuFrameIs, Zenon
<1> QED BY <1>1, <1>2, <1>4, <1>5

-----------------------------------------------------------------------------
(* The message under way *)

\* A late flow control and a lost frame together can deceive a call.
Sound == lost = 0 \/ late = 0 \/ call.clean

\* The payload is the first bytes of the message, up to the frame expected.
Gathered == /\ call.rx.received = 7 * call.rx.next - 1
            /\ FirstBytes(call.rx.payload, call.rx.received)

\* Frames are missing in it, which come no more: it will not be complete.
Broken(m) ==
  /\ late = 0 /\ lost # 0 /\ ~call.clean
  /\ call.rx.received <= 7 * call.rx.next - 1
  /\ \A i : <<m, i>> \in Items => i > call.rx.next
  /\ Busy /\ ecu.msg = m => ecu.next > call.rx.next

\* The frames that are still to come are not before the one expected.
PartOfOne(L, m) ==
  /\ call.from = {m} /\ call.rx.len = L[m] /\ L[m] > 7 /\ call.rx.next >= 1
  /\ \A i : <<m, i>> \in Items => i >= call.rx.next
  /\ Busy /\ ecu.msg = m => ecu.next >= call.rx.next
  /\ Gathered \/ Broken(m)

UnderWay(L) == Going /\ Sound => \E m \in 1..ecu.msg : PartOfOne(L, m)

LEMMA UnderWaySame ==
  ASSUME HandlerTypeOK, Placed, NEW L, UnderWay(L), NEW M, \A m \in 1..ecu.msg : M[m] = L[m],
         SameCall, Going' = Going, late' \in Nat, lost' \in Nat,
         ecu'.msg \in Nat, ecu'.msg >= ecu.msg,
         \A m \in 1..ecu.msg : \A i : <<m, i>> \in Items' =>
           <<m, i>> \in Items \/ (Busy /\ ecu.msg = m /\ ecu.next = i),
         \A m \in 1..ecu.msg : Busy' /\ ecu'.msg = m =>
           Busy /\ ecu.msg = m /\ ecu'.next \in Nat /\ ecu'.next >= ecu.next
  PROVE  UnderWay(M)'
<1>1. SUFFICES ASSUME Going', Sound' PROVE \E m \in 1..ecu'.msg : PartOfOne(M, m)'
  BY DEF UnderWay
<1>2. ecu.msg \in Nat /\ ecu.next \in Nat /\ call.rx.next \in Nat
  BY EcuIs DEF HandlerTypeOK, RxMessages
<1>3. Going /\ Sound
  BY <1>1, FaultsAre DEF Sound, SameCall
<1>4. PICK m \in 1..ecu.msg : PartOfOne(L, m)
  BY <1>3 DEF UnderWay
<1>5. m \in 1..ecu'.msg /\ M[m] = L[m]
  BY <1>2, <1>4
<1>6. call'.rx = call.rx /\ call'.from = call.from
  BY DEF SameCall
<1>7. ASSUME NEW i, <<m, i>> \in Items'
      PROVE  i \in Nat /\ (<<m, i>> \in Items \/ (Busy /\ ecu.msg = m /\ i = ecu.next))
  BY <1>2, <1>4, <1>7 DEF Placed
<1>8. \A i : <<m, i>> \in Items' => i >= call.rx.next
  BY <1>4, <1>7 DEF PartOfOne
<1>9. Busy' /\ ecu'.msg = m => ecu'.next >= call.rx.next
  BY <1>2, <1>4 DEF PartOfOne
<1>10. CASE Gathered
  <2>1. Gathered'
    BY <1>6, <1>10 DEF Gathered
  <2> QED BY <1>4, <1>5, <1>6, <1>8, <1>9, <2>1 DEF PartOfOne
<1>11. CASE Broken(m)
  <2>1. late' = 0 /\ lost' # 0 /\ ~call'.clean
    BY <1>1, <1>11, FaultsAre DEF Broken, Sound, SameCall
  <2>2. \A i : <<m, i>> \in Items' => i > call.rx.next
    BY <1>7, <1>11 DEF Broken
  <2>3. Busy' /\ ecu'.msg = m => ecu'.next > call.rx.next
    BY <1>2, <1>4, <1>11 DEF Broken
  <2>4. Broken(m)'
    BY <1>6, <1>11, <2>1, <2>2, <2>3 DEF Broken
  <2> QED BY <1>4, <1>5, <1>6, <1>8, <1>9, <2>4 DEF PartOfOne
<1> QED BY <1>4, <1>10, <1>11 DEF PartOfOne

\* Where flow control is never late, the frames of a message that was not
\* answered are the last of it.
InTime(L) == late = 0 =>
  /\ flow => ecu.state = "awaiting" /\ Items = {}
  /\ ecu.state = "sending" => \A k, i : <<k, i>> \in Items => i > 0 /\ k = ecu.msg
  /\ \A k : <<k, 0>> \in Items /\ L[k] > 7 => ecu.state = "awaiting" /\ k = ecu.msg
  /\ \A k, i, m, j : <<k, i>> \in Items /\ <<m, j>> \in Items /\ i > 0 /\ Before(m, j, k, i)
                       => m = k /\ j > 0
  /\ Going => \A m \in call.from : /\ \A k, i : <<k, i>> \in Items /\ i > 0 => k = m
                                   /\ flow \/ ecu.state = "sending" => ecu.msg = m

\* The frames of message k from i on are in the queue or still to be sent.
RestOf(L, k, i) ==
  \A j \in Nat : i <= j /\ j <= Consecutive(L[k]) =>
    <<k, j>> \in Items \/ (Busy /\ k = ecu.msg /\ ecu.next <= j)

RestComes(L) == call.clean =>
  /\ Going => \A m \in call.from : RestOf(L, m, call.rx.next)
  /\ New => \A k : <<k, 0>> \in Items => RestOf(L, k, 1)

Story(L) == Sized(L) /\ UnderWay(L) /\ InTime(L) /\ RestComes(L)

LEMMA SendsItems ==
  ASSUME HandlerTypeOK, NEW n, NEW m, NEW i, Sends(n, m, i)
  PROVE  /\ \A k, j : <<k, j>> \in Items' => <<k, j>> \in Items \/ (k = m /\ j = i)
         /\ Items \subseteq Items'
         /\ call'.clean => <<m, i>> \in Items'
         /\ lost' \in Nat /\ late' = late /\ late' \in Nat
<1>1. CASE Items' = Items \cup {<<m, i>>} /\ UNCHANGED <<call, faults>>
  <2>1. \A k, j : <<k, j>> \in Items' => <<k, j>> \in Items \/ (k = m /\ j = i)
    BY <1>1
  <2> QED BY <1>1, <2>1, FaultsAre DEF faults
<1>2. CASE Items' = Items /\ Lose
  BY <1>2, LostIs, FaultsAre
<1> QED BY <1>1, <1>2 DEF Sends

LEMMA FromIs ==
  ASSUME Inv, Going
  PROVE  \A m \in call.from : m \in 1..ecu.msg /\ m \in Nat
  BY EcuIs DEF Inv, CallOK

LEMMA BeginsStory ==
  ASSUME Inv, NEW L, Story(L), NEW n \in EcuLengths, EcuBegins(n), NEW m, m = ecu.msg + 1
  PROVE  Story(Longer(L, m, n))'
<1> DEFINE M == Longer(L, m, n)
<1>1. /\ ecu.state = "idle" /\ ~Busy /\ ecu.msg \in Nat
      /\ ecu'.msg = m /\ ecu'.length = n /\ ecu'.next = 1
      /\ ecu'.state = (IF n > 7 THEN "awaiting" ELSE "idle") /\ (Busy' <=> n > 7)
      /\ Sends(n, m, 0) /\ UNCHANGED <<flow, results>>
      /\ \A k, j : <<k, j>> \in Items => k \in Nat /\ k < m /\ j \in Nat
      /\ SameCall /\ New' = New /\ Going' = Going
  BY BeginsIs
<1>2. HandlerTypeOK /\ Placed /\ CallOK
  BY DEF Inv
<1>3. /\ Sized(M)' /\ M[m] = n /\ \A k \in 1..ecu.msg : M[k] = L[k]
  BY BeginsSized DEF Story
<1>4. /\ \A k, j : <<k, j>> \in Items' => <<k, j>> \in Items \/ (k = m /\ j = 0)
      /\ Items \subseteq Items'
      /\ call'.clean => <<m, 0>> \in Items'
      /\ lost' \in Nat /\ late' = late /\ late' \in Nat
  BY <1>1, <1>2, SendsItems
<1>5. m \in Nat /\ m > ecu.msg /\ m \notin 1..ecu.msg
  BY <1>1
<1>6. n \in Nat
  BY LengthIs
<1> HIDE DEF M
<1>7. UnderWay(M)'
  <2>1. ecu'.msg \in Nat /\ ecu'.msg >= ecu.msg
    BY <1>1, <1>5
  <2>2. \A k \in 1..ecu.msg : \A i : <<k, i>> \in Items' =>
          <<k, i>> \in Items \/ (Busy /\ ecu.msg = k /\ ecu.next = i)
    BY <1>4, <1>5
  <2>3. \A k \in 1..ecu.msg : ~(Busy' /\ ecu'.msg = k)
    BY <1>1, <1>5
  <2> QED BY <1>1, <1>2, <1>3, <1>4, <2>1, <2>2, <2>3, UnderWaySame DEF Story
<1>8. \A k, j : <<k, j>> \in Items => k \in 1..ecu.msg /\ M[k] = L[k]
  <2>1. \A k, j : <<k, j>> \in Items => k \in 1..ecu.msg
    BY <1>1, <1>2 DEF Placed
  <2> QED BY <1>3, <2>1
<1>9. InTime(M)'
  <2>1. SUFFICES ASSUME late' = 0 PROVE InTime(M)'
    BY DEF InTime
  <2>2. /\ ~flow
        /\ \A k : <<k, 0>> \in Items => ~(L[k] > 7)
        /\ \A k, i, a, j : <<k, i>> \in Items /\ <<a, j>> \in Items /\ i > 0 /\ Before(a, j, k, i)
                             => a = k /\ j > 0
        /\ Going => \A a \in call.from : \A k, i : <<k, i>> \in Items /\ i > 0 => k = a
    BY <1>1, <1>4, <2>1 DEF Story, InTime
  <2>3. ~flow' /\ ecu'.state # "sending"
    BY <1>1, <2>2
  <2>4. \A k : <<k, 0>> \in Items' /\ M[k] > 7 => ecu'.state = "awaiting" /\ k = ecu'.msg
    BY <1>1, <1>3, <1>4, <1>8, <2>2
  <2>5. \A k, i : <<k, i>> \in Items' /\ i > 0 => <<k, i>> \in Items
    BY <1>4
  <2>6. \A k, i, a, j : <<k, i>> \in Items' /\ <<a, j>> \in Items' /\ i > 0 /\ Before(a, j, k, i)
                          => a = k /\ j > 0
    <3>1. SUFFICES ASSUME NEW k, NEW i, NEW a, NEW j, <<k, i>> \in Items', <<a, j>> \in Items',
                          i > 0, Before(a, j, k, i)
                   PROVE  a = k /\ j > 0
      OBVIOUS
    <3>2. <<k, i>> \in Items /\ k \in Nat /\ k < m
      BY <1>1, <2>5, <3>1
    <3>3. a # m
      BY <1>5, <3>1, <3>2 DEF Before
    <3> QED BY <1>4, <2>2, <3>1, <3>2, <3>3
  <2>7. Going' => \A a \in call'.from : \A k, i : <<k, i>> \in Items' /\ i > 0 => k = a
    BY <1>1, <2>2, <2>5 DEF SameCall
  <2> QED BY <2>3, <2>4, <2>6, <2>7 DEF InTime
<1>10. RestComes(M)'
  <2>1. SUFFICES ASSUME call'.clean PROVE RestComes(M)'
    BY DEF RestComes
  <2>2. /\ Going => \A a \in call.from : RestOf(L, a, call.rx.next)
        /\ New => \A k : <<k, 0>> \in Items => RestOf(L, k, 1)
    BY <1>1, <2>1 DEF Story, RestComes, SameCall
  <2>3. \A k \in 1..ecu.msg : \A i : RestOf(L, k, i) => RestOf(M, k, i)'
    <3>1. SUFFICES ASSUME NEW k \in 1..ecu.msg, NEW i, RestOf(L, k, i) PROVE RestOf(M, k, i)'
      OBVIOUS
    <3>2. \A j \in Nat : i <= j /\ j <= Consecutive(M[k]) => <<k, j>> \in Items
      BY <1>1, <1>3, <3>1 DEF RestOf
    <3>3. \A j \in Nat : i <= j /\ j <= Consecutive(M[k]) => <<k, j>> \in Items'
      BY <1>4, <3>2
    <3> QED BY <3>3 DEF RestOf
  <2>4. RestOf(M, m, 1)'
    <3>1. SUFFICES ASSUME NEW j \in Nat, 1 <= j, j <= Consecutive(M[m])
                   PROVE  (Busy /\ m = ecu.msg /\ ecu.next <= j)'
      BY DEF RestOf
    <3>2. n > 7
      BY <1>3, <1>6, <3>1, ConsecutiveIs
    <3> QED BY <1>1, <3>1, <3>2
  <2>5. ASSUME Going', NEW a \in call'.from PROVE RestOf(M, a, call.rx.next)'
    <3>1. Going /\ a \in call.from /\ call'.rx.next = call.rx.next
      BY <1>1, <2>5 DEF SameCall
    <3>2. a \in 1..ecu.msg /\ RestOf(L, a, call.rx.next)
      BY <2>2, <3>1, FromIs
    <3>3. PICK i : i = call.rx.next
      OBVIOUS
    <3>4. RestOf(M, a, i)'
      BY <2>3, <3>2, <3>3
    <3> QED BY <3>1, <3>3, <3>4
  <2>6. New' => \A k : <<k, 0>> \in Items' => RestOf(M, k, 1)'
    BY <1>1, <1>4, <1>8, <2>2, <2>3, <2>4
  <2> QED BY <2>5, <2>6 DEF RestComes
<1> QED BY <1>3, <1>7, <1>9, <1>10 DEF Story, M

LEMMA ContinuesStory ==
  ASSUME Inv, NEW L, Story(L), EcuContinues
  PROVE  Story(L)'
<1>1. /\ ecu.state = "sending" /\ Busy /\ ecu.msg \in Nat \ {0}
      /\ ecu.next \in Nat \ {0} /\ ecu.next <= Consecutive(ecu.length)
      /\ ecu'.msg = ecu.msg /\ ecu'.next = ecu.next + 1
      /\ ecu'.state \in {"idle", "sending"} /\ (Busy' <=> ecu.next # Consecutive(ecu.length))
      /\ Sends(ecu.length, ecu.msg, ecu.next) /\ UNCHANGED flow
      /\ \A k, j : <<k, j>> \in Items => /\ k \in Nat /\ k <= ecu.msg /\ j \in Nat
                                         /\ k = ecu.msg => j < ecu.next
      /\ SameCall /\ New' = New /\ Going' = Going
  BY ContinuesIs
<1>2. HandlerTypeOK /\ Placed
  BY DEF Inv
<1>3. Sized(L) /\ Sized(L)' /\ ecu.length = L[ecu.msg]
  BY <1>1, ContinuesSized DEF Story, Sized
<1>4. /\ \A k, j : <<k, j>> \in Items' => <<k, j>> \in Items \/ (k = ecu.msg /\ j = ecu.next)
      /\ Items \subseteq Items'
      /\ call'.clean => <<ecu.msg, ecu.next>> \in Items'
      /\ lost' \in Nat /\ late' = late /\ late' \in Nat
  BY <1>1, <1>2, SendsItems
<1>5. UnderWay(L)'
  <2>1. ecu'.msg \in Nat /\ ecu'.msg >= ecu.msg
    BY <1>1
  <2>2. \A m \in 1..ecu.msg : \A i : <<m, i>> \in Items' =>
          <<m, i>> \in Items \/ (Busy /\ ecu.msg = m /\ ecu.next = i)
    BY <1>1, <1>4
  <2>3. \A m \in 1..ecu.msg : Busy' /\ ecu'.msg = m =>
          Busy /\ ecu.msg = m /\ ecu'.next \in Nat /\ ecu'.next >= ecu.next
    BY <1>1
  <2> QED BY <1>1, <1>2, <1>4, <2>1, <2>2, <2>3, UnderWaySame DEF Story
<1>6. InTime(L)'
  <2>1. SUFFICES ASSUME late' = 0 PROVE InTime(L)'
    BY DEF InTime
  <2>2. /\ ~flow
        /\ \A k, i : <<k, i>> \in Items => i > 0 /\ k = ecu.msg
        /\ Going => \A m \in call.from : ecu.msg = m
    BY <1>1, <1>4, <2>1 DEF Story, InTime
  <2>3. \A k, i : <<k, i>> \in Items' => i > 0 /\ k = ecu.msg
    BY <1>1, <1>4, <2>2
  <2>4. \A k : <<k, 0>> \notin Items'
    BY <2>3
  <2>5. Going' => \A m \in call'.from : ecu'.msg = m
    BY <1>1, <2>2 DEF SameCall
  <2>6. ~flow' /\ ecu'.msg = ecu.msg
    BY <1>1, <2>2
  <2> QED BY <2>3, <2>4, <2>5, <2>6 DEF InTime
<1>7. RestComes(L)'
  <2>1. SUFFICES ASSUME call'.clean PROVE RestComes(L)'
    BY DEF RestComes
  <2>2. /\ Going => \A m \in call.from : RestOf(L, m, call.rx.next)
        /\ New => \A k : <<k, 0>> \in Items => RestOf(L, k, 1)
    BY <1>1, <2>1 DEF Story, RestComes, SameCall
  <2>3. \A k, i : RestOf(L, k, i) => RestOf(L, k, i)'
    <3>1. SUFFICES ASSUME NEW k, NEW i, RestOf(L, k, i),
                          NEW j \in Nat, i <= j, j <= Consecutive(L[k])
                   PROVE  (<<k, j>> \in Items \/ (Busy /\ k = ecu.msg /\ ecu.next <= j))'
      BY DEF RestOf
    <3>2. <<k, j>> \in Items \/ (k = ecu.msg /\ ecu.next <= j)
      BY <3>1 DEF RestOf
    <3>3. CASE <<k, j>> \in Items
      BY <1>4, <3>3
    <3>4. CASE k = ecu.msg /\ j = ecu.next
      BY <1>4, <2>1, <3>4
    <3>5. CASE k = ecu.msg /\ ecu.next < j
      <4>1. ecu'.next <= j /\ ecu.next # Consecutive(L[k])
        BY <1>1, <3>1, <3>5
      <4> QED BY <1>1, <1>3, <3>5, <4>1
    <3> QED BY <1>1, <3>2, <3>3, <3>4, <3>5
  <2>4. ASSUME Going', NEW m \in call'.from PROVE RestOf(L, m, call.rx.next)'
    <3>1. Going /\ m \in call.from /\ call'.rx.next = call.rx.next
      BY <1>1, <2>4 DEF SameCall
    <3>2. PICK i : i = call.rx.next
      OBVIOUS
    <3>3. RestOf(L, m, i)'
      BY <2>2, <2>3, <3>1, <3>2
    <3> QED BY <3>1, <3>2, <3>3
  <2>5. New' => \A k : <<k, 0>> \in Items' => RestOf(L, k, 1)'
    <3>1. \A k : <<k, 0>> \in Items' => <<k, 0>> \in Items
      BY <1>1, <1>4
    <3> QED BY <1>1, <2>2, <2>3, <3>1
  <2> QED BY <2>4, <2>5 DEF RestComes
<1> QED BY <1>3, <1>5, <1>6, <1>7 DEF Story

\* The steps that neither send nor take a frame.
LEMMA QuietStory ==
  ASSUME Inv, NEW L, Story(L), Sized(L)', UNCHANGED Items, SameCall, New' = New, Going' = Going,
         lost' \in Nat, late' \in Nat, ecu'.msg = ecu.msg, Busy' => Busy /\ ecu'.next = ecu.next,
         InTime(L)',
         call'.clean /\ Busy => Busy' \/ (/\ Going => ecu.msg \notin call.from
                                          /\ <<ecu.msg, 0>> \notin Items)
  PROVE  Story(L)'
<1>1. HandlerTypeOK /\ Placed
  BY DEF Inv
<1>2. UnderWay(L)'
  <2>1. ecu.msg \in Nat /\ ecu.next \in Nat
    BY <1>1, EcuIs
  <2> QED BY <1>1, <2>1, UnderWaySame DEF Story
<1>3. RestComes(L)'
  <2>1. SUFFICES ASSUME call'.clean PROVE RestComes(L)'
    BY DEF RestComes
  <2>2. /\ Going => \A m \in call.from : RestOf(L, m, call.rx.next)
        /\ New => \A k : <<k, 0>> \in Items => RestOf(L, k, 1)
    BY <2>1 DEF Story, RestComes, SameCall
  <2>3. \A k, i : RestOf(L, k, i) /\ (Busy' \/ ~Busy \/ k # ecu.msg) => RestOf(L, k, i)'
    BY DEF RestOf
  <2>4. ASSUME Going', NEW m \in call'.from PROVE RestOf(L, m, call.rx.next)'
    <3>1. Going /\ m \in call.from /\ call'.rx.next = call.rx.next
      BY <2>4 DEF SameCall
    <3>2. PICK i : i = call.rx.next
      OBVIOUS
    <3>3. RestOf(L, m, i) /\ (Busy' \/ ~Busy \/ m # ecu.msg)
      BY <2>1, <2>2, <3>1, <3>2
    <3>4. RestOf(L, m, i)'
      BY <2>3, <3>3
    <3> QED BY <3>1, <3>2, <3>4
  <2>5. New' => \A k : <<k, 0>> \in Items' => RestOf(L, k, 1)'
    <3>1. SUFFICES ASSUME New, NEW k, <<k, 0>> \in Items PROVE RestOf(L, k, 1)'
      OBVIOUS
    <3>2. RestOf(L, k, 1) /\ (Busy' \/ ~Busy \/ k # ecu.msg)
      BY <2>1, <2>2, <3>1
    <3> QED BY <2>3, <3>2
  <2> QED BY <2>4, <2>5 DEF RestComes
<1> QED BY <1>2, <1>3 DEF Story

LEMMA FlowControlledStory ==
  ASSUME Inv, NEW L, Story(L), EcuFlowControlled
  PROVE  Story(L)'
<1>1. /\ flow /\ flow' = FALSE /\ UNCHANGED <<call, faults>>
      /\ ecu'.msg = ecu.msg /\ ecu'.next = ecu.next
      /\ ecu'.state = (IF ecu.state = "awaiting" THEN "sending" ELSE ecu.state)
      /\ Busy' = Busy /\ Items' = Items
      /\ SameCall /\ New' = New /\ Going' = Going
  BY FlowControlledIs
<1>2. Sized(L)' /\ lost' \in Nat /\ late' \in Nat
  BY <1>1, OthersSized, FaultsAre DEF Story, Inv, faults
<1>3. InTime(L)'
  <2>1. SUFFICES ASSUME late = 0 PROVE InTime(L)'
    BY <1>1 DEF InTime, faults
  <2>2. /\ Items = {} /\ (Going => \A m \in call.from : ecu.msg = m)
    BY <1>1, <2>1 DEF Story, InTime
  <2> QED BY <1>1, <2>2 DEF InTime
<1> QED BY <1>1, <1>2, <1>3, QuietStory

LEMMA UnansweredIs ==
  ASSUME Inv, Unanswered
  PROVE  ~flow /\ ecu.msg \notin call.from /\ \A i : <<ecu.msg, i>> \notin Items
<1>1. \A p \in Queue : frames[p].of # ecu.msg
  BY DEF Unanswered, Queue
<1>2. \A k, i : <<k, i>> \in Items => k # ecu.msg
  <2>1. SUFFICES ASSUME NEW k, NEW i, <<k, i>> \in Items PROVE k # ecu.msg
    OBVIOUS
  <2>2. PICK p \in Queue : <<k, i>> = Item(frames[p])
    BY <2>1 DEF Items
  <2>3. k = frames[p].of
    BY <2>2 DEF Item
  <2> QED BY <1>1, <2>3
<1> QED BY <1>2 DEF Unanswered

LEMMA GivesUpStory ==
  ASSUME Inv, NEW L, Story(L), EcuGivesUp
  PROVE  Story(L)'
<1>1. /\ ecu.state = "awaiting" /\ ecu'.state = "idle" /\ ~Busy' /\ ecu'.msg = ecu.msg
      /\ UNCHANGED flow /\ Items' = Items
      /\ SameCall /\ New' = New /\ Going' = Going
  BY GivesUpIs
<1>2. \/ Unanswered /\ UNCHANGED <<call, faults>>
      \/ late' # 0 /\ late' \in Nat /\ lost' = lost /\ call'.clean = FALSE
  BY GivesUpIs
<1>3. Sized(L)' /\ lost' \in Nat /\ late' \in Nat
  BY <1>2, OthersSized, FaultsAre DEF Story, Inv, faults
<1>4. CASE Unanswered /\ UNCHANGED <<call, faults>>
  <2>1. ~flow /\ ecu.msg \notin call.from /\ \A i : <<ecu.msg, i>> \notin Items
    BY <1>4, UnansweredIs
  <2>2. InTime(L)'
    <3>1. SUFFICES ASSUME late = 0 PROVE InTime(L)'
      BY <1>4 DEF InTime, faults
    <3>2. /\ \A k : <<k, 0>> \in Items /\ L[k] > 7 => k = ecu.msg
          /\ \A k, i, m, j : <<k, i>> \in Items /\ <<m, j>> \in Items /\ i > 0 /\ Before(m, j, k, i)
                               => m = k /\ j > 0
          /\ Going => \A m \in call.from : \A k, i : <<k, i>> \in Items /\ i > 0 => k = m
      BY <3>1 DEF Story, InTime
    <3>3. \A k : <<k, 0>> \in Items => ~(L[k] > 7)
      BY <2>1, <3>2
    <3> QED BY <1>1, <1>4, <2>1, <3>2, <3>3 DEF InTime
  <2> QED BY <1>1, <1>3, <2>1, <2>2, QuietStory
<1>5. CASE late' # 0 /\ call'.clean = FALSE
  <2>1. InTime(L)'
    BY <1>5 DEF InTime
  <2> QED BY <1>1, <1>3, <1>5, <2>1, QuietStory
<1> QED BY <1>2, <1>4, <1>5

LEMMA StrayStory ==
  ASSUME Inv, NEW L, Story(L), Stray
  PROVE  Story(L)'
<1>1. Items' = Items /\ UNCHANGED <<ecu, flow, call, faults>>
  BY Strayed, Zenon DEF Inv
<1>2. SameCall /\ New' = New /\ Going' = Going
  BY <1>1, NoFault DEF Inv
<1>3. Sized(L)' /\ lost' \in Nat /\ late' \in Nat
  BY <1>1, OthersSized, FaultsAre DEF Story, Inv, faults
<1>4. InTime(L)'
  BY <1>1, <1>2 DEF Story, InTime, faults
<1>5. Busy' = Busy /\ ecu'.next = ecu.next /\ ecu'.msg = ecu.msg
  BY <1>1 DEF Busy
<1> QED BY <1>1, <1>2, <1>3, <1>4, <1>5, QuietStory

-----------------------------------------------------------------------------
(* The frame that is taken, and the message under way *)

LEMMA NoneBefore ==
  ASSUME Inv, ReceiveFrame, 1 \in Queue, NEW k, NEW j, <<k, j>> \in Items,
         k # Whose \/ j # Index(Top)
  PROVE  Before(Whose, Index(Top), k, j)
<1>1. <<k, j>> \in Items'
  BY TurnIs
<1> QED BY <1>1, TurnIs

\* A consecutive frame that is fed to a message is one of that message.
LEMMA SameMessage ==
  ASSUME Inv, Chain, NEW L, Story(L), ReceiveFrame, 1 \in Queue, Going, Sound,
         Index(Top) # 0, NEW m \in call.from
  PROVE  Whose = m
<1>1. /\ <<Whose, Index(Top)>> \in Items /\ Index(Top) \in Nat /\ Index(Top) > 0 /\ Whose \in Nat
  BY TurnIs
<1>2. m \in Nat
  BY FromIs
<1>3. CASE late = 0
  BY <1>1, <1>3 DEF Story, InTime
<1>4. CASE lost = 0 \/ call.clean
  <2>1. <<Whose, 0>> \notin Items
    <3>1. SUFFICES ASSUME <<Whose, 0>> \in Items PROVE FALSE
      OBVIOUS
    <3>2. Before(Whose, Index(Top), Whose, 0)
      BY <1>1, <3>1, NoneBefore
    <3> QED BY <1>1, <3>2 DEF Before
  <2>2. Missing(Whose, 0)
    BY <1>1, <2>1 DEF Missing, Coming
  <2>3. Before(Whose, 0, m, call.rx.next)
    BY <1>4, <2>2 DEF Chain, ChainCall
  <2>4. Whose >= m
    BY <1>1 DEF Inv, TakenOK
  <2> QED BY <1>1, <1>2, <2>3, <2>4 DEF Before
<1> QED BY <1>3, <1>4 DEF Sound

\* Where nothing is lost it is the one that is expected.
LEMMA SameFrame ==
  ASSUME Inv, Chain, NEW L, Story(L), ReceiveFrame, 1 \in Queue, Going,
         lost = 0 \/ call.clean, Index(Top) # 0, NEW m, PartOfOne(L, m)
  PROVE  Index(Top) = call.rx.next
<1> DEFINE next == call.rx.next
<1>1. /\ <<Whose, Index(Top)>> \in Items /\ Index(Top) \in Nat /\ Whose \in Nat
  BY TurnIs
<1>2. m \in call.from /\ next \in Nat
  BY DEF PartOfOne, Inv, HandlerTypeOK, RxMessages
<1>3. Whose = m
  BY <1>2, SameMessage DEF Sound
<1>4. Index(Top) >= next
  BY <1>1, <1>3 DEF PartOfOne
<1> HIDE DEF next
<1>5. ASSUME Index(Top) > next PROVE FALSE
  <2>1. <<m, next>> \notin Items
    <3>1. SUFFICES ASSUME <<m, next>> \in Items PROVE FALSE
      OBVIOUS
    <3>2. Before(Whose, Index(Top), m, next)
      BY <1>1, <1>2, <1>5, <3>1, NoneBefore
    <3> QED BY <1>1, <1>2, <1>3, <1>5, <3>2 DEF Before
  <2>2. Missing(m, next)
    BY <1>1, <1>2, <1>3, <1>5, <2>1 DEF Missing, Coming
  <2>3. Before(m, next, m, next)
    BY <1>2, <2>2 DEF Chain, ChainCall, next
  <2> QED BY <1>1, <1>2, <1>3, <2>3 DEF Before
<1> QED BY <1>1, <1>2, <1>4, <1>5 DEF next

\* The outcomes for the message when a consecutive frame is added.
LEMMA Joined ==
  ASSUME Inv, Chain, NEW L, Story(L), ReceiveFrame, HeadNext, Sound,
         NEW m, PartOfOne(L, m), NEW rx \in RxMessages(Arbs),
         rx.payload = call.rx.payload \o Fresh(call.rx, Top),
         rx.received = call.rx.received + Len(Top.data)
  PROVE  /\ Whose = m /\ call.from \cup {Whose} = {m}
         /\ \/ /\ Index(Top) = call.rx.next
               /\ rx.received < L[m] => rx.received = 7 * (call.rx.next + 1) - 1
               /\ rx.received < L[m] => FirstBytes(rx.payload, rx.received)
               /\ rx.received >= L[m] => FirstBytes(rx.payload, L[m])
            \/ /\ Index(Top) > call.rx.next
               /\ late = 0 /\ lost # 0 /\ ~call.clean
               /\ rx.received <= 7 * (call.rx.next + 1) - 1 /\ rx.received < L[m]
<1> DEFINE next == call.rx.next
           i    == Index(Top)
           n    == L[m]
           k    == Least(7, n - (7 * i - 1))
           size == Len(Top.data)
           got  == call.rx.received
<1>1. /\ 1 \in Queue /\ Going /\ Top.kind = "CF" /\ i \in Nat /\ i # 0
  BY TurnIs DEF HeadNext
<1>2. m \in call.from /\ call.from = {m} /\ call.rx \in RxMessages(Arbs)
  BY DEF PartOfOne, Inv, HandlerTypeOK
<1>3. Whose = m
  BY <1>1, <1>2, SameMessage
<1>4. /\ n \in Nat /\ n > 7 /\ call.rx.len = n /\ next \in Nat /\ next >= 1 /\ got \in Nat
      /\ i >= next
  BY <1>1, <1>2, <1>3, HeadHolds, TurnIs DEF PartOfOne, RxMessages, Story
<1>5. i <= Consecutive(n) /\ Holds(Top, n, i)
  BY <1>1, <1>3, HeadHolds DEF Story
<1>6. 7 * i <= n
  <2>1. i \in Nat /\ n \in Nat /\ n > 7 /\ i <= Consecutive(n)
    BY <1>1, <1>4, <1>5
  <2> HIDE DEF i, n
  <2>2. Consecutive(n) \in Nat /\ 7 * Consecutive(n) <= n
    BY <2>1, ConsecutiveIs
  <2> QED BY <2>1, <2>2
<1>7. /\ StartsWith(Top.data, k, 7 * i) /\ size \in Nat
      /\ size = k \/ size = 7
  BY <1>1, <1>4, <1>5 DEF Holds
<1>8. k \in Nat /\ k >= 1 /\ k <= 7 /\ k <= n - (7 * i - 1)
      /\ (k = 7 \/ k = n - (7 * i - 1))
  <2> DEFINE rest == n - (7 * i - 1)
  <2>1. i \in Nat /\ n \in Nat
    BY <1>1, <1>4
  <2> HIDE DEF i, n
  <2>2. rest \in Nat /\ rest >= 1
    BY <1>6, <2>1
  <2> HIDE DEF rest
  <2>3. k = Least(7, rest)
    BY DEF rest
  <2>4. \/ k = 7 /\ 7 <= rest
        \/ k = rest /\ rest <= 7
    BY <2>2, <2>3 DEF Least
  <2>5. k \in Nat /\ k >= 1 /\ k <= 7 /\ k <= rest /\ (k = 7 \/ k = rest)
    BY <2>2, <2>4
  <2> QED BY <2>5 DEF rest
<1>9. size <= 7
  <2> HIDE DEF k, size, i, n
  <2> QED BY <1>7, <1>8
<1>10. got <= 7 * next - 1
  BY <1>4 DEF PartOfOne, Gathered, Broken
<1>11. CASE i = next /\ Gathered
  <2>1. got = 7 * i - 1 /\ FirstBytes(call.rx.payload, got)
    BY <1>11 DEF Gathered
  <2>2. Fresh(call.rx, Top) = Take(Top.data, k)
    BY <1>4, <2>1 DEF Fresh
  <2>3. StartsWith(Top.data, k, got + 1)
    BY <1>1, <1>7, <2>1
  <2> HIDE DEF k, size, got, i, n, next
  <2>4. FirstBytes(rx.payload, got + k)
    BY <1>4, <1>8, <2>1, <2>2, <2>3, TakenNext
  <2>5. rx.received = got + size
    BY DEF got, size
  <2>6. rx.received < n => rx.received = got + k /\ k = 7
    BY <1>1, <1>4, <1>7, <1>8, <2>1, <2>5
  <2>7. rx.received >= n => got + k = n
    BY <1>1, <1>4, <1>7, <1>8, <2>1, <2>5
  <2>8. /\ i = next
        /\ rx.received < n => rx.received = 7 * (next + 1) - 1
        /\ rx.received < n => FirstBytes(rx.payload, rx.received)
        /\ rx.received >= n => FirstBytes(rx.payload, n)
    BY <1>1, <1>4, <1>11, <2>1, <2>4, <2>6, <2>7
  <2> QED BY <1>2, <1>3, <2>8 DEF i, n, next
<1>12. CASE ~(i = next /\ Gathered)
  <2>1. i > next
    <3>1. CASE Gathered
      BY <1>1, <1>4, <1>12, <3>1
    <3>2. CASE Broken(m)
      BY <1>3, <3>2, TurnIs, <1>1 DEF Broken
    <3> QED BY <3>1, <3>2 DEF PartOfOne
  <2>2. ~(lost = 0 \/ call.clean)
    BY <1>1, <1>4, <2>1, SameFrame
  <2>3. late = 0
    BY <2>2 DEF Sound
  <2>4. rx.received = got + size
    OBVIOUS
  <2>5. rx.received <= 7 * (next + 1) - 1 /\ rx.received < n
    <3> HIDE DEF k, size, got, i, n, next
    <3>1. size \in Nat
      BY <1>7
    <3> QED BY <1>1, <1>4, <1>6, <1>9, <1>10, <2>1, <2>4, <3>1
  <2> QED BY <1>2, <1>3, <2>1, <2>2, <2>3, <2>5
<1> QED BY <1>11, <1>12

-----------------------------------------------------------------------------
(* The steps of receive_message(), with the message under way *)

LEMMA NoCallIs ==
  ASSUME call' = NoCall
  PROVE  ~New' /\ ~Going' /\ call'.clean = FALSE
  BY DEF NoCall, New, Going

\* A call that is over leaves no message under way.
LEMMA OverStory ==
  ASSUME Inv, NEW L, Story(L), Sized(L)', UNCHANGED <<ecu, flow, faults>>, Items' \subseteq Items,
         call' = NoCall
  PROVE  Story(L)'
<1>1. ~New' /\ ~Going' /\ call'.clean = FALSE
  BY NoCallIs
<1>2. UnderWay(L)' /\ RestComes(L)'
  BY <1>1 DEF UnderWay, RestComes
<1>3. InTime(L)'
  <2>1. SUFFICES ASSUME late = 0 PROVE InTime(L)'
    BY DEF InTime, faults
  <2>2. /\ flow => ecu.state = "awaiting" /\ Items = {}
        /\ ecu.state = "sending" => \A k, i : <<k, i>> \in Items => i > 0 /\ k = ecu.msg
        /\ \A k : <<k, 0>> \in Items /\ L[k] > 7 => ecu.state = "awaiting" /\ k = ecu.msg
        /\ \A k, i, m, j : <<k, i>> \in Items /\ <<m, j>> \in Items /\ i > 0 /\ Before(m, j, k, i)
                             => m = k /\ j > 0
    BY <2>1 DEF Story, InTime
  <2>3. flow' => Items' = {}
    BY <2>2
  <2> QED BY <1>1, <2>2, <2>3 DEF InTime
<1> QED BY <1>2, <1>3 DEF Story

LEMMA OverChain ==
  ASSUME ChainBus', call' = NoCall
  PROVE  Chain'
  BY NoCallIs DEF Chain, ChainNew, ChainCall

LEMMA ReceiveStory ==
  ASSUME Inv, Chain, NEW L, Story(L), Receive
  PROVE  Chain' /\ Story(L)'
<1>1. UNCHANGED <<ecu, frames, flow, results, faults>>
  BY DEF Receive
<1>2. PICK arb \in Wanted : call' = NewCall(arb)
  BY DEF Receive
<1> DEFINE quiet == frames = <<>> /\ ecu.state = "idle"
<1>3. call'.rx.state = "EXPECT_SF_OR_FF" /\ call'.clean = quiet
  BY <1>2 DEF NewCall, NewMessage
<1>4. ~Going'
  BY <1>3 DEF Going
<1>5. Items' = Items /\ Queue' = Queue /\ Busy' = Busy
  BY <1>1 DEF Items, Queue, Busy
<1>6. call'.clean => Items = {} /\ ~Busy
  <2>1. frames = <<>> => Queue = {}
    BY DEF Queue
  <2>2. Queue = {} => Items = {}
    BY DEF Items
  <2> QED BY <1>3, <2>1, <2>2 DEF Busy
<1>7. \A k, j : Missing(k, j)' => Missing(k, j)
  BY <1>1, <1>5 DEF Missing, Coming
<1>8. call'.clean => \A k, j : ~Missing(k, j)'
  BY <1>5, <1>6 DEF Missing, Coming
<1>9. Chain'
  <2>1. ChainBus'
    BY <1>1, <1>5, <1>7 DEF Chain, ChainBus, faults
  <2> QED BY <2>1, <1>4, <1>8 DEF Chain, ChainNew, ChainCall
<1>10. Sized(L)'
  BY <1>1, <1>5, ToldSame DEF Story, Sized
<1>11. UnderWay(L)' /\ RestComes(L)'
  BY <1>4, <1>5, <1>6 DEF UnderWay, RestComes
<1>12. InTime(L)'
  BY <1>1, <1>4, <1>5 DEF Story, InTime, faults
<1> QED BY <1>9, <1>10, <1>11, <1>12 DEF Story

LEMMA RefusedStory ==
  ASSUME Inv, Chain, NEW L, Story(L), UNCHANGED <<ecu, frames, flow, call, faults>>
  PROVE  Chain' /\ Story(L)' /\ SameCall
<1>1. Items' = Items /\ Queue' = Queue /\ Busy' = Busy
  BY DEF Items, Queue, Busy
<1>2. SameCall /\ New' = New /\ Going' = Going
  BY NoFault DEF Inv
<1>3. Chain'
  <2>1. \A k, j : Missing(k, j)' => Missing(k, j)
    BY <1>1 DEF Missing, Coming
  <2> QED BY <1>1, <1>2, <2>1, ChainSame
<1>4. Sized(L)' /\ lost' \in Nat /\ late' \in Nat
  BY <1>1, ToldSame, FaultsAre DEF Story, Sized, Inv, faults
<1>5. InTime(L)'
  BY <1>1, <1>2 DEF Story, InTime, faults
<1>6. Story(L)'
  BY <1>1, <1>2, <1>4, <1>5, QuietStory
<1> QED BY <1>2, <1>3, <1>6

LEMMA TimeoutStory ==
  ASSUME Inv, Chain, NEW L, Story(L), ReceiveTimeout
  PROVE  Chain' /\ Story(L)'
<1>1. UNCHANGED <<ecu, frames, flow, faults>> /\ call' = NoCall
  BY DEF ReceiveTimeout, Return
<1>2. Items' = Items /\ Queue' = Queue /\ Busy' = Busy
  BY <1>1 DEF Items, Queue, Busy
<1>3. ChainBus'
  BY <1>1, <1>2 DEF Chain, ChainBus, Missing, Coming, faults
<1>4. Sized(L)'
  BY <1>1, <1>2, ToldSame DEF Story, Sized
<1> QED BY <1>1, <1>2, <1>3, <1>4, OverStory, OverChain

LEMMA PassedStory ==
  ASSUME Inv, Chain, NEW L, Story(L), ReceiveFrame, HeadPassed
  PROVE  Chain' /\ Story(L)' /\ SameCall
<1>1. UNCHANGED <<ecu, flow, call, faults>> /\ Items' = Items
  BY TurnIs DEF HeadPassed
<1>2. Busy' = Busy
  BY <1>1 DEF Busy
<1>3. SameCall /\ New' = New /\ Going' = Going
  BY <1>1, NoFault DEF Inv
<1>4. Chain'
  <2>1. \A k, j : Missing(k, j)' => Missing(k, j)
    BY <1>1, <1>2 DEF Missing, Coming
  <2> QED BY <1>1, <1>3, <2>1, ChainSame
<1>5. Sized(L)' /\ lost' \in Nat /\ late' \in Nat
  BY <1>1, TurnSized, FaultsAre DEF Story, Inv, faults
<1>6. InTime(L)'
  BY <1>1, <1>3 DEF Story, InTime, faults
<1>7. Story(L)'
  BY <1>1, <1>2, <1>3, <1>5, <1>6, QuietStory
<1> QED BY <1>3, <1>4, <1>7

LEMMA ReturnedStory ==
  ASSUME Inv, Chain, NEW L, Story(L), ReceiveFrame, UNCHANGED flow, call' = NoCall
  PROVE  Chain' /\ Story(L)'
<1>1. UNCHANGED <<ecu, faults>> /\ Items' \subseteq Items
  BY TurnIs
<1>2. ChainBus' /\ Sized(L)'
  BY TurnChainBus, TurnSized DEF Chain, Story
<1> QED BY <1>1, <1>2, OverStory, OverChain

LEMMA FirstStory ==
  ASSUME Inv, Chain, NEW L, Story(L), ReceiveFrame, HeadFirst
  PROVE  Chain' /\ Story(L)'
<1>0. PICK m : m = Whose
  OBVIOUS
<1>1. 1 \in Queue /\ New /\ Top.kind = "FF" /\ flow' = TRUE
  BY DEF HeadFirst
<1>2. PICK rx \in RxMessages(Arbs) :
        /\ rx.arb = "ecu" /\ rx.state = "EXPECT_CF" /\ rx.payload = Top.data
        /\ rx.received = Len(Top.data) /\ rx.len = Top.num /\ rx.next = 1
        /\ call' = [call EXCEPT !.rx = rx, !.from = {Whose}]
  BY Zenon DEF HeadFirst
<1>3. /\ call' = [call EXCEPT !.rx = rx, !.from = {m}]
      /\ call \in [active : BOOLEAN, wanted : Wanted, rx : RxMessages(Arbs),
                   from : SUBSET (0..MaxMessages), clean : BOOLEAN]
  <2>1. call.active /\ HandlerTypeOK /\ CallOK
    BY TurnIs DEF Inv
  <2>2. call' = [call EXCEPT !.rx = rx, !.from = {m}]
    BY <1>0, <1>2, Zenon
  <2>3. call \in [active : BOOLEAN, wanted : Wanted, rx : RxMessages(Arbs),
                  from : SUBSET (0..MaxMessages), clean : BOOLEAN]
    BY <2>1, CallIs
  <2> QED BY <2>2, <2>3
<1>4. /\ call'.rx = rx /\ call'.from = {m} /\ call'.clean = call.clean /\ ~New'
  BY <1>2, <1>3 DEF New
<1>5. /\ UNCHANGED <<ecu, faults>> /\ Index(Top) = 0 /\ <<m, 0>> \in Items
      /\ Items' = Items \ {<<m, 0>>} /\ m \in Nat \ {0} /\ m <= ecu.msg
      /\ \A k, j : <<k, j>> \in Items' => k \in Nat /\ j \in Nat /\ Before(m, 0, k, j)
  BY <1>0, <1>1, TurnIs
<1>6. L[m] \in Nat /\ L[m] > 7 /\ Top.num = L[m] /\ StartsWith(Top.data, 6, 1) /\ Len(Top.data) = 6
  BY <1>0, <1>1, <1>5, HeadHolds DEF Story, Holds
<1>7. m \in 1..ecu.msg /\ ecu.msg \in Nat
  BY <1>5, EcuIs DEF Inv
<1>8. Chain'
  <2>1. ChainBus'
    BY TurnChainBus DEF Chain
  <2>2. ChainNew'
    BY <1>4 DEF ChainNew
  <2>3. ChainCall'
    <3>1. SUFFICES ASSUME lost = 0 \/ call.clean, NEW k, NEW j, Missing(k, j)'
                   PROVE  Before(k, j, m, 1)
      BY <1>2, <1>4, <1>5 DEF ChainCall, faults
    <3>2. CASE Missing(k, j)
      <4>1. lost = 0
        BY <1>1, <3>1, <3>2 DEF Chain, ChainNew
      <4>2. Before(k, j, m, 0)
        BY <1>5, <3>2, <4>1 DEF Chain, ChainBus
      <4> QED BY <3>2, <4>2 DEF Before, Missing
    <3>3. CASE k = m /\ j = 0
      BY <3>3 DEF Before
    <3> QED BY <1>0, <1>1, <1>5, <3>1, <3>2, <3>3, MissingAfter
  <2> QED BY <2>1, <2>2, <2>3 DEF Chain
<1>9. Sized(L)'
  BY TurnSized DEF Story
<1>10. UnderWay(L)'
  <2>1. \A i : <<m, i>> \in Items' => i >= 1
    BY <1>5 DEF Before
  <2>2. Busy' /\ ecu'.msg = m => ecu'.next >= 1
    BY <1>5 DEF Inv, EcuOK, Busy
  <2>3. FirstBytes(Top.data, 6)
    BY <1>6 DEF FirstBytes
  <2>4. Gathered'
    BY <1>2, <1>4, <1>6, <2>3 DEF Gathered
  <2>5. PartOfOne(L, m)'
    BY <1>2, <1>4, <1>6, <2>1, <2>2, <2>4 DEF PartOfOne
  <2>6. m \in 1..ecu'.msg
    BY <1>5, <1>7
  <2> QED BY <2>5, <2>6 DEF UnderWay
<1>11. InTime(L)'
  <2>1. SUFFICES ASSUME late = 0 PROVE InTime(L)'
    BY <1>5 DEF InTime, faults
  <2>2. ecu.state = "awaiting" /\ m = ecu.msg
    BY <1>5, <1>6, <2>1 DEF Story, InTime
  <2>3. Busy /\ ecu.next = 1
    BY <2>2 DEF Inv, EcuOK, Busy
  <2>4. ASSUME NEW k, NEW j, <<k, j>> \in Items' PROVE FALSE
    <3>2. <<k, j>> \in Items /\ k \in Nat /\ j \in Nat /\ Before(m, 0, k, j)
      BY <1>5, <2>4
    <3>3. k <= ecu.msg /\ (k = ecu.msg => j < 1)
      BY <2>3, <3>2 DEF Inv, Placed
    <3> QED BY <1>7, <2>2, <3>2, <3>3 DEF Before
  <2>5. Items' = {}
    <3>1. \A y \in Items' : \E k, j : y = <<k, j>>
      BY DEF Items, Item
    <3> QED BY <2>4, <3>1
  <2> QED BY <1>4, <1>5, <2>2, <2>4, <2>5 DEF InTime
<1>12. RestComes(L)'
  <2>1. SUFFICES ASSUME call.clean PROVE RestOf(L, m, 1)'
    BY <1>2, <1>4 DEF RestComes
  <2>2. RestOf(L, m, 1)
    BY <1>1, <1>5, <2>1 DEF Story, RestComes
  <2>3. \A j \in Nat : 1 <= j /\ <<m, j>> \in Items => <<m, j>> \in Items'
    BY <1>5
  <2> QED BY <1>5, <2>2, <2>3 DEF RestOf, Busy
<1> QED BY <1>8, <1>9, <1>10, <1>11, <1>12 DEF Story

LEMMA NextStory ==
  ASSUME Inv, Chain, NEW L, Story(L), ReceiveFrame, HeadNext
  PROVE  Chain' /\ Story(L)'
<1>1. 1 \in Queue /\ Going /\ UNCHANGED flow
  BY DEF HeadNext
<1>2. PICK rx \in RxMessages(Arbs) :
        /\ rx.arb = "ecu" /\ rx.payload = call.rx.payload \o Fresh(call.rx, Top)
        /\ rx.received = call.rx.received + Len(Top.data) /\ rx.len = call.rx.len
        /\ rx.next = call.rx.next + 1
        /\ IF rx.received >= rx.len
           THEN Return("Message", rx, call.from \cup {Whose})
           ELSE /\ rx.state = "EXPECT_CF" /\ UNCHANGED results
                /\ call' = [call EXCEPT !.rx = rx, !.from = call.from \cup {Whose}]
  BY Zenon DEF HeadNext
<1>3. CASE rx.received >= rx.len
  BY <1>1, <1>2, <1>3, ReturnedStory DEF Return
<1>4. CASE ~(rx.received >= rx.len)
  <2>1. /\ call' = [call EXCEPT !.rx = rx, !.from = call.from \cup {Whose}]
        /\ rx.state = "EXPECT_CF"
    BY <1>2, <1>4
  <2>2. call \in [active : BOOLEAN, wanted : Wanted, rx : RxMessages(Arbs),
                  from : SUBSET (0..MaxMessages), clean : BOOLEAN]
    BY TurnIs, CallIs DEF Inv
  <2>3. /\ call'.rx = rx /\ call'.from = call.from \cup {Whose}
        /\ call'.clean = call.clean /\ call'.active = call.active
    BY <2>1, <2>2
  <2>4. PICK next \in Nat : next = call.rx.next
    BY <2>2 DEF RxMessages
  <2>5. PICK w, t : w = Whose /\ t = Index(Top)
    OBVIOUS
  <2>6. /\ UNCHANGED <<ecu, faults>> /\ <<w, t>> \in Items /\ Items' = Items \ {<<w, t>>}
        /\ \A k, j : <<k, j>> \in Items' => k \in Nat /\ j \in Nat /\ Before(w, t, k, j)
        /\ w \in Nat \ {0} /\ w <= ecu.msg /\ t \in Nat /\ t # 0
    BY <1>1, <2>5, TurnIs DEF HeadNext
  <2>7. Going' /\ ~New' /\ call'.rx.next = next + 1
    BY <1>1, <1>2, <2>1, <2>3, <2>4 DEF Going, New
  <2>8. Sound' => Sound
    BY <2>3, <2>6 DEF Sound, faults
  <2>9. ASSUME Sound, NEW m \in 1..ecu.msg, PartOfOne(L, m)
        PROVE  /\ w = m /\ call.from = {m} /\ call'.from = {m}
               /\ \/ t = next /\ Gathered'
                  \/ /\ t > next /\ late = 0 /\ lost # 0 /\ ~call.clean
                     /\ rx.received <= 7 * (next + 1) - 1
    <3>1. /\ Whose = m /\ call.from \cup {Whose} = {m}
          /\ \/ /\ Index(Top) = call.rx.next
                /\ rx.received < L[m] => rx.received = 7 * (call.rx.next + 1) - 1
                /\ rx.received < L[m] => FirstBytes(rx.payload, rx.received)
             \/ /\ Index(Top) > call.rx.next
                /\ late = 0 /\ lost # 0 /\ ~call.clean
                /\ rx.received <= 7 * (call.rx.next + 1) - 1
      BY <1>2, <2>9, Joined, ZenonT(30)
    <3>2. rx.len = L[m] /\ rx.received \in Nat /\ rx.len \in Nat /\ call.from = {m}
      BY <1>2, <2>9 DEF PartOfOne, RxMessages
    <3>3. rx.received < L[m]
      BY <1>4, <3>2
    <3>4. CASE t = next
      <4>1. rx.received = 7 * (next + 1) - 1 /\ FirstBytes(rx.payload, rx.received)
        BY <2>4, <2>5, <3>1, <3>3, <3>4
      <4>2. Gathered'
        BY <2>3, <2>4, <2>7, <4>1 DEF Gathered
      <4> QED BY <2>3, <2>5, <3>1, <3>2, <3>4, <4>2
    <3> QED BY <2>3, <2>4, <2>5, <3>1, <3>2, <3>3, <3>4
  <2>10. Chain'
    <3>1. ChainBus'
      BY TurnChainBus DEF Chain
    <3>2. ChainNew'
      BY <2>7 DEF ChainNew
    <3>3. ASSUME lost = 0 \/ call.clean, NEW k, NEW j, Missing(k, j)',
                 NEW m \in 1..ecu.msg, PartOfOne(L, m)
          PROVE  call'.from = {m} /\ Before(k, j, m, next + 1)
      <4>1. w = m /\ call'.from = {m} /\ call.from = {m} /\ Sound
        BY <2>9, <3>3 DEF Sound
      <4>2. t = next
        BY <1>1, <2>4, <2>5, <2>6, <3>3, SameFrame
      <4>3. CASE Missing(k, j)
        <5>1. Before(k, j, m, next)
          BY <1>1, <2>4, <3>3, <4>1, <4>3 DEF Chain, ChainCall
        <5> QED BY <2>4, <4>1, <4>3, <5>1 DEF Before, Missing
      <4>4. CASE k = w /\ j = t
        BY <2>4, <4>1, <4>2, <4>4 DEF Before
      <4> QED BY <1>1, <2>5, <3>3, <4>1, <4>3, <4>4, MissingAfter
    <3>4. ASSUME lost = 0 \/ call.clean, NEW k, NEW j, Missing(k, j)', NEW m \in call'.from
          PROVE  Before(k, j, m, next + 1)
      <4>1. PICK a \in 1..ecu.msg : PartOfOne(L, a)
        BY <1>1, <3>4 DEF Story, UnderWay, Sound
      <4>2. call'.from = {a} /\ Before(k, j, a, next + 1)
        BY <3>3, <3>4, <4>1
      <4> QED BY <3>4, <4>2
    <3>5. ChainCall'
      BY <2>3, <2>6, <2>7, <3>4 DEF ChainCall, faults
    <3> QED BY <3>1, <3>2, <3>5 DEF Chain
  <2>11. Sized(L)'
    BY TurnSized DEF Story
  <2>12. UnderWay(L)'
    <3>1. SUFFICES ASSUME Sound PROVE \E m \in 1..ecu'.msg : PartOfOne(L, m)'
      BY <2>8 DEF UnderWay
    <3>2. PICK m \in 1..ecu.msg : PartOfOne(L, m)
      BY <1>1, <3>1 DEF Story, UnderWay
    <3>3. /\ w = m /\ call'.from = {m} /\ L[m] > 7 /\ call'.rx.len = L[m] /\ t >= next
      BY <1>2, <2>3, <2>4, <2>6, <2>9, <3>1, <3>2 DEF PartOfOne
    <3>4. \A i : <<m, i>> \in Items' => i \in Nat /\ i > t
      BY <2>6, <3>3 DEF Before
    <3>5. Busy' /\ ecu'.msg = m => ecu'.next \in Nat /\ ecu'.next > t
      BY <2>6, <3>3 DEF Inv, Placed, EcuOK, Busy
    <3>6. CASE t = next /\ Gathered'
      BY <2>4, <2>6, <2>7, <3>3, <3>4, <3>5, <3>6 DEF PartOfOne
    <3>7. CASE /\ t > next /\ late = 0 /\ lost # 0 /\ ~call.clean
               /\ rx.received <= 7 * (next + 1) - 1
      <4>1. late' = 0 /\ lost' # 0 /\ ~call'.clean /\ call'.rx.received = rx.received
        BY <2>3, <2>6, <3>7 DEF faults
      <4>2. \A i : <<m, i>> \in Items' => i > next + 1
        BY <2>4, <2>6, <3>4, <3>7
      <4>3. Busy' /\ ecu'.msg = m => ecu'.next > next + 1
        BY <2>4, <2>6, <3>5, <3>7
      <4>4. Broken(m)'
        BY <2>7, <3>7, <4>1, <4>2, <4>3 DEF Broken
      <4>5. /\ \A i : <<m, i>> \in Items' => i >= next + 1
            /\ Busy' /\ ecu'.msg = m => ecu'.next >= next + 1
        BY <2>4, <2>6, <3>4, <3>5, <3>7
      <4> QED BY <2>4, <2>6, <2>7, <3>3, <4>4, <4>5 DEF PartOfOne
    <3>8. m \in 1..ecu'.msg
      BY <2>6
    <3> QED BY <2>9, <3>1, <3>2, <3>6, <3>7, <3>8
  <2>13. InTime(L)'
    <3>1. SUFFICES ASSUME late = 0 PROVE InTime(L)'
      BY <2>6 DEF InTime, faults
    <3>2. PICK m \in call.from : TRUE
      BY <1>1 DEF Inv, CallOK
    <3>3. \A a \in call.from : w = a
      BY <1>1, <2>6, <3>1 DEF Story, InTime
    <3>4. call'.from = call.from
      BY <2>3, <2>5, <3>2, <3>3
    <3>5. ~flow /\ Items' \subseteq Items
      BY <2>6, <3>1 DEF Story, InTime
    <3> QED BY <1>1, <2>6, <3>1, <3>4, <3>5 DEF Story, InTime
  <2>14. RestComes(L)'
    <3>1. SUFFICES ASSUME call.clean, NEW m \in call'.from PROVE RestOf(L, m, next + 1)'
      BY <2>3, <2>7 DEF RestComes
    <3>2. PICK a \in 1..ecu.msg : PartOfOne(L, a)
      BY <1>1, <3>1 DEF Story, UnderWay, Sound
    <3>3. w = m /\ call.from = {m} /\ a = m
      BY <2>9, <3>1, <3>2 DEF Sound
    <3>4. t = next
      BY <1>1, <2>4, <2>5, <2>6, <3>1, <3>2, SameFrame
    <3>5. RestOf(L, m, next)
      BY <1>1, <2>4, <3>1, <3>3 DEF Story, RestComes
    <3>6. \A j \in Nat : next + 1 <= j /\ <<m, j>> \in Items => <<m, j>> \in Items'
      BY <2>4, <2>6, <3>4
    <3> QED BY <2>4, <2>6, <3>5, <3>6 DEF RestOf, Busy
  <2> QED BY <2>10, <2>11, <2>12, <2>13, <2>14 DEF Story
<1> QED BY <1>3, <1>4

-----------------------------------------------------------------------------
(* What the calls return *)

\* One message as its sender made it.
Wholly(r) ==
  /\ \E m \in 0..MaxMessages : r.from = {m}
  /\ \A i \in DOMAIN r.rx.payload : r.rx.payload[i] = i
  /\ r.rx.arb = "ecu" => Len(r.rx.payload) \in EcuLengths

LEMMA GrownBy ==
  ASSUME HandlerTypeOK, NEW r, results' = Append(results, r)
  PROVE  \A k \in DOMAIN results' : (k \in DOMAIN results /\ results'[k] = results[k])
                                    \/ results'[k] = r
<1> DEFINE n == Len(results)
<1>1. /\ n \in Nat /\ DOMAIN results = 1..n /\ DOMAIN results' = 1..(n + 1)
      /\ \A k \in 1..n : results'[k] = results[k]
      /\ results'[n + 1] = r
  <2>1. results \in Seq([outcome : Outcomes, wanted : Wanted, rx : RxMessages(Arbs),
                          from : SUBSET (0..MaxMessages), clean : BOOLEAN])
    BY DEF HandlerTypeOK
  <2> QED BY <2>1
<1> HIDE DEF n
<1>2. \A k \in 1..(n + 1) : k \in 1..n \/ k = n + 1
  BY <1>1
<1> QED BY <1>1, <1>2

LEMMA WholeAppended ==
  ASSUME HandlerTypeOK, OneWholeMessage, NEW r, results' = Append(results, r),
         lost' = 0 => lost = 0, late' = 0 => late = 0,
         r.outcome = "Message" /\ (lost = 0 \/ late = 0) => Wholly(r)
  PROVE  OneWholeMessage'
<1>1. SUFFICES ASSUME lost = 0 \/ late = 0, NEW k \in Received' PROVE Wholly(results'[k])
  BY DEF OneWholeMessage, Wholly
<1>2. k \in DOMAIN results' /\ results'[k].outcome = "Message"
  BY DEF Received
<1>3. CASE k \in DOMAIN results /\ results'[k] = results[k]
  <2>1. k \in Received
    BY <1>2, <1>3 DEF Received
  <2> QED BY <1>1, <1>3, <2>1 DEF OneWholeMessage, Wholly
<1>4. CASE results'[k] = r
  BY <1>1, <1>2, <1>4
<1> QED BY <1>2, <1>3, <1>4, GrownBy

LEMMA WholeSame ==
  ASSUME OneWholeMessage, UNCHANGED results, SameCall
  PROVE  OneWholeMessage'
<1>1. Received' = Received
  BY DEF Received
<1> QED BY <1>1 DEF OneWholeMessage, SameCall

LEMMA NoErrorAppended ==
  ASSUME HandlerTypeOK, NoErrorWithoutFault, NEW r, results' = Append(results, r),
         r.clean /\ r.wanted = "ecu" => r.outcome # "Error"
  PROVE  NoErrorWithoutFault'
<1>1. SUFFICES ASSUME NEW k \in DOMAIN results', results'[k].clean, results'[k].wanted = "ecu"
               PROVE  results'[k].outcome # "Error"
  BY DEF NoErrorWithoutFault
<1>2. CASE k \in DOMAIN results /\ results'[k] = results[k]
  BY <1>1, <1>2 DEF NoErrorWithoutFault
<1>3. CASE results'[k] = r
  BY <1>1, <1>3
<1> QED BY <1>2, <1>3, GrownBy

\* A payload that is the first bytes of the message has them in order.
LEMMA InOrder ==
  ASSUME NEW payload \in Seq(Bytes), NEW k \in Nat, FirstBytes(payload, k)
  PROVE  /\ \A i \in DOMAIN payload : payload[i] = i
         /\ Len(payload) = k
<1>1. Len(payload) = k /\ \A i \in 1..k : payload[i] = 1 + i - 1
  BY DEF FirstBytes, StartsWith
<1>2. \A i \in 1..k : payload[i] = i
  BY <1>1
<1>3. DOMAIN payload = 1..k
  BY <1>1
<1> QED BY <1>1, <1>2, <1>3

LEMMA SingleWhole ==
  ASSUME Inv, NEW L, Story(L), ReceiveFrame, 1 \in Queue, Top.kind = "SF",
         NEW rx \in RxMessages(Arbs), rx.payload = Take(Top.data, Top.num)
  PROVE  /\ Whose \in 0..MaxMessages
         /\ \A i \in DOMAIN rx.payload : rx.payload[i] = i
         /\ Len(rx.payload) \in EcuLengths
<1> DEFINE n == L[Whose]
<1>1. n \in EcuLengths /\ n \in Nat /\ n >= 1 /\ Holds(Top, n, Index(Top)) /\ Index(Top) \in Nat
  BY HeadHolds DEF Story
<1>2. n <= 7
  BY <1>1 DEF Holds
<1>3. Top.num = n /\ StartsWith(Top.data, n, 1)
  BY <1>1, <1>2 DEF Holds
<1>4. FirstBytes(rx.payload, n)
  BY <1>1, <1>3, TakenFirst
<1>5. rx.payload \in Seq(Bytes)
  BY DEF RxMessages
<1> HIDE DEF n
<1> QED BY <1>1, <1>4, <1>5, InOrder, HeadIs

LEMMA NextWhole ==
  ASSUME Inv, Chain, NEW L, Story(L), ReceiveFrame, HeadNext, Sound,
         NEW rx \in RxMessages(Arbs),
         rx.payload = call.rx.payload \o Fresh(call.rx, Top),
         rx.received = call.rx.received + Len(Top.data), rx.len = call.rx.len,
         rx.received >= rx.len
  PROVE  /\ \E m \in 0..MaxMessages : call.from \cup {Whose} = {m}
         /\ \A i \in DOMAIN rx.payload : rx.payload[i] = i
         /\ Len(rx.payload) \in EcuLengths
<1>1. Going
  BY DEF HeadNext
<1>2. PICK m \in 1..ecu.msg : PartOfOne(L, m)
  BY <1>1 DEF Story, UnderWay
<1>3. L[m] \in EcuLengths /\ L[m] \in Nat /\ call.rx.len = L[m]
  BY <1>2, LengthIs DEF Story, Sized, PartOfOne
<1>4. rx.received \in Nat /\ rx.received >= L[m] /\ ~(rx.received < L[m])
  BY <1>3 DEF RxMessages
<1>5. Whose = m /\ call.from \cup {Whose} = {m} /\ FirstBytes(rx.payload, L[m])
  <2>1. /\ Whose = m /\ call.from \cup {Whose} = {m}
        /\ \/ rx.received >= L[m] => FirstBytes(rx.payload, L[m])
           \/ rx.received < L[m]
    BY <1>2, Joined
  <2> QED BY <1>4, <2>1
<1>6. rx.payload \in Seq(Bytes)
  BY DEF RxMessages
<1>7. m \in 0..MaxMessages
  BY <1>1, <1>5, HeadIs DEF HeadNext
<1> QED BY <1>3, <1>5, <1>6, <1>7, InOrder

LEMMA TurnWhole ==
  ASSUME Inv, Chain, NEW L, Story(L), OneWholeMessage, ReceiveFrame
  PROVE  OneWholeMessage'
<1>1. HandlerTypeOK /\ UNCHANGED faults /\ (lost' = 0 => lost = 0) /\ (late' = 0 => late = 0)
  BY TurnIs DEF Inv, faults
<1>2. CASE UNCHANGED results
  <2>1. Received' = Received
    BY <1>2 DEF Received
  <2> QED BY <1>1, <1>2, <2>1 DEF OneWholeMessage
<1>3. ASSUME NEW rx, NEW from, Return("Error", rx, from)
      PROVE  OneWholeMessage'
  <2> DEFINE r == [outcome |-> "Error", wanted |-> call.wanted, rx |-> rx, from |-> from,
                   clean |-> call.clean]
  <2>1. results' = Append(results, r)
    BY <1>3 DEF Return
  <2>2. r.outcome # "Message"
    OBVIOUS
  <2> HIDE DEF r
  <2> QED BY <1>1, <2>1, <2>2, WholeAppended
<1>4. ASSUME NEW rx \in RxMessages(Arbs), NEW from, Return("Message", rx, from),
             lost = 0 \/ late = 0 =>
               /\ \E m \in 0..MaxMessages : from = {m}
               /\ \A i \in DOMAIN rx.payload : rx.payload[i] = i
               /\ rx.arb = "ecu" => Len(rx.payload) \in EcuLengths
      PROVE  OneWholeMessage'
  <2> DEFINE r == [outcome |-> "Message", wanted |-> call.wanted, rx |-> rx, from |-> from,
                   clean |-> call.clean]
  <2>1. results' = Append(results, r)
    BY <1>4 DEF Return
  <2>2. r.rx = rx /\ r.from = from
    OBVIOUS
  <2>3. lost = 0 \/ late = 0 => Wholly(r)
    BY <1>4, <2>2 DEF Wholly
  <2> HIDE DEF r
  <2> QED BY <1>1, <2>1, <2>3, WholeAppended
<1>5. CASE HeadStray
  <2>1. PICK rx \in RxMessages(Arbs) :
          /\ rx.arb = "other"
          /\ \/ Return("Error", rx, {0})
             \/ Return("Message", rx, {0}) /\ FirstBytes(rx.payload, 1)
    BY <1>5, Zenon DEF HeadStray
  <2>2. CASE Return("Message", rx, {0}) /\ FirstBytes(rx.payload, 1)
    <3>1. rx.payload \in Seq(Bytes) /\ 0 \in 0..MaxMessages
      BY BoundsAssumption DEF RxMessages
    <3>2. \A i \in DOMAIN rx.payload : rx.payload[i] = i
      BY <2>2, <3>1, InOrder
    <3> QED BY <1>4, <2>1, <2>2, <3>1, <3>2
  <2> QED BY <1>3, <2>1, <2>2
<1>6. CASE HeadFails
  BY <1>3, <1>6 DEF HeadFails
<1>7. CASE HeadSingle
  <2>1. PICK rx \in RxMessages(Arbs) :
          rx.arb = "ecu" /\ rx.payload = Take(Top.data, Top.num) /\ Return("Message", rx, {Whose})
    BY <1>7, Zenon DEF HeadSingle
  <2>2. 1 \in Queue /\ Top.kind = "SF"
    BY <1>7 DEF HeadSingle
  <2> QED BY <1>4, <2>1, <2>2, SingleWhole
<1>8. CASE HeadNext
  <2>1. PICK rx \in RxMessages(Arbs) :
          /\ rx.arb = "ecu" /\ rx.payload = call.rx.payload \o Fresh(call.rx, Top)
          /\ rx.received = call.rx.received + Len(Top.data) /\ rx.len = call.rx.len
          /\ IF rx.received >= rx.len
             THEN Return("Message", rx, call.from \cup {Whose})
             ELSE UNCHANGED results
    BY <1>8, Zenon DEF HeadNext
  <2>2. CASE rx.received >= rx.len
    <3>1. lost = 0 \/ late = 0 =>
            /\ \E m \in 0..MaxMessages : call.from \cup {Whose} = {m}
            /\ \A i \in DOMAIN rx.payload : rx.payload[i] = i
            /\ Len(rx.payload) \in EcuLengths
      BY <1>8, <2>1, <2>2, NextWhole DEF Sound
    <3> QED BY <1>4, <2>1, <2>2, <3>1
  <2>3. CASE ~(rx.received >= rx.len)
    BY <1>2, <2>1, <2>3
  <2> QED BY <2>2, <2>3
<1>9. CASE HeadPassed
  BY <1>2, <1>9 DEF HeadPassed
<1>10. CASE HeadFirst
  BY <1>2, <1>10 DEF HeadFirst
<1> QED BY <1>5, <1>6, <1>7, <1>8, <1>9, <1>10, EachTurn DEF Turn

\* A call that began on a quiet bus and has met no fault waits for a frame that
\* it has seen none after: the next one of the ECU is the one it can use.
LEMMA Unerring ==
  ASSUME EcuLengths \subseteq 1..111, Inv, Chain, NEW L, Story(L), ReceiveFrame, HeadFails
  PROVE  ~call.clean
<1>1. SUFFICES ASSUME call.clean PROVE FALSE
  OBVIOUS
<1>2. /\ 1 \in Queue
      /\ \/ New /\ Top.kind = "CF"
         \/ Going /\ ~(Top.kind = "CF" /\ Top.num = call.rx.next)
  BY DEF HeadFails
<1>3. PICK w, t : w = Whose /\ t = Index(Top)
  OBVIOUS
<1>4. /\ <<w, t>> \in Items /\ w \in Nat \ {0} /\ w <= ecu.msg /\ t \in Nat
      /\ Top.kind = "CF" <=> t # 0
  BY <1>2, <1>3, TurnIs
<1>5. \A k, j : <<k, j>> \in Items /\ (k # w \/ j # t) => Before(w, t, k, j)
  BY <1>2, <1>3, NoneBefore
<1>6. CASE New /\ Top.kind = "CF"
  <2>1. <<w, 0>> \notin Items
    BY <1>4, <1>5, <1>6 DEF Before
  <2>2. Missing(w, 0)
    BY <1>4, <1>6, <2>1 DEF Missing, Coming
  <2> QED BY <1>1, <1>6, <2>2 DEF Chain, ChainNew
<1>7. CASE Going /\ ~(Top.kind = "CF" /\ Top.num = call.rx.next)
  <2>1. PICK m \in 1..ecu.msg : PartOfOne(L, m)
    BY <1>1, <1>7 DEF Story, UnderWay, Sound
  <2>2. PICK next \in Nat : next = call.rx.next
    BY DEF Inv, HandlerTypeOK, RxMessages
  <2>3. /\ call.from = {m} /\ call.rx.len = L[m] /\ L[m] > 7 /\ next >= 1
        /\ call.rx.received = 7 * next - 1
    BY <1>1, <2>1, <2>2 DEF PartOfOne, Gathered, Broken
  <2>4. L[m] \in EcuLengths /\ L[m] \in Nat /\ L[m] <= 111
    BY <2>1, LengthIs DEF Story, Sized
  <2>5. ecu.msg \in Nat
    BY EcuIs DEF Inv
  <2>6. CASE t = 0
    <3>1. w > m
      BY <1>4, <2>3, <2>6 DEF Inv, TakenOK
    <3>2. 7 * next - 1 < L[m]
      BY <1>7, <2>3 DEF Inv, CallOK
    <3>3. next <= Consecutive(L[m])
      BY <2>3, <2>4, <3>2 DEF Consecutive
    <3>4. <<m, next>> \in Items \/ m = ecu.msg
      BY <1>1, <1>7, <2>2, <2>3, <3>3 DEF Story, RestComes, RestOf
    <3>5. CASE <<m, next>> \in Items
      BY <1>4, <1>5, <3>1, <3>5 DEF Before
    <3> QED BY <1>4, <2>5, <3>1, <3>4, <3>5
  <2>7. CASE t # 0
    <3>1. w = m
      BY <1>1, <1>2, <1>3, <1>7, <2>3, <2>7, SameMessage DEF Sound
    <3>2. t = next
      BY <1>1, <1>2, <1>3, <1>7, <2>1, <2>2, <2>7, SameFrame
    <3>3. t <= Consecutive(L[m]) /\ Holds(Top, L[m], t)
      BY <1>2, <1>3, <3>1, HeadHolds DEF Story
    <3>4. Top.num = t % 16
      BY <1>4, <2>3, <2>4, <2>7, <3>3 DEF Holds
    <3>5. t <= 15
      BY <1>4, <2>3, <2>4, <3>3 DEF Consecutive
    <3>6. t % 16 = t
      BY <1>4, <3>5
    <3> QED BY <1>4, <1>7, <2>2, <2>7, <3>2, <3>4, <3>6
  <2> QED BY <2>6, <2>7
<1> QED BY <1>2, <1>6, <1>7

LEMMA TurnNoError ==
  ASSUME EcuLengths \subseteq 1..111, Inv, Chain, NEW L, Story(L), NoErrorWithoutFault, ReceiveFrame
  PROVE  NoErrorWithoutFault'
<1>1. HandlerTypeOK
  BY DEF Inv
<1>2. CASE UNCHANGED results
  BY <1>2 DEF NoErrorWithoutFault
<1>3. ASSUME NEW outcome, NEW rx, NEW from, Return(outcome, rx, from),
             call.clean /\ call.wanted = "ecu" => outcome # "Error"
      PROVE  NoErrorWithoutFault'
  <2> DEFINE r == [outcome |-> outcome, wanted |-> call.wanted, rx |-> rx, from |-> from,
                   clean |-> call.clean]
  <2>1. results' = Append(results, r)
    BY <1>3 DEF Return
  <2>2. r.clean /\ r.wanted = "ecu" => r.outcome # "Error"
    BY <1>3
  <2> HIDE DEF r
  <2> QED BY <1>1, <2>1, <2>2, NoErrorAppended
<1>4. CASE HeadStray
  <2>1. call.wanted = NoArb /\ \E rx : Return("Error", rx, {0}) \/ Return("Message", rx, {0})
    BY <1>4, Zenon DEF HeadStray
  <2>2. call.wanted # "ecu"
    BY <2>1 DEF NoArb
  <2> QED BY <1>3, <2>1, <2>2
<1>5. CASE HeadFails
  <2>1. \E rx : Return("Error", rx, call.from \cup {Whose})
    BY <1>5, Zenon DEF HeadFails
  <2>2. ~call.clean
    BY <1>5, Unerring
  <2> QED BY <1>3, <2>1, <2>2
<1>6. CASE HeadSingle
  <2>1. \E rx : Return("Message", rx, {Whose})
    BY <1>6, Zenon DEF HeadSingle
  <2> QED BY <1>3, <2>1
<1>7. CASE HeadNext
  <2>1. \E rx : Return("Message", rx, call.from \cup {Whose}) \/ UNCHANGED results
    BY <1>7, Zenon DEF HeadNext
  <2> QED BY <1>2, <1>3, <2>1
<1>8. CASE HeadPassed
  BY <1>2, <1>8 DEF HeadPassed
<1>9. CASE HeadFirst
  BY <1>2, <1>9 DEF HeadFirst
<1> QED BY <1>4, <1>5, <1>6, <1>7, <1>8, <1>9, EachTurn DEF Turn

-----------------------------------------------------------------------------
(* The whole story *)

\* Some lengths make a story of what has been sent and fed so far.
IInv == Inv /\ Chain /\ \E L \in [Nat -> Nat] : Story(L)

LEMMA InitIInv == HandlerInit => IInv
<1>1. SUFFICES ASSUME HandlerInit PROVE IInv
  OBVIOUS
<1> DEFINE L == [k \in Nat |-> 0]
<1>2. Inv /\ L \in [Nat -> Nat]
  <2>1. L \in [Nat -> Nat]
    OBVIOUS
  <2> QED BY <1>1, <2>1, InitInv, Zenon
<1>3. /\ ~call.active /\ call.clean = FALSE /\ ecu.msg = 0 /\ ecu.state = "idle"
      /\ frames = <<>> /\ flow = FALSE
  <2>1. ~NoCall.active /\ NoCall.clean = FALSE
    BY DEF NoCall
  <2>2. call = NoCall /\ frames = <<>> /\ flow = FALSE
    BY <1>1 DEF HandlerInit
  <2>3. ecu.msg = 0 /\ ecu.state = "idle"
    BY <1>1 DEF HandlerInit
  <2> QED BY <2>1, <2>2, <2>3, Zenon
<1>4. Queue = {} /\ ~New /\ ~Going /\ ~Busy
  BY <1>3 DEF Queue, New, Going, Busy
<1>5. Items = {}
  BY <1>4 DEF Items
<1>6. Chain
  BY <1>4, <1>5 DEF Chain, ChainBus, ChainNew, ChainCall
<1>7. Sized(L)
  <2>1. \A m \in 1..ecu.msg : L[m] \in EcuLengths
    BY <1>3
  <2> HIDE DEF L
  <2> QED BY <1>2, <1>4, <2>1 DEF Sized
<1> HIDE DEF L
<1>8. UnderWay(L) /\ InTime(L) /\ RestComes(L)
  BY <1>3, <1>4, <1>5 DEF UnderWay, InTime, RestComes
<1> QED BY <1>2, <1>6, <1>7, <1>8 DEF IInv, Story

\* A step that goes on with the story.
LEMMA NextIInv ==
  ASSUME IInv, [HandlerNext]_handlerVars
  PROVE  IInv'
<1>1. Inv /\ Chain /\ Inv'
  BY NextInv DEF IInv
<1>2. PICK L \in [Nat -> Nat] : Story(L)
  BY DEF IInv
<1>3. ASSUME Chain', Story(L)' PROVE IInv'
  BY <1>1, <1>3 DEF IInv
<1>4. ASSUME NEW n \in EcuLengths, EcuBegins(n) PROVE IInv'
  <2>1. PICK m : m = ecu.msg + 1
    OBVIOUS
  <2>2. PICK M : M = Longer(L, m, n)
    OBVIOUS
  <2>3. Chain' /\ Story(Longer(L, m, n))'
    BY <1>1, <1>2, <1>4, <2>1, BeginsChain, BeginsStory
  <2>4. Story(M)'
    BY <2>2, <2>3
  <2>5. M \in [Nat -> Nat]
    BY <2>4 DEF Story, Sized
  <2> QED BY <1>1, <2>3, <2>4, <2>5 DEF IInv
<1>5. CASE EcuFlowControlled
  BY <1>1, <1>2, <1>3, <1>5, OthersChain, FlowControlledStory
<1>6. CASE EcuContinues
  BY <1>1, <1>2, <1>3, <1>6, ContinuesChain, ContinuesStory
<1>7. CASE EcuGivesUp
  BY <1>1, <1>2, <1>3, <1>7, OthersChain, GivesUpStory
<1>8. CASE Stray
  BY <1>1, <1>2, <1>3, <1>8, OthersChain, StrayStory
<1>9. CASE ReceiveRefused \/ UNCHANGED handlerVars
  <2>1. UNCHANGED <<ecu, frames, flow, call, faults>>
    BY <1>9 DEF ReceiveRefused, handlerVars
  <2> QED BY <1>1, <1>2, <1>3, <2>1, RefusedStory
<1>10. CASE Receive
  BY <1>1, <1>2, <1>3, <1>10, ReceiveStory
<1>11. CASE ReceiveFrame
  <2>1. CASE HeadPassed
    BY <1>1, <1>2, <1>3, <1>11, <2>1, PassedStory
  <2>2. CASE HeadStray \/ HeadFails \/ HeadSingle
    <3>1. UNCHANGED flow /\ call' = NoCall
      BY <2>2, Zenon DEF HeadStray, HeadFails, HeadSingle, Return
    <3> QED BY <1>1, <1>2, <1>3, <1>11, <3>1, ReturnedStory
  <2>3. CASE HeadFirst
    BY <1>1, <1>2, <1>3, <1>11, <2>3, FirstStory
  <2>4. CASE HeadNext
    BY <1>1, <1>2, <1>3, <1>11, <2>4, NextStory
  <2> QED BY <1>1, <1>11, <2>1, <2>2, <2>3, <2>4, EachTurn DEF Turn
<1>12. CASE ReceiveTimeout
  BY <1>1, <1>2, <1>3, <1>12, TimeoutStory
<1> QED BY <1>4, <1>5, <1>6, <1>7, <1>8, <1>9, <1>10, <1>11, <1>12 DEF HandlerNext

LEMMA IInvCorrect == HandlerSpec => []IInv
<1>1. IInv /\ [HandlerNext]_handlerVars => IInv'
  BY NextIInv
<1> QED BY <1>1, InitIInv, PTL DEF HandlerSpec

\* The other steps return a message or an error in no case.
LEMMA OtherResults ==
  ASSUME Inv, [HandlerNext]_handlerVars, ~ReceiveFrame
  PROVE  /\ lost' = 0 => lost = 0
         /\ late' = 0 => late = 0
         /\ UNCHANGED results \/ \E r : /\ results' = Append(results, r)
                                        /\ r.outcome # "Message" /\ r.outcome # "Error"
<1>1. ASSUME NEW n \in EcuLengths, EcuBegins(n) PROVE UNCHANGED results /\ SameCall
  BY <1>1, BeginsIs
<1>2. CASE EcuFlowControlled
  BY <1>2, FlowControlledIs DEF SameCall
<1>3. CASE EcuContinues
  BY <1>3, ContinuesIs DEF SameCall
<1>4. CASE EcuGivesUp
  BY <1>4, GivesUpIs DEF SameCall
<1>5. CASE Stray \/ Receive \/ UNCHANGED handlerVars
  BY <1>5 DEF Stray, Receive, handlerVars, faults
<1>6. CASE ReceiveRefused
  <2> DEFINE r == [outcome |-> "Raised", wanted |-> NoArb, rx |-> NewMessage(NoArb),
                   from |-> {}, clean |-> FALSE]
  <2>1. results' = Append(results, r) /\ r.outcome = "Raised" /\ UNCHANGED faults
    BY <1>6 DEF ReceiveRefused
  <2> HIDE DEF r
  <2> QED BY <2>1 DEF faults
<1>7. CASE ReceiveTimeout
  <2> DEFINE r == [outcome |-> "Timeout", wanted |-> call.wanted,
                   rx |-> [call.rx EXCEPT !.state = "ERROR"], from |-> call.from,
                   clean |-> call.clean]
  <2>1. results' = Append(results, r) /\ r.outcome = "Timeout" /\ UNCHANGED faults
    BY <1>7 DEF ReceiveTimeout, Return
  <2> HIDE DEF r
  <2> QED BY <2>1 DEF faults
<1>8. ASSUME NEW n \in EcuLengths, EcuBegins(n)
      PROVE  UNCHANGED results /\ (lost' = 0 => lost = 0) /\ (late' = 0 => late = 0)
  BY <1>1, <1>8 DEF SameCall
<1> QED BY <1>2, <1>3, <1>4, <1>5, <1>6, <1>7, <1>8 DEF HandlerNext

\* What a call returns is one message as its sender made it, of whatever length,
\* although frames are lost and earlier calls leave frames behind, if flow
\* control is in time or nothing is lost (iso_tp_handler.py:89-112).
THEOREM WholeCorrect == HandlerSpec => []OneWholeMessage
<1>1. HandlerInit => OneWholeMessage
  BY DEF HandlerInit, OneWholeMessage, Received
<1>2. ASSUME IInv, OneWholeMessage, [HandlerNext]_handlerVars PROVE OneWholeMessage'
  <2>1. Inv /\ Chain /\ HandlerTypeOK
    BY <1>2 DEF IInv, Inv
  <2>2. PICK L \in [Nat -> Nat] : Story(L)
    BY <1>2 DEF IInv
  <2>3. CASE ReceiveFrame
    BY <1>2, <2>1, <2>2, <2>3, TurnWhole
  <2>4. CASE ~ReceiveFrame
    <3>1. (lost' = 0 => lost = 0) /\ (late' = 0 => late = 0)
      BY <1>2, <2>1, <2>4, OtherResults
    <3>2. CASE UNCHANGED results
      <4>1. Received' = Received
        BY <3>2 DEF Received
      <4> QED BY <1>2, <3>1, <3>2, <4>1 DEF OneWholeMessage
    <3>3. ASSUME NEW r, results' = Append(results, r), r.outcome # "Message"
          PROVE  OneWholeMessage'
      BY <1>2, <2>1, <3>1, <3>3, WholeAppended
    <3> QED BY <1>2, <2>1, <2>4, <3>2, <3>3, OtherResults
  <2> QED BY <2>3, <2>4
<1>3. IInv /\ OneWholeMessage /\ [HandlerNext]_handlerVars => OneWholeMessage'
  BY <1>2
<1> QED BY <1>1, <1>3, IInvCorrect, PTL DEF HandlerSpec

\* A call that is given the sender, begins on a quiet bus and meets no fault does
\* not end in an error, while the message's own counter, which is not reduced
\* modulo 16, agrees with the sender's: up to 15 consecutive frames.
THEOREM NoErrorCorrect ==
  ASSUME EcuLengths \subseteq 1..111
  PROVE  HandlerSpec => []NoErrorWithoutFault
<1>1. HandlerInit => NoErrorWithoutFault
  BY DEF HandlerInit, NoErrorWithoutFault
<1>2. ASSUME IInv, NoErrorWithoutFault, [HandlerNext]_handlerVars PROVE NoErrorWithoutFault'
  <2>1. Inv /\ Chain /\ HandlerTypeOK
    BY <1>2 DEF IInv, Inv
  <2>2. PICK L \in [Nat -> Nat] : Story(L)
    BY <1>2 DEF IInv
  <2>3. CASE ReceiveFrame
    BY <1>2, <2>1, <2>2, <2>3, TurnNoError
  <2>4. CASE ~ReceiveFrame
    <3>1. CASE UNCHANGED results
      BY <1>2, <3>1 DEF NoErrorWithoutFault
    <3>2. ASSUME NEW r, results' = Append(results, r), r.outcome # "Error"
          PROVE  NoErrorWithoutFault'
      BY <1>2, <2>1, <3>2, NoErrorAppended
    <3> QED BY <1>2, <2>1, <2>4, <3>1, <3>2, OtherResults
  <2> QED BY <2>3, <2>4
<1>3. IInv /\ NoErrorWithoutFault /\ [HandlerNext]_handlerVars => NoErrorWithoutFault'
  BY <1>2
<1> QED BY <1>1, <1>3, IInvCorrect, PTL DEF HandlerSpec
=============================================================================
