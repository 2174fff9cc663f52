--------------------------- MODULE Helpers_proofs ---------------------------
(***************************************************************************)
(* Proofs about the parts of the library that work on their own: the       *)
(* framing of the stream, the portable queue, discovery, the reception of  *)
(* frames, loops over logs, the settings, the trace and the search.        *)
(***************************************************************************)
EXTENDS EthernetStream, PortableQueue, Discovery, FrameReception, LogFile, CANSettings,
        TraceRecorder, BruteforceSearch, FiniteSetTheorems, Naturals_proofs

-----------------------------------------------------------------------------
(* The stream, for every header length, receive size, set of data lengths  *)
(* and number of messages                                                  *)

\* Where message k starts, or will start if it is the next to be sent.
Offset(k) == IF k \in DOMAIN sent THEN sent[k].start ELSE total

\* Messages follow each other in the stream without overlap or gap.
Layout ==
  /\ \A i \in DOMAIN sent : EndOf(i) = Offset(i + 1) /\ EndOf(i) <= total
  /\ \A i, j \in DOMAIN sent : i < j => EndOf(i) <= sent[j].start
  /\ Offset(1) = 0

\* Until a message is truncated the reader is at the start of the next one.
InStep ==
  Undamaged(Len(delivered)) =>
    /\ Len(delivered) <= Len(sent)
    /\ pos = Offset(Len(delivered) + 1)

FramingInv == StreamTypeOK /\ Layout /\ InStep /\ DamageStartsWithTruncation

LEMMA FramingInit == StreamInit => FramingInv
<1> SUFFICES ASSUME StreamInit PROVE FramingInv
  OBVIOUS
<1> USE DEF StreamInit
<1>1. StreamTypeOK
  <2>1. sent \in Seq(Sent) /\ delivered \in Seq(Delivered)
    OBVIOUS
  <2>2. alive \in BOOLEAN /\ closed \in BOOLEAN
    OBVIOUS
  <2> QED
    BY <2>1, <2>2 DEF StreamTypeOK
<1>2. Layout /\ InStep
  BY DEF Layout, InStep, Offset
<1>3. DamageStartsWithTruncation
  BY DEF DamageStartsWithTruncation
<1> QED
  BY <1>1, <1>2, <1>3 DEF FramingInv

\* What StreamTypeOK says of one message.
LEMMA MessageBounds ==
  ASSUME StreamTypeOK, NEW i \in DOMAIN sent
  PROVE  /\ sent[i].start \in Nat /\ sent[i].len \in Nat
         /\ EndOf(i) \in Nat /\ sent[i].start + HeaderLen <= EndOf(i)
<1>1. sent[i] \in Sent
  BY DEF StreamTypeOK
<1>2. sent[i].start \in Nat /\ sent[i].len \in Nat
  BY <1>1, DataLensAssumption DEF Sent
<1> QED
  BY <1>2, HeaderLenAssumption DEF EndOf

\* Only one message starts at a given offset, and none at the end.
LEMMA StartsDiffer ==
  ASSUME StreamTypeOK, Layout, NEW i \in DOMAIN sent, NEW k \in Nat \ {0},
         sent[i].start = Offset(k)
  PROVE  i = k
<1>1. sent[i].start < EndOf(i) /\ EndOf(i) <= total
  BY MessageBounds, HeaderLenAssumption DEF Layout
<1>2. k \in DOMAIN sent
  BY <1>1, MessageBounds DEF Offset, StreamTypeOK
<1>3. sent[k].start < EndOf(k) /\ sent[k].start \in Nat /\ sent[i].start \in Nat
  BY <1>2, MessageBounds, HeaderLenAssumption
<1>4. i \in Nat /\ k \in Nat
  BY <1>2 DEF StreamTypeOK
<1>5. ~(i < k) /\ ~(k < i)
  BY <1>1, <1>2, <1>3, MessageBounds DEF Layout, Offset
<1> QED
  BY <1>4, <1>5

\* Appending to `delivered' leaves what was said about the earlier ones.
LEMMA UndamagedPrefix ==
  ASSUME StreamTypeOK, NEW e \in Delivered, delivered' = Append(delivered, e),
         NEW n \in Nat, n = Len(delivered)
  PROVE  /\ Len(delivered') = n + 1
         /\ delivered'[n + 1] = e
         /\ \A k \in 1..n : delivered'[k] = delivered[k]
         /\ \A k \in 0..n : Undamaged(k)' <=> Undamaged(k)
         /\ Undamaged(n + 1)' <=> Undamaged(n) /\ e.whole
<1>1. /\ Len(delivered') = n + 1
      /\ delivered'[n + 1] = e
      /\ \A k \in 1..n : delivered'[k] = delivered[k]
  BY DEF StreamTypeOK
<1>2. \A k \in 0..n : Undamaged(k)' <=> Undamaged(k)
  BY <1>1 DEF Undamaged
<1>3. Undamaged(n + 1)' <=> Undamaged(n) /\ e.whole
  BY <1>1 DEF Undamaged
<1> QED
  BY <1>1, <1>2, <1>3

LEMMA DeviceSendStep ==
  ASSUME FramingInv, NEW len \in DataLens, DeviceSend(len)
  PROVE  FramingInv'
<1> DEFINE e == [start |-> total, len |-> len]
<1>n. PICK n \in Nat : n = Len(sent)
  BY DEF FramingInv, StreamTypeOK
<1>1. StreamTypeOK /\ Layout /\ InStep /\ DamageStartsWithTruncation
  BY DEF FramingInv
<1>2. /\ n \in Nat /\ total \in Nat /\ len \in Nat /\ HeaderLen \in Nat \ {0}
      /\ DOMAIN sent = 1..n /\ recvd \in 0..total /\ pos \in 0..recvd
  BY <1>n, <1>1, DataLensAssumption, HeaderLenAssumption DEF StreamTypeOK
<1>3. e \in Sent
  BY <1>2 DEF Sent
<1>4. /\ sent' = Append(sent, e) /\ total' = total + HeaderLen + len
      /\ UNCHANGED <<closed, recvd, pos, delivered, alive>>
  BY DEF DeviceSend
<1> HIDE DEF e
<1>5. /\ sent' \in Seq(Sent) /\ DOMAIN sent' = 1..(n + 1) /\ Len(sent') = n + 1
      /\ sent'[n + 1] = e /\ \A i \in 1..n : sent'[i] = sent[i]
  BY <1>n, <1>1, <1>2, <1>3, <1>4 DEF StreamTypeOK
<1>6. e.start = total /\ e.len = len
  BY DEF e
<1>7. StreamTypeOK'
  BY <1>1, <1>2, <1>4, <1>5 DEF StreamTypeOK
<1>8. /\ \A i \in 1..n : EndOf(i)' = EndOf(i)
      /\ EndOf(n + 1)' = total'
  <2>1. \A i \in 1..n : EndOf(i)' = EndOf(i)
    BY <1>5 DEF EndOf
  <2>2. EndOf(n + 1)' = e.start + HeaderLen + e.len
    BY <1>5 DEF EndOf
  <2> QED
    BY <1>4, <1>6, <2>1, <2>2
<1>9. \A k \in 1..(n + 1) : Offset(k)' = Offset(k)
  BY <1>2, <1>5, <1>6 DEF Offset
<1>10. Layout'
  <2>1. ASSUME NEW i \in 1..(n + 1)
        PROVE  EndOf(i)' = Offset(i + 1)' /\ EndOf(i)' <= total'
    <3>1. CASE i = n + 1
      <4>1. i + 1 \notin DOMAIN sent'
        BY <1>2, <1>5, <3>1
      <4>2. Offset(i + 1)' = total' /\ EndOf(i)' = total' /\ total' \in Nat
        BY <1>2, <1>4, <1>8, <3>1, <4>1 DEF Offset
      <4> QED
        BY <4>2
    <3>2. CASE i \in 1..n
      <4>1. EndOf(i) = Offset(i + 1) /\ EndOf(i) <= total /\ EndOf(i) \in Nat
        BY <1>1, <1>2, <3>2, MessageBounds DEF Layout
      <4> QED
        BY <1>2, <1>4, <1>8, <1>9, <3>2, <4>1
    <3> QED
      BY <1>2, <3>1, <3>2
  <2>2. ASSUME NEW i \in 1..(n + 1), NEW j \in 1..(n + 1), i < j
        PROVE  EndOf(i)' <= sent'[j].start
    <3>1. i \in 1..n /\ EndOf(i) <= total
      BY <1>1, <1>2, <2>2 DEF Layout
    <3>2. CASE j = n + 1
      BY <1>5, <1>6, <1>8, <3>1, <3>2
    <3>3. CASE j \in 1..n
      BY <1>1, <1>2, <1>5, <1>8, <2>2, <3>1, <3>3 DEF Layout
    <3> QED
      BY <1>2, <3>2, <3>3
  <2>3. Offset(1)' = 0
    BY <1>1, <1>2, <1>9 DEF Layout
  <2> QED
    BY <1>5, <2>1, <2>2, <2>3 DEF Layout
<1>11. InStep'
  <2> SUFFICES ASSUME Undamaged(Len(delivered))'
               PROVE  /\ Len(delivered)' <= Len(sent')
                      /\ pos' = Offset(Len(delivered) + 1)'
    BY DEF InStep
  <2>1. Undamaged(Len(delivered))
    BY <1>4 DEF Undamaged
  <2>2. Len(delivered) <= n /\ pos = Offset(Len(delivered) + 1)
    BY <1>n, <1>1, <2>1 DEF InStep
  <2>3. Len(delivered) \in Nat
    BY <1>1 DEF StreamTypeOK
  <2>4. Offset(Len(delivered) + 1)' = Offset(Len(delivered) + 1)
    BY <1>2, <1>4, <1>5, <1>6, <2>2, <2>3 DEF Offset
  <2> QED
    BY <1>2, <1>4, <1>5, <2>2, <2>3, <2>4
<1>12. DamageStartsWithTruncation'
  BY <1>1, <1>4 DEF DamageStartsWithTruncation, Undamaged
<1> QED
  BY <1>7, <1>10, <1>11, <1>12 DEF FramingInv

\* The message extracted by a reader in step is the next one.
LEMMA ExtractedIsNext ==
  ASSUME FramingInv, NEW n \in Nat, n = Len(delivered), Undamaged(n),
         NEW i \in DOMAIN sent, sent[i].start = pos
  PROVE  i = n + 1
<1>1. pos = Offset(n + 1)
  BY DEF FramingInv, InStep
<1> QED
  BY <1>1, StartsDiffer DEF FramingInv

\* What is appended keeps the damage where it began.
LEMMA AppendStep ==
  ASSUME FramingInv, NEW e \in Delivered, delivered' = Append(delivered, e),
         UNCHANGED alive, NEW n \in Nat, n = Len(delivered),
         Undamaged(n) => e.msg = n + 1
  PROVE  DamageStartsWithTruncation'
<1>1. /\ StreamTypeOK /\ DamageStartsWithTruncation
      /\ DOMAIN delivered = 1..n
  BY DEF FramingInv, StreamTypeOK
<1>2. /\ Len(delivered') = n + 1
      /\ delivered'[n + 1] = e
      /\ \A k \in 1..n : delivered'[k] = delivered[k]
      /\ \A k \in 0..n : Undamaged(k)' <=> Undamaged(k)
      /\ Undamaged(n + 1)' <=> Undamaged(n) /\ e.whole
  BY <1>1, UndamagedPrefix
<1>3. DOMAIN delivered' = 1..(n + 1)
  BY <1>1, <1>2 DEF StreamTypeOK
<1>4. ASSUME NEW k \in 1..(n + 1), Undamaged(k - 1)'
      PROVE  delivered'[k].msg = k
  <2>1. k - 1 \in 0..n /\ Undamaged(k - 1)
    BY <1>2, <1>4
  <2>2. CASE k = n + 1
    BY <1>2, <2>1, <2>2
  <2>3. CASE k \in 1..n
    BY <1>1, <1>2, <2>1, <2>3 DEF DamageStartsWithTruncation
  <2> QED
    BY <2>2, <2>3
<1>5. Undamaged(Len(delivered))' => alive'
  <2> SUFFICES ASSUME Undamaged(n + 1)' PROVE alive
    BY <1>2 DEF Undamaged
  <2> QED
    BY <1>1, <1>2 DEF DamageStartsWithTruncation
<1> QED
  BY <1>3, <1>4, <1>5 DEF DamageStartsWithTruncation

LEMMA RecvStep ==
  ASSUME FramingInv, NEW m \in Nat, Recv(m)
  PROVE  FramingInv'
<1>n. PICK n \in Nat : n = Len(delivered)
  BY DEF FramingInv, StreamTypeOK
<1>r. PICK r \in Nat : r = recvd + m
  BY DEF FramingInv, StreamTypeOK
<1>1. StreamTypeOK /\ Layout /\ InStep /\ DamageStartsWithTruncation
  BY DEF FramingInv
<1>2. /\ recvd \in Nat /\ total \in Nat /\ pos \in 0..recvd /\ recvd <= r /\ r <= total
      /\ HeaderLen \in Nat \ {0} /\ alive
  BY <1>1, <1>r, HeaderLenAssumption DEF StreamTypeOK, Recv
<1>3. /\ UNCHANGED <<sent, total, closed>> /\ recvd' = r /\ Extract(r)
  BY <1>r DEF Recv
<1>4. \A k \in Nat : Offset(k)' = Offset(k)
  BY <1>3 DEF Offset
<1>5. Layout'
  BY <1>1, <1>3 DEF Layout, EndOf, Offset
<1>6. ASSUME NEW i \in DOMAIN sent, HeaderReceived(r), sent[i].start = pos,
             ExtractMessage(i, r)
      PROVE  FramingInv'
  <2> DEFINE e == [msg |-> i, whole |-> EndOf(i) <= r]
  <2>1. /\ EndOf(i) \in Nat /\ pos <= EndOf(i) /\ i \in Nat
    BY <1>1, <1>2, <1>6, MessageBounds DEF StreamTypeOK
  <2>2. e \in Delivered
    BY <2>1 DEF Delivered
  <2>3. /\ delivered' = Append(delivered, e) /\ UNCHANGED alive
        /\ pos' = IF EndOf(i) <= r THEN EndOf(i) ELSE r
    BY <1>6 DEF ExtractMessage
  <2>4. e.msg = i /\ (e.whole <=> EndOf(i) <= r)
    OBVIOUS
  <2> HIDE DEF e
  <2>5. Undamaged(n) => i = n + 1
    BY <1>n, <1>6, ExtractedIsNext
  <2>6. StreamTypeOK'
    BY <1>1, <1>2, <1>3, <2>1, <2>2, <2>3 DEF StreamTypeOK
  <2>7. DamageStartsWithTruncation'
    BY <1>n, <2>2, <2>3, <2>4, <2>5, AppendStep
  <2>8. ASSUME Undamaged(n + 1)'
        PROVE  n + 1 <= Len(sent) /\ pos' = Offset(n + 2)
    <3>1. Undamaged(n) /\ e.whole
      BY <1>n, <1>1, <2>2, <2>3, <2>8, UndamagedPrefix
    <3>2. i = n + 1 /\ EndOf(i) <= r
      BY <2>4, <2>5, <3>1
    <3>3. pos' = EndOf(n + 1) /\ n + 1 \in DOMAIN sent
      BY <2>3, <3>2
    <3>4. EndOf(n + 1) = Offset((n + 1) + 1)
      BY <1>1, <3>3 DEF Layout
    <3>5. n + 1 <= Len(sent) /\ (n + 1) + 1 = n + 2
      BY <1>1, <3>3 DEF StreamTypeOK
    <3> QED
      BY <3>3, <3>4, <3>5
  <2>9. InStep'
    <3>1. Len(delivered') = n + 1
      BY <1>n, <1>1, <2>2, <2>3, UndamagedPrefix
    <3> QED
      BY <1>3, <1>4, <2>8, <3>1 DEF InStep
  <2> QED
    BY <1>5, <2>6, <2>7, <2>9 DEF FramingInv
<1>7. ASSUME HeaderReceived(r), \A i \in DOMAIN sent : sent[i].start # pos,
             ExtractGarbage(r)
      PROVE  FramingInv'
  <2>1. ~Undamaged(n)
    <3> SUFFICES ASSUME Undamaged(n) PROVE FALSE
      OBVIOUS
    <3>1. pos = Offset(n + 1)
      BY <1>n, <1>1 DEF InStep
    <3>2. pos = total
      BY <1>7, <3>1 DEF Offset
    <3> QED
      BY <1>2, <1>7, <3>2 DEF HeaderReceived
  <2>2. CASE alive' = FALSE /\ UNCHANGED <<pos, delivered>>
    <3>1. StreamTypeOK'
      <4>1. alive' \in BOOLEAN
        BY <2>2
      <4>2. recvd' \in 0..total' /\ pos' \in 0..recvd'
        BY <1>2, <1>3, <2>2
      <4> QED
        BY <1>1, <1>3, <2>2, <4>1, <4>2 DEF StreamTypeOK
    <3>2. ~Undamaged(Len(delivered))'
      BY <1>n, <2>1, <2>2 DEF Undamaged
    <3>3. DamageStartsWithTruncation'
      BY <1>1, <2>2, <3>2 DEF DamageStartsWithTruncation, Undamaged
    <3> QED
      BY <1>5, <3>1, <3>2, <3>3 DEF FramingInv, InStep
  <2>3. CASE /\ pos' \in (pos + HeaderLen)..r /\ UNCHANGED alive
             /\ delivered' = Append(delivered, [msg |-> 0, whole |-> FALSE])
    <3> DEFINE e == [msg |-> 0, whole |-> FALSE]
    <3>1. e \in Delivered /\ ~e.whole
      BY DEF Delivered
    <3>2. delivered' = Append(delivered, e)
      BY <2>3
    <3> HIDE DEF e
    <3>3. StreamTypeOK'
      BY <1>1, <1>2, <1>3, <2>3, <3>1, <3>2 DEF StreamTypeOK
    <3>4. DamageStartsWithTruncation'
      BY <1>n, <2>1, <2>3, <3>1, <3>2, AppendStep
    <3>5. Len(delivered') = n + 1 /\ ~Undamaged(n + 1)'
      BY <1>n, <1>1, <3>1, <3>2, UndamagedPrefix
    <3>6. InStep'
      BY <3>5 DEF InStep
    <3> QED
      BY <1>5, <3>3, <3>4, <3>6 DEF FramingInv
  <2> QED
    BY <1>7, <2>2, <2>3 DEF ExtractGarbage
<1>8. ASSUME UNCHANGED <<pos, delivered, alive>>
      PROVE  FramingInv'
  <2>1. StreamTypeOK'
    BY <1>1, <1>2, <1>3, <1>8 DEF StreamTypeOK
  <2>2. DamageStartsWithTruncation'
    BY <1>1, <1>8 DEF DamageStartsWithTruncation, Undamaged
  <2>3. InStep'
    BY <1>1, <1>3, <1>8 DEF InStep, Undamaged, Offset
  <2> QED
    BY <1>5, <2>1, <2>2, <2>3 DEF FramingInv
<1> QED
  BY <1>3, <1>6, <1>7, <1>8 DEF Extract

LEMMA FramingStep == FramingInv /\ [StreamNext]_streamVars => FramingInv'
<1> SUFFICES ASSUME FramingInv, [StreamNext]_streamVars PROVE FramingInv'
  OBVIOUS
<1>1. CASE DeviceClose
  BY <1>1 DEF DeviceClose, FramingInv, StreamTypeOK, Layout, InStep, Undamaged,
     DamageStartsWithTruncation, Offset, EndOf
<1>2. CASE UNCHANGED streamVars
  BY <1>2 DEF streamVars, FramingInv, StreamTypeOK, Layout, InStep, Undamaged,
     DamageStartsWithTruncation, Offset, EndOf
<1> QED
  BY <1>1, <1>2, DeviceSendStep, RecvStep DEF StreamNext

(* What the reader thread counts as received and consumed stays within what *)
(* the device has sent, however recv() cuts the stream.                     *)
THEOREM TypeCorrect == StreamSpec => []StreamTypeOK
<1>1. FramingInv => StreamTypeOK
  BY DEF FramingInv
<1> QED
  BY <1>1, FramingInit, FramingStep, PTL DEF StreamSpec

(* However recv() cuts the stream: up to the first message that was taken   *)
(* before its end had arrived, the queues hold exactly the messages sent.   *)
THEOREM DamageCorrect == StreamSpec => []DamageStartsWithTruncation
<1>1. FramingInv => DamageStartsWithTruncation
  BY DEF FramingInv
<1> QED
  BY <1>1, FramingInit, FramingStep, PTL DEF StreamSpec

-----------------------------------------------------------------------------
(* The reader implements MessageChannel. *)

\* As long as recv() ends at a boundary nothing is truncated.
WholeInv == WholeSegments => Undamaged(Len(delivered)) /\ Boundary(recvd)

ChannelInv == FramingInv /\ WholeInv

LEMMA IntactIsUndamaged ==
  ASSUME StreamTypeOK
  PROVE  Channel!Intact <=> Undamaged(Len(delivered))
<1>1. DOMAIN delivered = 1..Len(delivered)
  BY DEF StreamTypeOK
<1> QED
  BY <1>1 DEF Channel!Intact, Undamaged

\* A message whose header has been received up to a boundary is complete.
LEMMA HeaderMeansWhole ==
  ASSUME FramingInv, NEW r \in Nat, Boundary(r), r <= total,
         NEW i \in DOMAIN sent, HeaderReceived(r), sent[i].start = pos
  PROVE  EndOf(i) <= r
<1>1. /\ StreamTypeOK /\ Layout
  BY DEF FramingInv
<1>2. /\ EndOf(i) \in Nat /\ EndOf(i) <= total /\ total \in Nat
      /\ sent[i].start \in Nat /\ sent[i].start < r
  BY <1>1, MessageBounds, HeaderLenAssumption DEF Layout, HeaderReceived, StreamTypeOK
<1>3. CASE r = total
  BY <1>2, <1>3
<1>4. ASSUME NEW j \in DOMAIN sent, sent[j].start = r
      PROVE  EndOf(i) <= r
  <2>1. /\ sent[j].start + HeaderLen <= EndOf(j) /\ EndOf(j) \in Nat
        /\ i \in Nat /\ j \in Nat
    BY <1>1, MessageBounds DEF StreamTypeOK
  <2>2. i # j
    BY <1>2, <1>4
  <2>3. ~(j < i)
    BY <1>1, <1>2, <1>4, <2>1, HeaderLenAssumption DEF Layout
  <2>4. i < j
    BY <2>1, <2>2, <2>3
  <2> QED
    BY <1>1, <1>4, <2>4 DEF Layout
<1> QED
  BY <1>3, <1>4 DEF Boundary

LEMMA ChannelRecv ==
  ASSUME ChannelInv, NEW m \in Nat, Recv(m)
  PROVE  ChannelInv' /\ [Channel!Next]_Channel!chanVars
<1>n. PICK n \in Nat : n = Len(delivered)
  BY DEF ChannelInv, FramingInv, StreamTypeOK
<1>r. PICK r \in Nat : r = recvd + m
  BY DEF ChannelInv, FramingInv, StreamTypeOK
<1>1. FramingInv /\ StreamTypeOK /\ WholeInv /\ (Undamaged(n) => n <= Len(sent))
  BY <1>n DEF ChannelInv, FramingInv, InStep
<1>2. /\ UNCHANGED <<sent, total, closed>> /\ recvd' = r
      /\ Extract(r) /\ (WholeSegments => Boundary(r)) /\ r <= total
  <2>1. r <= total
    BY <1>r, <1>1 DEF Recv, StreamTypeOK
  <2> QED
    BY <1>r, <2>1 DEF Recv
<1>3. FramingInv'
  BY <1>1, RecvStep
<1>4. WholeSegments => Boundary(recvd)'
  BY <1>2 DEF Boundary
<1>5. Channel!Intact <=> Undamaged(n)
  BY <1>n, <1>1, IntactIsUndamaged
<1>6. Len(sent') = Len(sent)
  BY <1>2
<1>7. ASSUME NEW e \in Delivered, delivered' = Append(delivered, e),
             ~Undamaged(n)
      PROVE  Channel!Garble
  <2>1. /\ Len(delivered') = n + 1
        /\ \A k \in 1..n : delivered'[k] = delivered[k]
    BY <1>n, <1>1, <1>7, UndamagedPrefix
  <2>2. DOMAIN delivered = 1..n
    BY <1>n, <1>1 DEF StreamTypeOK
  <2> QED
    BY <1>n, <1>5, <1>6, <1>7, <2>1, <2>2 DEF Channel!Garble
<1>8. ASSUME NEW i \in DOMAIN sent, HeaderReceived(r), sent[i].start = pos,
             ExtractMessage(i, r)
      PROVE  WholeInv' /\ [Channel!Next]_Channel!chanVars
  <2> DEFINE whole == EndOf(i) <= r
             e     == [msg |-> i, whole |-> whole]
  <2>1. delivered' = Append(delivered, e)
    BY <1>8 DEF ExtractMessage
  <2>2. i \in Nat /\ EndOf(i) \in Nat
    BY <1>1, <1>8, MessageBounds DEF StreamTypeOK
  <2>3. e \in Delivered /\ whole \in BOOLEAN
    BY <2>2 DEF Delivered
  <2>4. WholeSegments => whole
    BY <1>1, <1>2, <1>8, HeaderMeansWhole
  <2>5. e.whole = whole
    OBVIOUS
  <2>6. ASSUME Undamaged(n)
        PROVE  Channel!Next
    <3>1. i = n + 1
      BY <1>n, <1>1, <1>8, <2>6, ExtractedIsNext
    <3>2. n < Len(sent)
      BY <1>1, <3>1 DEF StreamTypeOK
    <3>3. Channel!Deliver(whole)
      BY <1>n, <1>5, <1>6, <2>1, <2>4, <2>6, <3>1, <3>2 DEF Channel!Deliver
    <3> QED
      BY <2>3, <3>3 DEF Channel!Next
  <2>7. ASSUME ~Undamaged(n)
        PROVE  Channel!Next
    BY <1>7, <2>1, <2>3, <2>7 DEF Channel!Next
  <2>8. ASSUME WholeSegments
        PROVE  Undamaged(Len(delivered))'
    <3>1. Undamaged(n) /\ whole
      BY <1>n, <1>1, <2>4, <2>8 DEF WholeInv
    <3> HIDE DEF e, whole
    <3>2. Len(delivered') = n + 1 /\ Undamaged(n + 1)'
      BY <1>n, <1>1, <2>1, <2>3, <2>5, <3>1, UndamagedPrefix
    <3> QED
      BY <3>2 DEF Undamaged
  <2> QED
    BY <1>4, <2>6, <2>7, <2>8 DEF WholeInv
<1>9. ASSUME HeaderReceived(r), \A i \in DOMAIN sent : sent[i].start # pos,
             ExtractGarbage(r)
      PROVE  WholeInv' /\ [Channel!Next]_Channel!chanVars
  <2>1. ~Undamaged(n)
    <3> SUFFICES ASSUME Undamaged(n) PROVE FALSE
      OBVIOUS
    <3>1. pos = Offset(n + 1)
      BY <1>n, <1>1 DEF FramingInv, InStep
    <3>2. pos = total
      BY <1>9, <3>1 DEF Offset
    <3> QED
      BY <1>1, <1>2, <1>9, <3>2, HeaderLenAssumption DEF HeaderReceived, StreamTypeOK
  <2>2. ~WholeSegments
    BY <1>n, <1>1, <2>1 DEF WholeInv
  <2>3. CASE UNCHANGED delivered
    BY <1>6, <2>2, <2>3 DEF WholeInv, Channel!chanVars
  <2>4. CASE delivered' = Append(delivered, [msg |-> 0, whole |-> FALSE])
    <3>1. [msg |-> 0, whole |-> FALSE] \in Delivered
      BY DEF Delivered
    <3> QED
      BY <1>7, <2>1, <2>2, <2>4, <3>1 DEF WholeInv, Channel!Next
  <2> QED
    BY <1>9, <2>3, <2>4 DEF ExtractGarbage
<1>10. ASSUME UNCHANGED <<pos, delivered, alive>>
       PROVE  WholeInv' /\ [Channel!Next]_Channel!chanVars
  BY <1>1, <1>4, <1>6, <1>10 DEF WholeInv, Undamaged, Channel!chanVars
<1> QED
  BY <1>2, <1>3, <1>8, <1>9, <1>10 DEF Extract, ChannelInv

LEMMA ChannelSend ==
  ASSUME ChannelInv, NEW len \in DataLens, DeviceSend(len)
  PROVE  ChannelInv' /\ Channel!Produce
<1>1. FramingInv /\ StreamTypeOK
  BY DEF ChannelInv, FramingInv
<1>2. FramingInv'
  BY <1>1, DeviceSendStep
<1>3. /\ sent' = Append(sent, [start |-> total, len |-> len])
      /\ UNCHANGED <<recvd, delivered>>
  BY DEF DeviceSend
<1>4. [start |-> total, len |-> len] \in Sent
  BY <1>1 DEF StreamTypeOK, Sent
<1>5. WholeSegments => Undamaged(Len(delivered))'
  BY <1>3 DEF ChannelInv, WholeInv, Undamaged
<1>6. Len(sent') = Len(sent) + 1 /\ Len(sent) \in Nat
  BY <1>1, <1>3, <1>4 DEF StreamTypeOK
<1>7. ASSUME WholeSegments
      PROVE  Boundary(recvd)'
  <2>1. CASE recvd = total
    <3>1. sent'[Len(sent) + 1].start = total /\ Len(sent) + 1 \in DOMAIN sent'
      BY <1>1, <1>3, <1>4 DEF StreamTypeOK
    <3> QED
      BY <1>3, <2>1, <3>1 DEF Boundary
  <2>2. ASSUME NEW i \in DOMAIN sent, sent[i].start = recvd
        PROVE  Boundary(recvd)'
    <3>1. i \in DOMAIN sent' /\ sent'[i] = sent[i]
      BY <1>1, <1>3, <1>4 DEF StreamTypeOK
    <3> QED
      BY <1>3, <2>2, <3>1 DEF Boundary
  <2> QED
    BY <1>7, <2>1, <2>2 DEF ChannelInv, WholeInv, Boundary
<1> QED
  BY <1>2, <1>3, <1>5, <1>6, <1>7 DEF ChannelInv, WholeInv, Channel!Produce

LEMMA ChannelStep ==
  ASSUME ChannelInv, [StreamNext]_streamVars
  PROVE  ChannelInv' /\ [Channel!Next]_Channel!chanVars
<1>1. ASSUME NEW len \in DataLens, DeviceSend(len)
      PROVE  ChannelInv' /\ [Channel!Next]_Channel!chanVars
  BY <1>1, ChannelSend DEF Channel!Next
<1>2. ASSUME NEW m \in 0..total, Recv(m)
      PROVE  ChannelInv' /\ [Channel!Next]_Channel!chanVars
  BY <1>2, ChannelRecv
<1>3. CASE DeviceClose \/ UNCHANGED streamVars
  <2>1. UNCHANGED <<sent, total, recvd, pos, delivered, alive>>
    BY <1>3 DEF DeviceClose, streamVars
  <2>2. FramingInv'
    BY <1>3, FramingStep DEF ChannelInv, StreamNext
  <2>3. WholeInv'
    BY <2>1 DEF ChannelInv, WholeInv, Undamaged, Boundary
  <2> QED
    BY <2>1, <2>2, <2>3 DEF ChannelInv, Channel!chanVars
<1> QED
  BY <1>1, <1>2, <1>3 DEF StreamNext

LEMMA ChannelInit == StreamInit => ChannelInv /\ Channel!Init
<1> SUFFICES ASSUME StreamInit PROVE ChannelInv /\ Channel!Init
  OBVIOUS
<1>1. Undamaged(Len(delivered)) /\ Boundary(recvd) /\ Channel!Init
  BY DEF StreamInit, Undamaged, Boundary, Channel!Init
<1> QED
  BY <1>1, FramingInit DEF ChannelInv, WholeInv

(* The client gets the messages of the device, complete and in order, up to *)
(* the first that is taken before all of it has been received; if recv()    *)
(* returns whole messages, all of them.                                     *)
THEOREM ChannelImplemented == StreamSpec => ImplementsChannel
  BY ChannelInit, ChannelStep, PTL DEF StreamSpec, ImplementsChannel, Channel!Spec

(* If recv() returns whole messages only, no message loses its data,        *)
(* whatever the lengths and however many messages a recv() returned.        *)
THEOREM WholeMessages ==
  ASSUME WholeSegments
  PROVE  StreamSpec => []OnlyWholeMessages
<1>1. ChannelInv => OnlyWholeMessages
  <2> SUFFICES ASSUME ChannelInv PROVE OnlyWholeMessages
    OBVIOUS
  <2>1. StreamTypeOK /\ Undamaged(Len(delivered))
    BY DEF ChannelInv, FramingInv, WholeInv
  <2> QED
    BY <2>1, IntactIsUndamaged DEF Channel!Intact, OnlyWholeMessages
<1> QED
  BY <1>1, ChannelInit, ChannelStep, PTL DEF StreamSpec

-----------------------------------------------------------------------------
(* The portable queue: what its size counts, and when clear() finds an      *)
(* element                                                                  *)

QueueTypeOK ==
  /\ size \in Int /\ elements \in Nat
  /\ doing \in [Users -> Places]
  /\ puts \in Nat /\ fulls \in Nat /\ empties \in Nat
  /\ raced \subseteq Users

NoneRaised == empties = 0 /\ fulls = 0

\* A user in clear() that has met no other get() found an element, or one being put,
\* and nobody but itself is about to take it.
FoundOne ==
  \A u \in Users \ raced :
    /\ doing[u] = "clear" => Getters = {}
    /\ doing[u] = "take"  => Getters = {u}
    /\ doing[u] \in {"clear", "take"} /\ NoneRaised => elements > 0 \/ Busy("put") # {}

QueueInv == QueueTypeOK /\ SizeCounts /\ FoundOne

-----------------------------------------------------------------------------
\* What a move does to the users at a place.
LEMMA MoveChangesPlaces ==
  ASSUME QueueTypeOK, NEW u \in Users, NEW from \in Places, NEW to \in Places,
         Moves(u, from, to), from # to
  PROVE  /\ u \in Busy(from) /\ u \notin Busy(to)
         /\ Busy(from)' = Busy(from) \ {u}
         /\ Busy(to)' = Busy(to) \cup {u}
         /\ \A at \in Places \ {from, to} : Busy(at)' = Busy(at)
  BY DEF QueueTypeOK, Moves, Busy

LEMMA PlacesAreFinite ==
  /\ \A at : IsFiniteSet(Busy(at)) /\ Cardinality(Busy(at)) \in Nat
  /\ IsFiniteSet(Getters) /\ Cardinality(Getters) \in Nat
<1>1. \A S \in SUBSET Users : IsFiniteSet(S) /\ Cardinality(S) \in Nat
  BY UsersAssumption, FS_Subset, FS_CardinalityType
<1> QED BY <1>1 DEF Busy, Getters

\* One more and one less.
LEMMA OneMore ==
  ASSUME NEW S, IsFiniteSet(S), NEW x
  PROVE  /\ x \notin S => Cardinality(S \cup {x}) = Cardinality(S) + 1
         /\ x \in S => Cardinality(S \ {x}) = Cardinality(S) - 1
  BY FS_AddElement, FS_RemoveElement

-----------------------------------------------------------------------------
LEMMA QueueTypeStep == QueueTypeOK /\ QueueNext => QueueTypeOK'
<1> SUFFICES ASSUME QueueTypeOK, NEW u \in Users,
                    \/ PutCounts(u) \/ PutAdds(u) \/ PutRaises(u)
                    \/ GetCounts(u) \/ GetTakes(u) \/ GetRaises(u)
                    \/ ClearBegins(u) \/ ClearTests(u)
             PROVE  QueueTypeOK'
  BY DEF QueueNext
<1> USE DEF QueueTypeOK, Moves, Places
<1>1. CASE PutCounts(u) BY <1>1 DEF PutCounts
<1>2. CASE PutAdds(u) BY <1>2 DEF PutAdds
<1>8. CASE PutRaises(u) BY <1>8 DEF PutRaises
<1>3. CASE GetCounts(u) BY <1>3 DEF GetCounts, Counted, Busy
<1>4. CASE GetTakes(u) BY <1>4 DEF GetTakes
<1>5. CASE GetRaises(u) BY <1>5 DEF GetRaises
<1>6. CASE ClearBegins(u) BY <1>6 DEF ClearBegins
<1>7. CASE ClearTests(u) BY <1>7 DEF ClearTests, SeemsEmpty
<1> QED BY <1>1, <1>2, <1>3, <1>4, <1>5, <1>6, <1>7, <1>8

LEMMA SizeStep == QueueTypeOK /\ SizeCounts /\ QueueNext => SizeCounts'
<1> SUFFICES ASSUME QueueTypeOK, SizeCounts, NEW u \in Users,
                    \/ PutCounts(u) \/ PutAdds(u) \/ PutRaises(u)
                    \/ GetCounts(u) \/ GetTakes(u) \/ GetRaises(u)
                    \/ ClearBegins(u) \/ ClearTests(u)
             PROVE  SizeCounts'
  BY DEF QueueNext
<1> DEFINE P == Cardinality(Busy("put"))
           G == Cardinality(Getters)
<1>0. P \in Nat /\ G \in Nat
  BY PlacesAreFinite
<1> USE DEF QueueTypeOK, SizeCounts
<1>1. CASE PutCounts(u)
  <2>1. u \notin Busy("put") /\ Busy("put")' = Busy("put") \cup {u} /\ Getters' = Getters
    BY <1>1, MoveChangesPlaces DEF PutCounts, Places, Getters
  <2>2. Cardinality(Busy("put")') = P + 1
    BY <2>1, PlacesAreFinite, OneMore
  <2> QED BY <1>0, <1>1, <2>1, <2>2 DEF PutCounts
<1>2. CASE PutAdds(u)
  <2>1. u \in Busy("put") /\ Busy("put")' = Busy("put") \ {u} /\ Getters' = Getters
    BY <1>2, MoveChangesPlaces DEF PutAdds, Places, Getters
  <2>2. Cardinality(Busy("put")') = P - 1
    BY <2>1, PlacesAreFinite, OneMore
  <2> QED BY <1>0, <1>2, <2>1, <2>2 DEF PutAdds
<1>8. CASE PutRaises(u)
  <2>1. u \in Busy("put") /\ Busy("put")' = Busy("put") \ {u} /\ Getters' = Getters
    BY <1>8, MoveChangesPlaces DEF PutRaises, Places, Getters
  <2>2. Cardinality(Busy("put")') = P - 1
    BY <2>1, PlacesAreFinite, OneMore
  <2> QED BY <1>0, <1>8, <2>1, <2>2 DEF PutRaises
<1>3. CASE GetCounts(u)
  <2>1. u \notin Getters /\ Getters' = Getters \cup {u} /\ Busy("put")' = Busy("put")
    <3>1. CASE Moves(u, "idle", "get")
      BY <3>1, MoveChangesPlaces DEF Places, Getters, Moves, Busy
    <3>2. CASE Moves(u, "clear", "take")
      BY <3>2, MoveChangesPlaces DEF Places, Getters, Moves, Busy
    <3> QED BY <1>3, <3>1, <3>2 DEF GetCounts
  <2>2. Cardinality(Getters') = G + 1
    BY <2>1, PlacesAreFinite, OneMore
  <2> QED BY <1>0, <1>3, <2>1, <2>2 DEF GetCounts, Counted
<1>4. CASE GetTakes(u)
  <2>1. u \in Getters /\ Getters' = Getters \ {u} /\ Busy("put")' = Busy("put")
    <3>1. CASE Moves(u, "get", "idle")
      BY <3>1, MoveChangesPlaces DEF Places, Getters, Moves, Busy
    <3>2. CASE Moves(u, "take", "test")
      BY <3>2, MoveChangesPlaces DEF Places, Getters, Moves, Busy
    <3> QED BY <1>4, <3>1, <3>2 DEF GetTakes
  <2>2. Cardinality(Getters') = G - 1
    BY <2>1, PlacesAreFinite, OneMore
  <2> QED BY <1>0, <1>4, <2>1, <2>2 DEF GetTakes
<1>5. CASE GetRaises(u)
  <2>1. u \in Getters /\ Getters' = Getters \ {u} /\ Busy("put")' = Busy("put")
    <3>1. CASE Moves(u, "get", "idle")
      BY <3>1, MoveChangesPlaces DEF Places, Getters, Moves, Busy
    <3>2. CASE Moves(u, "take", "idle")
      BY <3>2, MoveChangesPlaces DEF Places, Getters, Moves, Busy
    <3> QED BY <1>5, <3>1, <3>2 DEF GetRaises
  <2>2. Cardinality(Getters') = G - 1
    BY <2>1, PlacesAreFinite, OneMore
  <2> QED BY <1>0, <1>5, <2>1, <2>2 DEF GetRaises
<1>6. CASE ClearBegins(u)
  <2>1. Getters' = Getters /\ Busy("put")' = Busy("put")
    BY <1>6, MoveChangesPlaces DEF ClearBegins, Places, Getters
  <2> QED BY <1>6, <2>1 DEF ClearBegins
<1>7. CASE ClearTests(u)
  <2>1. Getters' = Getters /\ Busy("put")' = Busy("put")
    BY <1>7, MoveChangesPlaces DEF ClearTests, Places, Getters
  <2> QED BY <1>7, <2>1 DEF ClearTests
<1> QED BY <1>1, <1>2, <1>3, <1>4, <1>5, <1>6, <1>7, <1>8

LEMMA FoundStep == QueueInv /\ QueueNext => FoundOne'
<1> SUFFICES ASSUME QueueInv, NEW u \in Users,
                    \/ PutCounts(u) \/ PutAdds(u) \/ PutRaises(u)
                    \/ GetCounts(u) \/ GetTakes(u) \/ GetRaises(u)
                    \/ ClearBegins(u) \/ ClearTests(u)
             PROVE  FoundOne'
  BY DEF QueueNext
<1> USE DEF QueueInv, QueueTypeOK, FoundOne, Places
<1>1. CASE PutCounts(u)
  BY <1>1 DEF PutCounts, NoneRaised, Moves, Busy, Getters
<1>2. CASE PutAdds(u)
  BY <1>2 DEF PutAdds, NoneRaised, Moves, Busy, Getters
<1>8. CASE PutRaises(u)
  BY <1>8 DEF PutRaises, NoneRaised, Moves, Busy, Getters
<1>3. CASE GetCounts(u)
  BY <1>3 DEF GetCounts, NoneRaised, Moves, Busy, Getters
<1>4. CASE GetTakes(u)
  BY <1>4 DEF GetTakes, NoneRaised, Moves, Busy, Getters
<1>5. CASE GetRaises(u)
  BY <1>5 DEF GetRaises, NoneRaised, Moves, Busy, Getters
<1>6. CASE ClearBegins(u)
  BY <1>6 DEF ClearBegins, NoneRaised, Moves, Busy, Getters
<1>7. CASE ClearTests(u)
  <2>1. Getters' = Getters /\ Busy("put")' = Busy("put")
    BY <1>7, MoveChangesPlaces DEF ClearTests, Getters
  <2>2. ASSUME Getters = {}, ~SeemsEmpty, NoneRaised
        PROVE  elements > 0 \/ Busy("put") # {}
    <3>1. Cardinality(Getters) = 0 /\ (Busy("put") = {} => Cardinality(Busy("put")) = 0)
      BY <2>2, FS_EmptySet
    <3> QED BY <2>2, <3>1, PlacesAreFinite DEF SizeCounts, SeemsEmpty, NoneRaised
  <2>3. doing'[u] \in {"clear", "take"} /\ u \notin raced' =>
          Getters = {} /\ ~SeemsEmpty /\ doing'[u] = "clear"
    BY <1>7 DEF ClearTests, Moves
  <2>4. \A v \in Users \ {u} : doing'[v] = doing[v] /\ (v \in raced' <=> v \in raced)
    BY <1>7 DEF ClearTests, Moves
  <2>5. elements' = elements /\ NoneRaised' = NoneRaised
    BY <1>7 DEF ClearTests, NoneRaised
  <2> QED BY <2>1, <2>2, <2>3, <2>4, <2>5
<1> QED BY <1>1, <1>2, <1>3, <1>4, <1>5, <1>6, <1>7, <1>8

-----------------------------------------------------------------------------
LEMMA QueueInvariant == QueueSpec => []QueueInv
<1>1. QueueInit => QueueInv
  <2> SUFFICES ASSUME QueueInit PROVE QueueInv OBVIOUS
  <2>1. Busy("put") = {} /\ Getters = {}
    BY DEF QueueInit, Busy, Getters
  <2> QED BY <2>1, FS_EmptySet
          DEF QueueInit, QueueInv, QueueTypeOK, SizeCounts, FoundOne, Places
<1>2. QueueInv /\ [QueueNext]_queueVars => QueueInv'
  <2>1. CASE QueueInv /\ QueueNext
    BY <2>1, QueueTypeStep, SizeStep, FoundStep DEF QueueInv
  <2>2. CASE QueueInv /\ UNCHANGED queueVars
    BY <2>2 DEF QueueInv, QueueTypeOK, SizeCounts, FoundOne, NoneRaised, Busy, Getters, queueVars
  <2> QED BY <2>1, <2>2
<1> QED BY <1>1, <1>2, PTL DEF QueueSpec

\* The size is the number of elements, give or take the calls on their way, less the calls
\* of get() and more the calls of put() that have raised (cross_platform_hacks.py:49-55).
THEOREM SizeCorrect == QueueSpec => []SizeCounts
  BY QueueInvariant, PTL DEF QueueInv

\* clear() does not wait for an element nobody puts, if no get() and no put() has raised
\* and it has met no other get(); for any number of users (cross_platform_hacks.py:49-68).
THEOREM ClearCorrect == QueueSpec => []ClearDoesNotWaitInVain
<1>1. QueueInv => ClearDoesNotWaitInVain
  BY DEF QueueInv, QueueTypeOK, FoundOne, NoneRaised, ClearDoesNotWaitInVain, Busy
<1> QED BY <1>1, QueueInvariant, PTL

-----------------------------------------------------------------------------
(* Discovery: it ends in time and forgets nobody, for any wait_time and any *)
(* timeout of the socket                                                    *)

DiscoveryTypeOK ==
  /\ elapsed \in Nat /\ time_spent \in Nat /\ listening \in Nat
  /\ place \in {"start", "loop", "recv", "closed", "raised"}
  /\ discovered_cbs \in Seq(Nodes) /\ heard \in Seq(Nodes)

\* The time looked at is never older than one timeout, and was not over in the round
\* before the last.
TimeIsKnown ==
  /\ time_spent < WaitTime + Second
  /\ elapsed <= time_spent + Second
  /\ place = "recv" => elapsed = time_spent + listening /\ listening <= Second
  /\ place = "closed" => elapsed >= WaitTime
  /\ time_spent <= elapsed

AllFound ==
  IsInjective(discovered_cbs) /\ ToSet(discovered_cbs) = ToSet(heard)

DiscoveryInv == DiscoveryTypeOK /\ TimeIsKnown /\ AllFound

-----------------------------------------------------------------------------
\* What appending does to the elements of a sequence.
LEMMA Appended ==
  ASSUME NEW S, NEW s \in Seq(S), NEW e \in S
  PROVE  /\ Append(s, e) \in Seq(S)
         /\ ToSet(Append(s, e)) = ToSet(s) \cup {e}
         /\ Contains(s, e) <=> e \in ToSet(s)
         /\ IsInjective(s) /\ ~Contains(s, e) => IsInjective(Append(s, e))
<1>1. /\ Append(s, e) \in Seq(S) /\ Len(Append(s, e)) = Len(s) + 1 /\ Len(s) \in Nat
      /\ \A i \in 1..Len(s) : Append(s, e)[i] = s[i]
      /\ Append(s, e)[Len(s) + 1] = e
      /\ DOMAIN s = 1..Len(s) /\ DOMAIN Append(s, e) = 1..(Len(s) + 1)
  OBVIOUS
<1>2. ToSet(Append(s, e)) = ToSet(s) \cup {e}
  BY <1>1 DEF ToSet
<1>3. Contains(s, e) <=> e \in ToSet(s)
  BY <1>1 DEF Contains, ToSet
<1>4. IsInjective(s) /\ ~Contains(s, e) => IsInjective(Append(s, e))
  BY <1>1 DEF IsInjective, Contains
<1> QED BY <1>1, <1>2, <1>3, <1>4

LEMMA TypeStep == DiscoveryTypeOK /\ DiscoveryNext => DiscoveryTypeOK'
<1> SUFFICES ASSUME DiscoveryTypeOK, DiscoveryNext PROVE DiscoveryTypeOK'
  OBVIOUS
<1> USE DEF DiscoveryTypeOK
<1>1. CASE BindFails \/ Bind \/ TimesOut \/ LoopEnds \/ Garbled
  BY <1>1 DEF BindFails, Bind, TimesOut, LoopEnds, Garbled
<1>2. CASE LoopBegins \/ Tick
  BY <1>2 DEF LoopBegins, Sampled, Tick
<1>3. ASSUME NEW node \in Nodes, Announced(node) PROVE DiscoveryTypeOK'
  BY <1>3, Appended DEF Announced
<1> QED BY <1>1, <1>2, <1>3 DEF DiscoveryNext

LEMMA TimeStep == DiscoveryTypeOK /\ TimeIsKnown /\ DiscoveryNext => TimeIsKnown'
<1> SUFFICES ASSUME DiscoveryTypeOK, TimeIsKnown, DiscoveryNext PROVE TimeIsKnown'
  OBVIOUS
<1> USE TimesAssumption DEF DiscoveryTypeOK, TimeIsKnown
<1>1. CASE BindFails \/ Bind \/ TimesOut \/ Garbled
  BY <1>1 DEF BindFails, Bind, TimesOut, Garbled
<1>2. CASE LoopBegins
  BY <1>2 DEF LoopBegins, Goes, Sampled
<1>3. CASE LoopEnds
  BY <1>3 DEF LoopEnds, Goes
<1>4. CASE Tick
  BY <1>4 DEF Tick
<1>5. ASSUME NEW node \in Nodes, Announced(node) PROVE TimeIsKnown'
  BY <1>5 DEF Announced
<1> QED BY <1>1, <1>2, <1>3, <1>4, <1>5 DEF DiscoveryNext

LEMMA ListStep == DiscoveryTypeOK /\ AllFound /\ DiscoveryNext => AllFound'
<1> SUFFICES ASSUME DiscoveryTypeOK, AllFound, DiscoveryNext PROVE AllFound'
  OBVIOUS
<1>1. ASSUME NEW node \in Nodes, Announced(node) PROVE AllFound'
  <2>1. heard \in Seq(Nodes) /\ discovered_cbs \in Seq(Nodes)
    BY DEF DiscoveryTypeOK
  <2>2. /\ ToSet(heard') = ToSet(heard) \cup {node}
        /\ ToSet(Append(discovered_cbs, node)) = ToSet(discovered_cbs) \cup {node}
        /\ Contains(discovered_cbs, node) <=> node \in ToSet(discovered_cbs)
    BY <1>1, <2>1, Appended DEF Announced
  <2>3. CASE IsNew(node)
    BY <1>1, <2>1, <2>2, <2>3, Appended DEF Announced, AllFound, IsNew
  <2>4. CASE ~IsNew(node)
    BY <1>1, <2>2, <2>4 DEF Announced, AllFound, IsNew
  <2> QED BY <2>3, <2>4
<1>2. CASE UNCHANGED <<discovered_cbs, heard>>
  BY <1>2 DEF AllFound
<1> QED BY <1>1, <1>2 DEF DiscoveryNext, BindFails, Bind, LoopBegins, LoopEnds, Tick,
                          TimesOut, Garbled

-----------------------------------------------------------------------------
\* For any wait_time and any timeout, discovery goes on for less than two timeouts more
\* than asked for, not for less than asked for, and its list has every CANBadger that has
\* announced itself, once (canbadger_connection_process.py:44-59).
THEOREM DiscoveryCorrect == DiscoverySpec => []FindsAllInTime
<1>1. DiscoveryInit => DiscoveryInv
  BY TimesAssumption
     DEF DiscoveryInit, DiscoveryInv, DiscoveryTypeOK, TimeIsKnown, AllFound, IsInjective, ToSet
<1>2. DiscoveryInv /\ [DiscoveryNext]_discoveryVars => DiscoveryInv'
  <2>1. CASE DiscoveryInv /\ DiscoveryNext
    BY <2>1, TypeStep, TimeStep, ListStep DEF DiscoveryInv
  <2>2. CASE DiscoveryInv /\ UNCHANGED discoveryVars
    BY <2>2 DEF DiscoveryInv, DiscoveryTypeOK, TimeIsKnown, AllFound, discoveryVars
  <2> QED BY <2>1, <2>2
<1>3. DiscoveryInv => FindsAllInTime
  BY TimesAssumption
     DEF DiscoveryInv, DiscoveryTypeOK, TimeIsKnown, AllFound, FindsAllInTime
<1> QED BY <1>1, <1>2, <1>3, PTL DEF DiscoverySpec

-----------------------------------------------------------------------------
(* Reception of frames: how long receive_canframe() waits, for any timeout  *)

TimesTypeOK ==
  /\ stage \in {"idle", "check", "get"}
  /\ asked \in [ids : SUBSET CanIds, timeout : Nat]
  /\ waited \in Nat /\ since \in Nat /\ skipped \in Nat

\* Timeouts of n messages.  The provers see it as an operator of which OneTimeoutMore
\* says all they need.
Cost(n, t) == n * t

\* What a call has waited is a timeout for each message it has passed over, and what it
\* waits now; a call that goes on has come to nothing yet.
WaitedPerMessage ==
  /\ since <= asked.timeout
  /\ waited <= Cost(skipped, asked.timeout) + since
  /\ stage # "idle" => got = "nothing yet"
  /\ got = "timeout" => since = asked.timeout

ReceptionInv == TimesTypeOK /\ WaitedPerMessage

-----------------------------------------------------------------------------
LEMMA OneTimeoutMore ==
  ASSUME NEW n \in Nat, NEW t \in Nat
  PROVE  Cost(n, t) \in Nat /\ Cost(n + 1, t) = Cost(n, t) + t /\ Cost(0, t) = 0
  BY SMT DEF Cost

\* What a call has waited, w, after a tick, and after a message it passes over.
LEMMA Waiting ==
  ASSUME NEW w \in Nat, NEW s \in Nat, NEW n \in Nat, NEW t \in Nat,
         s <= t, w <= Cost(n, t) + s
  PROVE  /\ w + 1 <= Cost(n, t) + (s + 1)
         /\ s # t => s + 1 <= t
         /\ w <= Cost(n + 1, t) + 0
         /\ w <= Cost(n + 1, t)
<1> DEFINE c == Cost(n, t)
           d == Cost(n + 1, t)
<1>1. c \in Nat /\ d = c + t
  BY OneTimeoutMore
<1>2. w <= c + s
  OBVIOUS
<1> HIDE DEF c, d
<1>3. /\ w + 1 <= c + (s + 1) /\ w <= d + 0 /\ w <= d
      /\ s # t => s + 1 <= t
  BY <1>1, <1>2
<1> QED BY <1>3 DEF c, d

LEMMA Numbers ==
  ReceptionInv => /\ waited \in Nat /\ since \in Nat /\ skipped \in Nat
                  /\ asked.timeout \in Nat
                  /\ since <= asked.timeout
                  /\ waited <= Cost(skipped, asked.timeout) + since
  BY DEF ReceptionInv, TimesTypeOK, WaitedPerMessage

LEMMA ReceptionStep == ReceptionInv /\ ReceptionNext => ReceptionInv'
<1> SUFFICES ASSUME ReceptionInv, ReceptionNext PROVE ReceptionInv'
  OBVIOUS
<1>1. ASSUME NEW m \in Messages, MessageComes(m) PROVE ReceptionInv'
  BY <1>1 DEF MessageComes, ReceptionInv, TimesTypeOK, WaitedPerMessage
<1>2. CASE Disconnected
  BY <1>2 DEF Disconnected, ReceptionInv, TimesTypeOK, WaitedPerMessage
<1>3. ASSUME NEW ids \in Filters, NEW timeout \in Timeouts, ReceiveCanframe(ids, timeout)
      PROVE  ReceptionInv'
  <2>1. ids \in SUBSET CanIds /\ timeout \in Nat
    BY ReceptionAssumption
  <2>2. asked' \in [ids : SUBSET CanIds, timeout : Nat] /\ asked'.timeout = timeout
    BY <1>3, <2>1 DEF ReceiveCanframe
  <2>3. 0 <= timeout /\ 0 <= Cost(0, timeout) + 0
    BY <2>1, OneTimeoutMore
  <2>4. TimesTypeOK'
    BY <1>3, <2>2 DEF ReceiveCanframe, TimesTypeOK
  <2> QED BY <1>3, <2>2, <2>3, <2>4 DEF ReceiveCanframe, ReceptionInv, WaitedPerMessage
<1>4. CASE StatusIsConnected \/ StatusIsNot \/ ReceivesFrame \/ IdIsMissing
  BY <1>4 DEF StatusIsConnected, StatusIsNot, ReceivesFrame, IdIsMissing, Takes, Result,
              ReceptionInv, TimesTypeOK, WaitedPerMessage
<1>5. CASE TimePasses
  <2>1. /\ asked' = asked /\ skipped' = skipped /\ stage' = stage /\ got' = got
        /\ since' = since + 1 /\ waited' = waited + 1
        /\ stage = "get" /\ since # asked.timeout
    BY <1>5 DEF TimePasses, TimeIsUp
  <2>2. TimesTypeOK'
    BY <2>1 DEF ReceptionInv, TimesTypeOK
  <2>3. since' <= asked.timeout /\ waited' <= Cost(skipped, asked.timeout) + since'
    BY <2>1, Numbers, Waiting, SMTT(30)
  <2> QED BY <2>1, <2>2, <2>3 DEF ReceptionInv, WaitedPerMessage
<1>6. CASE ReceivesNothing
  BY <1>6 DEF ReceivesNothing, Result, TimeIsUp, ReceptionInv, TimesTypeOK, WaitedPerMessage
<1>7. CASE PassesOver
  <2>1. /\ asked' = asked /\ skipped' = skipped + 1 /\ stage' = "check" /\ got' = got
        /\ since' = 0 /\ waited' = waited /\ stage = "get"
    BY <1>7 DEF PassesOver, Takes
  <2>2. TimesTypeOK'
    BY <2>1 DEF ReceptionInv, TimesTypeOK
  <2>3. 0 <= asked.timeout /\ waited' <= Cost(skipped', asked.timeout) + since'
    BY <2>1, Numbers, Waiting
  <2> QED BY <2>1, <2>2, <2>3 DEF ReceptionInv, WaitedPerMessage
<1> QED BY <1>1, <1>2, <1>3, <1>4, <1>5, <1>6, <1>7 DEF ReceptionNext

-----------------------------------------------------------------------------
\* For any timeout, filter and traffic: receive_canframe() waits for one timeout per
\* message it passes over and one more, and gives up only after a whole one
\* (canbadger.py:127-181).
THEOREM ReceptionCorrect == ReceptionSpec => []OneTimeoutPerMessage
<1>1. ReceptionInit => ReceptionInv
  <2> SUFFICES ASSUME ReceptionInit PROVE ReceptionInv OBVIOUS
  <2>1. asked \in [ids : SUBSET CanIds, timeout : Nat] /\ asked.timeout = 0
    BY DEF ReceptionInit
  <2>2. TimesTypeOK
    BY <2>1 DEF ReceptionInit, TimesTypeOK
  <2>3. since <= asked.timeout /\ waited <= Cost(skipped, asked.timeout) + since
    <3>1. waited = 0 /\ since = 0 /\ skipped = 0 /\ asked.timeout = 0
      BY <2>1 DEF ReceptionInit
    <3>2. 0 <= Cost(0, 0) + 0
      BY OneTimeoutMore
    <3> QED BY <3>1, <3>2
  <2> QED BY <2>1, <2>2, <2>3 DEF ReceptionInit, ReceptionInv, WaitedPerMessage
<1>2. ReceptionInv /\ [ReceptionNext]_receptionVars => ReceptionInv'
  <2>1. CASE UNCHANGED receptionVars
    BY <2>1 DEF receptionVars, ReceptionInv, TimesTypeOK, WaitedPerMessage
  <2> QED BY <2>1, ReceptionStep
<1>3. ReceptionInv => OneTimeoutPerMessage
  <2> SUFFICES ASSUME ReceptionInv PROVE OneTimeoutPerMessage OBVIOUS
  <2>1. waited <= Cost(skipped + 1, asked.timeout)
    BY Numbers, Waiting
  <2>2. got = "timeout" => since >= asked.timeout
    BY Numbers DEF ReceptionInv, WaitedPerMessage
  <2> QED BY <2>1, <2>2 DEF OneTimeoutPerMessage, Cost
<1> QED BY <1>1, <1>2, <1>3, PTL DEF ReceptionSpec
-----------------------------------------------------------------------------
(* Loops over a log, for any number of loops and events *)

Items == Events \cup {"text", "dict"}

LogTypeOK ==
  /\ logged \in Seq(Items)
  /\ current_iter_index \in Nat
  /\ going \subseteq Loops /\ met \subseteq Loops
  /\ file \in Seq(Entries)
  /\ seen \in [Loops -> Seq(Items)]

\* A loop that has met no other is the only one: the index is where it is.
LoneLoop == \A l \in going \ met : going = {l}

LogInv == LogTypeOK /\ LoneLoop /\ LoopSeesEveryEvent

\* The first n elements of a sequence, after one has been appended, and one more of them.
LEMMA FirstElements ==
  ASSUME NEW S, NEW s \in Seq(S), NEW n \in Nat, n <= Len(s)
  PROVE  /\ \A e \in S : SubSeq(Append(s, e), 1, n) = SubSeq(s, 1, n)
         /\ n < Len(s) => Append(SubSeq(s, 1, n), s[n + 1]) = SubSeq(s, 1, n + 1)
         /\ SubSeq(s, 1, 0) = <<>>
<1>1. \A e \in S : SubSeq(Append(s, e), 1, n) = SubSeq(s, 1, n)
  OBVIOUS
<1>2. n < Len(s) => Append(SubSeq(s, 1, n), s[n + 1]) = SubSeq(s, 1, n + 1)
  OBVIOUS
<1>3. SubSeq(s, 1, 0) = <<>>
  OBVIOUS
<1> QED BY <1>1, <1>2, <1>3

LEMMA MappedIsSeq ==
  ASSUME NEW S, NEW n \in Nat, NEW f \in [1..n -> S] PROVE f \in Seq(S)
  OBVIOUS

LEMMA LogTypeStep == LogTypeOK /\ LogNext => LogTypeOK'
<1> SUFFICES ASSUME LogTypeOK, LogNext PROVE LogTypeOK'
  OBVIOUS
<1> USE DEF LogTypeOK
<1>1. ASSUME NEW e \in Events, LogEvent(e) PROVE LogTypeOK'
  BY <1>1 DEF LogEvent, Items
<1>2. ASSUME NEW l \in Loops, IterBegins(l) PROVE LogTypeOK'
  BY <1>2 DEF IterBegins, FirstOfLoop
<1>3. ASSUME NEW l \in Loops, IterGets(l) PROVE LogTypeOK'
  BY <1>3 DEF IterGets
<1>4. ASSUME NEW l \in Loops, IterEnds(l) PROVE LogTypeOK'
  BY <1>4 DEF IterEnds
<1>5. CASE Save
  <2>1. \A e : Saved(e) \in Entries
    BY Zenon DEF Saved, Entries
  <2>2. file' \in [1..Len(logged) -> Entries]
    BY <1>5, <2>1 DEF Save
  <2> QED BY <1>5, <2>2, MappedIsSeq DEF Save
<1>6. CASE Load
  <2>1. ASSUME NEW i \in 1..Len(file) PROVE Parsed(file[i]) \in Items
    <3>1. file[i] \in Entries /\ i \in DOMAIN file
      OBVIOUS
    <3>2. file[i] # "frame object"
      BY <1>6, <3>1, Zenon DEF Load, ToSet
    <3>3. \A entry \in {"string", "named object", "object"} : Parsed(entry) \in Items
      BY DEF Parsed, Items, Events
    <3>4. Entries \ {"frame object"} = {"string", "named object", "object"}
      BY DEF Entries
    <3> QED BY <3>1, <3>2, <3>3, <3>4
  <2>2. DOMAIN file = 1..Len(file)
    OBVIOUS
  <2>3. logged' = [i \in 1..Len(file) |-> Parsed(file[i])]
    BY <1>6, <2>2 DEF Load
  <2>4. logged' \in Seq(Items)
    BY <2>1, <2>3, MappedIsSeq
  <2>5. /\ file' = file /\ current_iter_index' = 0 /\ going' = {} /\ met' = {}
        /\ seen' = [l \in Loops |-> <<>>]
    BY <1>6 DEF Load
  <2> QED BY <2>4, <2>5
<1>7. ASSUME NEW e \in Entries, ForeignFile(<<e>>) PROVE LogTypeOK'
  BY <1>7 DEF ForeignFile
<1> QED BY <1>1, <1>2, <1>3, <1>4, <1>5, <1>6, <1>7 DEF LogNext

LEMMA LoopStep == LogInv /\ LogNext => LoneLoop' /\ LoopSeesEveryEvent'
<1> SUFFICES ASSUME LogInv, LogNext PROVE LoneLoop' /\ LoopSeesEveryEvent'
  OBVIOUS
<1> USE DEF LogInv, LogTypeOK, LoneLoop, LoopSeesEveryEvent
<1>1. ASSUME NEW e \in Events, LogEvent(e) PROVE LoneLoop' /\ LoopSeesEveryEvent'
  <2>1. current_iter_index <= Len(logged) =>
          SubSeq(logged', 1, current_iter_index) = SubSeq(logged, 1, current_iter_index)
    BY <1>1, FirstElements DEF LogEvent, Items
  <2>2. Len(logged') = Len(logged) + 1
    BY <1>1 DEF LogEvent
  <2> QED BY <1>1, <2>1, <2>2 DEF LogEvent
<1>2. ASSUME NEW l \in Loops, IterBegins(l) PROVE LoneLoop' /\ LoopSeesEveryEvent'
  <2>1. going' \ met' \subseteq {l} /\ (l \notin met' => going' = {l})
    BY <1>2 DEF IterBegins
  <2>2. seen'[l] = <<>> /\ SubSeq(logged', 1, current_iter_index') = <<>>
        /\ current_iter_index' <= Len(logged')
    BY <1>2, FirstElements DEF IterBegins, FirstOfLoop
  <2> QED BY <2>1, <2>2
<1>3. ASSUME NEW l \in Loops, IterGets(l) PROVE LoneLoop' /\ LoopSeesEveryEvent'
  <2>1. l \notin met =>
          seen'[l] = SubSeq(logged', 1, current_iter_index')
          /\ current_iter_index' <= Len(logged')
    BY <1>3, FirstElements DEF IterGets
  <2> QED BY <1>3, <2>1 DEF IterGets
<1>4. ASSUME NEW l \in Loops, IterEnds(l) PROVE LoneLoop' /\ LoopSeesEveryEvent'
  BY <1>4 DEF IterEnds
<1>5. CASE Save \/ (\E e \in Entries : ForeignFile(<<e>>))
  BY <1>5 DEF Save, ForeignFile
<1>6. CASE Load
  BY <1>6 DEF Load
<1> QED BY <1>1, <1>2, <1>3, <1>4, <1>5, <1>6 DEF LogNext

\* A loop over a log that no other loop has met gets every event once and in order, also
\* those logged meanwhile, for any number of loops one after the other (log.py:83-93).
THEOREM LoopCorrect == LogSpec => []LoopSeesEveryEvent
<1>1. LogInit => LogInv
  BY DEF LogInit, LogInv, LogTypeOK, LoneLoop, LoopSeesEveryEvent
<1>2. LogInv /\ [LogNext]_logVars => LogInv'
  <2>1. CASE LogInv /\ LogNext
    BY <2>1, LogTypeStep, LoopStep DEF LogInv
  <2>2. CASE LogInv /\ UNCHANGED logVars
    BY <2>2 DEF LogInv, LogTypeOK, LoneLoop, LoopSeesEveryEvent, logVars
  <2> QED BY <2>1, <2>2
<1>3. LogInv => LoopSeesEveryEvent
  BY DEF LogInv
<1> QED BY <1>1, <1>2, <1>3, PTL DEF LogSpec
-----------------------------------------------------------------------------
(* Settings, for any calls of the setters, and messages cut off anywhere *)

Chars       == [text : {"id", "not ascii", "ip", "length"}, at : Nat]
PackedBytes == [word : SUBSET Nat, at : 1..24]
RawBytes    == Chars \cup PackedBytes

SettingsTypeOK ==
  /\ settings \in [id : Seq(Chars), ip : Seq(Chars), words : [Words -> SUBSET Nat]]
  /\ Len(settings.id) <= 18

\* The names with which the address is written, and the settings as they are written.
Short(s)  == 1 <= Len(s.id) /\ Len(s.id) <= 15
IpPart(s) == IF Short(s) THEN s.ip ELSE <<>>

ReadAsWritten ==
  /\ arrived \notin {"wrong", "refused"}
  /\ arrived = "no_ip" => ~Short(settings)

SettingsInv == SettingsTypeOK /\ ReadAsWritten

LEMMA Concatenated ==
  ASSUME NEW S, NEW s \in Seq(S), NEW t \in Seq(S)
  PROVE  /\ s \o t \in Seq(S) /\ Len(s \o t) = Len(s) + Len(t)
         /\ \A i \in 1..Len(s) : (s \o t)[i] = s[i]
         /\ \A i \in 1..Len(t) : (s \o t)[Len(s) + i] = t[i]
  OBVIOUS

\* A message, and where its parts are.
Joined(a, s, b, t, u) == <<a>> \o s \o <<b>> \o t \o u

PartsAt(S, raw, a, s, b, t, u) ==
  /\ raw \in Seq(S) /\ Len(raw) = 2 + Len(s) + Len(t) + Len(u)
  /\ raw[1] = a /\ raw[Len(s) + 2] = b
  /\ SubSeq(raw, 2, Len(s) + 1) = s
  /\ SubSeq(raw, Len(s) + 3, Len(s) + Len(t) + 2) = t
  /\ \A i \in 1..Len(u) : raw[Len(s) + Len(t) + 2 + i] = u[i]

LEMMA PartsOfMessage ==
  ASSUME NEW S, NEW a \in S, NEW s \in Seq(S), NEW b \in S, NEW t \in Seq(S), NEW u \in Seq(S)
  PROVE  PartsAt(S, Joined(a, s, b, t, u), a, s, b, t, u)
<1>0. SUFFICES ASSUME NEW raw, raw = Joined(a, s, b, t, u)
               PROVE  PartsAt(S, raw, a, s, b, t, u)
  OBVIOUS
<1> DEFINE r1 == <<a>> \o s
           r2 == r1 \o <<b>>
           r3 == r2 \o t
<1>1. /\ r1 \in Seq(S) /\ Len(r1) = 1 + Len(s) /\ r1[1] = a
      /\ \A i \in 1..Len(s) : r1[1 + i] = s[i]
  OBVIOUS
<1> HIDE DEF r1
<1>2. /\ r2 \in Seq(S) /\ Len(r2) = Len(s) + 2 /\ r2[Len(s) + 2] = b
      /\ \A i \in 1..(Len(s) + 1) : r2[i] = r1[i]
  BY <1>1
<1> HIDE DEF r2
<1>3. /\ r3 \in Seq(S) /\ Len(r3) = Len(s) + Len(t) + 2
      /\ \A i \in 1..(Len(s) + 2) : r3[i] = r2[i]
      /\ \A i \in 1..Len(t) : r3[Len(s) + 2 + i] = t[i]
  <2>1. /\ r3 \in Seq(S) /\ Len(r3) = Len(r2) + Len(t)
        /\ \A i \in 1..Len(r2) : r3[i] = r2[i]
        /\ \A i \in 1..Len(t) : r3[Len(r2) + i] = t[i]
    <3>1. r2 \in Seq(S)
      BY <1>2
    <3> QED BY <3>1, Concatenated
  <2> HIDE DEF r3
  <2> QED BY <1>2, <2>1
<1> HIDE DEF r3
<1>4. raw = r3 \o u
  BY <1>0 DEF r1, r2, r3, Joined
<1>5. /\ raw \in Seq(S) /\ Len(raw) = Len(s) + Len(t) + 2 + Len(u)
      /\ \A i \in 1..(Len(s) + Len(t) + 2) : raw[i] = r3[i]
      /\ \A i \in 1..Len(u) : raw[Len(s) + Len(t) + 2 + i] = u[i]
  <2>1. /\ raw \in Seq(S) /\ Len(raw) = Len(r3) + Len(u)
        /\ \A i \in 1..Len(r3) : raw[i] = r3[i]
        /\ \A i \in 1..Len(u) : raw[Len(r3) + i] = u[i]
    <3>1. r3 \in Seq(S)
      BY <1>3
    <3> QED BY <1>4, <3>1, Concatenated
  <2> QED BY <1>3, <2>1
<1> DEFINE n == Len(s)
           m == Len(t)
<1>6. n \in Nat /\ m \in Nat
  OBVIOUS
<1>7. /\ r1[1] = a /\ \A i \in 1..n : r1[1 + i] = s[i]
      /\ r2[n + 2] = b /\ \A i \in 1..(n + 1) : r2[i] = r1[i]
      /\ \A i \in 1..(n + 2) : r3[i] = r2[i]
      /\ \A i \in 1..m : r3[n + 2 + i] = t[i]
      /\ \A i \in 1..(n + m + 2) : raw[i] = r3[i]
  BY <1>1, <1>2, <1>3, <1>5
<1>8. Len(raw) = n + m + 2 + Len(u) /\ Len(u) \in Nat
  BY <1>5
<1> HIDE DEF n, m
<1>9. raw[1] = a /\ raw[n + 2] = b
  BY <1>6, <1>7
<1>10. \A i \in 1..n : raw[1 + i] = s[i]
  BY <1>6, <1>7
<1>11. \A i \in 1..m : raw[n + 2 + i] = t[i]
  BY <1>6, <1>7
<1>12. SubSeq(raw, 2, n + 1) = s
  BY <1>5, <1>6, <1>8, <1>10 DEF n
<1>13. SubSeq(raw, n + 3, n + m + 2) = t
  BY <1>5, <1>6, <1>8, <1>11 DEF m
<1> QED BY <1>5, <1>9, <1>12, <1>13 DEF PartsAt, n, m

LEMMA ShortOnes ==
  ASSUME NEW s, Len(s.id) \in Nat
  PROVE  /\ IpIsWritten(s) <=> Short(s)
         /\ Len(s.id) \notin 1..15 <=> ~Short(s)
<1>1. \A n \in Nat : n \in 1..15 <=> 1 <= n /\ n <= 15
  OBVIOUS
<1> QED BY <1>1, Zenon DEF IpIsWritten, Short

LEMMA IpPartIsAll ==
  ASSUME NEW s
  PROVE  (Short(s) => IpPart(s) = s.ip) /\ (~Short(s) => IpPart(s) = <<>>)
<1>1. ASSUME Short(s) PROVE IpPart(s) = s.ip
  BY <1>1, SMT DEF IpPart
<1>2. ASSUME ~Short(s) PROVE IpPart(s) = <<>>
  BY <1>2, Zenon DEF IpPart
<1> QED BY <1>1, <1>2

LEMMA WhereTheNumbersAre ==
  ASSUME NEW ws \in [Words -> SUBSET Nat]
  PROVE  /\ Packed(ws) \in Seq(RawBytes) /\ Len(Packed(ws)) = 24
         /\ \A w \in Words : Packed(ws)[4 * w].word = ws[w]
<1>1. \A i \in 1..24 : 1 + (i - 1) \div 4 \in 1..6
  OBVIOUS
<1>2. \A i \in 1..24 : [word |-> ws[1 + (i - 1) \div 4], at |-> i] \in RawBytes
  BY <1>1 DEF RawBytes, PackedBytes, Words
<1>3. Packed(ws) \in Seq(RawBytes) /\ Len(Packed(ws)) = 24
  BY <1>2 DEF Packed
<1>4. \A w \in Words : 4 * w \in 1..24 /\ 1 + (4 * w - 1) \div 4 = w
  BY DEF Words
<1>5. \A w \in Words : Packed(ws)[4 * w].word = ws[w]
  BY <1>4 DEF Packed
<1> QED BY <1>3, <1>5

LEMMA TextIsChars ==
  ASSUME NEW n \in Nat
  PROVE  /\ \A of \in {"id", "not ascii"} :
              Text(of, n) \in Seq(Chars) /\ Len(Text(of, n)) = n
         /\ Text("ip", n) \in Seq(Chars) /\ Len(Text("ip", n)) = n
         /\ LengthByte(n) = <<[text |-> "length", at |-> n]>>
  BY DEF Text, LengthByte, Chars

LEMMA LengthIsChar ==
  \A n \in Nat : [text |-> "length", at |-> n] \in Chars
  BY DEF Chars

LEMMA UpTo == \A n, m \in Nat : n <= m => n \in 0..m
  OBVIOUS

LEMMA EmptyOrSame ==
  ASSUME NEW S, NEW t \in Seq(S), NEW s, s = t \/ s = <<>>
  PROVE  s \in Seq(S) /\ Len(s) \in Nat
<1>1. CASE s = t
  BY <1>1
<1>2. CASE s = <<>>
  <2>1. <<>> \in Seq(S) /\ Len(<<>>) = 0
    OBVIOUS
  <2> QED BY <1>2, <2>1
<1> QED BY <1>1, <1>2

LEMMA MessageOfSettings ==
  ASSUME SettingsTypeOK
  PROVE  LET raw == Serialized(settings)
             n   == Len(settings.id)
             m   == Len(IpPart(settings))
         IN  /\ raw \in Seq(RawBytes) /\ Len(raw) = 26 + n + m
             /\ n \in 0..18 /\ m \in Nat
             /\ raw[1].at = n /\ raw[n + 2].at = m
             /\ SubSeq(raw, 2, n + 1) = settings.id
             /\ SubSeq(raw, n + 3, n + m + 2) = IpPart(settings)
             /\ \A w \in Words : raw[n + m + 2 + 4 * w].word = settings.words[w]
<1> DEFINE id == settings.id
           ip == IpPart(settings)
           a  == [text |-> "length", at |-> Len(id)]
           b  == [text |-> "length", at |-> Len(ip)]
           u  == Packed(settings.words)
           raw == Serialized(settings)
<1>1. /\ id \in Seq(Chars) /\ ip \in Seq(Chars) /\ Len(id) \in 0..18 /\ Len(ip) \in Nat
      /\ settings.words \in [Words -> SUBSET Nat]
  <2>1. /\ settings.id \in Seq(Chars) /\ settings.ip \in Seq(Chars) /\ Len(settings.id) <= 18
        /\ settings.words \in [Words -> SUBSET Nat]
    BY DEF SettingsTypeOK
  <2>2. ip = settings.ip \/ ip = <<>>
    BY IpPartIsAll
  <2>3. ip \in Seq(Chars) /\ Len(ip) \in Nat
    BY <2>1, <2>2, EmptyOrSame
  <2>4. Len(settings.id) \in Nat
    BY <2>1, EmptyOrSame
  <2>5. Len(settings.id) \in 0..18
    BY <2>1, <2>4, UpTo
  <2> QED BY <2>1, <2>3, <2>5
<1>2. id \in Seq(RawBytes) /\ ip \in Seq(RawBytes)
  BY <1>1 DEF RawBytes
<1>3. a \in RawBytes /\ b \in RawBytes
  BY <1>1, LengthIsChar DEF RawBytes
<1>4. u \in Seq(RawBytes) /\ Len(u) = 24 /\ \A w \in Words : u[4 * w].word = settings.words[w]
  BY <1>1, WhereTheNumbersAre
<1>5. (IF IdIsWritten(settings) THEN settings.id ELSE <<>>) = id
  BY <1>1 DEF IdIsWritten
<1>6. raw = <<a>> \o id \o <<b>> \o ip \o u
  <2>1. (IF IpIsWritten(settings) THEN settings.ip ELSE <<>>) = ip
    <3>1. IpIsWritten(settings) <=> Short(settings)
      BY <1>1, ShortOnes
    <3>2. CASE Short(settings)
      BY <3>1, <3>2, SMT DEF IpPart
    <3>3. CASE ~Short(settings)
      BY <3>1, <3>3, Zenon DEF IpPart
    <3> QED BY <3>2, <3>3
  <2> QED BY <1>5, <2>1 DEF Serialized, LengthByte
<1>7. \A w \in Words : 4 * w \in 1..24
  BY DEF Words
<1>10. a.at = Len(id) /\ b.at = Len(ip)
  OBVIOUS
<1> HIDE DEF id, ip, u, raw, a, b
<1>8. PartsAt(RawBytes, raw, a, id, b, ip, u)
  <2>1. u \in Seq(RawBytes)
    BY <1>4
  <2>2. raw = Joined(a, id, b, ip, u)
    BY <1>6 DEF Joined
  <2> QED BY <1>2, <1>3, <2>1, <2>2, PartsOfMessage
<1>9. \A w \in Words : raw[Len(id) + Len(ip) + 2 + 4 * w].word = settings.words[w]
  <2>1. \A i \in 1..24 : raw[Len(id) + Len(ip) + 2 + i] = u[i]
    BY <1>4, <1>8 DEF PartsAt
  <2> QED BY <1>4, <1>7, <2>1
<1>11. Len(raw) = 26 + Len(id) + Len(ip)
  <2>1. Len(raw) = 2 + Len(id) + Len(ip) + Len(u)
    BY <1>8 DEF PartsAt
  <2> QED BY <1>1, <1>4, <2>1
<1> QED BY <1>1, <1>8, <1>9, <1>10, <1>11 DEF PartsAt, id, ip, raw

\* The first `cut' bytes of a message can be read only if they are all of it.
LEMMA OnlyWholeMessagesAreRead ==
  ASSUME SettingsTypeOK, NEW cut \in 0..Len(Serialized(settings)),
         Readable(SubSeq(Serialized(settings), 1, cut))
  PROVE  cut = Len(Serialized(settings))
<1> DEFINE full == Serialized(settings)
           raw  == SubSeq(full, 1, cut)
           n    == Len(settings.id)
           m    == Len(IpPart(settings))
<1>1. /\ full \in Seq(RawBytes) /\ Len(full) = 26 + n + m /\ n \in Nat /\ m \in Nat
      /\ full[1].at = n /\ full[n + 2].at = m
  BY MessageOfSettings
<1>2. Readable(raw) /\ cut \in 0..Len(full)
  OBVIOUS
<1> HIDE DEF full, n, m
<1>3. Len(raw) = cut /\ \A i \in 1..cut : raw[i] = full[i]
  BY <1>1, <1>2
<1> HIDE DEF raw
<1>4. cut \in Nat /\ cut >= 1
  <2>1. cut # 0
    BY <1>2, <1>3 DEF raw, Readable
  <2> QED BY <1>1, <1>2, <2>1
<1>5. IdLength(raw) = n
  BY <1>1, <1>3, <1>4 DEF IdLength
<1>6. cut >= n + 2
  BY <1>2, <1>3, <1>5 DEF Readable
<1>7. IpLength(raw) = m
  BY <1>1, <1>3, <1>4, <1>5, <1>6 DEF IpLength
<1>8. cut - (n + m + 2) = 24
  BY <1>2, <1>3, <1>5, <1>7 DEF Readable, IntStart
<1> QED BY <1>1, <1>4, <1>8 DEF full

\* A whole message is read as the settings with the address that was written.
LEMMA WholeMessageIsRead ==
  ASSUME SettingsTypeOK
  PROVE  LET raw == Serialized(settings)
         IN  /\ SubSeq(raw, 1, Len(raw)) = raw
             /\ Readable(raw)
             /\ Deserialized(raw) = [settings EXCEPT !.ip = IpPart(settings)]
<1> DEFINE raw == Serialized(settings)
           n   == Len(settings.id)
           m   == Len(IpPart(settings))
<1>1. /\ raw \in Seq(RawBytes) /\ Len(raw) = 26 + n + m /\ n \in 0..18 /\ m \in Nat
      /\ raw[1].at = n /\ raw[n + 2].at = m
      /\ SubSeq(raw, 2, n + 1) = settings.id
      /\ SubSeq(raw, n + 3, n + m + 2) = IpPart(settings)
      /\ \A w \in Words : raw[n + m + 2 + 4 * w].word = settings.words[w]
  BY MessageOfSettings
<1>2. /\ settings.words \in [Words -> SUBSET Nat]
      /\ settings = [id |-> settings.id, ip |-> settings.ip, words |-> settings.words]
  BY DEF SettingsTypeOK
<1> HIDE DEF raw, n, m
<1>3. IdLength(raw) = n /\ IpLength(raw) = m /\ IntStart(raw) = n + m + 2
  BY <1>1 DEF IdLength, IpLength, IntStart
<1>4. SubSeq(raw, 1, Len(raw)) = raw
  BY <1>1
<1>5. Readable(raw)
  <2>1. raw # <<>>
    BY <1>1
  <2>2. n <= 18 /\ 26 + n + m >= n + 2 /\ (26 + n + m) - (n + m + 2) = 24
    BY <1>1
  <2> QED BY <1>1, <1>3, <2>1, <2>2, Zenon DEF Readable
<1>6. [w \in Words |-> raw[IntStart(raw) + 4 * w].word] = settings.words
  BY <1>1, <1>2, <1>3
<1>7. Deserialized(raw) = [id |-> settings.id, ip |-> IpPart(settings), words |-> settings.words]
  BY <1>1, <1>3, <1>6 DEF Deserialized
<1> QED BY <1>2, <1>4, <1>5, <1>7 DEF raw

LEMMA SettingsTypeStep == SettingsTypeOK /\ SettingsNext => SettingsTypeOK'
<1> SUFFICES ASSUME SettingsTypeOK, SettingsNext
             PROVE  SettingsTypeOK'
  OBVIOUS
<1>1. ASSUME NEW n \in IdLengths, SetId(n) PROVE SettingsTypeOK'
  <2>a. n \in 0..18
    BY <1>1, Zenon DEF SetId
  <2>1. n \in Nat /\ n <= 18
    BY <2>a
  <2>2. PICK of \in {"id", "not ascii"} : Changed([settings EXCEPT !.id = Text(of, n)])
    BY <1>1 DEF SetId
  <2>3. Text(of, n) \in Seq(Chars) /\ Len(Text(of, n)) <= 18
    BY <2>1, TextIsChars
  <2> QED BY <2>2, <2>3 DEF SettingsTypeOK, Changed
<1>2. ASSUME NEW n \in IpLengths, SetIp(n) PROVE SettingsTypeOK'
  <2>1. n \in Nat
    BY <1>2 DEF SetIp
  <2>2. Text("ip", n) \in Seq(Chars)
    BY <2>1, TextIsChars
  <2> QED BY <1>2, <2>2 DEF SettingsTypeOK, SetIp, Changed
<1>3. ASSUME NEW b \in TriedBits, SetStatusBit(b) \/ UnsetStatusBit(b) PROVE SettingsTypeOK'
  <2>1. b \in Nat /\ Status \in Words
    BY <1>3 DEF SetStatusBit, UnsetStatusBit, StatusBits, Status, Words
  <2>2. \/ settings' = [settings EXCEPT !.words[Status] = @ \cup {b}]
        \/ settings' = [settings EXCEPT !.words[Status] = @ \ {b}]
    BY <1>3 DEF SetStatusBit, UnsetStatusBit, Changed
  <2>3. CASE settings' = [settings EXCEPT !.words[Status] = @ \cup {b}]
    BY <2>1, <2>3 DEF SettingsTypeOK
  <2>4. CASE settings' = [settings EXCEPT !.words[Status] = @ \ {b}]
    BY <2>1, <2>4 DEF SettingsTypeOK
  <2> QED BY <2>2, <2>3, <2>4
<1>4. ASSUME NEW w \in Words, NEW speed \in Speeds, SetSpeed(w, speed) PROVE SettingsTypeOK'
  BY <1>4, SpeedsAssumption DEF SettingsTypeOK, SetSpeed, Changed
<1>5. CASE settings' = settings
  BY <1>5 DEF SettingsTypeOK
<1> QED BY <1>1, <1>2, <1>3, <1>4, <1>5, Zenon DEF SettingsNext, SerializeRaises, Transfer

LEMMA SettingsStep == SettingsInv /\ SettingsNext => ReadAsWritten'
<1> SUFFICES ASSUME SettingsInv, SettingsNext
             PROVE  ReadAsWritten'
  OBVIOUS
<1>1. SettingsTypeOK
  BY DEF SettingsInv
<1>2. ASSUME arrived' \in {"nothing", "unsent"} PROVE ReadAsWritten'
  BY <1>2 DEF ReadAsWritten
<1>3. ASSUME NEW cut \in 0..59, Transfer(cut) PROVE ReadAsWritten'
  <2> DEFINE full  == Serialized(settings)
             raw   == SubSeq(full, 1, cut)
             whole == cut = Len(full)
             ip    == IpPart(settings)
  <2>1. whole => Readable(raw) /\ Deserialized(raw) = [settings EXCEPT !.ip = ip]
    BY <1>1, WholeMessageIsRead
  <2>2. Readable(raw) => whole
    <3>1. cut \in 0..Len(Serialized(settings))
      BY <1>3, Zenon DEF Transfer
    <3> QED BY <1>1, <3>1, OnlyWholeMessagesAreRead, Zenon
  <2>3. (Short(settings) => ip = settings.ip) /\ (~Short(settings) => ip = <<>>)
    BY IpPartIsAll
  <2>4. [settings EXCEPT !.ip = settings.ip] = settings
    BY <1>1 DEF SettingsTypeOK
  <2>5. settings' = settings
    BY <1>3, Zenon DEF Transfer
  <2> DEFINE readable == Readable(raw)
             same     == Deserialized(raw) = settings
             had      == settings.ip # <<>>
             lost     == Deserialized(raw) = [settings EXCEPT !.ip = <<>>]
  <2>6. arrived' = IF ~readable THEN IF whole THEN "refused" ELSE "cut"
                   ELSE IF whole /\ same THEN "same"
                   ELSE IF whole /\ had /\ lost THEN "no_ip"
                   ELSE "wrong"
    BY <1>3, Zenon DEF Transfer
  <2>7. readable <=> whole
    BY <2>1, <2>2
  <2>8. whole => same \/ (had /\ lost /\ ~Short(settings))
    <3> DEFINE with(i) == [settings EXCEPT !.ip = i]
    <3>1. with(settings.ip) = settings /\ (whole => Deserialized(raw) = with(ip))
      BY <2>1, <2>4
    <3>2. lost <=> Deserialized(raw) = with(<<>>)
      OBVIOUS
    <3> HIDE DEF with, whole, lost
    <3>3. CASE Short(settings)
      <4>1. ip = settings.ip
        BY <2>3, <3>3
      <4>2. with(ip) = settings
        BY <3>1, <4>1, SMT
      <4> QED BY <3>1, <4>2
    <3>4. CASE ~Short(settings)
      BY <2>3, <3>1, <3>2, <3>4, Zenon
    <3> QED BY <3>3, <3>4
  <2>b. {readable, same, had, lost, whole} \subseteq BOOLEAN
    BY Zenon DEF Readable
  <2> HIDE DEF readable, same, had, lost, whole, raw, full, ip
  <2>9. arrived' \in {"cut", "same", "no_ip"}
         /\ (arrived' = "no_ip" => ~Short(settings))
    BY <2>b, <2>6, <2>7, <2>8
  <2> QED BY <2>5, <2>9 DEF ReadAsWritten
<1>4. ~(\E cut \in 0..59 : Transfer(cut)) => arrived' \in {"nothing", "unsent"}
  BY Zenon DEF SettingsNext, SetId, SetIp, SetStatusBit, UnsetStatusBit, SetSpeed, SerializeRaises,
         Changed
<1> QED BY <1>2, <1>3, <1>4, Zenon

\* Whatever calls of the setters came before, and wherever a message is cut off: the other
\* end reads the name and the numbers that were set and, with a name of 1 to 15 characters,
\* the address, or refuses a message that is not whole (can_settings.py:95-147).
THEOREM SettingsCorrect == SettingsSpec => []SettingsArrive
<1>1. SettingsInit => SettingsInv
  BY DEF SettingsInit, SettingsInv, SettingsTypeOK, ReadAsWritten, Defaults, Words
<1>2. SettingsInv /\ [SettingsNext]_settingsVars => SettingsInv'
  <2>1. CASE SettingsInv /\ SettingsNext
    BY <2>1, SettingsTypeStep, SettingsStep DEF SettingsInv
  <2>2. CASE SettingsInv /\ UNCHANGED settingsVars
    BY <2>2 DEF SettingsInv, SettingsTypeOK, ReadAsWritten, settingsVars
  <2> QED BY <2>1, <2>2
<1>3. SettingsInv => SettingsArrive
  <2>1. SettingsTypeOK => settings.id \in Seq(Chars)
    BY DEF SettingsTypeOK
  <2>2. SettingsTypeOK => Len(settings.id) \in Nat
    BY <2>1, EmptyOrSame
  <2> QED BY <2>2, ShortOnes, Zenon DEF SettingsInv, ReadAsWritten, SettingsArrive
<1> QED BY <1>1, <1>2, <1>3, PTL DEF SettingsSpec

-----------------------------------------------------------------------------
(* The trace, for any objects and classes.  The lines are made by a fold over *)
(* the calls: what it does is proved by induction over its turns.             *)

\* What FoldLeft() chooses: the results of the loop over each subset of the indices.
IsFold(g, seq, base, n) ==
  g = [s \in SUBSET (1..n) |-> IF s = {} THEN base
                               ELSE Written(g[s \ {Max(s)}], seq[Max(s)])]

LEMMA FoldExists ==
  ASSUME NEW seq, NEW base
  PROVE  \A n \in Nat : \E g : IsFold(g, seq, base, n)
<1> DEFINE S == {n \in Nat : \E g : IsFold(g, seq, base, n)}
<1>1. 0 \in S
  <2> DEFINE g == [s \in SUBSET (1..0) |-> base]
  <2>1. \A s \in SUBSET (1..0) : s = {}
    OBVIOUS
  <2>2. IsFold(g, seq, base, 0)
    BY <2>1 DEF IsFold
  <2> QED BY <2>2
<1>2. ASSUME NEW n \in Nat, n \in S PROVE n + 1 \in S
  <2>1. PICK g : IsFold(g, seq, base, n)
    BY <1>2
  <2> DEFINE h == [s \in SUBSET (1..(n + 1)) |-> IF n + 1 \in s
                     THEN Written(g[s \ {n + 1}], seq[n + 1]) ELSE g[s]]
  <2>2. ASSUME NEW s \in SUBSET (1..(n + 1))
        PROVE  h[s] = IF s = {} THEN base ELSE Written(h[s \ {Max(s)}], seq[Max(s)])
    <3>1. CASE n + 1 \in s
      <4>1. Max(s) = n + 1
        <5>1. s \in SUBSET (1..(n + 1)) /\ s # {} /\ n + 1 \in Nat
          BY <3>1
        <5>2. Max(s) \in s /\ \A y \in s : Max(s) >= y
          BY <5>1, MostOf
        <5>3. Max(s) \in 1..(n + 1) /\ Max(s) >= n + 1
          BY <3>1, <5>2
        <5> QED BY <5>3
      <4>2. s \ {n + 1} \in SUBSET (1..(n + 1)) /\ n + 1 \notin s \ {n + 1}
        OBVIOUS
      <4>3. h[s \ {n + 1}] = g[s \ {n + 1}]
        BY <4>2
      <4>4. h[s] = Written(g[s \ {n + 1}], seq[n + 1])
        BY <3>1
      <4> QED BY <3>1, <4>1, <4>3, <4>4
    <3>2. CASE n + 1 \notin s
      <4>1. /\ s \in SUBSET (1..n) /\ s \ {Max(s)} \in SUBSET (1..(n + 1))
            /\ n + 1 \notin s \ {Max(s)}
        <5>1. \A x \in 1..(n + 1) : x # n + 1 => x \in 1..n
          OBVIOUS
        <5>2. s \in SUBSET (1..n)
          BY <3>2, <5>1, Zenon
        <5> QED BY <3>2, <5>2, Zenon
      <4>2. h[s] = g[s] /\ h[s \ {Max(s)}] = g[s \ {Max(s)}]
        BY <3>2, <4>1
      <4>3. g[s] = IF s = {} THEN base ELSE Written(g[s \ {Max(s)}], seq[Max(s)])
        BY <2>1, <4>1 DEF IsFold
      <4> QED BY <4>2, <4>3
    <3> QED BY <3>1, <3>2
  <2>3. IsFold(h, seq, base, n + 1)
    BY <2>2 DEF IsFold
  <2> QED BY <2>3
<1>3. Nat \subseteq S
  <2>1. \A n \in Nat : n \in S => n + 1 \in S
    BY <1>2
  <2> HIDE DEF S
  <2> QED BY <1>1, <2>1, SetInduction
<1> QED BY <1>3

LEMMA FoldIs ==
  ASSUME NEW seq, NEW base, NEW n \in Nat, DOMAIN seq = 1..n
  PROVE  \E g : IsFold(g, seq, base, n) /\ FoldLeft(Written, base, seq) = g[1..n]
<1> DEFINE iter == CHOOSE g : IsFold(g, seq, base, n)
<1>1. IsFold(iter, seq, base, n)
  BY FoldExists
<1>2. FoldLeft(Written, base, seq) = iter[1..n]
  BY DEF FoldLeft, MapThenFoldSet, IsFold
<1> QED BY <1>1, <1>2

\* The loop, turn by turn.
Looped(base, seq) == FoldLeft(Written, base, seq)

LEMMA Turns ==
  ASSUME NEW seq, NEW base, NEW n \in Nat, DOMAIN seq = 1..n
  PROVE  \E v : /\ v[0] = base
                /\ \A k \in Nat : k < n => v[k + 1] = Written(v[k], seq[k + 1])
                /\ Looped(base, seq) = v[n]
<1>1. PICK g : IsFold(g, seq, base, n) /\ Looped(base, seq) = g[1..n]
  BY FoldIs, Zenon DEF Looped
<1> DEFINE v == [k \in Nat |-> g[1..k]]
<1>2. \A s \in SUBSET (1..n) :
        g[s] = IF s = {} THEN base ELSE Written(g[s \ {Max(s)}], seq[Max(s)])
  BY <1>1 DEF IsFold
<1>3. v[0] = base
  <2>1. 1..0 \in SUBSET (1..n) /\ 1..0 = {}
    OBVIOUS
  <2>2. g[1..0] = base
    BY <1>2, <2>1, Zenon
  <2> QED BY <2>2
<1>4. ASSUME NEW k \in Nat, k < n PROVE v[k + 1] = Written(v[k], seq[k + 1])
  <2>1. 1..(k + 1) \in SUBSET (1..n) /\ 1..(k + 1) # {}
    BY <1>4
  <2>2. Max(1..(k + 1)) = k + 1
    <3>1. Max(1..(k + 1)) \in 1..(k + 1) /\ \A y \in 1..(k + 1) : Max(1..(k + 1)) >= y
      BY <2>1, MostOf
    <3> QED BY <3>1
  <2>3. 1..(k + 1) \ {k + 1} = 1..k
    OBVIOUS
  <2>4. g[1..(k + 1)] = Written(g[1..k], seq[k + 1])
    BY <1>2, <2>1, <2>2, <2>3
  <2> QED BY <2>4
<1>5. v[n] = Looped(base, seq)
  BY <1>1
<1>6. \A k \in Nat : k < n => v[k + 1] = Written(v[k], seq[k + 1])
  BY <1>4
<1> HIDE DEF v
<1> QED BY <1>3, <1>5, <1>6, Zenon

\* The calls that have been recorded, and the lines made of them.
Kinds    == {"function", "constructor", "method"}
NameOf(o) == InstanceName(ClassOf[o], 0)
AnyName  == {NameOf(o) : o \in Objects} \cup {Function}
Calls    == [kind : Kinds, on : Objects \cup {Function}]
CodeLines == [kind : Kinds, on : Objects \cup {Function}, name : AnyName]

About(i, kind, o) == call_sequence[i].kind = kind /\ call_sequence[i].on = o
Constructs(o)     == \E i \in DOMAIN call_sequence : About(i, "constructor", o)

\* An object is constructed before its methods are called.
CallsInOrder ==
  /\ constructed \in SUBSET Objects
  /\ call_sequence \in Seq(Calls)
  /\ \A i \in DOMAIN call_sequence :
       call_sequence[i].kind # "function" => call_sequence[i].on \in constructed
  /\ \A o \in Objects : \A i, j \in DOMAIN call_sequence :
       About(i, "constructor", o) /\ About(j, "method", o) => i < j

\* All objects of a class have the same name, as its number stays 0, and so have those
\* of classes whose names are the same in lower case.
NamesOK(names)   == \A o \in DOMAIN names :
                      o \in Objects /\ names[o] = NameOf(o) /\ Constructs(o)
CountsOK(counts) == \A c \in DOMAIN counts : counts[c] = 0

\* A line is about the object its call was about.
LineOK(line, call) ==
  /\ line.kind = call.kind /\ line.on = call.on
  /\ line.kind # "function" => line.on \in Objects /\ line.name = NameOf(line.on)
  /\ line.kind = "method" => Constructs(line.on)

LinesOK(lines) ==
  /\ lines \in Seq(CodeLines) /\ Len(lines) <= Len(call_sequence)
  /\ \A i \in 1..Len(lines) : LineOK(lines[i], call_sequence[i])

\* After k turns of the loop.
Told(s, k) ==
  /\ s = [lines |-> s.lines, raised |-> s.raised, names |-> s.names, counts |-> s.counts]
  /\ s.raised \in BOOLEAN
  /\ NamesOK(s.names) /\ CountsOK(s.counts) /\ LinesOK(s.lines)
  /\ ~s.raised => Len(s.lines) = k

TraceInv ==
  /\ CallsInOrder
  /\ NamesOK(class_to_instance_map) /\ CountsOK(class_instance_count)
  /\ LinesOK(code.lines)

\* The object denoted by the line of a method has been constructed with or after that of
\* the call, whose constructor is an earlier line.
LEMMA LinesRepeat ==
  ASSUME CallsInOrder, LinesOK(code.lines)
  PROVE  LinesRepeatTheCalls
<1> DEFINE lines == code.lines
<1>1. SUFFICES ASSUME NEW i \in DOMAIN lines, lines[i].kind = "method"
               PROVE  \/ Denoted(i) = lines[i].on
                      \/ \E p \in Objects \ {lines[i].on} :
                           /\ Lower[ClassOf[p]] = Lower[ClassOf[lines[i].on]]
                           /\ Between(lines[i].on, p, i)
  BY Zenon DEF LinesRepeatTheCalls
<1>2. PICK o : o = lines[i].on
  OBVIOUS
<1>3. /\ lines \in Seq(CodeLines) /\ call_sequence \in Seq(Calls)
      /\ i \in Nat /\ i >= 1 /\ i <= Len(lines) /\ Len(lines) \in Nat
      /\ Len(lines) <= Len(call_sequence)
  BY DEF LinesOK, CallsInOrder
<1>4. \A j \in 1..Len(lines) : LineOK(lines[j], call_sequence[j]) /\ lines[j] \in CodeLines
                               /\ j \in DOMAIN call_sequence
  BY <1>3 DEF LinesOK
<1> HIDE DEF lines
<1>5. o \in Objects /\ lines[i].name = NameOf(o) /\ About(i, "method", o) /\ Constructs(o)
  BY <1>1, <1>2, <1>3, <1>4 DEF LineOK, About
<1>6. PICK j \in DOMAIN call_sequence : About(j, "constructor", o)
  BY <1>5 DEF Constructs
<1>7. j < i /\ j \in 1..i
  BY <1>3, <1>4, <1>5, <1>6 DEF CallsInOrder
<1>8. lines[j].kind = "constructor" /\ lines[j].on = o /\ lines[j].name = NameOf(o)
  BY <1>3, <1>4, <1>6, <1>7 DEF LineOK, About
<1> DEFINE given == {k \in 1..i : lines[k].kind = "constructor" /\ lines[k].name = lines[i].name}
<1>9. j \in given /\ given \in SUBSET (1..i)
  BY <1>5, <1>7, <1>8
<1>10. PICK m : m = Max(given)
  OBVIOUS
<1>11. m \in given /\ m >= j
  BY <1>3, <1>9, <1>10, MostOf
<1>12. m \in 1..i /\ lines[m].kind = "constructor" /\ lines[m].name = NameOf(o)
  BY <1>5, <1>11
<1>13. Denoted(i) = lines[m].on
  BY <1>10, Zenon DEF Denoted, lines
<1>14. PICK p : p = lines[m].on
  OBVIOUS
<1>15. m \in 1..Len(lines) /\ j \in 1..Len(lines)
  BY <1>3, <1>7, <1>12
<1>16. p \in Objects /\ NameOf(p) = NameOf(o)
  BY <1>4, <1>12, <1>14, <1>15 DEF LineOK
<1>17. Lower[ClassOf[p]] = Lower[ClassOf[o]]
  BY <1>16 DEF NameOf, InstanceName
<1>18. CASE p = o
  BY <1>2, <1>13, <1>14, <1>18
<1>19. CASE p # o
  <2>1. j < m
    BY <1>7, <1>8, <1>11, <1>12, <1>14, <1>19
  <2>2. lines[j] \in CodeLines /\ lines[m] \in CodeLines
    BY <1>4, <1>15
  <2>3. /\ lines[j] = [lines[j] EXCEPT !.kind = "constructor", !.on = o]
        /\ lines[m] = [lines[m] EXCEPT !.kind = "constructor", !.on = p]
    BY <2>2, <1>8, <1>12, <1>14 DEF CodeLines
  <2>4. Between(o, p, i)
    BY <1>7, <1>12, <2>1, <2>3, Zenon DEF Between, lines
  <2> QED BY <1>2, <1>16, <1>17, <1>19, <2>4
<1> QED BY <1>18, <1>19

LEMMA LineAppended ==
  ASSUME NEW lines, LinesOK(lines), CallsInOrder,
         NEW k \in 1..Len(call_sequence), Len(lines) + 1 = k,
         NEW name \in AnyName,
         call_sequence[k].kind # "function" => name = NameOf(call_sequence[k].on),
         call_sequence[k].kind = "method" => Constructs(call_sequence[k].on)
  PROVE  /\ LinesOK(Append(lines, Line(call_sequence[k], name)))
         /\ Len(Append(lines, Line(call_sequence[k], name))) = k
<1> DEFINE line == Line(call_sequence[k], name)
<1>1. call_sequence[k] \in Calls /\ lines \in Seq(CodeLines) /\ k \in DOMAIN call_sequence
  BY DEF CallsInOrder, LinesOK
<1>2. call_sequence[k].kind # "function" => call_sequence[k].on \in Objects
  BY <1>1 DEF CallsInOrder
<1>3. /\ line \in CodeLines
      /\ line.kind = call_sequence[k].kind /\ line.on = call_sequence[k].on /\ line.name = name
  BY <1>1 DEF Line, CodeLines, Calls
<1>4. LineOK(line, call_sequence[k])
  BY <1>2, <1>3 DEF LineOK
<1> HIDE DEF line
<1>5. /\ Append(lines, line) \in Seq(CodeLines) /\ Len(Append(lines, line)) = k
      /\ Append(lines, line)[k] = line
      /\ \A i \in 1..Len(lines) : Append(lines, line)[i] = lines[i]
  BY <1>1, <1>3
<1>6. \A i \in 1..k : LineOK(Append(lines, line)[i], call_sequence[i])
  <2>1. ASSUME NEW i \in 1..k PROVE i = k \/ i \in 1..Len(lines)
    BY <1>1
  <2> QED BY <1>4, <1>5, <2>1 DEF LinesOK
<1>7. k <= Len(call_sequence)
  OBVIOUS
<1> QED BY <1>5, <1>6, <1>7 DEF LinesOK, line

LEMMA Turn ==
  ASSUME CallsInOrder, NEW k \in Nat, k < Len(call_sequence), NEW s, Told(s, k)
  PROVE  Told(Written(s, call_sequence[k + 1]), k + 1)
<1> DEFINE call == call_sequence[k + 1]
           class  == ClassOf[call.on]
           counts == IF class \in DOMAIN s.counts THEN s.counts ELSE With(s.counts, class, 0)
           name   == InstanceName(class, counts[class])
           w      == Written(s, call)
<1>0. k + 1 \in 1..Len(call_sequence) /\ k + 1 \in DOMAIN call_sequence
  BY DEF CallsInOrder
<1>1. call \in Calls /\ (call.kind # "function" => call.on \in Objects)
  BY <1>0 DEF CallsInOrder
<1>2. CountsOK(counts) /\ counts[class] = 0 /\ name = NameOf(call.on)
  <2>1. CountsOK(s.counts)
    BY DEF Told
  <2>2. CASE class \in DOMAIN s.counts
    BY <2>1, <2>2 DEF CountsOK, NameOf
  <2>3. CASE class \notin DOMAIN s.counts
    BY <2>1, <2>3 DEF CountsOK, With, NameOf
  <2> QED BY <2>2, <2>3
<1>3. CASE s.raised
  <2>1. w = s
    BY <1>3 DEF Written
  <2> QED BY <1>3, <2>1 DEF Told
<1>4. ASSUME ~s.raised PROVE Len(s.lines) + 1 = k + 1 /\ LinesOK(s.lines)
  BY <1>4 DEF Told
<1>5. CASE ~s.raised /\ call.kind = "function"
  <2>1. w = [s EXCEPT !.lines = Append(@, Line(call, Function))]
    BY <1>5 DEF Written
  <2>2. /\ LinesOK(Append(s.lines, Line(call, Function)))
        /\ Len(Append(s.lines, Line(call, Function))) = k + 1
    BY <1>0, <1>4, <1>5, LineAppended DEF AnyName
  <2> QED BY <2>1, <2>2 DEF Told
<1>6. CASE ~s.raised /\ call.kind = "constructor"
  <2>1. w = [s EXCEPT !.lines  = Append(@, Line(call, name)),
                      !.names  = With(@, call.on, name),
                      !.counts = counts]
    BY <1>6 DEF Written
  <2>2. /\ LinesOK(Append(s.lines, Line(call, name)))
        /\ Len(Append(s.lines, Line(call, name))) = k + 1
    <3>1. name \in AnyName /\ name = NameOf(call.on)
      BY <1>1, <1>2, <1>6 DEF AnyName
    <3> HIDE DEF name, counts
    <3> QED BY <1>0, <1>4, <1>6, <3>1, LineAppended
  <2>3. Constructs(call.on) /\ call.on \in Objects
    BY <1>0, <1>1, <1>6 DEF Constructs, About
  <2>4. NamesOK(With(s.names, call.on, name))
    BY <1>2, <2>3 DEF NamesOK, With, Told
  <2> HIDE DEF counts, name
  <2> QED BY <1>2, <2>1, <2>2, <2>4 DEF Told
<1>7. CASE ~s.raised /\ call.kind = "method"
  <2>1. CASE call.on \in DOMAIN s.names
    <3>1. w = [s EXCEPT !.lines = Append(@, Line(call, s.names[call.on]))]
      BY <1>7, <2>1 DEF Written
    <3>2. call.on \in Objects /\ s.names[call.on] = NameOf(call.on) /\ Constructs(call.on)
      BY <2>1 DEF Told, NamesOK
    <3>3. /\ LinesOK(Append(s.lines, Line(call, s.names[call.on])))
          /\ Len(Append(s.lines, Line(call, s.names[call.on]))) = k + 1
      BY <1>0, <1>4, <1>7, <3>2, LineAppended DEF AnyName
    <3> QED BY <3>1, <3>3 DEF Told
  <2>2. CASE call.on \notin DOMAIN s.names
    <3>1. w = [s EXCEPT !.raised = TRUE]
      BY <1>7, <2>2 DEF Written
    <3> QED BY <3>1 DEF Told
  <2> QED BY <2>1, <2>2
<1>8. call.kind \in {"function", "constructor", "method"}
  BY <1>1 DEF Calls, Kinds
<1>9. s.raised \/ ~s.raised
  BY DEF Told
<1> QED BY <1>3, <1>5, <1>6, <1>7, <1>8, <1>9

\* The state in which the loop begins.
Begun == [lines |-> <<>>, raised |-> FALSE, names |-> class_to_instance_map,
          counts |-> class_instance_count]

LEMMA AllTold ==
  ASSUME TraceInv
  PROVE  Told(Looped(Begun, call_sequence), Len(call_sequence))
<1> DEFINE n == Len(call_sequence)
<1>1. n \in Nat /\ DOMAIN call_sequence = 1..n
  BY DEF TraceInv, CallsInOrder
<1> HIDE DEF n
<1>2. PICK v : /\ v[0] = Begun
               /\ \A k \in Nat : k < n => v[k + 1] = Written(v[k], call_sequence[k + 1])
               /\ Looped(Begun, call_sequence) = v[n]
  BY <1>1, Turns
<1> DEFINE S == {k \in Nat : k <= n => Told(v[k], k)}
<1>3. 0 \in S
  <2>1. LinesOK(<<>>)
    BY <1>1 DEF LinesOK, n
  <2>2. Told(Begun, 0)
    BY <2>1 DEF Told, Begun, TraceInv
  <2> QED BY <1>2, <2>2
<1>4. ASSUME NEW k \in Nat, k \in S PROVE k + 1 \in S
  <2>1. SUFFICES ASSUME k + 1 <= n PROVE Told(v[k + 1], k + 1)
    OBVIOUS
  <2>2. k < n /\ Told(v[k], k)
    BY <1>1, <1>4, <2>1
  <2>3. Told(Written(v[k], call_sequence[k + 1]), k + 1)
    BY <2>2, Turn DEF TraceInv, n
  <2> QED BY <1>2, <2>2, <2>3
<1>5. Nat \subseteq S
  <2>1. \A k \in Nat : k \in S => k + 1 \in S
    BY <1>4
  <2> HIDE DEF S
  <2> QED BY <1>3, <2>1, SetInduction
<1>6. Told(v[n], n)
  BY <1>1, <1>5
<1> QED BY <1>2, <1>6 DEF n

\* The invariant, which says of the last lines as much as of the calls.
LEMMA TraceInvHolds ==
  TraceSpec => []TraceInv
<1>1. ASSUME TraceInit PROVE TraceInv
  <2>1. /\ constructed = {} /\ call_sequence = <<>> /\ code.lines = <<>>
        /\ DOMAIN class_to_instance_map = {} /\ DOMAIN class_instance_count = {}
    BY <1>1 DEF TraceInit, NoCode
  <2>2. CallsInOrder
    BY <2>1 DEF CallsInOrder
  <2>3. LinesOK(code.lines)
    BY <2>1, <2>2 DEF LinesOK, CallsInOrder
  <2>4. NamesOK(class_to_instance_map) /\ CountsOK(class_instance_count)
    BY <2>1 DEF NamesOK, CountsOK
  <2> QED BY <2>2, <2>3, <2>4 DEF TraceInv
<1>2. TraceInv /\ [TraceNext]_traceVars => TraceInv'
  <2> SUFFICES ASSUME TraceInv, [TraceNext]_traceVars PROVE TraceInv'
    OBVIOUS
  <2> USE DEF TraceInv
  <2>1. CASE Start \/ Stop \/ UNCHANGED traceVars
    BY <2>1 DEF Start, Stop, traceVars, CallsInOrder, NamesOK, CountsOK, LinesOK, LineOK,
                Constructs, About
  <2>2. ASSUME NEW call \in Calls, Recorded(call), constructed \subseteq constructed',
               constructed' \in SUBSET Objects,
               call.kind # "function" => call.on \in constructed',
               call.kind = "constructor" => call.on \notin constructed
        PROVE  TraceInv'
    <3> DEFINE n == Len(call_sequence)
    <3>1. call_sequence \in Seq(Calls) /\ n \in Nat /\ DOMAIN call_sequence = 1..n
      BY DEF CallsInOrder
    <3>2. CASE call_sequence' = call_sequence
      <4>1. class_to_instance_map' = class_to_instance_map
            /\ class_instance_count' = class_instance_count /\ code' = code
        BY <2>2 DEF Recorded
      <4>2. CallsInOrder'
        BY <2>2, <3>2 DEF CallsInOrder, About
      <4> QED BY <3>2, <4>1, <4>2 DEF NamesOK, CountsOK, LinesOK, LineOK, Constructs, About
    <3>3. CASE call_sequence' = Append(call_sequence, call)
      <4>1. /\ call_sequence' \in Seq(Calls) /\ DOMAIN call_sequence' = 1..(n + 1)
            /\ Len(call_sequence') = n + 1
            /\ call_sequence'[n + 1] = call
            /\ \A i \in 1..n : call_sequence'[i] = call_sequence[i]
        BY <2>2, <3>1, <3>3
      <4>2. \A i \in DOMAIN call_sequence' : i = n + 1 \/ i \in DOMAIN call_sequence
        BY <3>1, <4>1
      <4>3. \A i \in DOMAIN call_sequence : i \in DOMAIN call_sequence' /\ i < n + 1
        BY <3>1, <4>1
      <4>4. \A i \in DOMAIN call_sequence' :
              call_sequence'[i].kind # "function" => call_sequence'[i].on \in constructed'
        BY <2>2, <3>1, <4>1, <4>2 DEF CallsInOrder
      <4>5. ASSUME NEW o \in Objects, NEW i \in DOMAIN call_sequence',
                   NEW j \in DOMAIN call_sequence',
                   call_sequence'[i].kind = "constructor", call_sequence'[i].on = o,
                   call_sequence'[j].kind = "method", call_sequence'[j].on = o
            PROVE  i < j
        <5>1. CASE i = n + 1
          <6>1. call.kind = "constructor" /\ call.on = o /\ o \notin constructed
            BY <2>2, <4>1, <4>5, <5>1
          <6>2. j \in DOMAIN call_sequence
            BY <4>1, <4>2, <4>5, <5>1, <6>1
          <6>3. call_sequence[j].kind = "method" /\ call_sequence[j].on = o
            BY <3>1, <4>1, <4>5, <6>2
          <6> QED BY <6>1, <6>2, <6>3 DEF CallsInOrder
        <5>2. CASE i # n + 1 /\ j = n + 1
          BY <4>2, <4>3, <5>2
        <5>3. CASE i # n + 1 /\ j # n + 1
          <6>1. i \in DOMAIN call_sequence /\ j \in DOMAIN call_sequence
            BY <4>2, <5>3
          <6> QED BY <3>1, <4>1, <4>5, <6>1 DEF CallsInOrder, About
        <5> QED BY <5>1, <5>2, <5>3
      <4>6. CallsInOrder'
        BY <2>2, <4>1, <4>4, <4>5 DEF CallsInOrder, About
      <4>7. ASSUME NEW o, Constructs(o) PROVE Constructs(o)'
        BY <3>1, <4>1, <4>3, <4>7 DEF Constructs, About
      <4>8. class_to_instance_map' = class_to_instance_map
            /\ class_instance_count' = class_instance_count /\ code' = code
        BY <2>2 DEF Recorded
      <4>9. NamesOK(class_to_instance_map)'
        BY <4>7, <4>8 DEF NamesOK
      <4>10. LinesOK(code.lines)'
        <5>1. code.lines \in Seq(CodeLines) /\ Len(code.lines) <= n
          BY DEF LinesOK
        <5>2. ASSUME NEW i \in 1..Len(code.lines)
              PROVE  LineOK(code.lines[i], call_sequence[i])'
          <6>1. i \in 1..n /\ LineOK(code.lines[i], call_sequence[i])
            BY <3>1, <5>1 DEF LinesOK
          <6> QED BY <4>1, <4>7, <4>8, <6>1 DEF LineOK
        <5> HIDE DEF n
        <5>3. Len(code.lines) <= Len(call_sequence')
          BY <3>1, <4>1, <5>1
        <5> QED BY <4>8, <5>1, <5>2, <5>3 DEF LinesOK
      <4> QED BY <4>6, <4>8, <4>9, <4>10 DEF CountsOK
    <3> QED BY <2>2, <3>2, <3>3 DEF Recorded
  <2>3. CASE CallFunction
    <3>1. [kind |-> "function", on |-> Function] \in Calls
      BY DEF Calls, Kinds
    <3> QED BY <2>2, <2>3, <3>1 DEF CallFunction, CallsInOrder
  <2>4. ASSUME NEW o \in Objects, Construct(o) PROVE TraceInv'
    <3>1. [kind |-> "constructor", on |-> o] \in Calls
      BY DEF Calls, Kinds
    <3> QED BY <2>2, <2>4, <3>1 DEF Construct, CallsInOrder
  <2>5. ASSUME NEW o \in Objects, CallMethod(o) PROVE TraceInv'
    <3>1. [kind |-> "method", on |-> o] \in Calls
      BY DEF Calls, Kinds
    <3> QED BY <2>2, <2>5, <3>1 DEF CallMethod, CallsInOrder
  <2>6. CASE GetCodeLines
    <3> DEFINE s == Looped(Begun, call_sequence)
    <3>1. Told(s, Len(call_sequence))
      BY AllTold
    <3>2. /\ code' = [lines |-> s.lines, raised |-> s.raised]
          /\ class_to_instance_map' = s.names /\ class_instance_count' = s.counts
          /\ call_sequence' = call_sequence /\ constructed' = constructed
      BY <2>6, Zenon DEF GetCodeLines, Begun, Looped
    <3> HIDE DEF s
    <3>3. NamesOK(s.names) /\ CountsOK(s.counts) /\ LinesOK(s.lines)
      BY <3>1 DEF Told
    <3> QED BY <3>2, <3>3 DEF CallsInOrder, NamesOK, CountsOK, LinesOK, LineOK, Constructs, About
  <2> QED BY <2>1, <2>3, <2>4, <2>5, <2>6 DEF TraceNext
<1> QED BY <1>1, <1>2, PTL DEF TraceSpec

\* However many calls of however many objects and classes are recorded, whenever the trace
\* is on, and however often get_code_lines() is called: a line is about the object its
\* call was about, unless another of its class, or of one whose name is the same in lower
\* case, has been made since (trace_decorator.py:12-13, 73-100).
THEOREM TraceCorrect == TraceSpec => []LinesRepeatTheCalls
<1>1. TraceInv => LinesRepeatTheCalls
  BY LinesRepeat DEF TraceInv
<1> QED BY <1>1, TraceInvHolds, PTL

-----------------------------------------------------------------------------
(* The search, for any parameters that its constructors accept.  The order of the     *)
(* combinations is that of their numbers: an index is a digit, and move_indices() is  *)
(* the addition of one, with its carry.                                               *)

(* Folds over data *)

\* What FoldLeft() chooses, for a base and steps that are given as data.
IsSetFold(g, n, V, base, h) ==
  /\ g \in [SUBSET (1..n) -> V]
  /\ \A s \in SUBSET (1..n) : g[s] = IF s = {} THEN base ELSE h[Max(s)][g[s \ {Max(s)}]]

\* There is such a fold, by induction over the indices.
LEMMA SetFold ==
  ASSUME NEW n \in Nat, NEW V, NEW base \in V, NEW h \in [1..n -> [V -> V]]
  PROVE  \E g : IsSetFold(g, n, V, base, h)
<1> DEFINE Is(g, m) == \A s \in SUBSET (1..m) :
                         g[s] = IF s = {} THEN base ELSE h[Max(s)][g[s \ {Max(s)}]]
           Exists(m) == \E g \in [SUBSET (1..m) -> V] : Is(g, m)
           S == {m \in Nat : m <= n => Exists(m)}
<1>1. 0 \in S
  <2> DEFINE g == [s \in SUBSET (1..0) |-> base]
  <2>1. \A s \in SUBSET (1..0) : s = {}
    OBVIOUS
  <2>2. g \in [SUBSET (1..0) -> V] /\ Is(g, 0)
    BY <2>1
  <2> QED BY <2>2
<1>2. ASSUME NEW m \in Nat, m \in S PROVE m + 1 \in S
  <2>1. SUFFICES ASSUME m + 1 <= n PROVE Exists(m + 1)
    <3> HIDE DEF Exists
    <3> QED OBVIOUS
  <2>e. Exists(m)
    <3> HIDE DEF Exists
    <3> QED BY <1>2, <2>1
  <2>2. PICK g \in [SUBSET (1..m) -> V] : Is(g, m)
    BY <2>e
  <2> DEFINE f == [s \in SUBSET (1..(m + 1)) |->
                     IF m + 1 \in s THEN h[m + 1][g[s \ {m + 1}]] ELSE g[s]]
  <2>3. m + 1 \in 1..n /\ h[m + 1] \in [V -> V]
    BY <2>1
  <2>4. ASSUME NEW s \in SUBSET (1..(m + 1))
        PROVE  f[s] \in V /\ f[s] = IF s = {} THEN base ELSE h[Max(s)][f[s \ {Max(s)}]]
    <3>0. /\ \A x \in 1..(m + 1) : x # m + 1 => x \in 1..m
          /\ \A x \in 1..m : x \in 1..(m + 1) /\ x # m + 1
      OBVIOUS
    <3>1. CASE m + 1 \in s
      <4>1. s \in SUBSET (1..(m + 1)) /\ s # {} /\ m + 1 \in Nat
        BY <3>1
      <4>2. Max(s) \in s /\ \A y \in s : Max(s) >= y
        BY <4>1, MostOf
      <4>3. Max(s) \in 1..(m + 1) /\ Max(s) >= m + 1
        BY <3>1, <4>2
      <4>4. Max(s) = m + 1
        BY <4>3
      <4>5. s \ {m + 1} \in SUBSET (1..m) /\ s \ {m + 1} \in SUBSET (1..(m + 1))
        BY <3>0, Zenon
      <4>6. f[s \ {m + 1}] = g[s \ {m + 1}] /\ g[s \ {m + 1}] \in V
        BY <4>5
      <4>7. f[s] = h[m + 1][g[s \ {m + 1}]]
        BY <3>1
      <4> HIDE DEF f, Is
      <4> QED BY <2>3, <3>1, <4>4, <4>6, <4>7
    <3>2. CASE m + 1 \notin s
      <4>1. s \in SUBSET (1..m)
        BY <3>0, <3>2, Zenon
      <4>2. s \ {Max(s)} \in SUBSET (1..m) /\ s \ {Max(s)} \in SUBSET (1..(m + 1))
            /\ m + 1 \notin s \ {Max(s)}
        BY <3>2, <4>1
      <4>3. f[s] = g[s] /\ f[s \ {Max(s)}] = g[s \ {Max(s)}]
        BY <3>2, <4>2
      <4>4. g[s] \in V /\ g[s] = IF s = {} THEN base ELSE h[Max(s)][g[s \ {Max(s)}]]
        BY <2>2, <4>1
      <4> HIDE DEF f, Is
      <4> QED BY <4>3, <4>4
    <3> QED BY <3>1, <3>2
  <2>5. f \in [SUBSET (1..(m + 1)) -> V] /\ Is(f, m + 1)
    <3>1. \A s \in SUBSET (1..(m + 1)) : f[s] \in V
      BY <2>4
    <3>2. f \in [SUBSET (1..(m + 1)) -> V]
      BY <3>1
    <3>3. Is(f, m + 1)
      BY <2>4
    <3> QED BY <3>2, <3>3
  <2> HIDE DEF f, Is
  <2> QED BY <2>5
<1>3. Nat \subseteq S
  <2> HIDE DEF S
  <2>1. \A m \in Nat : m \in S => m + 1 \in S
    BY <1>2
  <2> QED BY <1>1, <2>1, SetInduction
<1>4. Exists(n)
  <2> HIDE DEF Exists
  <2> QED BY <1>3
<1> QED BY <1>4 DEF IsSetFold

\* The products of the lengths, one after the other.
Products(v, ps) ==
  /\ v[0] = 1
  /\ \A k \in Nat : k < Len(ps) => v[k + 1] = v[k] * LengthOf(ps[k + 1])

LEMMA CombinationsAre ==
  ASSUME NEW P, NEW ps \in Seq(P), \A p \in P : LengthOf(p) \in Int
  PROVE  \E v : Products(v, ps) /\ Combinations(ps) = v[Len(ps)]
<1> DEFINE n == Len(ps)
           h == [i \in 1..n |-> [x \in Int |-> x * LengthOf(ps[i])]]
           Is(g) == g = [s \in SUBSET (1..n) |->
                           IF s = {} THEN 1 ELSE g[s \ {Max(s)}] * LengthOf(ps[Max(s)])]
           iter == CHOOSE g : Is(g)
<1>1. n \in Nat /\ DOMAIN ps = 1..n /\ \A i \in 1..n : LengthOf(ps[i]) \in Int
  OBVIOUS
<1>2. h \in [1..n -> [Int -> Int]]
  BY <1>1
<1>3. \E g : Is(g)
  <2>1. PICK g : IsSetFold(g, n, Int, 1, h)
    <3> HIDE DEF h, n
    <3>1. n \in Nat /\ 1 \in Int
      BY <1>1
    <3> QED BY <1>2, <3>1, SetFold
  <2>2. ASSUME NEW s \in SUBSET (1..n), s # {}
        PROVE  g[s] = g[s \ {Max(s)}] * LengthOf(ps[Max(s)])
    <3>1. Max(s) \in 1..n
      BY <1>1, <2>2, MostOf
    <3>2. s \ {Max(s)} \in SUBSET (1..n)
      OBVIOUS
    <3>3. g[s \ {Max(s)}] \in Int /\ g[s] = h[Max(s)][g[s \ {Max(s)}]]
      BY <2>1, <2>2, <3>2 DEF IsSetFold
    <3> QED BY <3>1, <3>3
  <2>3. \A s \in SUBSET (1..n) :
          g[s] = IF s = {} THEN 1 ELSE g[s \ {Max(s)}] * LengthOf(ps[Max(s)])
    BY <2>1, <2>2 DEF IsSetFold
  <2>4. Is(g)
    BY <2>1, <2>3 DEF IsSetFold
  <2> QED BY <2>4
<1>4. Is(iter)
  BY <1>3
<1>5. Combinations(ps) = iter[1..n]
  BY <1>1 DEF Combinations, FoldLeft, MapThenFoldSet
<1> DEFINE v == [k \in Nat |-> iter[1..k]]
<1>6. \A s \in SUBSET (1..n) :
        iter[s] = IF s = {} THEN 1 ELSE iter[s \ {Max(s)}] * LengthOf(ps[Max(s)])
  BY <1>4
<1> HIDE DEF iter, Is
<1>7. v[0] = 1
  <2>1. 1..0 \in SUBSET (1..n) /\ 1..0 = {}
    OBVIOUS
  <2>2. iter[1..0] = 1
    BY <1>6, <2>1
  <2> QED BY <2>2
<1>8. ASSUME NEW k \in Nat, k < n PROVE v[k + 1] = v[k] * LengthOf(ps[k + 1])
  <2> HIDE DEF n
  <2>0. /\ 1..(k + 1) \in SUBSET (1..n) /\ 1..(k + 1) # {}
        /\ Max(1..(k + 1)) = k + 1 /\ 1..(k + 1) \ {k + 1} = 1..k
    BY <1>1, <1>8, MaxOfFirst
  <2>1. iter[1..(k + 1)] = iter[1..k] * LengthOf(ps[k + 1])
    BY <1>6, <2>0
  <2> QED BY <2>1
<1>9. v[n] = Combinations(ps)
  BY <1>1, <1>5
<1> HIDE DEF v
<1> QED BY <1>7, <1>8, <1>9 DEF Products

\* The parameters from the m-th on.
LEMMA Suffix ==
  ASSUME NEW P, NEW s \in Seq(P), NEW m \in 1..(Len(s) + 1)
  PROVE  /\ SubSeq(s, m, Len(s)) \in Seq(P) /\ Len(SubSeq(s, m, Len(s))) = Len(s) + 1 - m
         /\ \A k \in 1..(Len(s) + 1 - m) : SubSeq(s, m, Len(s))[k] = s[m + k - 1]
<1>1. Len(s) \in Nat
  OBVIOUS
<1>2. \A k \in m..Len(s) : s[k] \in P
  OBVIOUS
<1>3. SubSeq(s, m, Len(s)) \in Seq(P) /\ Len(SubSeq(s, m, Len(s))) = Len(s) + 1 - m
  BY <1>1, <1>2
<1>4. ASSUME NEW k \in 1..(Len(s) + 1 - m) PROVE SubSeq(s, m, Len(s))[k] = s[m + k - 1]
  BY <1>1
<1> QED BY <1>3, <1>4

\* The lengths of the parameters from the i-th on.
LEMMA SuffixIs ==
  ASSUME NEW P, NEW ps \in Seq(P), \A p \in P : LengthOf(p) \in Int,
         NEW i \in 0..Len(ps)
  PROVE  /\ i = Len(ps) => Combinations(SubSeq(ps, i + 1, Len(ps))) = 1
         /\ i # Len(ps) => Combinations(SubSeq(ps, i + 1, Len(ps)))
                            = LengthOf(ps[i + 1]) * Combinations(SubSeq(ps, i + 2, Len(ps)))
         /\ Combinations(SubSeq(ps, i + 1, Len(ps))) \in Int
<1> DEFINE n == Len(ps)
           a == SubSeq(ps, i + 1, n)
           b == SubSeq(ps, i + 2, n)
<1>1. n \in Nat /\ DOMAIN ps = 1..n /\ i \in Nat /\ i <= n
  OBVIOUS
<1>a. \A k \in 1..n : ps[k] \in P
  BY <1>1
<1>2. /\ a \in Seq(P) /\ Len(a) = n - i
      /\ \A k \in 1..(n - i) : a[k] = ps[i + k] /\ LengthOf(ps[i + k]) \in Int
  <2>1. i + 1 \in 1..(n + 1) /\ n + 1 - (i + 1) = n - i
    <3> HIDE DEF a, b, n
    <3> QED BY <1>1
  <2>2. /\ a \in Seq(P) /\ Len(a) = n + 1 - (i + 1)
        /\ \A k \in 1..(n + 1 - (i + 1)) : a[k] = ps[i + 1 + k - 1]
    BY <2>1, Suffix
  <2> HIDE DEF a, n
  <2>3. ASSUME NEW k \in 1..(n - i)
        PROVE  a[k] = ps[i + k] /\ LengthOf(ps[i + k]) \in Int
    <3>1. i + 1 + k - 1 = i + k /\ i + k \in 1..n
      BY <1>1
    <3> QED BY <1>a, <2>1, <2>2, <3>1
  <2> QED BY <2>1, <2>2, <2>3
<1>3. PICK v : Products(v, a) /\ Combinations(a) = v[Len(a)]
  BY <1>2, CombinationsAre
<1> HIDE DEF a, n
<1>4. \A k \in Nat : k < n - i => v[k + 1] = v[k] * LengthOf(ps[i + k + 1])
  <2>1. SUFFICES ASSUME NEW k \in Nat, k < n - i
                 PROVE  v[k + 1] = v[k] * LengthOf(ps[i + k + 1])
    OBVIOUS
  <2>2. k + 1 \in 1..(n - i) /\ i + (k + 1) = i + k + 1
    BY <1>1, <2>1
  <2>3. a[k + 1] = ps[i + k + 1]
    BY <1>2, <2>2
  <2> QED BY <1>2, <1>3, <2>1, <2>3 DEF Products
<1>5. v[0] = 1
  BY <1>3 DEF Products
<1>6. ASSUME NEW k \in Nat PROVE k <= n - i => v[k] \in Int
  <2> DEFINE S == {m \in Nat : m <= n - i => v[m] \in Int}
  <2>1. 0 \in S
    BY <1>5
  <2>2. ASSUME NEW m \in Nat, m \in S PROVE m + 1 \in S
    <3>1. SUFFICES ASSUME m + 1 <= n - i PROVE v[m + 1] \in Int
      OBVIOUS
    <3>2. m < n - i /\ v[m] \in Int
      BY <1>1, <2>2, <3>1
    <3>3. LengthOf(ps[i + m + 1]) \in Int
      <4>1. m + 1 \in 1..(n - i) /\ i + (m + 1) = i + m + 1
        BY <1>1, <3>2
      <4> QED BY <1>2, <4>1
    <3> QED BY <1>4, <3>2, <3>3
  <2>3. Nat \subseteq S
    <3> HIDE DEF S
    <3>1. \A m \in Nat : m \in S => m + 1 \in S
      BY <2>2
    <3> QED BY <2>1, <3>1, SetInduction
  <2> QED BY <2>3
<1>7. n - i \in Nat /\ Combinations(a) = v[n - i] /\ Combinations(a) \in Int
  BY <1>1, <1>2, <1>3, <1>6
<1>8. i = n => Combinations(a) = 1
  BY <1>1, <1>5, <1>7
<1>9. ASSUME i # n PROVE Combinations(a) = LengthOf(ps[i + 1]) * Combinations(b)
  <2> DEFINE l == LengthOf(ps[i + 1])
  <2>1. /\ b \in Seq(P) /\ Len(b) = n - i - 1
        /\ \A k \in 1..(n - i - 1) : b[k] = ps[i + 1 + k]
    <3>1. i + 2 \in 1..(n + 1) /\ n + 1 - (i + 2) = n - i - 1
      BY <1>1, <1>9
    <3>2. /\ b \in Seq(P) /\ Len(b) = n + 1 - (i + 2)
          /\ \A k \in 1..(n + 1 - (i + 2)) : b[k] = ps[i + 2 + k - 1]
      BY <3>1, Suffix DEF n
    <3> HIDE DEF b
    <3>3. \A k \in 1..(n - i - 1) : i + 2 + k - 1 = i + 1 + k
      BY <1>1
    <3> QED BY <3>1, <3>2, <3>3
  <2>2. PICK w : Products(w, b) /\ Combinations(b) = w[Len(b)]
    BY <2>1, CombinationsAre
  <2> HIDE DEF b
  <2>3. \A k \in Nat : k < n - i - 1 => w[k + 1] = w[k] * LengthOf(ps[i + k + 2])
    <3>1. SUFFICES ASSUME NEW k \in Nat, k < n - i - 1
                   PROVE  w[k + 1] = w[k] * LengthOf(ps[i + k + 2])
      OBVIOUS
    <3>2. k + 1 \in 1..(n - i - 1) /\ i + 1 + (k + 1) = i + k + 2
      BY <1>1, <3>1
    <3>3. b[k + 1] = ps[i + k + 2]
      BY <2>1, <3>2
    <3> QED BY <2>1, <2>2, <3>1, <3>3 DEF Products
  <2>4. l \in Int /\ v[1] = l
    <3>1. 1 \in 1..(n - i)
      BY <1>1, <1>9
    <3>2. l \in Int
      BY <1>2, <3>1
    <3>3. 0 < n - i /\ i + 0 + 1 = i + 1 /\ 0 + 1 = 1
      BY <1>1, <1>9
    <3>4. v[0 + 1] = v[0] * LengthOf(ps[i + 0 + 1])
      BY <1>4, <3>3
    <3>5. v[1] = 1 * l
      BY <1>5, <3>3, <3>4
    <3> HIDE DEF l
    <3> QED BY <3>2, <3>5
  <2> HIDE DEF l
  <2> DEFINE S == {k \in Nat : k <= n - i - 1 => w[k] \in Int /\ v[k + 1] = l * w[k]}
  <2>5. 0 \in S
    <3>1. w[0] = 1
      BY <2>2 DEF Products
    <3> QED BY <2>4, <3>1
  <2>6. ASSUME NEW k \in Nat, k \in S PROVE k + 1 \in S
    <3>1. SUFFICES ASSUME k + 1 <= n - i - 1
                   PROVE  w[k + 1] \in Int /\ v[(k + 1) + 1] = l * w[k + 1]
      OBVIOUS
    <3>2. k < n - i - 1 /\ k + 1 < n - i /\ w[k] \in Int /\ v[k + 1] = l * w[k]
      BY <1>1, <2>6, <3>1
    <3>3. PICK x : x = LengthOf(ps[i + k + 2])
      OBVIOUS
    <3>4. x \in Int
      <4>1. k + 2 \in 1..(n - i) /\ i + (k + 2) = i + k + 2
        BY <1>1, <3>2
      <4> QED BY <1>2, <3>3, <4>1
    <3>5. w[k + 1] = w[k] * x
      BY <2>3, <3>2, <3>3
    <3>6. v[(k + 1) + 1] = v[k + 1] * x
      <4>1. v[(k + 1) + 1] = v[k + 1] * LengthOf(ps[i + (k + 1) + 1])
        BY <1>4, <3>2
      <4>2. i + (k + 1) + 1 = i + k + 2
        BY <1>1
      <4> QED BY <3>3, <4>1, <4>2
    <3>7. PICK y : y = w[k]
      OBVIOUS
    <3>8. (l * y) * x = l * (y * x) /\ y * x \in Int
      BY <2>4, <3>2, <3>4, <3>7
    <3> QED BY <3>2, <3>5, <3>6, <3>7, <3>8
  <2>7. Nat \subseteq S
    <3> HIDE DEF S
    <3>1. \A k \in Nat : k \in S => k + 1 \in S
      BY <2>6
    <3> QED BY <2>5, <3>1, SetInduction
  <2>8. n - i - 1 \in Nat /\ (n - i - 1) + 1 = n - i
    BY <1>1, <1>9
  <2>9. v[(n - i - 1) + 1] = l * w[n - i - 1]
    BY <2>7, <2>8
  <2> QED BY <1>7, <2>1, <2>2, <2>8, <2>9 DEF l
<1> QED BY <1>7, <1>8, <1>9 DEF n, a

-----------------------------------------------------------------------------
(* The combinations and their numbers, from 0 *)

Usable(ps) ==
  /\ ps \in Seq(Params) /\ ps # <<>> /\ IsInjective(ps)
  /\ \A i \in 1..Len(ps) : LengthOf(ps[i]) >= 1

\* The combinations of the parameters after the i-th, and the index of the i-th in the
\* combination number r.
After(ps, i)    == Combinations(SubSeq(ps, i + 1, Len(ps)))
Digit(ps, i, r) == (r \div After(ps, i)) % LengthOf(ps[i])

\* A range that its constructor accepts does not divide by zero.
LEMMA LengthsAre ==
  \A p \in Params : LengthOf(p) \in Int
<1>1. SUFFICES ASSUME NEW p \in Params PROVE LengthOf(p) \in Int
  OBVIOUS
<1>2. CASE p.kind = "choice"
  <2>1. p.values \in Seq(Int)
    BY <1>2, ParamsAssumption DEF Parameter
  <2> QED BY <1>2, <2>1 DEF LengthOf
<1>3. CASE p.kind # "choice"
  <2>1. p.start \in Int /\ p.stop \in Int /\ p.step \in Int /\ p.step # 0
    BY <1>3, ParamsAssumption DEF Parameter, Accepted
  <2>2. \A m \in Int : Magnitude(m) \in Nat /\ (m # 0 => Magnitude(m) # 0)
    BY DEF Magnitude
  <2>3. ASSUME NEW a \in Int, NEW b \in Int, b # 0 PROVE Truncated(a, b) \in Int
    <3>1. Magnitude(a) \div Magnitude(b) \in Nat
      BY <2>2, <2>3, Division
    <3> QED BY <3>1 DEF Truncated
  <2>4. p.stop - p.start \in Int
    BY <2>1
  <2>5. Truncated(p.stop - p.start, p.step) \in Int
    BY <2>1, <2>3, <2>4
  <2> QED BY <1>3, <2>5 DEF LengthOf
<1> QED BY <1>2, <1>3

\* The weights of the digits.
LEMMA AfterIs ==
  ASSUME NEW ps, Usable(ps)
  PROVE  /\ Len(ps) \in Nat \ {0} /\ DOMAIN ps = 1..Len(ps)
         /\ \A i \in 1..Len(ps) : LengthOf(ps[i]) \in Nat \ {0} /\ ps[i] \in Params
         /\ \A i \in 0..Len(ps) : After(ps, i) \in Nat \ {0}
         /\ \A i \in 1..Len(ps) : After(ps, i - 1) = LengthOf(ps[i]) * After(ps, i)
         /\ After(ps, Len(ps)) = 1 /\ After(ps, 0) = Combinations(ps)
<1> DEFINE n == Len(ps)
<1>1. ps \in Seq(Params) /\ n \in Nat \ {0} /\ DOMAIN ps = 1..n
  BY DEF Usable
<1>2. \A i \in 1..n : LengthOf(ps[i]) \in Nat \ {0} /\ ps[i] \in Params
  BY <1>1, LengthsAre DEF Usable
<1>3. ASSUME NEW i \in 0..n
      PROVE  /\ i = n => After(ps, i) = 1
             /\ i # n => After(ps, i) = LengthOf(ps[i + 1]) * After(ps, i + 1)
             /\ After(ps, i) \in Int
  <2>1. (i + 1) + 1 = i + 2 /\ i \in 0..Len(ps)
    <3> HIDE DEF n
    <3> QED BY <1>1 DEF n
  <2> QED BY <1>1, <2>1, SuffixIs, LengthsAre DEF After
<1>4. SubSeq(ps, 1, n) = ps
  <2> DEFINE s == SubSeq(ps, 1, n)
  <2>1. 1 \in 1..(n + 1) /\ n + 1 - 1 = n
    BY <1>1
  <2>2. s \in Seq(Params) /\ Len(s) = n + 1 - 1 /\ \A k \in 1..(n + 1 - 1) : s[k] = ps[1 + k - 1]
    BY <1>1, <2>1, Suffix
  <2> HIDE DEF s, n
  <2>3. s \in Seq(Params) /\ Len(s) = n /\ \A k \in 1..n : s[k] = ps[k]
    BY <1>1, <2>1, <2>2
  <2>4. ps \in Seq(Params) /\ Len(ps) = n
    BY <1>1 DEF n
  <2>5. s = ps
    BY <2>3, <2>4
  <2> QED BY <2>5 DEF s
<1>5. After(ps, 0) = Combinations(ps)
  <2>1. 0 + 1 = 1
    OBVIOUS
  <2> QED BY <1>4, <2>1, Zenon DEF After
<1> HIDE DEF n
<1>6. ASSUME NEW i \in 1..n PROVE After(ps, i - 1) = LengthOf(ps[i]) * After(ps, i)
  <2>1. i - 1 \in 0..n /\ i - 1 # n /\ (i - 1) + 1 = i
    BY <1>1
  <2> QED BY <1>3, <2>1
<1>7. n \in 0..n
  BY <1>1
<1>8. After(ps, n) = 1
  BY <1>3, <1>7
<1> DEFINE S == {k \in Nat : k <= n => After(ps, n - k) \in Nat \ {0}}
<1>9. 0 \in S
  BY <1>1, <1>8
<1>10. ASSUME NEW k \in Nat, k \in S PROVE k + 1 \in S
  <2>1. SUFFICES ASSUME k + 1 <= n PROVE After(ps, n - (k + 1)) \in Nat \ {0}
    OBVIOUS
  <2>2. n - k \in 1..n /\ (n - k) - 1 = n - (k + 1) /\ After(ps, n - k) \in Nat \ {0}
    BY <1>1, <1>10, <2>1
  <2>3. After(ps, n - (k + 1)) = LengthOf(ps[n - k]) * After(ps, n - k)
    BY <1>6, <2>2
  <2>4. LengthOf(ps[n - k]) \in Nat \ {0}
    BY <1>2, <2>2
  <2> QED BY <2>2, <2>3, <2>4, DividedTwice
<1>11. Nat \subseteq S
  <2> HIDE DEF S
  <2>1. \A k \in Nat : k \in S => k + 1 \in S
    BY <1>10
  <2> QED BY <1>9, <2>1, SetInduction
<1>12. ASSUME NEW i \in 0..n PROVE After(ps, i) \in Nat \ {0}
  <2>1. n - i \in Nat /\ n - i <= n /\ n - (n - i) = i
    BY <1>1
  <2> QED BY <1>11, <2>1
<1> QED BY <1>1, <1>2, <1>5, <1>6, <1>8, <1>12 DEF n

\* From one number to the next: an index that is full is cleared and carried, another is
\* advanced, and all before that stay.
LEMMA DigitCarries ==
  ASSUME NEW ps, Usable(ps), NEW r \in Nat, NEW i \in 1..Len(ps)
  PROVE  /\ Digit(ps, i, r) \in 0..(LengthOf(ps[i]) - 1)
         /\ (r + 1) \div After(ps, i) = (r \div After(ps, i)) + 1 =>
              /\ Digit(ps, i, r) = LengthOf(ps[i]) - 1 =>
                   /\ (r + 1) \div After(ps, i - 1) = (r \div After(ps, i - 1)) + 1
                   /\ Digit(ps, i, r + 1) = 0
              /\ Digit(ps, i, r) # LengthOf(ps[i]) - 1 =>
                   /\ (r + 1) \div After(ps, i - 1) = r \div After(ps, i - 1)
                   /\ Digit(ps, i, r + 1) = Digit(ps, i, r) + 1
         /\ (r + 1) \div After(ps, i) = r \div After(ps, i) =>
              /\ (r + 1) \div After(ps, i - 1) = r \div After(ps, i - 1)
              /\ Digit(ps, i, r + 1) = Digit(ps, i, r)
<1> DEFINE l == LengthOf(ps[i])
           c == After(ps, i)
           d == After(ps, i - 1)
           q == r \div c
           t == (r + 1) \div c
<1>1. l \in Nat \ {0} /\ c \in Nat \ {0} /\ d = l * c
  <2>1. i \in 0..Len(ps)
    BY AfterIs
  <2> QED BY <2>1, AfterIs
<1>2. Digit(ps, i, r) = q % l /\ Digit(ps, i, r + 1) = t % l
  BY DEF Digit
<1> HIDE DEF l, c, d
<1>3. q \in Nat /\ t \in Nat
  <2>1. r + 1 \in Nat
    OBVIOUS
  <2> QED BY <1>1, <2>1, Quotient
<1>4. r \div d = q \div l /\ (r + 1) \div d = t \div l
  <2>1. \A a \in Nat : a \div (l * c) = (a \div c) \div l
    <3>1. SUFFICES ASSUME NEW a \in Nat PROVE a \div (l * c) = (a \div c) \div l
      OBVIOUS
    <3>2. l \in Nat \ {0} /\ c \in Nat \ {0}
      BY <1>1
    <3> HIDE DEF q, t
    <3>3. l * c \in Nat \ {0} /\ a \div (l * c) = (a \div c) \div l
      BY <3>2, DividedTwice
    <3> QED BY <3>3
  <2>2. \A a \in Nat : a \div d = (a \div c) \div l
    BY <1>1, <2>1, Zenon
  <2>3. r + 1 \in Nat
    OBVIOUS
  <2> QED BY <2>2, <2>3
<1> HIDE DEF q, t
<1>5. q % l \in 0..(l - 1)
  <2>1. q % l \in Nat /\ q % l <= l - 1
    BY <1>1, <1>3, Quotient
  <2> QED BY <1>1, <2>1
<1>6. t = q + 1 => /\ q % l = l - 1 => t \div l = (q \div l) + 1 /\ t % l = 0
                   /\ q % l # l - 1 => t \div l = q \div l /\ t % l = (q % l) + 1
  <2>1. /\ q % l = l - 1 => (q + 1) \div l = (q \div l) + 1 /\ (q + 1) % l = 0
        /\ q % l # l - 1 => (q + 1) \div l = q \div l /\ (q + 1) % l = (q % l) + 1
    BY <1>1, <1>3, Successor
  <2> QED BY <2>1, Zenon
<1> QED BY <1>2, <1>4, <1>5, <1>6 DEF l, c, d, q, t

-----------------------------------------------------------------------------
(* The loop of move_indices() *)

Indexed == [ToSet(parameters) -> Nat]

\* One turn, c being what follows.
Turned(c, i, ind) ==
  IF ~Full(ind, At(i)) THEN Moved(ind, "moved")
  ELSE IF ~HasAt(i - 1) THEN Moved([ind EXCEPT ![At(i)] = 0], "raised")
  ELSE IF Exhausted(Advanced([ind EXCEPT ![At(i)] = 0], i - 1), i - 1)
       THEN Moved(Advanced([ind EXCEPT ![At(i)] = 0], i - 1), "exhausted")
  ELSE c[i - 1][Advanced([ind EXCEPT ![At(i)] = 0], i - 1)]

LEMMA SameTurn ==
  ASSUME NEW c, NEW f, NEW i \in Int, HasAt(i - 1) => c[i - 1] = f[i - 1]
  PROVE  \A ind : Turned(c, i, ind) = Turned(f, i, ind)
<1>1. CASE HasAt(i - 1)
  BY <1>1, Zenon DEF Turned
<1>2. CASE ~HasAt(i - 1)
  BY <1>2, Zenon DEF Turned
<1> QED BY <1>1, <1>2

\* The loop ends: each turn is at a smaller index.
LEMMA CarryExists ==
  ASSUME Size \in Nat
  PROVE  \E c : c = [i \in (-Size)..(Size - 1) |-> [ind \in Indexed |-> Turned(c, i, ind)]]
<1> DEFINE n == Size
           Is(c, m) == c = [i \in (-n)..(m - n - 1) |-> [ind \in Indexed |-> Turned(c, i, ind)]]
           Exists(m) == \E c : Is(c, m)
           S == {m \in Nat : m <= 2 * n => Exists(m)}
<1>0. n \in Nat
  OBVIOUS
<1>a. \A i : HasAt(i) <=> i \in (-n)..(n - 1)
  BY DEF HasAt
<1> HIDE DEF n
<1>1. 0 \in S
  <2> DEFINE c == [i \in (-n)..(0 - n - 1) |-> {}]
  <2>1. \A i \in (-n)..(0 - n - 1) : FALSE
    BY <1>0
  <2>2. Is(c, 0)
    BY <2>1
  <2>3. Exists(0)
    BY <2>2
  <2> HIDE DEF Exists
  <2> QED BY <2>3
<1>2. ASSUME NEW m \in Nat, m \in S PROVE m + 1 \in S
  <2>1. SUFFICES ASSUME m + 1 <= 2 * n PROVE Exists(m + 1)
    <3> HIDE DEF Exists
    <3> QED OBVIOUS
  <2>2. Exists(m)
    <3> HIDE DEF Exists
    <3> QED BY <1>0, <1>2, <2>1
  <2>3. PICK c : Is(c, m)
    BY <2>2
  <2>4. (m + 1) - n - 1 = m - n /\ m - n \in Int /\ -n \in Int
    BY <1>0
  <2> DEFINE f == [i \in (-n)..(m - n) |->
                     IF i < m - n THEN c[i] ELSE [ind \in Indexed |-> Turned(c, i, ind)]]
  <2>5. ASSUME NEW i \in (-n)..(m - n)
        PROVE  /\ i < m - n => i \in (-n)..(m - n - 1)
               /\ HasAt(i - 1) => i - 1 \in (-n)..(m - n) /\ i - 1 < m - n
    BY <1>0, <1>a
  <2>6. ASSUME NEW i \in (-n)..(m - n)
        PROVE  f[i] = [ind \in Indexed |-> Turned(f, i, ind)]
    <3>1. f[i] = [ind \in Indexed |-> Turned(c, i, ind)]
      <4>1. CASE i < m - n
        BY <2>3, <2>5, <4>1
      <4>2. CASE ~(i < m - n)
        BY <4>2
      <4> QED BY <4>1, <4>2
    <3>2. HasAt(i - 1) => c[i - 1] = f[i - 1]
      BY <2>5
    <3> HIDE DEF f
    <3>3. i \in Int
      BY <2>4
    <3>4. \A ind : Turned(c, i, ind) = Turned(f, i, ind)
      BY <3>2, <3>3, SameTurn
    <3> QED BY <3>1, <3>4
  <2>7. f = [i \in (-n)..(m - n) |-> f[i]]
    OBVIOUS
  <2> HIDE DEF f
  <2>8. f = [i \in (-n)..(m - n) |-> [ind \in Indexed |-> Turned(f, i, ind)]]
    BY <2>6, <2>7
  <2>9. Is(f, m + 1)
    BY <2>4, <2>8
  <2> QED BY <2>9
<1>3. Nat \subseteq S
  <2> HIDE DEF S
  <2>1. \A m \in Nat : m \in S => m + 1 \in S
    BY <1>2
  <2> QED BY <1>1, <2>1, SetInduction
<1>4. 2 * n \in Nat /\ 2 * n - n - 1 = n - 1
  BY <1>0
<1>5. Exists(2 * n)
  <2> HIDE DEF Exists
  <2> QED BY <1>3, <1>4
<1> QED BY <1>4, <1>5 DEF n

\* So it is what its definition says.
LEMMA CarryIs ==
  ASSUME Size \in Nat, NEW i \in (-Size)..(Size - 1), NEW ind \in Indexed
  PROVE  Carry[i][ind] = Turned(Carry, i, ind)
<1>1. Carry = CHOOSE c : c = [j \in (-Size)..(Size - 1) |->
                                [k \in Indexed |-> Turned(c, j, k)]]
  BY DEF Carry, Turned, Indexed
<1>2. Carry = [j \in (-Size)..(Size - 1) |-> [k \in Indexed |-> Turned(Carry, j, k)]]
  BY <1>1, CarryExists
<1> QED BY <1>2

\* The indices are those of the combination number r.
Shows(ind, r) ==
  /\ ind \in Indexed
  /\ \A j \in 1..Size : ind[parameters[j]] = Digit(parameters, j, r)

\* The indices on the way from number r to the next: those after the i-th are there.
Carrying(ind, i, r) ==
  /\ ind \in Indexed
  /\ (r + 1) \div After(parameters, i) = (r \div After(parameters, i)) + 1
  /\ \A j \in 1..Size : j < i => ind[parameters[j]] = Digit(parameters, j, r)
  /\ ind[parameters[i]] = Digit(parameters, i, r) + 1
  /\ \A j \in 1..Size : j > i => /\ ind[parameters[j]] = 0
                                 /\ Digit(parameters, j, r + 1) = 0

LEMMA SizeIs ==
  ASSUME Usable(parameters)
  PROVE  /\ Size \in Nat \ {0} /\ Size = Len(parameters)
         /\ \A j \in 1..Size : /\ parameters[j] \in ToSet(parameters)
                               /\ LengthOf(parameters[j]) \in Nat \ {0}
         /\ \A j, k \in 1..Size : parameters[j] = parameters[k] => j = k
<1>1. Size \in Nat \ {0} /\ Size = Len(parameters) /\ DOMAIN parameters = 1..Size
  BY AfterIs DEF Size
<1>2. \A j \in 1..Size : parameters[j] \in ToSet(parameters)
  BY <1>1 DEF ToSet
<1>3. \A j, k \in 1..Size : parameters[j] = parameters[k] => j = k
  BY <1>1 DEF Usable, IsInjective
<1> QED BY <1>1, <1>2, <1>3, AfterIs

LEMMA PlacesDiffer ==
  ASSUME Usable(parameters), NEW j \in 1..Size
  PROVE  /\ parameters[j] \in ToSet(parameters)
         /\ \A k \in 1..Size : k # j => /\ parameters[k] \in ToSet(parameters)
                                         /\ parameters[k] # parameters[j]
  BY SizeIs

\* Without a carry the indices before stay as well.
LEMMA LowerStay ==
  ASSUME NEW ps, Usable(ps), NEW r \in Nat, NEW i \in 0..Len(ps),
         (r + 1) \div After(ps, i) = r \div After(ps, i)
  PROVE  /\ \A j \in 1..i : Digit(ps, j, r + 1) = Digit(ps, j, r)
         /\ (r + 1) \div After(ps, 0) = r \div After(ps, 0)
<1> DEFINE Same(j) == (r + 1) \div After(ps, j) = r \div After(ps, j)
           S == {k \in Nat : k <= i => Same(i - k)}
<1>1. i \in Nat /\ i <= Len(ps) /\ Len(ps) \in Nat /\ i - 0 = i /\ i - i = 0
  BY AfterIs
<1>2. Same(i)
  OBVIOUS
<1>3. \A j \in 1..Len(ps) :
        Same(j) => Same(j - 1) /\ Digit(ps, j, r + 1) = Digit(ps, j, r)
  BY DigitCarries
<1> HIDE DEF Same
<1>4. 0 \in S
  BY <1>1, <1>2
<1>5. ASSUME NEW k \in Nat, k \in S PROVE k + 1 \in S
  <2>1. SUFFICES ASSUME k + 1 <= i PROVE Same(i - (k + 1))
    OBVIOUS
  <2>2. i - k \in 1..Len(ps) /\ (i - k) - 1 = i - (k + 1) /\ k <= i
    BY <1>1, <2>1
  <2>3. Same(i - k)
    BY <1>5, <2>2
  <2>4. Same((i - k) - 1)
    BY <1>3, <2>2, <2>3
  <2> QED BY <2>2, <2>4
<1>6. Nat \subseteq S
  <2> HIDE DEF S
  <2>1. \A k \in Nat : k \in S => k + 1 \in S
    BY <1>5
  <2> QED BY <1>4, <2>1, SetInduction
<1>7. Same(0)
  BY <1>1, <1>6
<1>8. ASSUME NEW j \in 1..i PROVE Digit(ps, j, r + 1) = Digit(ps, j, r)
  <2>1. i - j \in Nat /\ i - j <= i /\ i - (i - j) = j /\ j \in 1..Len(ps)
    BY <1>1
  <2>2. Same(j)
    BY <1>6, <2>1
  <2> QED BY <1>3, <2>1, <2>2
<1> QED BY <1>7, <1>8 DEF Same

\* The number is known when the carry ends: after the last combination it is as large as
\* there are combinations.
LEMMA Rounds ==
  ASSUME NEW n \in Nat \ {0}, NEW r \in 0..(n - 1)
  PROVE  /\ r \div n = 0
         /\ (r + 1) \div n = r \div n => r + 1 < n
         /\ (r + 1) \div n = (r \div n) + 1 => r + 1 = n
<1>1. n * 0 + r = r /\ n * 0 + (r + 1) = r + 1 /\ n * 1 + 0 = n /\ r \in Nat
  OBVIOUS
<1>2. r \div n = 0
  <2>1. (n * 0 + r) \div n = 0
    BY Divided
  <2> QED BY <1>1, <2>1
<1>3. r + 1 < n => (r + 1) \div n = 0
  <2>1. r + 1 < n => (n * 0 + (r + 1)) \div n = 0
    BY Divided
  <2> QED BY <1>1, <2>1
<1>4. n \div n = 1
  <2>1. (n * 1 + 0) \div n = 1
    BY Divided
  <2> QED BY <1>1, <2>1
<1>5. CASE r + 1 = n
  BY <1>2, <1>4, <1>5
<1>6. CASE r + 1 < n
  BY <1>2, <1>3, <1>6
<1> QED BY <1>5, <1>6

LEMMA NumberZero ==
  ASSUME NEW ps, Usable(ps)
  PROVE  \A j \in 1..Len(ps) : Digit(ps, j, 0) = 0
<1>1. ASSUME NEW n \in Nat \ {0} PROVE 0 \div n = 0 /\ 0 % n = 0
  <2>1. n * 0 + 0 = 0
    OBVIOUS
  <2>2. (n * 0 + 0) \div n = 0 /\ (n * 0 + 0) % n = 0
    BY Divided
  <2> QED BY <2>1, <2>2
<1>2. SUFFICES ASSUME NEW j \in 1..Len(ps) PROVE Digit(ps, j, 0) = 0
  OBVIOUS
<1>3. After(ps, j) \in Nat \ {0} /\ LengthOf(ps[j]) \in Nat \ {0}
  <2>1. j \in 0..Len(ps)
    BY AfterIs
  <2> QED BY <2>1, AfterIs
<1> QED BY <1>1, <1>3 DEF Digit

\* The index of the i-th parameter has been advanced and is not full: the next number.
LEMMA CarryEnds ==
  ASSUME Usable(parameters), NEW r \in 0..(Combinations(parameters) - 1),
         NEW i \in 1..Size, NEW ind, Carrying(ind, i, r), ~Full(ind, parameters[i])
  PROVE  Shows(ind, r + 1) /\ r + 1 < Combinations(parameters)
<1> DEFINE N == Combinations(parameters)
<1>1. N \in Nat \ {0} /\ N = After(parameters, 0) /\ r \in Nat
  <2>1. 0 \in 0..Len(parameters)
    BY AfterIs
  <2> QED BY <2>1, AfterIs
<1>2. i \in 1..Len(parameters) /\ i - 1 \in 0..Len(parameters) /\ Size = Len(parameters)
  BY SizeIs
<1>3. Digit(parameters, i, r) # LengthOf(parameters[i]) - 1
  <2>1. LengthOf(parameters[i]) \in Nat
    BY SizeIs
  <2> QED BY <2>1 DEF Full, Carrying
<1>4. /\ (r + 1) \div After(parameters, i - 1) = r \div After(parameters, i - 1)
      /\ Digit(parameters, i, r + 1) = Digit(parameters, i, r) + 1
  BY <1>1, <1>2, <1>3, DigitCarries DEF Carrying
<1>5. /\ \A j \in 1..(i - 1) : Digit(parameters, j, r + 1) = Digit(parameters, j, r)
      /\ (r + 1) \div After(parameters, 0) = r \div After(parameters, 0)
  BY <1>1, <1>2, <1>4, LowerStay
<1>6. ASSUME NEW j \in 1..Size PROVE ind[parameters[j]] = Digit(parameters, j, r + 1)
  <2>1. CASE j < i
    <3>1. j \in 1..(i - 1)
      BY <1>2, <2>1
    <3> QED BY <1>5, <2>1, <3>1 DEF Carrying
  <2>2. CASE j = i
    BY <1>4, <2>2 DEF Carrying
  <2>3. CASE j > i
    BY <2>3 DEF Carrying
  <2>4. Size \in Nat
    BY SizeIs
  <2> QED BY <2>1, <2>2, <2>3, <2>4
<1>7. r + 1 < N
  <2> HIDE DEF N
  <2>1. (r + 1) \div N = r \div N
    BY <1>1, <1>5
  <2> QED BY <1>1, <2>1, Rounds DEF N
<1> QED BY <1>6, <1>7 DEF Shows, Carrying

Cleared(ind, i) == [ind EXCEPT ![parameters[i]] = 0]
Increased(ind, i) == [ind EXCEPT ![parameters[i]] = @ + 1]

\* It is full: the carry goes on, or goes out of the first parameter.
LEMMA CarryGoesOn ==
  ASSUME Usable(parameters), NEW r \in 0..(Combinations(parameters) - 1),
         NEW i \in 1..Size, NEW ind, Carrying(ind, i, r), Full(ind, parameters[i])
  PROVE  /\ Cleared(ind, i) \in Indexed
         /\ i # 1 => /\ Carrying(Increased(Cleared(ind, i), i - 1), i - 1, r)
                     /\ Increased(Cleared(ind, i), i - 1)[parameters[i - 1]]
                          <= LengthOf(parameters[i - 1])
         /\ i = 1 => Shows(Cleared(ind, i), 0) /\ r + 1 = Combinations(parameters)
<1> DEFINE N == Combinations(parameters)
           cleared == Cleared(ind, i)
<1>1. N \in Nat \ {0} /\ N = After(parameters, 0) /\ r \in Nat /\ r + 1 \in Nat
  <2>1. 0 \in 0..Len(parameters)
    BY AfterIs
  <2> QED BY <2>1, AfterIs
<1>2. /\ \A j \in 1..Size : j \in 1..Len(parameters) /\ LengthOf(parameters[j]) \in Nat \ {0}
      /\ Size \in Nat
  BY SizeIs
<1>3. Digit(parameters, i, r) = LengthOf(parameters[i]) - 1
  <2>1. Digit(parameters, i, r) \in 0..(LengthOf(parameters[i]) - 1)
    BY <1>1, <1>2, DigitCarries
  <2>2. LengthOf(parameters[i]) \in Nat
    BY <1>2
  <2> QED BY <2>1, <2>2 DEF Full, Carrying
<1>4. /\ (r + 1) \div After(parameters, i - 1) = (r \div After(parameters, i - 1)) + 1
      /\ Digit(parameters, i, r + 1) = 0
  BY <1>1, <1>2, <1>3, DigitCarries DEF Carrying
<1>5. /\ cleared \in Indexed /\ cleared[parameters[i]] = 0
      /\ \A k \in 1..Size : k # i => cleared[parameters[k]] = ind[parameters[k]]
  BY PlacesDiffer DEF Carrying, Indexed, Cleared
<1> HIDE DEF cleared
<1>6. \A j \in 1..Size : j > i - 1 => /\ cleared[parameters[j]] = 0
                                     /\ Digit(parameters, j, r + 1) = 0
  BY <1>4, <1>5 DEF Carrying
<1>7. ASSUME i # 1
      PROVE  /\ Carrying(Increased(cleared, i - 1), i - 1, r)
             /\ Increased(cleared, i - 1)[parameters[i - 1]] <= LengthOf(parameters[i - 1])
  <2> DEFINE h == i - 1
             d == Digit(parameters, h, r)
             next == Increased(cleared, h)
  <2>1. h \in 1..Size /\ h < i /\ h # i
    BY <1>2, <1>7
  <2>h. h \in 1..Len(parameters)
    BY <1>2, <2>1
  <2>2. cleared[parameters[h]] = d
    BY <1>5, <2>1 DEF Carrying
  <2>3. d \in 0..(LengthOf(parameters[h]) - 1) /\ LengthOf(parameters[h]) \in Nat
    <3> HIDE DEF h
    <3>1. LengthOf(parameters[h]) \in Nat
      BY <1>2, <2>1
    <3>2. Digit(parameters, h, r) \in 0..(LengthOf(parameters[h]) - 1)
      BY <1>1, <2>h, DigitCarries
    <3> QED BY <3>1, <3>2
  <2>4. d + 1 \in Nat
    <3> HIDE DEF d
    <3> QED BY <2>3
  <2>5. /\ next \in Indexed /\ next[parameters[h]] = d + 1
        /\ \A k \in 1..Size : k # h => next[parameters[k]] = cleared[parameters[k]]
    <3> HIDE DEF d, h
    <3>1. /\ parameters[h] \in ToSet(parameters)
          /\ \A k \in 1..Size : k # h => /\ parameters[k] \in ToSet(parameters)
                                          /\ parameters[k] # parameters[h]
      BY <2>1, PlacesDiffer
    <3> QED BY <1>5, <2>2, <2>4, <3>1 DEF Indexed, Increased
  <2> HIDE DEF d, next
  <2>6. ASSUME NEW j \in 1..Size, j < h
        PROVE  next[parameters[j]] = Digit(parameters, j, r)
    <3>1. j < i /\ j # i /\ j # h
      BY <1>2, <2>1, <2>6
    <3>2. next[parameters[j]] = ind[parameters[j]]
      BY <1>5, <2>5, <3>1
    <3> QED BY <3>1, <3>2 DEF Carrying
  <2>7. ASSUME NEW j \in 1..Size, j > h
        PROVE  next[parameters[j]] = 0 /\ Digit(parameters, j, r + 1) = 0
    <3>1. j # h
      BY <1>2, <2>1, <2>7
    <3> QED BY <1>6, <2>5, <2>7, <3>1
  <2>8. Carrying(next, h, r)
    BY <1>4, <2>5, <2>6, <2>7 DEF Carrying, d
  <2>9. next[parameters[h]] <= LengthOf(parameters[h])
    BY <2>3, <2>5
  <2> QED BY <2>8, <2>9 DEF next
<1>8. ASSUME i = 1 PROVE Shows(cleared, 0) /\ r + 1 = N
  <2>1. \A j \in 1..Size : cleared[parameters[j]] = 0
    BY <1>2, <1>6, <1>8
  <2>2. Shows(cleared, 0)
    BY <1>2, <1>5, <2>1, NumberZero DEF Shows
  <2> HIDE DEF N
  <2>3. (r + 1) \div N = (r \div N) + 1
    BY <1>1, <1>4, <1>8
  <2>4. r + 1 = N
    BY <1>1, <2>3, Rounds DEF N
  <2> QED BY <2>2, <2>4
<1> QED BY <1>5, <1>7, <1>8 DEF cleared

\* The index of the last parameter is advanced first.
LEMMA CarryBegins ==
  ASSUME Usable(parameters), NEW r \in Nat, NEW ind, Shows(ind, r)
  PROVE  Carrying(Increased(ind, Size), Size, r)
<1> DEFINE next == Increased(ind, Size)
<1>1. /\ Size \in 1..Size /\ Size = Len(parameters)
      /\ \A j \in 1..Size : j \in 1..Len(parameters) /\ ~(j > Size)
  BY SizeIs
<1>2. /\ parameters[Size] \in ToSet(parameters)
      /\ \A k \in 1..Size : k # Size => /\ parameters[k] \in ToSet(parameters)
                                         /\ parameters[k] # parameters[Size]
  BY <1>1, PlacesDiffer
<1>3. ind \in Indexed /\ ind[parameters[Size]] = Digit(parameters, Size, r)
  BY <1>1 DEF Shows
<1>4. ind[parameters[Size]] \in Nat
  BY <1>2, <1>3 DEF Indexed
<1>5. /\ next \in Indexed /\ next[parameters[Size]] = ind[parameters[Size]] + 1
      /\ \A k \in 1..Size : k # Size => next[parameters[k]] = ind[parameters[k]]
  BY <1>2, <1>3, <1>4 DEF Indexed, Increased
<1> HIDE DEF next
<1>6. (r + 1) \div After(parameters, Size) = (r \div After(parameters, Size)) + 1
  <2>1. After(parameters, Size) = 1
    BY <1>1, AfterIs
  <2>2. \A a \in Nat : a \div 1 = a
    <3>1. \A a \in Nat : 1 * a + 0 = a /\ (1 * a + 0) \div 1 = a
      BY Divided
    <3> QED BY <3>1
  <2>3. r + 1 \in Nat
    OBVIOUS
  <2> QED BY <2>1, <2>2, <2>3
<1>7. \A j \in 1..Size : j < Size => next[parameters[j]] = Digit(parameters, j, r)
  BY <1>1, <1>5 DEF Shows
<1>8. Carrying(next, Size, r)
  BY <1>1, <1>3, <1>5, <1>6, <1>7 DEF Carrying
<1> QED BY <1>8 DEF next

\* The turns of the loop, at index i - 1 and, in the second round, at the negative index
\* i - 1 - Size.
LEMMA TurnAt ==
  ASSUME Usable(parameters), NEW i \in 1..Size, NEW back \in {0, Size}, NEW ind \in Indexed
  PROVE  /\ ~Full(ind, parameters[i]) => Carry[i - 1 - back][ind] = Moved(ind, "moved")
         /\ Full(ind, parameters[i]) =>
              /\ i # 1 /\ Increased(Cleared(ind, i), i - 1)[parameters[i - 1]]
                           <= LengthOf(parameters[i - 1]) =>
                   Carry[i - 1 - back][ind]
                     = Carry[(i - 1) - 1 - back][Increased(Cleared(ind, i), i - 1)]
              /\ i = 1 /\ back = Size =>
                   Carry[i - 1 - back][ind] = Moved(Cleared(ind, i), "raised")
              /\ i = 1 /\ back = 0 =>
                   Carry[i - 1 - back][ind]
                     = Carry[Size - 1 - Size][Increased(Cleared(ind, i), Size)]
<1> DEFINE k == i - 1 - back
           cleared == Cleared(ind, i)
           next == Increased(cleared, i - 1)
<1>1. /\ Size \in Nat \ {0} /\ k \in (-Size)..(Size - 1)
      /\ \A j \in 1..Size : LengthOf(parameters[j]) \in Nat \ {0}
  BY SizeIs
<1>2. At(k) = parameters[i]
  <2>1. (IF k < 0 THEN Size + k + 1 ELSE k + 1) = i
    BY <1>1
  <2> QED BY <2>1 DEF At
<1>3. i # 1 => /\ At(k - 1) = parameters[i - 1] /\ HasAt(k - 1)
               /\ k - 1 = (i - 1) - 1 - back
               /\ k - 1 = 0 => At(0) = parameters[i - 1]
  <2>1. i # 1 => (IF k - 1 < 0 THEN Size + (k - 1) + 1 ELSE (k - 1) + 1) = i - 1
    BY <1>1
  <2>2. i # 1 => At(k - 1) = parameters[i - 1]
    BY <2>1 DEF At
  <2>3. i # 1 => k - 1 \in (-Size)..(Size - 1) /\ k - 1 = (i - 1) - 1 - back
    BY <1>1
  <2> HIDE DEF k
  <2> QED BY <2>2, <2>3 DEF HasAt
<1>4. i = 1 /\ back = Size => ~HasAt(k - 1)
  BY <1>1 DEF HasAt
<1>5. i = 1 /\ back = 0 => /\ HasAt(k - 1) /\ k - 1 = Size - 1 - Size /\ k - 1 # 0
                           /\ At(k - 1) = parameters[Size]
  <2>1. i = 1 /\ back = 0 => k - 1 = -1 /\ -1 = Size - 1 - Size
    BY <1>1
  <2>2. -1 \in (-Size)..(Size - 1) /\ Size + (-1) + 1 = Size /\ -1 < 0 /\ -1 # 0
    BY <1>1
  <2>3. At(-1) = parameters[Size]
    BY <2>2 DEF At
  <2> HIDE DEF k
  <2> QED BY <2>1, <2>2, <2>3 DEF HasAt
<1>6. Carry[k][ind] = Turned(Carry, k, ind)
  BY <1>1, CarryIs
<1> DEFINE turned == [ind EXCEPT ![At(k)] = 0]
<1>t. turned = cleared
  BY <1>2, Zenon DEF Cleared
<1>c. Carry[k][ind]
        = IF ~Full(ind, At(k)) THEN Moved(ind, "moved")
          ELSE IF ~HasAt(k - 1) THEN Moved(turned, "raised")
          ELSE IF Exhausted(Advanced(turned, k - 1), k - 1)
               THEN Moved(Advanced(turned, k - 1), "exhausted")
          ELSE Carry[k - 1][Advanced(turned, k - 1)]
  BY <1>6, Zenon DEF Turned
<1> HIDE DEF k, turned, cleared, next
<1>7. ASSUME ~Full(ind, parameters[i]) PROVE Carry[k][ind] = Moved(ind, "moved")
  BY <1>2, <1>c, <1>7, Zenon
<1>8. ASSUME Full(ind, parameters[i]), i = 1, back = Size
      PROVE  Carry[k][ind] = Moved(cleared, "raised")
  BY <1>2, <1>4, <1>c, <1>t, <1>8, Zenon
<1>9. ASSUME Full(ind, parameters[i]), i = 1, back = 0
      PROVE  Carry[k][ind] = Carry[Size - 1 - Size][Increased(cleared, Size)]
  <2>1. ~Exhausted(Advanced(cleared, k - 1), k - 1)
    BY <1>5, <1>9 DEF Exhausted
  <2>2. Advanced(cleared, k - 1) = Increased(cleared, Size)
    BY <1>5, <1>9, Zenon DEF Advanced, Increased
  <2>3. Carry[k][ind] = Carry[k - 1][Advanced(cleared, k - 1)]
    BY <1>2, <1>5, <1>c, <1>t, <1>9, <2>1, Zenon
  <2> QED BY <1>5, <1>9, <2>2, <2>3, Zenon
<1>10. ASSUME Full(ind, parameters[i]), i # 1,
              next[parameters[i - 1]] <= LengthOf(parameters[i - 1])
       PROVE  Carry[k][ind] = Carry[(i - 1) - 1 - back][next]
  <2>1. Advanced(cleared, k - 1) = next
    BY <1>3, <1>10, Zenon DEF Advanced, Increased, next
  <2>2. ~Exhausted(next, k - 1)
    <3>1. SUFFICES ASSUME k - 1 = 0, next[At(0)] > LengthOf(At(0)) PROVE FALSE
      BY DEF Exhausted
    <3>2. At(0) = parameters[i - 1] /\ i - 1 \in 1..Size
      BY <1>1, <1>3, <1>10, <3>1
    <3>3. parameters[i - 1] \in ToSet(parameters) /\ parameters[i] \in ToSet(parameters)
      BY <3>2, SizeIs
    <3>4. cleared \in Indexed
      BY <3>3 DEF Indexed, cleared, Cleared
    <3>5. next[parameters[i - 1]] \in Nat
      BY <1>10, <3>3, <3>4 DEF Indexed, next, Increased
    <3> QED BY <1>1, <1>10, <3>1, <3>2, <3>5
  <2>3. Carry[k][ind] = Carry[k - 1][Advanced(cleared, k - 1)]
    BY <1>2, <1>3, <1>c, <1>t, <1>10, <2>1, <2>2, Zenon
  <2> QED BY <1>3, <1>10, <2>1, <2>3, Zenon
<1> QED BY <1>7, <1>8, <1>9, <1>10, Zenon DEF k, cleared, next

\* Where the carry may end: at the next combination, or before the first parameter.
Forward(r) ==
  {c \in [indices : Indexed, how : {"moved"}] :
     r + 1 < Combinations(parameters) /\ Shows(c.indices, r + 1)}
OutOfFirst(r) ==
  {c \in [indices : Indexed, how : {"raised"}] :
     r + 1 = Combinations(parameters) /\ Shows(c.indices, 0)}

\* A carry that comes to an end in G from the first parameter does so from any.
LEMMA CarryEndsIn ==
  ASSUME Usable(parameters), NEW r \in 0..(Combinations(parameters) - 1),
         NEW back \in {0, Size}, NEW G, Forward(r) \subseteq G,
         \A ind : Carrying(ind, 1, r) /\ Full(ind, parameters[1]) =>
                    Carry[1 - 1 - back][ind] \in G
  PROVE  \A i \in 1..Size : \A ind : Carrying(ind, i, r) => Carry[i - 1 - back][ind] \in G
<1> DEFINE Good(i) == \A ind : Carrying(ind, i, r) => Carry[i - 1 - back][ind] \in G
           S == {m \in Nat : m + 1 <= Size => Good(m + 1)}
<1>1. ASSUME NEW i \in 1..Size, NEW ind, Carrying(ind, i, r), ~Full(ind, parameters[i])
      PROVE  Carry[i - 1 - back][ind] \in G
  <2>1. Shows(ind, r + 1) /\ r + 1 < Combinations(parameters)
    BY <1>1, CarryEnds
  <2>2. ind \in Indexed
    BY <1>1 DEF Carrying
  <2>3. Carry[i - 1 - back][ind] = Moved(ind, "moved")
    BY <1>1, <2>2, TurnAt
  <2>4. Moved(ind, "moved") \in Forward(r)
    BY <2>1, <2>2 DEF Moved, Forward
  <2> QED BY <2>3, <2>4
<1>2. Size \in Nat \ {0}
  BY SizeIs
<1>3. Good(1)
  <2>1. 1 \in 1..Size
    BY <1>2
  <2> QED BY <1>1, <2>1
<1>4. ASSUME NEW m \in Nat, m \in S PROVE m + 1 \in S
  <2>1. SUFFICES ASSUME (m + 1) + 1 <= Size,
                        NEW ind, Carrying(ind, (m + 1) + 1, r)
                 PROVE  Carry[(m + 1) + 1 - 1 - back][ind] \in G
    OBVIOUS
  <2> DEFINE i == (m + 1) + 1
  <2>2. i \in 1..Size /\ i # 1 /\ i - 1 = m + 1 /\ m + 1 <= Size
    BY <1>2, <2>1
  <2>3. Good(i - 1)
    <3> HIDE DEF Good, i
    <3> QED BY <1>4, <2>2
  <2>4. CASE ~Full(ind, parameters[i])
    <3> HIDE DEF Good
    <3> QED BY <1>1, <2>1, <2>2, <2>4
  <2>5. CASE Full(ind, parameters[i])
    <3> DEFINE next == Increased(Cleared(ind, i), i - 1)
    <3> HIDE DEF i, Good, next
    <3>1. Carrying(ind, i, r) /\ ind \in Indexed
      BY <2>1 DEF Carrying, i
    <3>2. Carrying(next, i - 1, r) /\ next[parameters[i - 1]] <= LengthOf(parameters[i - 1])
      BY <2>2, <2>5, <3>1, CarryGoesOn DEF next
    <3>3. Carry[i - 1 - back][ind] = Carry[(i - 1) - 1 - back][next]
      BY <2>2, <2>5, <3>1, <3>2, TurnAt, Zenon DEF next
    <3> QED BY <2>3, <3>2, <3>3 DEF Good, i
  <2> QED BY <2>4, <2>5
<1>5. 0 \in S
  <2> HIDE DEF Good
  <2> QED BY <1>3
<1>6. Nat \subseteq S
  <2> HIDE DEF S
  <2>1. \A m \in Nat : m \in S => m + 1 \in S
    BY <1>4
  <2> QED BY <1>5, <2>1, SetInduction
<1>7. ASSUME NEW i \in 1..Size PROVE Good(i)
  <2> HIDE DEF Good
  <2>1. i - 1 \in Nat /\ (i - 1) + 1 = i /\ i <= Size
    BY <1>2
  <2> QED BY <1>6, <2>1
<1> QED BY <1>7

\* The second round, with negative indices, comes out of the first parameter if it has
\* nothing to move on to.
LEMMA SecondRound ==
  ASSUME Usable(parameters), NEW r \in 0..(Combinations(parameters) - 1),
         NEW ind, Carrying(ind, Size, r)
  PROVE  Carry[Size - 1 - Size][ind] \in Forward(r) \cup OutOfFirst(r)
<1> DEFINE G == Forward(r) \cup OutOfFirst(r)
<1>1. Size \in Nat \ {0} /\ Size \in 1..Size /\ 1 \in 1..Size
  BY SizeIs
<1>2. ASSUME NEW f, Carrying(f, 1, r), Full(f, parameters[1])
      PROVE  Carry[1 - 1 - Size][f] \in G
  <2>1. PICK cleared : cleared = Cleared(f, 1)
    OBVIOUS
  <2>2. f \in Indexed
    BY <1>2 DEF Carrying
  <2>3. cleared \in Indexed /\ Shows(cleared, 0) /\ r + 1 = Combinations(parameters)
    BY <1>1, <1>2, <2>1, CarryGoesOn
  <2>4. Carry[1 - 1 - Size][f] = Moved(cleared, "raised")
    <3>1. Size \in {0, Size}
      OBVIOUS
    <3> QED BY <1>1, <1>2, <2>1, <2>2, <3>1, TurnAt, Zenon
  <2>5. Moved(cleared, "raised") \in OutOfFirst(r)
    BY <2>3 DEF Moved, OutOfFirst
  <2> QED BY <2>4, <2>5
<1>3. Forward(r) \subseteq G
  OBVIOUS
<1> HIDE DEF G
<1>4. \A i \in 1..Size : \A f : Carrying(f, i, r) => Carry[i - 1 - Size][f] \in G
  BY <1>2, <1>3, CarryEndsIn
<1> QED BY <1>1, <1>4 DEF G

\* The first round, with the indices of the parameters, starts the second.
LEMMA FirstRound ==
  ASSUME Usable(parameters), NEW r \in 0..(Combinations(parameters) - 1),
         NEW ind, Carrying(ind, Size, r)
  PROVE  Carry[Size - 1][ind] \in
           Forward(r) \cup {c \in Forward(0) \cup OutOfFirst(0) : r + 1 = Combinations(parameters)}
<1> DEFINE G == Forward(r)
                  \cup {c \in Forward(0) \cup OutOfFirst(0) : r + 1 = Combinations(parameters)}
<1>1. Size \in Nat \ {0} /\ Size \in 1..Size /\ 1 \in 1..Size /\ Size - 1 - 0 = Size - 1
  BY SizeIs
<1>0. 0 \in 0..(Combinations(parameters) - 1) /\ 0 \in Nat
  <2>1. Combinations(parameters) \in Nat \ {0}
    <3>1. 0 \in 0..Len(parameters)
      BY AfterIs
    <3> QED BY <3>1, AfterIs
  <2> QED BY <2>1
<1>2. ASSUME NEW f, Carrying(f, 1, r), Full(f, parameters[1])
      PROVE  Carry[1 - 1 - 0][f] \in G
  <2>1. PICK cleared : cleared = Cleared(f, 1)
    OBVIOUS
  <2>2. f \in Indexed
    BY <1>2 DEF Carrying
  <2>3. cleared \in Indexed /\ Shows(cleared, 0) /\ r + 1 = Combinations(parameters)
    BY <1>1, <1>2, <2>1, CarryGoesOn
  <2>4. PICK next : next = Increased(cleared, Size)
    OBVIOUS
  <2>5. Carry[1 - 1 - 0][f] = Carry[Size - 1 - Size][next]
    <3>1. 0 \in {0, Size}
      OBVIOUS
    <3> QED BY <1>1, <1>2, <2>1, <2>2, <2>4, <3>1, TurnAt, Zenon
  <2>6. Carrying(next, Size, 0)
    BY <1>0, <2>3, <2>4, CarryBegins
  <2>7. Carry[Size - 1 - Size][next] \in Forward(0) \cup OutOfFirst(0)
    BY <1>0, <2>6, SecondRound
  <2> QED BY <2>3, <2>5, <2>7
<1>3. Forward(r) \subseteq G
  OBVIOUS
<1> HIDE DEF G
<1>4. \A i \in 1..Size : \A f : Carrying(f, i, r) => Carry[i - 1 - 0][f] \in G
  BY <1>2, <1>3, CarryEndsIn
<1> QED BY <1>1, <1>4 DEF G

\* move_indices(): on to the next combination; after the last to the second; and if there
\* is only one, out of the parameters.
LEMMA MoveIndicesIs ==
  ASSUME Usable(parameters), NEW r \in 0..(Combinations(parameters) - 1), Shows(indices, r)
  PROVE  IF Combinations(parameters) = 1
         THEN MoveIndices.how = "raised" /\ Shows(MoveIndices.indices, 0)
         ELSE /\ MoveIndices.how = "moved"
              /\ Shows(MoveIndices.indices,
                       IF r + 1 < Combinations(parameters) THEN r + 1 ELSE 1)
<1> DEFINE N == Combinations(parameters)
<1>1. Size \in Nat \ {0} /\ At(Size - 1) = parameters[Size]
  <2>1. Size \in Nat \ {0}
    BY SizeIs
  <2>2. ~(Size - 1 < 0) /\ (Size - 1) + 1 = Size
    BY <2>1
  <2> QED BY <2>1, <2>2 DEF At
<1>2. N \in Nat \ {0}
  <2>1. 0 \in 0..Len(parameters)
    BY AfterIs
  <2> QED BY <2>1, AfterIs
<1>3. PICK next : next = Increased(indices, Size)
  OBVIOUS
<1>4. MoveIndices = Carry[Size - 1][next]
  <2>1. Advanced(indices, Size - 1) = next
    BY <1>1, <1>3, Zenon DEF Advanced, Increased
  <2> QED BY <2>1, Zenon DEF MoveIndices
<1>5. Carrying(next, Size, r)
  BY <1>3, CarryBegins
<1>6. MoveIndices \in Forward(r) \cup {c \in Forward(0) \cup OutOfFirst(0) : r + 1 = N}
  BY <1>4, <1>5, FirstRound
<1> HIDE DEF N
<1>7. CASE MoveIndices \in Forward(r)
  BY <1>2, <1>7 DEF Forward, N
<1>8. CASE r + 1 = N /\ MoveIndices \in Forward(0)
  BY <1>2, <1>8 DEF Forward, N
<1>9. CASE r + 1 = N /\ MoveIndices \in OutOfFirst(0)
  BY <1>2, <1>9 DEF OutOfFirst, N
<1> QED BY <1>6, <1>7, <1>8, <1>9

\* No parameter is there twice, and so the keys of indices are the parameters.
LEMMA KeysAre ==
  ASSUME Usable(parameters)
  PROVE  Keys = parameters
<1> DEFINE ps == parameters
           n == Len(ps)
           V == Seq(Params)
           h == [i \in 1..n |-> [x \in V |-> IF Contains(x, ps[i]) THEN x
                                                                  ELSE Append(x, ps[i])]]
           Is(g) == g = [s \in SUBSET (1..n) |->
                           IF s = {} THEN <<>>
                           ELSE IF Contains(g[s \ {Max(s)}], ps[Max(s)])
                                THEN g[s \ {Max(s)}]
                                ELSE Append(g[s \ {Max(s)}], ps[Max(s)])]
           iter == CHOOSE g : Is(g)
<1>1. /\ n \in Nat /\ DOMAIN ps = 1..n /\ ps \in V
      /\ \A i \in 1..n : ps[i] \in Params
      /\ \A i, j \in 1..n : ps[i] = ps[j] => i = j
  BY DEF Usable, IsInjective
<1>2. h \in [1..n -> [V -> V]] /\ <<>> \in V
  <2>1. \A i \in 1..n : \A x \in V : Append(x, ps[i]) \in V
    BY <1>1
  <2> QED BY <2>1
<1>3. \E g : Is(g)
  <2>1. PICK g : IsSetFold(g, n, V, <<>>, h)
    <3> HIDE DEF h, n, V
    <3> QED BY <1>1, <1>2, SetFold
  <2>2. ASSUME NEW s \in SUBSET (1..n), s # {}
        PROVE  g[s] = IF Contains(g[s \ {Max(s)}], ps[Max(s)])
                      THEN g[s \ {Max(s)}] ELSE Append(g[s \ {Max(s)}], ps[Max(s)])
    <3>1. Max(s) \in 1..n
      BY <1>1, <2>2, MostOf
    <3>2. s \ {Max(s)} \in SUBSET (1..n)
      OBVIOUS
    <3>3. g[s \ {Max(s)}] \in V /\ g[s] = h[Max(s)][g[s \ {Max(s)}]]
      BY <2>1, <2>2, <3>2 DEF IsSetFold
    <3> HIDE DEF V, n, ps
    <3> QED BY <3>1, <3>3
  <2>3. \A s \in SUBSET (1..n) :
          g[s] = IF s = {} THEN <<>>
                 ELSE IF Contains(g[s \ {Max(s)}], ps[Max(s)])
                      THEN g[s \ {Max(s)}] ELSE Append(g[s \ {Max(s)}], ps[Max(s)])
    BY <2>1, <2>2, Zenon DEF IsSetFold
  <2>4. g = [s \in SUBSET (1..n) |-> g[s]]
    BY <2>1 DEF IsSetFold
  <2>5. Is(g)
    <3> HIDE DEF n, ps
    <3> QED BY <2>3, <2>4, Zenon
  <2> QED BY <2>5
<1>4. Is(iter)
  BY <1>3, Zenon
<1>5. Keys = iter[1..n]
  BY <1>1 DEF Keys, FoldLeft, MapThenFoldSet
<1>6. \A s \in SUBSET (1..n) :
        iter[s] = IF s = {} THEN <<>>
                  ELSE IF Contains(iter[s \ {Max(s)}], ps[Max(s)])
                       THEN iter[s \ {Max(s)}] ELSE Append(iter[s \ {Max(s)}], ps[Max(s)])
  <2> HIDE DEF iter, n, ps
  <2> QED BY <1>4
<1> HIDE DEF iter, Is, V, h
<1> DEFINE First(k) == /\ iter[1..k] \in Seq(Params) /\ Len(iter[1..k]) = k
                       /\ \A j \in 1..k : iter[1..k][j] = ps[j]
           S == {k \in Nat : k <= n => First(k)}
<1>7. 0 \in S
  <2>1. 1..0 \in SUBSET (1..n) /\ 1..0 = {}
    OBVIOUS
  <2>2. iter[1..0] = <<>>
    BY <1>6, <2>1
  <2>3. <<>> \in Seq(Params) /\ Len(<<>>) = 0
    OBVIOUS
  <2> HIDE DEF n, ps
  <2>4. First(0)
    BY <2>1, <2>2, <2>3
  <2> HIDE DEF First
  <2> QED BY <2>4
<1>8. ASSUME NEW k \in Nat, k \in S PROVE k + 1 \in S
  <2>1. SUFFICES ASSUME k + 1 <= n PROVE First(k + 1)
    <3> HIDE DEF First
    <3> QED OBVIOUS
  <2>2. First(k) /\ k < n /\ k + 1 \in 1..n
    <3> HIDE DEF First
    <3> QED BY <1>1, <1>8, <2>1
  <2>3. /\ 1..(k + 1) \in SUBSET (1..n) /\ 1..(k + 1) # {}
        /\ Max(1..(k + 1)) = k + 1 /\ 1..(k + 1) \ {k + 1} = 1..k
    <3> HIDE DEF n
    <3> QED BY <1>1, <2>2, MaxOfFirst
  <2> HIDE DEF n, ps
  <2>4. ~Contains(iter[1..k], ps[k + 1])
    <3>1. \A j \in 1..k : j \in 1..n /\ j # k + 1
      BY <1>1, <2>2
    <3>2. \A j \in 1..k : iter[1..k][j] # ps[k + 1]
      BY <1>1, <2>2, <3>1
    <3> QED BY <2>2, <3>2 DEF Contains
  <2>5. iter[1..(k + 1)] = Append(iter[1..k], ps[k + 1])
    BY <1>6, <2>3, <2>4
  <2> QED BY <1>1, <2>2, <2>5
<1>9. Nat \subseteq S
  <2> HIDE DEF S
  <2>1. \A k \in Nat : k \in S => k + 1 \in S
    BY <1>8
  <2> QED BY <1>7, <2>1, SetInduction
<1>10. First(n)
  <2> HIDE DEF First
  <2> QED BY <1>1, <1>9
<1> HIDE DEF n, ps
<1>11. Len(ps) = n /\ ps \in Seq(Params)
  BY <1>1 DEF n, V
<1>12. iter[1..n] = ps
  BY <1>1, <1>10, <1>11
<1> QED BY <1>5, <1>12 DEF ps

-----------------------------------------------------------------------------
(* The search *)

\* The combination number r, and the number of the one that the k-th call returns, k
\* from 0: the first is not returned again.
Numbered(ps, r) == [i \in DOMAIN ps |-> Get(ps[i], Digit(ps, i, r))]
Rank(n, k)      == IF k < n THEN k ELSE 1 + ((k - n) % (n - 1))

\* Each number follows the one before; after the last comes the second.
LEMMA RanksAre ==
  ASSUME NEW n \in Nat, n > 1, NEW k \in Nat
  PROVE  /\ Rank(n, k) \in 0..(n - 1)
         /\ Rank(n, k + 1) = IF Rank(n, k) + 1 < n THEN Rank(n, k) + 1 ELSE 1
<1>1. n - 1 \in Nat \ {0}
  OBVIOUS
<1>2. CASE k + 1 < n
  BY <1>2 DEF Rank
<1>3. CASE k + 1 = n
  <2>1. 0 % (n - 1) = 0
    <3>1. (n - 1) * 0 + 0 = 0
      BY <1>1
    <3>2. ((n - 1) * 0 + 0) % (n - 1) = 0
      BY <1>1, Divided
    <3> QED BY <3>1, <3>2
  <2>2. k < n /\ ~(k + 1 < n) /\ (k + 1) - n = 0
    BY <1>3
  <2>3. Rank(n, k) = k /\ Rank(n, k + 1) = 1 + (0 % (n - 1))
    BY <2>2 DEF Rank
  <2> QED BY <1>3, <2>1, <2>3
<1>4. CASE k >= n
  <2> DEFINE a == k - n
             s == a % (n - 1)
             t == (a + 1) % (n - 1)
  <2>1. a \in Nat /\ (k + 1) - n = a + 1 /\ ~(k < n) /\ ~(k + 1 < n)
    BY <1>4
  <2>2. s \in Nat /\ s <= (n - 1) - 1
    <3> HIDE DEF a
    <3> QED BY <1>1, <2>1, Quotient
  <2>3. IF s = (n - 1) - 1 THEN t = 0 ELSE t = s + 1
    <3> HIDE DEF a
    <3> QED BY <1>1, <2>1, Successor
  <2>4. Rank(n, k) = 1 + s /\ Rank(n, k + 1) = 1 + t
    BY <2>1, Zenon DEF Rank
  <2> HIDE DEF a, s, t
  <2> QED BY <2>2, <2>3, <2>4
<1> QED BY <1>2, <1>3, <1>4

\* What next() returns when the indices are those of a number.
LEMMA NumberIsThere ==
  ASSUME Usable(parameters), NEW r \in Nat, Shows(indices, r)
  PROVE  HasNext /\ Combination = Numbered(parameters, r)
<1>1. /\ DOMAIN parameters = 1..Size /\ Size = Len(parameters)
      /\ \A j \in 1..Size : LengthOf(parameters[j]) \in Nat
  BY AfterIs DEF Size
<1>2. Combination = Numbered(parameters, r)
  BY <1>1, KeysAre DEF Combination, Numbered, Shows
<1>3. ASSUME NEW p \in ToSet(parameters) PROVE HasValue(p, indices[p])
  <2>1. PICK j \in 1..Size : p = parameters[j]
    BY <1>1 DEF ToSet
  <2>2. Digit(parameters, j, r) \in 0..(LengthOf(p) - 1)
    BY <1>1, <2>1, DigitCarries
  <2>3. indices[p] \in 0..(LengthOf(p) - 1)
    BY <2>1, <2>2 DEF Shows
  <2>4. LengthOf(p) \in Nat
    BY <1>1, <2>1
  <2>5. indices[p] < LengthOf(p)
    BY <2>3, <2>4
  <2> QED BY <2>5 DEF HasValue, LengthOf
<1> QED BY <1>2, <1>3 DEF HasNext

\* The inductive invariant.  What the properties say of the history does not tell which
\* combination comes next: that is in the indices, and they are those of the number
\* that the history's length gives.
InOrder ==
  /\ returned \in Seq({Numbered(parameters, r) : r \in Nat})
  /\ \A k \in 1..Len(returned) :
       returned[k] = Numbered(parameters, Rank(Combinations(parameters), k - 1))
  /\ Shows(indices, Rank(Combinations(parameters), Len(returned)))
  /\ total_returned_cnt = Len(returned) /\ calls = Len(returned)

SearchInv ==
  /\ assigned \in Seq(Params) /\ parameters \in Seq(Params)
  /\ assigned # <<>> => parameters = assigned
  /\ Usable(parameters) =>
       IF Combinations(parameters) = 1 THEN returned = <<>> /\ Shows(indices, 0) ELSE InOrder

LEMMA CombinationsOf ==
  ASSUME NEW ps, Usable(ps)
  PROVE  Combinations(ps) \in Nat \ {0}
<1>1. 0 \in 0..Len(ps)
  BY AfterIs
<1> QED BY <1>1, AfterIs

\* update(), from any parameters.
LEMMA StartsInOrder ==
  ASSUME Usable(parameters)', (indices = [p \in ToSet(parameters) |-> 0])',
         total_returned_cnt' = 0, Afresh
  PROVE  (IF Combinations(parameters) = 1
          THEN returned = <<>> /\ Shows(indices, 0) ELSE InOrder)'
<1> DEFINE ps == parameters'
           n == Len(ps)
<1>1. n \in Nat \ {0} /\ DOMAIN ps = 1..n /\ \A j \in 1..n : ps[j] \in ToSet(ps)
  <2>1. Usable(ps)
    BY DEF Usable
  <2>2. Len(ps) \in Nat \ {0} /\ DOMAIN ps = 1..Len(ps)
    BY <2>1, AfterIs
  <2> QED BY <2>2 DEF ToSet
<1>2. \A j \in 1..n : Digit(ps, j, 0) = 0
  <2>1. Usable(ps)
    BY DEF Usable
  <2> QED BY <2>1, NumberZero
<1>3. Shows(indices, 0)'
  BY <1>1, <1>2 DEF Shows, Indexed, Size
<1>4. Combinations(ps) \in Nat \ {0}
  <2>1. Usable(ps)
    BY DEF Usable
  <2> QED BY <2>1, CombinationsOf
<1>5. Rank(Combinations(ps), 0) = 0
  BY <1>4 DEF Rank
<1>6. returned' = <<>> /\ calls' = 0 /\ Len(returned') = 0
  BY DEF Afresh
<1>7. Shows(indices, Rank(Combinations(parameters), Len(returned)))'
  BY <1>3, <1>5, <1>6
<1> QED BY <1>3, <1>6, <1>7 DEF InOrder

\* An add_param() or reset starts again at number 0; a call moves on to the next number.
LEMMA SearchInvHolds ==
  SearchSpec => []SearchInv
<1>1. SearchInit => SearchInv
  BY DEF SearchInit, SearchInv, Usable
<1>2. SearchInv /\ [SearchNext]_searchVars => SearchInv'
  <2> SUFFICES ASSUME SearchInv, [SearchNext]_searchVars PROVE SearchInv'
    OBVIOUS
  <2> DEFINE N == Combinations(parameters)
             Same == /\ parameters' = parameters /\ indices' = indices
                     /\ returned' = returned
                     /\ total_returned_cnt' = total_returned_cnt /\ calls' = calls
             Held == IF N = 1 THEN returned = <<>> /\ Shows(indices, 0) ELSE InOrder
  <2>a. Same => (Usable(parameters) => Held)'
    BY DEF SearchInv, Usable, InOrder, Shows, Indexed, Size
  <2>b. ASSUME Usable(parameters)
        PROVE  /\ N \in Nat \ {0} /\ parameters # <<>> /\ HasNext
               /\ N = 1 => /\ MoveIndices.how = "raised" /\ returned = <<>>
                           /\ Shows(MoveIndices.indices, 0)
               /\ N # 1 => /\ InOrder /\ Len(returned) \in Nat
                           /\ MoveIndices.how = "moved"
                           /\ Shows(MoveIndices.indices, Rank(N, Len(returned) + 1))
                           /\ Combination
                                = Numbered(parameters, Rank(N, Len(returned)))
                           /\ Rank(N, Len(returned)) \in Nat
    <3>1. N \in Nat \ {0} /\ parameters # <<>>
      BY <2>b, CombinationsOf DEF Usable
    <3> HIDE DEF N
    <3>2. CASE N = 1
      <4>1. returned = <<>> /\ Shows(indices, 0) /\ 0 \in Nat /\ 0 \in 0..(N - 1)
        BY <2>b, <3>2 DEF SearchInv, N
      <4>2. HasNext
        BY <2>b, <4>1, NumberIsThere
      <4>3. MoveIndices.how = "raised" /\ Shows(MoveIndices.indices, 0)
        BY <2>b, <3>2, <4>1, MoveIndicesIs DEF N
      <4> QED BY <3>1, <3>2, <4>1, <4>2, <4>3
    <3>3. CASE N # 1
      <4>1. InOrder /\ N > 1
        BY <2>b, <3>1, <3>3 DEF SearchInv, N
      <4> DEFINE r == Rank(N, Len(returned))
      <4>2. Len(returned) \in Nat
        BY <4>1 DEF InOrder
      <4>3. r \in 0..(N - 1) /\ Rank(N, Len(returned) + 1) = IF r + 1 < N THEN r + 1 ELSE 1
        BY <3>1, <4>1, <4>2, RanksAre
      <4>4. Shows(indices, r)
        BY <4>1 DEF InOrder, N
      <4> HIDE DEF r
      <4>5. r \in Nat
        BY <3>1, <4>3
      <4>6. HasNext /\ Combination = Numbered(parameters, r)
        BY <2>b, <4>4, <4>5, NumberIsThere
      <4>7. /\ MoveIndices.how = "moved"
            /\ Shows(MoveIndices.indices, IF r + 1 < N THEN r + 1 ELSE 1)
        BY <2>b, <3>3, <4>3, <4>4, MoveIndicesIs DEF N
      <4> QED BY <3>1, <3>3, <4>1, <4>2, <4>3, <4>5, <4>6, <4>7 DEF r
    <3> QED BY <3>2, <3>3
  <2> HIDE DEF Same
  <2>1. ASSUME NEW p \in Params, AddParam(p) PROVE SearchInv'
    <3>1. /\ assigned' \in Seq(Params) /\ parameters' = assigned'
          /\ (indices = [q \in ToSet(parameters) |-> 0])'
          /\ total_returned_cnt' = 0 /\ Afresh
      BY <2>1 DEF AddParam, Updated, SearchInv
    <3>2. Usable(parameters)' => Held'
      BY <3>1, StartsInOrder
    <3> QED BY <3>1, <3>2 DEF SearchInv
  <2>2. CASE Reset
    <3>1. /\ assigned' = assigned /\ parameters' = parameters
          /\ (indices = [q \in ToSet(parameters) |-> 0])'
          /\ total_returned_cnt' = 0 /\ Afresh
      BY <2>2 DEF Reset, Updated
    <3>2. Usable(parameters)' => Held'
      BY <3>1, StartsInOrder
    <3> QED BY <3>1, <3>2 DEF SearchInv
  <2>3. CASE ResetNothing
    <3>1. assigned' = assigned /\ parameters' = parameters /\ parameters = <<>>
      BY <2>3 DEF ResetNothing, Updated
    <3>2. ~Usable(parameters)'
      BY <3>1 DEF Usable
    <3> QED BY <3>1, <3>2 DEF SearchInv
  <2>4. CASE ResetAll
    <3>1. assigned' = <<>> /\ Same
      BY <2>4 DEF ResetAll, Same
    <3>2. (Usable(parameters) => Held)'
      BY <2>a, <3>1
    <3>3. parameters' = parameters /\ assigned' \in Seq(Params)
      BY <3>1 DEF Same
    <3> QED BY <3>1, <3>2, <3>3 DEF SearchInv
  <2>5. CASE NextReturns
    <3>1. /\ parameters' = parameters /\ assigned' = assigned /\ MoveIndices.how # "raised"
          /\ returned' = Append(returned, Combination) /\ indices' = MoveIndices.indices
          /\ MoveIndices.how # "exhausted" => total_returned_cnt' = total_returned_cnt + 1
          /\ calls' = calls + 1
      BY <2>5 DEF NextReturns, Call
    <3>2. ASSUME Usable(parameters) PROVE N # 1 /\ InOrder'
      <4> DEFINE V == {Numbered(parameters, r) : r \in Nat}
                 l == Len(returned)
      <4>1. /\ N # 1 /\ InOrder /\ l \in Nat /\ MoveIndices.how = "moved"
            /\ Shows(MoveIndices.indices, Rank(N, l + 1))
            /\ Combination = Numbered(parameters, Rank(N, l)) /\ Rank(N, l) \in Nat
        <5> HIDE DEF N
        <5> QED BY <2>b, <3>1, <3>2
      <4>2. Combination \in V /\ returned \in Seq(V)
        BY <4>1 DEF InOrder
      <4>3. /\ \A k \in 1..l : returned[k] = Numbered(parameters, Rank(N, k - 1))
            /\ total_returned_cnt = l /\ calls = l
        BY <4>1 DEF InOrder
      <4>4. returned' \in Seq(V) /\ Len(returned') = l + 1
        <5> HIDE DEF V
        <5> QED BY <3>1, <4>2
      <4>5. ASSUME NEW k \in 1..(l + 1)
            PROVE  returned'[k] = Numbered(parameters, Rank(N, k - 1))
        <5>1. CASE k = l + 1
          <6> HIDE DEF V, N
          <6>1. returned'[k] = Combination /\ k - 1 = l
            BY <3>1, <4>1, <4>2, <5>1
          <6> QED BY <4>1, <6>1
        <5>2. CASE k # l + 1
          <6> HIDE DEF V, N
          <6>1. k \in 1..l
            BY <4>1, <5>2
          <6>2. returned'[k] = returned[k]
            BY <3>1, <4>2, <6>1
          <6> QED BY <4>3, <6>1, <6>2
        <5> QED BY <5>1, <5>2
      <4>6. Shows(indices, Rank(Combinations(parameters), Len(returned)))'
        <5>1. Shows(indices', Rank(N, l + 1))
          BY <3>1, <4>1
        <5>2. /\ indices' \in [ToSet(parameters') -> Nat]
              /\ \A j \in 1..Len(parameters') :
                   indices'[parameters'[j]] = Digit(parameters', j, Rank(N, l + 1))
          <6> HIDE DEF N, l
          <6> QED BY <3>1, <5>1 DEF Shows, Indexed, Size
        <5>3. Combinations(parameters') = N /\ Len(returned') = l + 1
          BY <3>1, <4>4
        <5> HIDE DEF N, l
        <5> QED BY <5>2, <5>3 DEF Shows, Indexed, Size
      <4>7. /\ total_returned_cnt' = Len(returned') /\ calls' = Len(returned')
        <5> HIDE DEF N, V
        <5> QED BY <3>1, <4>1, <4>3, <4>4
      <4>8. /\ (returned \in Seq({Numbered(parameters, r) : r \in Nat}))'
            /\ (\A k \in 1..Len(returned) :
                   returned[k] = Numbered(parameters, Rank(Combinations(parameters), k - 1)))'
        <5> HIDE DEF l
        <5> QED BY <3>1, <4>4, <4>5
      <4>9. InOrder'
        <5> HIDE DEF N, l, V
        <5> QED BY <4>6, <4>7, <4>8 DEF InOrder
      <4> QED BY <4>1, <4>9
    <3>3. (Usable(parameters) => Held)'
      BY <3>1, <3>2 DEF Usable
    <3> QED BY <3>1, <3>3 DEF SearchInv
  <2>6. CASE NextHasNoValue
    <3>1. /\ assigned' = assigned /\ parameters' = parameters
          /\ parameters = <<>> \/ ~HasNext
      BY <2>6 DEF NextHasNoValue
    <3>2. ~Usable(parameters)
      BY <2>b, <3>1
    <3>3. ~Usable(parameters)'
      BY <3>1, <3>2 DEF Usable
    <3> QED BY <3>1, <3>3 DEF SearchInv
  <2>7. CASE MoveRaises
    <3>1. /\ assigned' = assigned /\ parameters' = parameters /\ returned' = returned
          /\ MoveIndices.how = "raised" /\ indices' = MoveIndices.indices
      BY <2>7 DEF MoveRaises
    <3>2. ASSUME Usable(parameters)
          PROVE  N = 1 /\ returned' = <<>> /\ Shows(indices', 0)
      <4> HIDE DEF N
      <4> QED BY <2>b, <3>1, <3>2
    <3>3. Usable(parameters)' => Held'
      BY <3>1, <3>2 DEF Usable, Shows, Indexed, Size
    <3> QED BY <3>1, <3>3 DEF SearchInv
  <2>8. CASE UNCHANGED searchVars
    <3>1. assigned' = assigned /\ Same
      BY <2>8 DEF searchVars, Same
    <3>2. (Usable(parameters) => Held)'
      BY <2>a, <3>1
    <3> QED BY <3>1, <3>2 DEF SearchInv, Same
  <2> QED BY <2>1, <2>2, <2>3, <2>4, <2>5, <2>6, <2>7, <2>8 DEF SearchNext
<1> QED BY <1>1, <1>2, PTL DEF SearchSpec

\* The strategy has the parameters the caller has asked for.
LEMMA SearchedIs ==
  ASSUME SearchInv
  PROVE  /\ Searched = parameters
         /\ Sound => Usable(parameters) /\ length = Combinations(parameters)
<1>1. Searched = parameters
  BY DEF SearchInv, Searched
<1>2. ASSUME Sound PROVE Usable(parameters) /\ length = Combinations(parameters)
  <2>1. parameters \in Seq(Params) /\ parameters # <<>> /\ IsInjective(parameters)
    BY <1>1, <1>2 DEF Sound, SearchInv
  <2>2. \A i \in 1..Len(parameters) : parameters[i] \in ToSet(parameters)
    BY <2>1 DEF ToSet
  <2>3. Usable(parameters)
    BY <1>1, <1>2, <2>1, <2>2 DEF Sound, Usable
  <2>4. length = Combinations(parameters)
    BY <2>1, Zenon DEF length, Combinations
  <2> QED BY <2>3, <2>4
<1> QED BY <1>1, <1>2

\* Whatever the parameters, and however often the search is reset or extended: if no
\* parameter is there twice, none is empty and there is more than one combination, the
\* first length() calls of next() return each combination once, in the lexicographic
\* order (bruteforce_strategy.py:35-58).
THEOREM EveryCombinationCorrect ==
  SearchSpec => []EveryCombinationOnce
<1>1. SearchInv => EveryCombinationOnce
  <2> SUFFICES ASSUME SearchInv, Searchable
               PROVE  /\ length = Total
                      /\ \A k \in DOMAIN returned : k <= Total => returned[k] = Nth(k)
                      /\ total_returned_cnt = Len(returned) /\ Len(returned) = calls
    BY DEF EveryCombinationOnce
  <2> DEFINE N == Combinations(parameters)
  <2>1. Searched = parameters /\ Usable(parameters) /\ length = N /\ Total = N
    BY SearchedIs DEF Searchable, Total
  <2>2. N # 1 /\ InOrder /\ N \in Nat
    BY <2>1, CombinationsOf DEF Searchable, SearchInv
  <2>3. DOMAIN returned = 1..Len(returned) /\ Len(returned) \in Nat
    BY <2>2 DEF InOrder
  <2>4. ASSUME NEW k \in DOMAIN returned, k <= Total PROVE returned[k] = Nth(k)
    <3>1. returned[k] = Numbered(parameters, Rank(N, k - 1))
      BY <2>2, <2>3, <2>4 DEF InOrder
    <3>2. Rank(N, k - 1) = k - 1
      <4> HIDE DEF N
      <4> QED BY <2>1, <2>2, <2>3, <2>4 DEF Rank
    <3>3. Nth(k) = Numbered(parameters, k - 1)
      BY <2>1 DEF Nth, Numbered, Digit, After
    <3> QED BY <3>1, <3>2, <3>3
  <2> QED BY <2>1, <2>2, <2>4 DEF InOrder
<1> QED BY <1>1, SearchInvHolds, PTL

=============================================================================
