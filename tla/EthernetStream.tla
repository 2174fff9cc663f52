--------------------------- MODULE EthernetStream ---------------------------
(***************************************************************************)
(* The reader thread's framing of the TCP byte stream into EthernetMessage *)
(* objects (read_from_socket in canbadger_connection_process.py).          *)
(*                                                                         *)
(* Bytes are named by their offset in the stream, so the local `buffer' of *)
(* the code is the interval [pos, recvd).  A message occupies HeaderLen    *)
(* bytes of header followed by `len' bytes of data.                        *)
(***************************************************************************)
EXTENDS Integers, Sequences

CONSTANTS
  HeaderLen,      \* size of the '<BBI' header
  RecvMax,        \* the 4096 of sock.recv(4096)
  DataLens,       \* data lengths the device uses
  WholeSegments,  \* TRUE: recv() only ever returns whole messages
  MaxSent         \* bound: messages the device sends

ASSUME HeaderLenAssumption == HeaderLen \in Nat \ {0}
ASSUME RecvMaxAssumption   == RecvMax \in Nat \ {0}
ASSUME DataLensAssumption  == DataLens \subseteq Nat
ASSUME WholeAssumption     == WholeSegments \in BOOLEAN
ASSUME MaxSentAssumption   == MaxSent \in Nat

VARIABLES
  sent,       \* messages written by the device: [start, len], in order
  total,      \* bytes written by the device
  closed,     \* the device has closed its end: recv() returns b'' at the end
  recvd,      \* bytes the reader has received
  pos,        \* offset of the first byte of `buffer'
  delivered,  \* messages put in a queue: [msg, whole]; msg 0 is garbage
  alive       \* FALSE once an exception has ended the thread

streamVars == <<sent, total, closed, recvd, pos, delivered, alive>>

Sent      == [start : Nat, len : DataLens]
Delivered == [msg : Nat, whole : BOOLEAN]

StreamTypeOK ==
  /\ sent \in Seq(Sent)
  /\ total \in Nat
  /\ closed \in BOOLEAN
  /\ recvd \in 0..total
  /\ pos \in 0..recvd
  /\ delivered \in Seq(Delivered)
  /\ alive \in BOOLEAN

StreamInit ==
  /\ sent = <<>> /\ total = 0 /\ closed = FALSE
  /\ recvd = 0 /\ pos = 0 /\ delivered = <<>> /\ alive = TRUE

-----------------------------------------------------------------------------
(* The device, external to src/. *)

DeviceSend(len) ==
  /\ ~closed
  /\ Len(sent) < MaxSent
  /\ sent' = Append(sent, [start |-> total, len |-> len])
  /\ total' = total + HeaderLen + len
  /\ UNCHANGED <<closed, recvd, pos, delivered, alive>>

DeviceClose ==
  /\ ~closed
  /\ closed' = TRUE
  /\ UNCHANGED <<sent, total, recvd, pos, delivered, alive>>

-----------------------------------------------------------------------------
(* One turn of the reader: recv, then at most one message out of `buffer'. *)

\* p is the first byte of a message, or the end of what was sent.
Boundary(p) == p = total \/ \E i \in DOMAIN sent : sent[i].start = p

\* Mutant of EndOf: msg_len counts the header twice.
EndOfHeaderTwice(i) == sent[i].start + 2 * HeaderLen + sent[i].len

\* Offset of the first byte after message i: msg_data_len + 6.
EndOf(i) == sent[i].start + HeaderLen + sent[i].len

\* Mutant of ExtractMessage: bytes that have not come yet are skipped as well.
SkipToEnd(i, r) ==
  /\ delivered' = Append(delivered, [msg |-> i, whole |-> EndOf(i) <= r])
  /\ pos' = EndOf(i)
  /\ UNCHANGED alive

\* unserialize(buffer[:msg_len]) when `buffer' starts with message i and ends
\* at offset r: a body that is not all there yet is replaced by no data.
ExtractMessage(i, r) ==
  /\ delivered' = Append(delivered, [msg |-> i, whole |-> EndOf(i) <= r])
  /\ pos' = IF EndOf(i) <= r THEN EndOf(i) ELSE r
  /\ UNCHANGED alive

\* The first six bytes of `buffer' are not a header: any type and any length
\* come out of them, and a type or action outside the enums raises ValueError.
ExtractGarbage(r) ==
  \/ /\ alive' = FALSE
     /\ UNCHANGED <<pos, delivered>>
  \/ /\ pos' \in (pos + HeaderLen)..r
     /\ delivered' = Append(delivered, [msg |-> 0, whole |-> FALSE])
     /\ UNCHANGED alive

\* Mutant of HeaderReceived: nothing is extracted after an empty recv().
HeaderFreshlyReceived(r) == r - pos >= HeaderLen /\ r > recvd

\* len(buffer) >= 6, once bytes up to offset r are in `buffer'.
HeaderReceived(r) == r - pos >= HeaderLen

\* The body of `if len(buffer) >= 6': at most one message per call.
Extract(r) ==
  \/ \E i \in DOMAIN sent :
        HeaderReceived(r) /\ sent[i].start = pos /\ ExtractMessage(i, r)
  \/ /\ HeaderReceived(r)
     /\ \A i \in DOMAIN sent : sent[i].start # pos
     /\ ExtractGarbage(r)
  \/ ~HeaderReceived(r) /\ UNCHANGED <<pos, delivered, alive>>

\* recv() hands over n bytes; n = 0 is the b'' of a closed connection, which
\* `received is None' does not recognise, so the loop carries on.
Recv(n) ==
  /\ alive
  /\ IF recvd = total THEN closed /\ n = 0
                      ELSE n \in 1..RecvMax /\ recvd + n <= total
  /\ WholeSegments => Boundary(recvd + n)
  /\ recvd' = recvd + n
  /\ Extract(recvd + n)
  /\ UNCHANGED <<sent, total, closed>>

StreamNext ==
  \/ \E len \in DataLens : DeviceSend(len)
  \/ DeviceClose
  \/ \E n \in 0..total : Recv(n)

StreamSpec == StreamInit /\ [][StreamNext]_streamVars

\* The reader thread is scheduled again and again while it can do something.
StreamFairness == WF_streamVars(\E n \in 0..total : Recv(n))

-----------------------------------------------------------------------------
(* Properties *)

Undamaged(k) == \A j \in 1..k : delivered[j].whole

Channel == INSTANCE MessageChannel
  WITH produced <- Len(sent), Lossless <- WholeSegments

(* The queues get the messages the device sent, complete and in order,      *)
(* up to the first one that is taken before all of it has been received; if *)
(* recv() returns whole messages, all of them                               *)
(* (canbadger_connection_process.py:155-170).                               *)
ImplementsChannel == Channel!Spec

(* Messages left in `buffer' because a recv() returned several are all      *)
(* handed over once the device has closed its end, if none loses its data:  *)
(* every b'' makes the loop take one more                                   *)
(* (canbadger_connection_process.py:151-163).                               *)
DrainsAfterClose ==
  []Undamaged(Len(delivered)) => (closed ~> pos = total)

(* Whatever recv() returns, the framing goes wrong in one way only: until a *)
(* message has been taken before its end had arrived, every message taken   *)
(* is the next one the device sent, and the thread lives                    *)
(* (canbadger_connection_process.py:158-163).                               *)
DamageStartsWithTruncation ==
  /\ \A k \in DOMAIN delivered : Undamaged(k - 1) => delivered[k].msg = k
  /\ Undamaged(Len(delivered)) => alive

(* "extract single Ethernet message from the buffer"                        *)
(* (canbadger_connection_process.py:159): what is put in a queue is a whole *)
(* message of the device.                                                   *)
OnlyWholeMessages == \A i \in DOMAIN delivered : delivered[i].whole
=============================================================================
