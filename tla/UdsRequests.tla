----------------------------- MODULE UdsRequests ----------------------------
(***************************************************************************)
(* A request of a UDS session on its way: its arguments are encoded, the   *)
(* bytes formatted into frames, and those put together again by the ECU,   *)
(* external to src/, which reads the arguments.                            *)
(***************************************************************************)
EXTENDS IsoTpLoopback, UdsEncoding

CONSTANT Requests  \* the calls and their arguments

ASSUME RequestsAssumption ==
  Requests \subseteq
    [call : {"start", "seed", "key", "data", "transfer", "upload", "download", "request"},
     number : Nat, length : Nat, address : Nat, size : Nat]

VARIABLE request

requestVars == <<loopbackVars, request>>

RequestInit ==
  /\ request \in Requests
  /\ length = IF Raises(request) THEN 0 ELSE Len(Encoded(request))
  /\ LoopbackInit

RequestNext == ~Raises(request) /\ LoopbackNext /\ UNCHANGED request

RequestSpec == RequestInit /\ [][RequestNext]_requestVars

-----------------------------------------------------------------------------
\* What the ECU has got.
Reassembled == [i \in DOMAIN message.payload |-> Encoded(request)[message.payload[i]]]

\* The number that has these digits.
ValueOf(digits) ==
  LET value[n \in 0..Len(digits)] == IF n = 0 THEN 0 ELSE Base * value[n - 1] + digits[n]
  IN  value[Len(digits)]

\* The arguments read from the bytes are those of the call.
ReadsAs(bytes, r) ==
  CASE r.call = "start"    -> bytes = <<16, r.number>>
    [] r.call = "seed"     -> bytes = <<39, r.number>>
    [] r.call = "key"      -> SubSeq(bytes, 1, 2) = <<39, r.number + 1>>
                              /\ SubSeq(bytes, 3, Len(bytes)) = AnyBytes(r.length)
    [] r.call = "transfer" -> bytes = <<54, r.number>>
    [] r.call = "data"     -> bytes[1] = 34 /\ Len(bytes) = 3
                              /\ ValueOf(SubSeq(bytes, 2, 3)) = r.number
    [] r.call = "request"  -> bytes = AnyBytes(r.length)

InRange(r) == Fits(r.address, 8) /\ Fits(r.size, 8)

(* The ECU reads from a complete request what the caller has asked for, and *)
(* no upload of addresses and sizes of up to eight bytes is refused, as     *)
(* calc_byte_size() finds bytes enough (uds/session.py:137-151, 252-269).   *)
(* What it reads from an upload is left open: the byte that should have the *)
(* lengths of address and size has the second one only, as + binds tighter  *)
(* than & (line 142).                                                       *)
RequestsAreReadable ==
  /\ request.call = "upload" /\ InRange(request) => ~Raises(request)
  /\ /\ fed = FrameCount /\ message.state = "COMPLETE"
     /\ message.payload # ForeignPayload
     /\ request.call # "upload"
     => ReadsAs(Reassembled, request)
=============================================================================
