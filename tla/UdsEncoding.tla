----------------------------- MODULE UdsEncoding ----------------------------
(***************************************************************************)
(* The bytes of the requests of a UDS session.  A byte of an address or a  *)
(* size has Base values, 256 in the code: the lengths are the same for any *)
(* base.                                                                   *)
(***************************************************************************)
EXTENDS Integers, Sequences, FiniteSetsExt

CONSTANT Base

ASSUME BaseAssumption == Base \in Nat \ {0, 1}

\* The numbers of n bytes are those below Power[n].
Power[n \in 0..8] == IF n = 0 THEN 1 ELSE Base * Power[n - 1]

\* calc_byte_size()
ByteSize(value) == IF value < Power[7] THEN Min({n \in 1..7 : value < Power[n]}) ELSE 8

\* to_bytes() raises OverflowError for larger numbers.
Fits(value, n) == value < Power[n]

\* Mutant of Number: the last digit comes first.
LittleEndian(value, n) == [i \in 1..n |-> (value \div Power[i - 1]) % Base]

\* to_bytes(byteorder='big')
Number(value, n) == [i \in 1..n |-> (value \div Power[n - i]) % Base]

\* The & of two bytes, bit by bit.
And(x, y) ==
  LET bit(w) == w * ((x \div w) % 2) * ((y \div w) % 2)
  IN  bit(1) + bit(2) + bit(4) + bit(8) + bit(16) + bit(32) + bit(64) + bit(128)

\* + binds tighter than &.
LengthFormat(addressBytes, sizeBytes) ==
  And(sizeBytes * 16, 240 + And(addressBytes, 15))

Memory(service, r) ==
  <<service, 0, LengthFormat(ByteSize(r.address), ByteSize(r.size))>>
    \o Number(r.address, ByteSize(r.address)) \o Number(r.size, ByteSize(r.size))

\* The calls that raise instead of sending a request.  request_download() adds an
\* integer to bytes.
Raises(r) ==
  CASE r.call \in {"start", "seed"} -> ~Fits(r.number, 1)
    [] r.call = "key"      -> ~Fits(r.number + 1, 1)
    [] r.call = "transfer" -> ~Fits(r.number, 1) \/ r.length > 4096
    [] r.call = "data"     -> ~Fits(r.number, 2)
    [] r.call = "upload"   -> ~Fits(r.address, ByteSize(r.address))
                              \/ ~Fits(r.size, ByteSize(r.size))
    [] r.call = "download" -> TRUE
    [] r.call = "request"  -> r.length > 4095

\* A key, or the data of a request() of the user's own.
AnyBytes(n) == [i \in 1..n |-> i % Base]

Encoded(r) ==
  CASE r.call = "start"    -> <<16>> \o Number(r.number, 1)
    [] r.call = "seed"     -> <<39>> \o Number(r.number, 1)
    [] r.call = "key"      -> <<39>> \o Number(r.number + 1, 1) \o AnyBytes(r.length)
    [] r.call = "data"     -> <<34>> \o Number(r.number, 2)
    [] r.call = "transfer" -> <<54>> \o Number(r.number, 1)
    [] r.call = "upload"   -> Memory(53, r)
    [] r.call = "request"  -> AnyBytes(r.length)
=============================================================================
