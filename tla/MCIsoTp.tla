------------------------------- MODULE MCIsoTp -----------------------------
(***************************************************************************)
(* Both ways of ISO-TP side by side: a request in the frames of format()   *)
(* and feed(), and receive_message() on a bus.  A behaviour is about one   *)
(* of them, its subject, and leaves the other as it is at the beginning.   *)
(*                                                                         *)
(* The requests are those of the user's own of every length that needs at  *)
(* most 14 consecutive frames, and the others with numbers around the      *)
(* powers of Base.                                                         *)
(***************************************************************************)
EXTENDS UdsRequests, IsoTpHandler

MCLengths == 0..104

Numbers == UNION {{Power[n] - 1, Power[n], Power[n] + 1} : n \in 0..8}

Uds(service, number, n) ==
  [call |-> service, number |-> number, length |-> n, address |-> 0, size |-> 0]

MCRequests ==
  {Uds("request", 0, n) : n \in MCLengths \cup {4096}}
    \cup {Uds("key", level, n) : level \in 0..Base, n \in 1..8}
    \cup {Uds(service, number, n) : service \in {"start", "seed", "transfer", "data"},
                                    number \in 0..(Power[2]), n \in {4096, 4097}}
    \cup {[Uds(service, 0, 0) EXCEPT !.address = a, !.size = s] :
            service \in {"upload", "download"}, a \in Numbers, s \in Numbers}

-----------------------------------------------------------------------------
VARIABLE subject

Subjects == {"request", "reception"}

\* Which request it is makes a difference for its own subject only.
AnyRequest == Uds("request", 0, 0)

IsoTpInit ==
  /\ subject \in Subjects
  /\ RequestInit /\ HandlerInit
  /\ subject # "request" => request = AnyRequest /\ ~padding /\ message = NewMessage(NoArb)

Others(s) ==
  /\ subject = s /\ UNCHANGED subject
  /\ s # "request"   => UNCHANGED requestVars
  /\ s # "reception" => UNCHANGED handlerVars

IsoTpNext ==
  \/ Others("request")   /\ RequestNext
  \/ Others("reception") /\ HandlerNext

IsoTpSpec == IsoTpInit /\ [][IsoTpNext]_<<subject, requestVars, handlerVars>>
=============================================================================
