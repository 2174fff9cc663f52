------------------------------ MODULE Discovery -----------------------------
(***************************************************************************)
(* discover_canbadgers(): announcements of CANBadgers are received for a   *)
(* while and collected.  Time is counted in ticks, and stands while a      *)
(* datagram that has come is received.                                     *)
(***************************************************************************)
EXTENDS Naturals, Sequences, SequencesExt

CONSTANTS
  Nodes,     \* what announcements say: id and address of a CANBadger
  Second,    \* ticks of the timeout of the socket, one second
  WaitTime,  \* ticks of wait_time
  MaxHeard   \* bound: announcements

ASSUME TimesAssumption ==
  Second \in Nat \ {0} /\ WaitTime \in Nat /\ MaxHeard \in Nat

VARIABLES
  elapsed,        \* ticks since start_time
  time_spent,     \* in ticks since start_time
  place,          \* "start", "loop", "recv", "closed" or "raised"
  listening,      \* ticks since recvfrom() was called
  discovered_cbs,
  heard           \* history: the nodes announced while the function listened

discoveryVars == <<elapsed, time_spent, place, listening, discovered_cbs, heard>>

DiscoveryInit ==
  /\ elapsed = 0 /\ time_spent = 0 /\ listening = 0
  /\ place = "start"
  /\ discovered_cbs = <<>> /\ heard = <<>>

\* Another program has bound the port.
BindFails ==
  /\ place = "start"
  /\ place' = "raised"
  /\ UNCHANGED <<elapsed, time_spent, listening, discovered_cbs, heard>>

Bind ==
  /\ place = "start"
  /\ place' = "loop"
  /\ UNCHANGED <<elapsed, time_spent, listening, discovered_cbs, heard>>

Goes == time_spent < WaitTime

\* Mutant of Sampled: the time is not taken again.
SampledOnce == time_spent

Sampled == elapsed

\* The time is taken after it has been looked at.
LoopBegins ==
  /\ place = "loop" /\ Goes
  /\ time_spent' = Sampled
  /\ place' = "recv" /\ listening' = 0
  /\ UNCHANGED <<elapsed, discovered_cbs, heard>>

LoopEnds ==
  /\ place = "loop" /\ ~Goes
  /\ place' = "closed"
  /\ UNCHANGED <<elapsed, time_spent, listening, discovered_cbs, heard>>

Tick ==
  /\ place = "recv" /\ listening < Second
  /\ elapsed' = elapsed + 1 /\ listening' = listening + 1
  /\ UNCHANGED <<time_spent, place, discovered_cbs, heard>>

TimesOut ==
  /\ place = "recv" /\ listening = Second
  /\ place' = "loop"
  /\ UNCHANGED <<elapsed, time_spent, listening, discovered_cbs, heard>>

IsNew(node) == ~Contains(discovered_cbs, node)

Announced(node) ==
  /\ place = "recv" /\ Len(heard) < MaxHeard
  /\ heard' = Append(heard, node)
  /\ discovered_cbs' = IF IsNew(node) THEN Append(discovered_cbs, node) ELSE discovered_cbs
  /\ place' = "loop"
  /\ UNCHANGED <<elapsed, time_spent, listening>>

\* A datagram without a separator: an IndexError, what has been discovered is lost.
Garbled ==
  /\ place = "recv"
  /\ place' = "raised"
  /\ UNCHANGED <<elapsed, time_spent, listening, discovered_cbs, heard>>

DiscoveryNext ==
  \/ BindFails \/ Bind \/ LoopBegins \/ LoopEnds \/ Tick \/ TimesOut \/ Garbled
  \/ \E node \in Nodes : Announced(node)

DiscoverySpec == DiscoveryInit /\ [][DiscoveryNext]_discoveryVars

-----------------------------------------------------------------------------
(* Properties *)

(* "how much time should we be looking for canbadgers" (line 37): because  *)
(* the loop looks at the time of the round before, it goes on for up to    *)
(* two timeouts longer, however many announcements come, and not less than *)
(* asked for; and its list has every CANBadger that has announced itself   *)
(* meanwhile, once (lines 44-58).                                          *)
FindsAllInTime ==
  /\ elapsed < WaitTime + 2 * Second
  /\ place = "closed" => elapsed >= WaitTime
  /\ IsInjective(discovered_cbs) /\ ToSet(discovered_cbs) = ToSet(heard)
=============================================================================
