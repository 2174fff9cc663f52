---------------------------- MODULE FrameReception --------------------------
(***************************************************************************)
(* receive_canframe(): messages come out of the queue of a CANBadger       *)
(* object until one is a frame that is wanted.  Time is counted in ticks;  *)
(* a message that is in the queue is taken without delay.                  *)
(***************************************************************************)
EXTENDS Naturals, Sequences

CONSTANTS
  CanIds,      \* arbitration ids on the bus
  Filters,     \* values of can_ids: sets of ids, the empty one for None
  Timeouts,    \* timeouts in ticks, 0 for None
  MaxMessages  \* bound: messages of the device

ASSUME ReceptionAssumption ==
  /\ \A ids \in Filters : ids \subseteq CanIds
  /\ Timeouts \subseteq Nat /\ MaxMessages \in Nat

VARIABLES
  queue,      \* data_queue
  came,       \* history: number of messages that have come
  connected,  \* the status, as get_connection_status() finds it
  stage,      \* "idle", or before or inside of get() in receive()
  asked,      \* the arguments of the call
  waited,     \* history: ticks since the call began
  since,      \* ticks since get() was called
  skipped,    \* history: messages the call has passed over
  got         \* what the last call has come to

receptionVars == <<queue, came, connected, stage, asked, waited, since, skipped, got>>

\* A DATA message with a frame, one cut off before the end of the id, another message.
Messages == [kind : {"frame"}, id : CanIds] \cup [kind : {"short", "other"}]

ReceptionInit ==
  /\ queue = <<>> /\ came = 0 /\ connected = TRUE
  /\ stage = "idle" /\ asked = [ids |-> {}, timeout |-> 0]
  /\ waited = 0 /\ since = 0 /\ skipped = 0
  /\ got = "nothing yet"

MessageComes(m) ==
  /\ came < MaxMessages
  /\ came' = came + 1
  /\ queue' = Append(queue, m)
  /\ UNCHANGED <<connected, stage, asked, waited, since, skipped, got>>

Disconnected ==
  /\ connected' = FALSE
  /\ UNCHANGED <<queue, came, stage, asked, waited, since, skipped, got>>

ReceiveCanframe(ids, timeout) ==
  /\ stage = "idle"
  /\ stage' = "check"
  /\ asked' = [ids |-> ids, timeout |-> timeout]
  /\ waited' = 0 /\ since' = 0 /\ skipped' = 0
  /\ got' = "nothing yet"
  /\ UNCHANGED <<queue, came, connected>>

Result(r) == stage' = "idle" /\ got' = r

StatusIsConnected ==
  /\ stage = "check" /\ connected
  /\ stage' = "get"
  /\ UNCHANGED <<queue, came, connected, asked, waited, since, skipped, got>>

StatusIsNot ==
  /\ stage = "check" /\ ~connected
  /\ Result("not connected")
  /\ UNCHANGED <<queue, came, connected, asked, waited, since, skipped>>

\* Mutant of TimeIsUp: the timeout is over one tick later.
TimeIsOver == since > asked.timeout

TimeIsUp == since = asked.timeout

TimePasses ==
  /\ stage = "get" /\ queue = <<>> /\ ~TimeIsUp
  /\ waited' = waited + 1 /\ since' = since + 1
  /\ UNCHANGED <<queue, came, connected, stage, asked, skipped, got>>

ReceivesNothing ==
  /\ stage = "get" /\ queue = <<>> /\ TimeIsUp
  /\ Result("timeout")
  /\ UNCHANGED <<queue, came, connected, asked, waited, since, skipped>>

Wanted(m) == m.kind = "frame" /\ (asked.ids = {} \/ m.id \in asked.ids)

Takes == stage = "get" /\ queue # <<>> /\ queue' = Tail(queue)

\* The loop goes on, with the timeout of the caller once more.
PassesOver ==
  /\ Takes
  /\ Head(queue).kind # "short" /\ ~Wanted(Head(queue))
  /\ stage' = "check"
  /\ since' = 0 /\ skipped' = skipped + 1
  /\ UNCHANGED <<came, connected, asked, waited, got>>

ReceivesFrame ==
  /\ Takes
  /\ Wanted(Head(queue))
  /\ Result("frame")
  /\ UNCHANGED <<came, connected, asked, waited, since, skipped>>

\* struct.error
IdIsMissing ==
  /\ Takes
  /\ Head(queue).kind = "short"
  /\ Result("raised")
  /\ UNCHANGED <<came, connected, asked, waited, since, skipped>>

ReceptionNext ==
  \/ \E m \in Messages : MessageComes(m)
  \/ Disconnected
  \/ \E ids \in Filters, timeout \in Timeouts : ReceiveCanframe(ids, timeout)
  \/ StatusIsConnected \/ StatusIsNot
  \/ TimePasses \/ ReceivesNothing \/ PassesOver \/ ReceivesFrame \/ IdIsMissing

ReceptionSpec == ReceptionInit /\ [][ReceptionNext]_receptionVars

-----------------------------------------------------------------------------
(* Properties *)

(* "receive the next logged payload", "retry until a valid one is found"   *)
(* (canbadger.py:158-162): every message the call passes over costs up to  *)
(* one more timeout, and no more, so that other traffic can keep it for    *)
(* any time; and it gives up only when nothing is left in the queue and    *)
(* nothing came for a whole timeout (lines 159-181).                       *)
OneTimeoutPerMessage ==
  /\ waited <= (skipped + 1) * asked.timeout
  /\ got = "timeout" => since >= asked.timeout
=============================================================================
