------------------------ MODULE ConnectionLifecycle -------------------------
(***************************************************************************)
(* What one connection process promises the client that owns its queues.   *)
(*                                                                         *)
(* A status change is announced exactly when it happens.  Commands reach   *)
(* the device only while the process is connected, and none after a RESET. *)
(* Messages are handed to the client until Shutdown is announced, never    *)
(* later.  A process that fails announces nothing any more, although what  *)
(* it had received may still come out of it.                               *)
(***************************************************************************)
EXTENDS Naturals, Sequences

VARIABLES
  phase,     \* "new", "connecting", "connected", "shutdown" or "failed"
  signals,   \* announcements the client has not taken yet
  inbox,     \* number of messages handed over and not taken yet
  commands   \* kinds of the commands sent to the device

lifeVars == <<phase, signals, inbox, commands>>

Init == phase = "new" /\ signals = <<>> /\ inbox = 0 /\ commands = <<>>

Begin ==
  /\ phase = "new"
  /\ phase' = "connecting"
  /\ UNCHANGED <<signals, inbox, commands>>

Connect ==
  /\ phase = "connecting"
  /\ phase' = "connected"
  /\ signals' = Append(signals, "Connected")
  /\ UNCHANGED <<inbox, commands>>

Forward(kind) ==
  /\ phase = "connected"
  /\ \A i \in DOMAIN commands : commands[i] # "RESET"
  /\ commands' = Append(commands, kind)
  /\ UNCHANGED <<phase, signals, inbox>>

HandOver ==
  /\ phase \in {"connected", "failed"}
  /\ inbox' = inbox + 1
  /\ UNCHANGED <<phase, signals, commands>>

Shutdown ==
  /\ phase = "connected"
  /\ phase' = "shutdown"
  /\ signals' = Append(signals, "Shutdown")
  /\ UNCHANGED <<inbox, commands>>

Fail ==
  /\ phase \in {"connecting", "connected"}
  /\ phase' = "failed"
  /\ UNCHANGED <<signals, inbox, commands>>

TakeSignal ==
  /\ signals # <<>>
  /\ signals' = Tail(signals)
  /\ UNCHANGED <<phase, inbox, commands>>

TakeMessage ==
  /\ inbox > 0
  /\ inbox' = inbox - 1
  /\ UNCHANGED <<phase, signals, commands>>

Next ==
  \/ Begin \/ Connect \/ HandOver \/ Shutdown \/ Fail
  \/ \E kind \in {"RESET", "OTHER"} : Forward(kind)
  \/ TakeSignal \/ TakeMessage

Spec == Init /\ [][Next]_lifeVars
=============================================================================
