----------------------------- MODULE CANBadger ------------------------------
(***************************************************************************)
(* The CANBadger client object composed with the connection process it     *)
(* owns: connecting, resetting, sending with and without an acknowledge,   *)
(* receiving, and the local copy of the connection status.                 *)
(*                                                                         *)
(* The four queues outlive the process: reset() makes a new process object *)
(* on the same queues.  Several threads may call the object (the tester    *)
(* present thread of a UDS session is one); each is in one call at a time. *)
(***************************************************************************)
EXTENDS ConnectionProcess

CONSTANTS
  Threads,    \* threads of the client that use the object
  Platforms,  \* TRUE for platform.system() "Linux" or "Darwin", FALSE for others
  Polls,      \* times connect() looks at the signal queue (11 in the code)
  SendKinds,  \* kinds of the commands the client sends on its own account
  MaxResets   \* bound: process objects made by reset()

ASSUME PlatformsAssumption == Platforms \subseteq BOOLEAN
ASSUME PollsAssumption  == Polls \in Nat \ {0}
ASSUME KindsAssumption  == SendKinds \subseteq Kinds
ASSUME ResetsAssumption == MaxResets \in Nat

VARIABLES
  connection_status,  \* the client's copy of the process's status
  call,               \* thread -> the call it is in
  returned,           \* the last value a call has returned, and what for
  resets,             \* process objects made by reset()
  firstOfProcess,     \* id of the first command issued to the current one
  posix               \* platform.system() is "Linux" or "Darwin"

objectVars == <<connection_status, call, returned, resets, firstOfProcess, posix>>
allVars    == <<vars, objectVars>>

Ops    == {"idle", "connect", "receive", "ack", "frame", "join"}
Values == {"True", "False", "None", "Raised", "Message", "0", "-1"} \cup Statuses

\* n: polls left of a connect, id of the command of an ack or a frame, number
\* of the process object of a join.
Calls   == [op : Ops, n : Nat]
NoCall  == [op |-> "idle", n |-> 0]
\* A reply taken from the ack queue is recorded with the value returned for it.
\* History: astray, a reply may come, or lie in the queue, that no call waits for.
Returns  == [op : Ops \cup {"send", "reset", "status"}, value : Values, n : Nat,
             type : {"ACK", "NACK", "NONE"}, re : Nat, astray : BOOLEAN]
NoReturn == [op |-> "idle", value |-> "None", n |-> 0, type |-> "NONE", re |-> 0,
             astray |-> FALSE]

ObjectInit ==
  /\ Init
  /\ connection_status = "Unconnected"
  /\ call = [t \in Threads |-> NoCall]
  /\ returned = NoReturn
  /\ resets = 0
  /\ firstOfProcess = 1
  /\ posix \in Platforms

-----------------------------------------------------------------------------
(* Helpers *)

Idle(t) == call[t].op = "idle"

Enter(t, op, n) ==
  /\ Idle(t)
  /\ call' = [call EXCEPT ![t] = [op |-> op, n |-> n]]

\* Thread t's call ends with the given value, and without a reply: the commands of
\* these calls may still be answered.
Return(t, op, value) ==
  /\ call' = [call EXCEPT ![t] = NoCall]
  /\ returned' = [NoReturn EXCEPT !.op = op, !.value = value,
                    !.astray = returned.astray \/ op \in {"send", "reset", "ack", "frame"}]

\* get_nowait() finds an element only when the feeder thread of the putting
\* process has written it to the pipe; an ended process has written all.
MaySeemEmpty(q) == q = <<>> \/ main \notin {"new", "exited"}

TakeStatus ==
  /\ signal_queue # <<>>
  /\ connection_status' = Head(signal_queue)
  /\ signal_queue' = Tail(signal_queue)

\* get_connection_status(), for its effect.
UpdateStatus ==
  \/ TakeStatus
  \/ MaySeemEmpty(signal_queue) /\ UNCHANGED <<connection_status, signal_queue>>

\* send(): put a command in the queue.
Put(kind) ==
  /\ issued < MaxIssued
  /\ issued' = issued + 1
  /\ command_queue' = Append(command_queue, [kind |-> kind, id |-> issued'])

-----------------------------------------------------------------------------
(* The calls *)

\* get_connection_status() as a call: the value of a successful get_nowait()
\* is stored but not returned.
GetConnectionStatus(t) ==
  /\ Idle(t)
  /\ \/ TakeStatus /\ Return(t, "status", "None")
     \/ /\ MaySeemEmpty(signal_queue)
        /\ Return(t, "status", connection_status)
        /\ UNCHANGED <<connection_status, signal_queue>>
  /\ UNCHANGED <<processVars, issued, command_queue, received_queue, ack_queue,
                 resets, firstOfProcess>>

\* connect(): a process object starts once only, a second start() raises.
Connect(t) ==
  /\ Start
  /\ Enter(t, "connect", Polls)
  /\ UNCHANGED <<connection_status, returned, resets, firstOfProcess>>

ConnectPoll(t) ==
  /\ call[t].op = "connect" /\ call[t].n > 0
  /\ UpdateStatus
  /\ IF signal_queue' # signal_queue /\ connection_status' = "Connected"
     THEN Return(t, "connect", "True")
     ELSE /\ call' = [call EXCEPT ![t].n = @ - 1]
          /\ UNCHANGED returned
  /\ UNCHANGED <<processVars, issued, command_queue, received_queue, ack_queue,
                 resets, firstOfProcess>>

ConnectTimeout(t) ==
  /\ call[t].op = "connect" /\ call[t].n = 0
  /\ Return(t, "connect", "False")
  /\ UNCHANGED <<vars, connection_status, resets, firstOfProcess>>

\* send() without waiting: also configure, set_gpio, send_stop, stop, send_ack,
\* request_settings and (a "RESET") shutdown_connection.  Whether the process
\* is connected, or started at all, is not looked at.
Send(t, kind) ==
  /\ Idle(t)
  /\ Put(kind)
  /\ Return(t, "send", "True")
  /\ UNCHANGED <<processVars, signal_queue, received_queue, ack_queue,
                 connection_status, resets, firstOfProcess>>

\* send(wait_for_ack=True) (op "ack") and send_canframe() (op "frame").
SendAndWait(t, op) ==
  /\ Put("OTHER")
  /\ Enter(t, op, issued')
  /\ UNCHANGED <<processVars, signal_queue, received_queue, ack_queue,
                 connection_status, returned, resets, firstOfProcess>>

Waiting(t) == call[t].op \in {"ack", "frame"}

\* The value of wait_for_ack() for a reply m.
AckValue(m) == IF m.type = "NACK" THEN "False" ELSE "True"

\* send_canframe() compares the value with 0, which only False equals.
ValueFor(op, value) ==
  CASE op = "frame" /\ value = "False" -> "True"
    [] op = "frame" /\ value # "False" -> "False"
    [] op = "ack" -> value

\* Mutant of AfterTaking: the reply is looked at and stays in the queue.
StillThere(q) == q

\* ack_queue.get(): what is left in the queue.
AfterTaking(q) == Tail(q)

\* wait_for_ack(1): the oldest reply in the queue is taken for the answer.
AckArrives(t) ==
  /\ Waiting(t)
  /\ ack_queue # <<>>
  /\ ack_queue' = AfterTaking(ack_queue)
  /\ LET ack == Head(ack_queue) IN
     returned' = [op |-> call[t].op, value |-> ValueFor(call[t].op, AckValue(ack)),
                  n |-> call[t].n, type |-> ack.type, re |-> ack.re,
                  astray |-> returned.astray]
  /\ call' = [call EXCEPT ![t] = NoCall]
  /\ UNCHANGED <<processVars, issued, command_queue, signal_queue,
                 received_queue, connection_status, resets, firstOfProcess>>

\* wait_for_ack() returns None.
AckTimeout(t) ==
  /\ Waiting(t)
  /\ MaySeemEmpty(ack_queue)
  /\ Return(t, call[t].op, ValueFor(call[t].op, "None"))
  /\ UNCHANGED <<vars, connection_status, resets, firstOfProcess>>

\* receive(): the status is looked at first, the data queue after that.
Receive(t) ==
  /\ UpdateStatus
  /\ Idle(t)
  /\ IF connection_status' = "Connected"
     THEN Enter(t, "receive", 0) /\ UNCHANGED returned
     ELSE Return(t, "receive", "-1")
  /\ UNCHANGED <<processVars, issued, command_queue, received_queue, ack_queue,
                 resets, firstOfProcess>>

ReceiveReturns(t) ==
  /\ call[t].op = "receive"
  /\ \/ /\ received_queue # <<>>
        /\ received_queue' = Tail(received_queue)
        /\ Return(t, "receive", "Message")
     \/ /\ MaySeemEmpty(received_queue)
        /\ UNCHANGED received_queue
        /\ Return(t, "receive", "-1")
  /\ UNCHANGED <<processVars, issued, command_queue, signal_queue, ack_queue,
                 connection_status, resets, firstOfProcess>>

\* Mutant of DropOne: the queues are not emptied.
DropNone(q) == q

\* empty_queue(q): one get_nowait().
DropOne(q) == IF q = <<>> THEN q ELSE Tail(q)

\* The end of reset(): a new process object on the old queues, of which signals,
\* data and acks is what they hold.  The last command may still be with the
\* client's feeder thread, where get_nowait() does not find it.
Renew(signals, data, acks) ==
  /\ main' = "new" /\ reader' = "off" /\ abort' = FALSE
  /\ current' = NoCommand /\ status' = "Unconnected"
  /\ conn' = "none" /\ inbound' = <<>> /\ buffer' = <<>>
  /\ forwarded' = <<>> /\ deviceRead' = 0 /\ produced' = 0
  /\ connection_status' = "Unconnected"
  /\ resets' = resets + 1
  /\ firstOfProcess' = issued + 1
  /\ command_queue' \in {command_queue, DropOne(command_queue)}
  /\ signal_queue' = DropOne(signals)
  /\ received_queue' = DropOne(data)
  /\ ack_queue' = DropOne(acks)

\* reset() asks the process to shut down and waits for it to end ...
Reset(t) ==
  /\ resets < MaxResets
  /\ UpdateStatus
  /\ connection_status' # "Unconnected"
  /\ Put("RESET")
  /\ Enter(t, "join", resets)
  /\ UNCHANGED <<processVars, received_queue, ack_queue, returned, resets,
                 firstOfProcess>>

\* Mutant of Joined: reset() does not wait for the process.
NotJoined(n) == TRUE

\* join() returns: the process object number n has ended.
Joined(n) == n # resets \/ main = "exited"

ResetJoined(t) ==
  /\ call[t].op = "join"
  /\ Joined(call[t].n)
  /\ resets < MaxResets
  /\ Renew(signal_queue, received_queue, ack_queue)
  /\ Return(t, "reset", "0")
  /\ UNCHANGED issued

\* ... which raises when the object has never been started.
ResetJoinRaises(t) ==
  /\ call[t].op = "join"
  /\ call[t].n = resets /\ main = "new"
  /\ Return(t, "reset", "Raised")
  /\ UNCHANGED <<vars, connection_status, resets, firstOfProcess>>

\* As long as the client has not learnt of a connection, reset() kills the
\* process instead: kill(pid, -1) is refused, as -1 is no signal (and pid may
\* be None) ...
ResetRaises(t) ==
  /\ posix /\ Idle(t)
  /\ UpdateStatus
  /\ connection_status' = "Unconnected"
  /\ Return(t, "reset", "Raised")
  /\ UNCHANGED <<processVars, issued, command_queue, received_queue, ack_queue,
                 resets, firstOfProcess>>

Prefixes(q) == {SubSeq(q, 1, n) : n \in 0..Len(q)}

\* ... and taskkill ends it where it is, elements that its feeder threads have
\* not written yet included.  A process not started has nothing to kill.
ResetKills(t) ==
  /\ ~posix /\ Idle(t)
  /\ resets < MaxResets
  /\ connection_status = "Unconnected"
  /\ MaySeemEmpty(signal_queue)
  /\ \E signals \in Prefixes(signal_queue), data \in Prefixes(received_queue),
        acks \in Prefixes(ack_queue) : Renew(signals, data, acks)
  /\ Return(t, "reset", "0")
  /\ UNCHANGED issued

ClientNext ==
  \E t \in Threads :
    \/ GetConnectionStatus(t)
    \/ Connect(t) \/ ConnectPoll(t) \/ ConnectTimeout(t)
    \/ \E kind \in SendKinds : Send(t, kind)
    \/ \E op \in {"ack", "frame"} : SendAndWait(t, op)
    \/ AckArrives(t) \/ AckTimeout(t)
    \/ Receive(t) \/ ReceiveReturns(t)
    \/ Reset(t) \/ ResetJoined(t) \/ ResetJoinRaises(t)
    \/ ResetRaises(t) \/ ResetKills(t)

ObjectNext ==
  \/ ProcessStep /\ UNCHANGED objectVars
  \/ ClientNext /\ UNCHANGED posix

ObjectSpec == ObjectInit /\ [][ObjectNext]_allVars

\* The threads of the process and the device as in ConnectionProcess, and a
\* client thread that waits in join() goes on when join() returns or raises.
ObjectFairSpec ==
  /\ ObjectSpec
  /\ WF_allVars(MainStep /\ UNCHANGED objectVars)
  /\ WF_allVars(ReaderStep /\ UNCHANGED objectVars)
  /\ WF_allVars(DeviceConnect /\ UNCHANGED objectVars)
  /\ WF_allVars(DeviceRead /\ UNCHANGED objectVars)
  /\ \A t \in Threads :
       WF_allVars((ResetJoined(t) \/ ResetJoinRaises(t)) /\ UNCHANGED posix)

-----------------------------------------------------------------------------
(* Properties *)

(* "do we expect the CANBadger to ACK the message" (canbadger.py:141): the   *)
(* reply that a call of a single client thread takes is the reply to its    *)
(* own command, as long as every command was waited for and none in vain,   *)
(* over any number of calls one after the other (lines 145, 157, 188-202).  *)
AnsweredByOwnReply ==
  returned.type # "NONE" /\ ~returned.astray => returned.re = returned.n

(* "keeps track of the connection state" (interface.py:6): when the client  *)
(* has taken every signal, its copy of the status is the status of the      *)
(* process it owns now - also after a reset() that joined the process and   *)
(* took one signal only out of a queue that several may have been put in    *)
(* (canbadger.py:95-114).  A process killed by taskkill may leave more.     *)
StatusTracksProcess ==
  posix =>
    LET statuses == <<connection_status>> \o signal_queue IN
    statuses[Len(statuses)] = status

(* A connection gets the commands in the order they were issued, none of    *)
(* them twice, even if a reset() came in between (canbadger.py:144,         *)
(* canbadger_connection_process.py:180-187).                                *)
CommandsInOrder ==
  \A i, j \in DOMAIN forwarded : i < j => forwarded[i].id < forwarded[j].id

(* "empty the queues" (canbadger.py:112): a connection gets only commands   *)
(* that were issued to the process object it belongs to, none from before   *)
(* the reset() that made the object.                                        *)
NoStaleCommand ==
  \A i \in DOMAIN forwarded : forwarded[i].id >= firstOfProcess

(* "reset the CANBadger and the Connection" (canbadger.py:92): a reset()    *)
(* that waits for the process to end (line 103) goes on some day.  It does   *)
(* not: nobody reads the queues meanwhile, and a process ends only when it   *)
(* has written them out.                                                     *)
ResetReturns ==
  \A t \in Threads : (call[t].op = "join") ~> (call[t].op # "join")
=============================================================================
