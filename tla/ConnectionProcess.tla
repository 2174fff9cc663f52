------------------------- MODULE ConnectionProcess --------------------------
(***************************************************************************)
(* One CANBadgerConnectionProcess: its main thread, its reader thread, the *)
(* lock and the abort event they share, the TCP connection to the device   *)
(* and the four queues it shares with the client.                          *)
(*                                                                         *)
(* Messages are whole here (EthernetStream models their framing).  A queue *)
(* is one sequence, whether an element is still with the feeder thread of  *)
(* the putting process or already in the pipe.                             *)
(***************************************************************************)
EXTENDS Naturals, Sequences

CONSTANTS
  Window,        \* commands in flight before send() blocks
  PipeCapacity,  \* messages a queue's pipe holds unread
  Failures,      \* what may go wrong, see FailureKinds
  MaxIssued,     \* bound: commands the client issues
  MaxProduced    \* bound: messages the device sends

PeerFailures == {"fin", "rst", "exc"}
FailureKinds == PeerFailures \cup {"setup", "lost", "interrupt"}

ASSUME WindowAssumption   == Window \in Nat \ {0}
ASSUME PipeAssumption     == PipeCapacity \in Nat
ASSUME FailuresAssumption == Failures \subseteq FailureKinds
ASSUME IssuedAssumption   == MaxIssued \in Nat
ASSUME ProducedAssumption == MaxProduced \in Nat

VARIABLES
  main,            \* where the main thread is
  reader,          \* where the reader thread is
  abort,           \* the threading.Event both threads look at
  current,         \* the command the main thread has taken
  status,          \* self.status
  conn,            \* the TCP connection, see ConnStates
  inbound,         \* messages on their way from the device
  buffer,          \* the reader's buffer
  forwarded,       \* commands send() has accepted, in order
  deviceRead,      \* how many of them the device has read
  produced,        \* messages the device has sent
  issued,          \* commands the client has issued
  command_queue, signal_queue, received_queue, ack_queue

threadVars  == <<main, reader, abort, current, status>>
socketVars  == <<conn, inbound, buffer, forwarded, deviceRead, produced>>
processVars == <<threadVars, socketVars>>
queueVars   == <<command_queue, signal_queue, received_queue, ack_queue>>
vars        == <<processVars, issued, queueVars>>

MainStates   == {"new", "setup", "accept", "check", "get", "send", "join",
                 "exiting", "exited"}
Running      == MainStates \ {"new", "exiting", "exited"}  \* inside run()'s try
ReaderStates == {"off", "check", "select", "recv", "put", "done", "died"}
Stopped      == {"off", "done", "died"}

\* "fin": the device has closed its end; "half": and we have sent since, so a
\* reset is on its way; "rst": a reset has arrived; "dead": a call has reported
\* the reset; "exc": select() reports an exceptional condition.
ConnStates == {"none", "invited", "pending", "open", "fin", "half", "rst",
               "dead", "exc", "closed"}

Kinds    == {"CONNECT", "RESET", "OTHER"}
Commands == [kind : Kinds, id : Nat]
NoCommand == [kind |-> "CONNECT", id |-> 0]

\* "BAD" is a message whose type or action is outside the enums.  A reply
\* carries the id of the command it answers, other messages carry 0.
Messages == [type : {"ACK", "NACK", "DATA", "BAD"}, re : Nat]
Acks     == {m \in Messages : m.type \in {"ACK", "NACK"}}
Data     == {m \in Messages : m.type = "DATA"}

Statuses == {"Unconnected", "Connected", "Shutdown"}

TypeOK ==
  /\ main \in MainStates /\ reader \in ReaderStates
  /\ abort \in BOOLEAN /\ current \in Commands /\ status \in Statuses
  /\ conn \in ConnStates
  /\ inbound \in Seq(Messages) /\ buffer \in Seq(Messages)
  /\ forwarded \in Seq(Commands)
  /\ deviceRead \in 0..Len(forwarded)
  /\ produced \in Nat /\ issued \in Nat
  /\ command_queue \in Seq(Commands)
  /\ signal_queue \in Seq(Statuses)
  /\ received_queue \in Seq(Data) /\ ack_queue \in Seq(Acks)
  /\ reader = "put" => buffer # <<>>

ProcessInit ==
  /\ main = "new" /\ reader = "off" /\ abort = FALSE
  /\ current = NoCommand /\ status = "Unconnected"
  /\ conn = "none" /\ inbound = <<>> /\ buffer = <<>>
  /\ forwarded = <<>> /\ deviceRead = 0 /\ produced = 0

Init ==
  /\ ProcessInit
  /\ issued = 0
  /\ command_queue = <<>> /\ signal_queue = <<>>
  /\ received_queue = <<>> /\ ack_queue = <<>>

-----------------------------------------------------------------------------
(* The main thread. *)

SetStatus(s) ==
  /\ status' = s
  /\ signal_queue' = Append(signal_queue, s)

Start ==
  /\ main = "new"
  /\ main' = "setup"
  /\ UNCHANGED <<reader, abort, current, status, socketVars, issued, queueVars>>

\* connection_setup() and send_connection_command(), whose result nobody looks
\* at.  A port that is taken or a network that is down raises OSError; the
\* invitation is a datagram and may be lost.
ConnectionSetup ==
  /\ main = "setup"
  /\ \/ "setup" \in Failures /\ main' = "exiting" /\ UNCHANGED conn
     \/ main' = "accept" /\ conn' = "invited"
     \/ "lost" \in Failures /\ main' = "accept" /\ UNCHANGED conn
  /\ UNCHANGED <<reader, abort, current, status, inbound, buffer, forwarded,
                 deviceRead, produced, issued, queueVars>>

\* accept() returns; Connected is announced and the reader thread started.
Accept ==
  /\ main = "accept"
  /\ conn = "pending"
  /\ conn' = "open"
  /\ SetStatus("Connected")
  /\ reader' = "check"
  /\ main' = "check"
  /\ UNCHANGED <<abort, current, inbound, buffer, forwarded, deviceRead,
                 produced, issued, command_queue, received_queue, ack_queue>>

\* Mutant of LoopEnds: the command loop does not look at the event.
LoopForEver == FALSE

LoopEnds == abort

\* while not abort.is_set()
CheckAbort ==
  /\ main = "check"
  /\ main' = IF LoopEnds THEN "join" ELSE "get"
  /\ UNCHANGED <<reader, abort, current, status, socketVars, issued, queueVars>>

\* Mutant of NextCommand: the command put last comes out first.
LatestCommand(q) == q[Len(q)]

NextCommand(q) == q[1]

\* command_queue.get() blocks; a CONNECT is dropped, for any other command the
\* thread takes the lock, which it holds as long as main = "send".
GetCommand ==
  /\ main = "get"
  /\ command_queue # <<>>
  /\ current' = NextCommand(command_queue)
  /\ command_queue' = Tail(command_queue)
  /\ main' = IF current'.kind = "CONNECT" THEN "check" ELSE "send"
  /\ UNCHANGED <<reader, abort, status, socketVars, issued, signal_queue,
                 received_queue, ack_queue>>

RoomToSend == Len(forwarded) - deviceRead < Window

\* Mutant of AbortAfter: a RESET does not end the loop.
AbortNever(command) == abort

\* A RESET that has been forwarded ends the command loop.
AbortAfter(command) == abort \/ command.kind = "RESET"

SendAccepted ==
  /\ main = "send"
  /\ conn \in {"open", "exc"} => RoomToSend
  /\ conn \in {"open", "exc", "fin", "half"}
  /\ conn' = IF conn = "fin" THEN "half" ELSE conn
  /\ forwarded' = Append(forwarded, current)
  /\ abort' = AbortAfter(current)
  /\ main' = "check"
  /\ UNCHANGED <<reader, current, status, inbound, buffer, deviceRead, produced,
                 issued, queueVars>>

\* BrokenPipeError or ConnectionResetError: run() does not catch it.
SendRaises ==
  /\ main = "send"
  /\ conn \in {"half", "rst", "dead"}
  /\ conn' = "dead"
  /\ main' = "exiting"
  /\ UNCHANGED <<reader, abort, current, status, inbound, buffer, forwarded,
                 deviceRead, produced, issued, queueVars>>

\* Mutant of ReaderJoined: Shutdown does not wait for the reader thread.
ReaderNotAwaited == TRUE

ReaderJoined == reader \in Stopped

Finish ==
  /\ main = "join"
  /\ ReaderJoined
  /\ SetStatus("Shutdown")
  /\ conn' = "closed"
  /\ main' = "exiting"
  /\ UNCHANGED <<reader, abort, current, inbound, buffer, forwarded, deviceRead,
                 produced, issued, command_queue, received_queue, ack_queue>>

\* KeyboardInterrupt, anywhere in run()'s try block.
Interrupt ==
  /\ "interrupt" \in Failures
  /\ main \in Running
  /\ abort' = TRUE
  /\ conn' = "closed"
  /\ main' = "exiting"
  /\ UNCHANGED <<reader, current, status, inbound, buffer, forwarded, deviceRead,
                 produced, issued, queueVars>>

\* The process ends when its other thread has, and when the feeder threads of
\* its queues have written everything to the pipes.
Exit ==
  /\ main = "exiting"
  /\ ReaderJoined
  /\ Len(received_queue) <= PipeCapacity
  /\ Len(ack_queue) <= PipeCapacity
  /\ main' = "exited"
  /\ conn' = "closed"
  /\ UNCHANGED <<reader, abort, current, status, inbound, buffer, forwarded,
                 deviceRead, produced, issued, queueVars>>

MainStep ==
  \/ ConnectionSetup \/ Accept \/ CheckAbort \/ GetCommand
  \/ SendAccepted \/ SendRaises \/ Finish \/ Exit

-----------------------------------------------------------------------------
(* The reader thread, read_from_socket. *)

\* Mutant of StopRequested: the loop condition is ignored.
StopIgnored == FALSE

StopRequested == abort

ReaderCheck ==
  /\ reader = "check"
  /\ reader' = IF StopRequested THEN "done" ELSE "select"
  /\ UNCHANGED <<main, abort, current, status, socketVars, issued, queueVars>>

Readable == inbound # <<>> \/ conn \in {"fin", "half", "rst", "dead"}

\* select() with a timeout of one second.  On a socket the main thread has
\* closed it raises, or reports it readable if it was waiting already.
ReaderSelect ==
  /\ reader = "select"
  /\ \/ conn = "exc" /\ abort' = TRUE /\ reader' = "done"
     \/ conn = "closed" /\ reader' \in {"died", "recv"} /\ UNCHANGED abort
     \/ /\ conn \notin {"exc", "closed"}
        /\ reader' = IF Readable THEN "recv" ELSE "check"
        /\ UNCHANGED abort
  /\ UNCHANGED <<main, current, status, socketVars, issued, queueVars>>

\* Mutant of IsReply: only an ACK is for the ack queue.
IsAck(m) == m.type = "ACK"

IsReply(m) == m.type \in {"ACK", "NACK"}

\* EthernetMessage.unserialize() of message m, then into a queue; for a "BAD"
\* one it raises ValueError, which ends the thread.
Dispatch(m) ==
  /\ reader' = IF m.type = "BAD" THEN "died" ELSE "check"
  /\ ack_queue' = IF IsReply(m) THEN Append(ack_queue, m) ELSE ack_queue
  /\ received_queue' = IF IsReply(m) \/ m.type = "BAD"
                       THEN received_queue ELSE Append(received_queue, m)

\* recv(4096), under the lock, returned the first n messages of `inbound'
\* (n = 0: b'', which is not the None the code tests for).
ReaderReceives(n) ==
  /\ reader = "recv"
  /\ main # "send"
  /\ conn # "closed"
  /\ IF inbound = <<>> THEN n = 0 /\ conn \in {"fin", "half", "dead"}
                       ELSE n \in 1..Len(inbound)
  /\ inbound' = SubSeq(inbound, n + 1, Len(inbound))
  /\ buffer' = buffer \o SubSeq(inbound, 1, n)
  /\ reader' = IF buffer' = <<>> THEN "check" ELSE "put"
  /\ UNCHANGED <<main, abort, current, status, conn, forwarded, deviceRead,
                 produced, issued, queueVars>>

\* Mutant of NextMessage: the message received last is dispatched first.
LatestMessage(b) == b[Len(b)]

\* buffer[:msg_len]: one turn of the loop takes the oldest message.
NextMessage(b) == b[1]

\* The lock is free again, so the main thread may act between the two.
ReaderPuts ==
  /\ reader = "put"
  /\ buffer' = Tail(buffer)
  /\ Dispatch(NextMessage(buffer))
  /\ UNCHANGED <<main, abort, current, status, conn, inbound, forwarded,
                 deviceRead, produced, issued, command_queue, signal_queue>>

\* ConnectionResetError asks both threads to stop; any other OSError ends the
\* reader thread alone.
ReaderRecvFails ==
  /\ reader = "recv"
  /\ main # "send"
  /\ \/ /\ conn = "rst" /\ inbound = <<>>
        /\ abort' = TRUE /\ reader' = "check" /\ conn' = "dead"
     \/ /\ conn = "closed"
        /\ reader' = "died" /\ UNCHANGED <<abort, conn>>
  /\ UNCHANGED <<main, current, status, inbound, buffer, forwarded, deviceRead,
                 produced, issued, queueVars>>

ReaderStep ==
  \/ ReaderCheck \/ ReaderSelect \/ ReaderRecvFails \/ ReaderPuts
  \/ \E n \in 0..Len(inbound) : ReaderReceives(n)

-----------------------------------------------------------------------------
(* The device, external to src/. *)

DeviceConnect ==
  /\ conn = "invited"
  /\ conn' = "pending"
  /\ UNCHANGED <<threadVars, inbound, buffer, forwarded, deviceRead, produced,
                 issued, queueVars>>

DeviceSends(m) ==
  /\ produced < MaxProduced
  /\ produced' = produced + 1
  /\ inbound' = Append(inbound, m)

DeviceRead ==
  /\ conn \in {"open", "exc"}
  /\ deviceRead < Len(forwarded)
  /\ deviceRead' = deviceRead + 1
  /\ \/ \E type \in {"ACK", "NACK"} :
           DeviceSends([type |-> type, re |-> forwarded[deviceRead'].id])
     \/ UNCHANGED <<produced, inbound>>
  /\ UNCHANGED <<threadVars, conn, buffer, forwarded, issued, queueVars>>

DeviceData ==
  /\ conn \in {"open", "exc"}
  /\ \E type \in {"DATA", "BAD"} : DeviceSends([type |-> type, re |-> 0])
  /\ UNCHANGED <<threadVars, conn, buffer, forwarded, deviceRead, issued,
                 queueVars>>

DeviceFail ==
  /\ conn = "open"
  /\ conn' \in Failures \cap PeerFailures
  /\ UNCHANGED <<threadVars, inbound, buffer, forwarded, deviceRead, produced,
                 issued, queueVars>>

DeviceStep == DeviceConnect \/ DeviceRead \/ DeviceData \/ DeviceFail

ProcessStep == MainStep \/ Interrupt \/ ReaderStep \/ DeviceStep

-----------------------------------------------------------------------------
(* A client: it may use the queues in any order (CANBadger.tla is the one   *)
(* the library has).                                                       *)

\* send_ethernet_message, the only operation of the process object itself.
Issue(kind) ==
  /\ issued < MaxIssued
  /\ issued' = issued + 1
  /\ command_queue' = Append(command_queue, [kind |-> kind, id |-> issued'])
  /\ UNCHANGED <<processVars, signal_queue, received_queue, ack_queue>>

TakeSignal ==
  /\ signal_queue # <<>>
  /\ signal_queue' = Tail(signal_queue)
  /\ UNCHANGED <<processVars, issued, command_queue, received_queue, ack_queue>>

TakeReceived ==
  /\ received_queue # <<>>
  /\ received_queue' = Tail(received_queue)
  /\ UNCHANGED <<processVars, issued, command_queue, signal_queue, ack_queue>>

TakeAck ==
  /\ ack_queue # <<>>
  /\ ack_queue' = Tail(ack_queue)
  /\ UNCHANGED <<processVars, issued, command_queue, signal_queue, received_queue>>

ClientStep ==
  \/ \E kind \in Kinds : Issue(kind)
  \/ TakeSignal \/ TakeReceived \/ TakeAck

Next == Start \/ ProcessStep \/ ClientStep

Spec == Init /\ [][Next]_vars

\* Each thread is scheduled while it can run, and a device whose connection is
\* up connects back and keeps reading its commands.
Fairness ==
  /\ WF_vars(MainStep) /\ WF_vars(ReaderStep)
  /\ WF_vars(DeviceConnect) /\ WF_vars(DeviceRead)

FairSpec == Spec /\ Fairness

-----------------------------------------------------------------------------
(* Properties *)

(* The promises of ConnectionLifecycle.  In particular no message is put in *)
(* a queue after Shutdown is announced, although another thread puts them   *)
(* (reader_thread.join() at canbadger_connection_process.py:191), and no    *)
(* command follows a RESET (lines 188-189).                                 *)
Phase ==
  CASE main = "new"                              -> "new"
    [] main \in {"setup", "accept"}              -> "connecting"
    [] main \in {"check", "get", "send", "join"} -> "connected"
    [] main \in {"exiting", "exited"} /\ status = "Shutdown" -> "shutdown"
    [] main \in {"exiting", "exited"} /\ status # "Shutdown" -> "failed"

Inbox     == Len(received_queue) + Len(ack_queue)
KindsSent == [i \in DOMAIN forwarded |-> forwarded[i].kind]

Lifecycle == INSTANCE ConnectionLifecycle WITH
  phase    <- Phase,
  signals  <- signal_queue,
  inbox    <- Inbox,
  commands <- KindsSent

ImplementsLifecycle == Lifecycle!Spec

(* The reader thread hands over replies in the order the device answered    *)
(* the commands, whichever of them one recv() returned together: the client *)
(* pairs them with its sends by order alone (canbadger.py:192-202).         *)
OnTheWay == ack_queue \o (buffer \o inbound)

AcksInOrder ==
  \A i, j \in DOMAIN OnTheWay :
    i < j /\ OnTheWay[i].re # 0 /\ OnTheWay[j].re # 0 => OnTheWay[i].re < OnTheWay[j].re

(* Once the abort event is set the reader thread ends, even if it has to    *)
(* wait for a send that holds the lock (lines 135 and 145).                 *)
AbortStopsReader == abort ~> reader \in Stopped

\* The two ways a process never ends: it writes to a pipe that nobody reads, or
\* send() raised in its main thread and nothing tells the reader thread.
Fits          == Len(received_queue) <= PipeCapacity /\ Len(ack_queue) <= PipeCapacity
WritesForEver == main = "exiting" /\ ~Fits
ReadsForEver  == main = "exiting" /\ ~abort /\ reader \notin Stopped

(* There is no other way: a RESET put in the queue during the command loop, *)
(* by reset() or by hand, ends the process, whatever was queued before it,  *)
(* arrives meanwhile or fails, as long as the device reads its commands     *)
(* (lines 117-196).                                                         *)
Shuttable == main \in {"check", "get", "send", "join"}
Resetting == \E i \in DOMAIN command_queue : command_queue[i].kind = "RESET"

ResetEndsProcess ==
  \/ <>[](WritesForEver \/ ReadsForEver)
  \/ (Shuttable /\ Resetting) ~> (main = "exited")

(* "signal abort on errors" (line 138): once the event is set, the main     *)
(* thread sends one command more at most, although others are queued, and   *)
(* leaves the loop or waits for a command that does not come: it never      *)
(* waits for a device that is gone (lines 179-189).                         *)
AbortEndsCommandLoop ==
  /\ \A n \in 0..MaxIssued :
       [](abort /\ Len(forwarded) = n => [](Len(forwarded) <= n + 1))
  /\ abort ~> \/ main \notin {"check", "get", "send"}
              \/ main = "get" /\ command_queue = <<>>

(* "connection closed from other side" (line 152): when the device closes   *)
(* the connection, the process stops using it.                              *)
PeerCloseNoticed == (conn = "fin") ~> abort
=============================================================================
