# libcanbadger in TLA+

libcanbadger is a Python client library for the CANBadger, a device that sits on
one or two CAN buses and talks to its client over TCP. The library connects to
the device, sends it commands, receives what it logs, and builds ISO-TP
messages and UDS sessions on top of single CAN frames.

These modules model the library's own logic: the connection process and its two
threads, the client object that owns it, the framing of the byte stream, ISO-TP
formatting and parsing, the UDS session with its tester present thread and the
bytes of its requests, the logs of a `LoggedInterface` and their files, the brute
force search, and the smaller parts: settings, discovery, the reception of
frames, the portable queue and the trace recorder.
Paths below are relative to `src/libcanbadger/`.

## The system

| Component | State | Operations | Works with |
|---|---|---|---|
| `canbadger_connection_process.py`, `CANBadgerConnectionProcess` | status, abort event, socket, lock, reader thread, `buffer` | `run` (connect, command loop, shut down), `read_from_socket`, `send_ethernet_message` | four `multiprocessing` queues shared with the client; UDP and TCP to the device |
| `canbadger.py`, `CANBadger` | process object, queues, copy of the status | `connect`, `reset`, `send`, `send_canframe`, `receive`, `receive_canframe`, `wait_for_ack`, `get_connection_status`, wrappers around `send` | owns the process; used by handler and session, by several threads |
| `ethernet_message.py` | a message | `serialize`, `unserialize` | the process |
| `iso_tp/iso_tp_message.py` | parse state, payload, counters | `format`, `feed`, `reset` | the handler |
| `iso_tp/iso_tp_handler.py` | registered messages | `send_*`, `receive_message`, `send_flowcontrol` | an interface |
| `uds/session.py` | status, level, two events, tester present thread | `request`, `start`, `start_tp`, `stop_tp`, the services | a handler; a thread of its own |
| `interface.py` (`LoggedInterface`), `log.py` | logs, map of their states | `start_log`, `stop_log`, `add_log`, ... | wraps an interface |
| `search/` | parameters, index of each, progress | `add_param`, `next`, `peek_next`, `reset`, `reset_all`, `length`, `progress` | a loop of the user's, around UDS requests |
| `util/can_settings.py` | settings | `serialize`, `deserialize` | `CANBadger` |
| `util/cross_platform_hacks.py` | a counter beside a queue | `put`, `get`, `clear` | nothing in the library |
| `util/trace_decorator.py` | recorded calls | `Trace` | classes of the user |
| discovery (`canbadger_connection_process.py:15-64`) | a UDP socket | `discover_canbadgers` | - |

What is hard here:

* three threads in two processes (the client's, the process's main and reader
  threads), plus the tester present thread, over queues, a lock and events;
* a TCP stream that is cut anywhere, and a device that closes, resets or stops
  reading;
* calls that give up (acknowledges, connecting, receiving) while the answer is
  still to come, over queues that keep what nobody took;
* `reset()`, which replaces the process but keeps the queues;
* counters, paddings and lengths of ISO-TP;
* a list of logs that one thread changes while another loops over it;
* the carry of the search, which ends or goes on by a negative index;
* state that outlives the call it belongs to: the index of a loop inside of a log,
  the counter of a queue, the time of the round before, the names of objects.

What makes each part correct:

* framing: the queues get the messages that were sent, whole, once, in order;
* process: signals are announced when things happen, nothing is handed over
  after the Shutdown, an end that is asked for comes about;
* client: its status is that of the process it owns, a command reaches one
  connection, once and in order, `reset()` returns;
* ISO-TP: what `format()` makes, `feed()` puts together; a receiver never mixes
  two messages, whatever is lost or comes between;
* UDS: one tester present thread, silent in a request, alive while the session
  is idle, gone when it was stopped; a response belongs to its request;
* logs: a log that is on gets each frame once, and no frame is lost to logging;
* search: every combination once, whatever was searched before;
* settings: the other end reads what was set, or refuses it;
* discovery: every CANBadger once, in the time asked for;
* reception of frames: a timeout that the caller can count on;
* portable queue: a size to rely on, and a `clear()` that ends;
* trace recorder: lines that repeat the calls they were made from.

## Modules

| Module | Models | Lines of the source in short |
|---|---|---|
| `MessageChannel` | what the framing promises (abstract) | - |
| `EthernetStream` | `read_from_socket` over a byte stream | process 134-170, `unserialize` |
| `ConnectionLifecycle` | what the process promises (abstract) | - |
| `ConnectionProcess` | both threads, the connection, the queues | process 67-208 |
| `CANBadger` | the client object over `ConnectionProcess` | `canbadger.py` 42-216 |
| `CANBadger_proofs` | proofs about both | - |
| `FrameReception` | `receive_canframe()` with a clock | `canbadger.py` 123-181 |
| `IsoTpMessage`, `IsoTpMessage_proofs` | `format()` and `feed()` as operators | `iso_tp_message.py` |
| `IsoTpLoopback`, `MCIsoTpLoopback`, `IsoTpLoopback_proofs` | sending frame by frame, and the round trip | `iso_tp_handler.py` 43-58 |
| `IsoTpHandler`, `IsoTpHandler_proofs` | `receive_message()` on a bus with an ECU | `iso_tp_handler.py` 71-112 |
| `UdsSession`, `UdsSession_proofs` | requests and tester present threads | `uds/session.py` 49-250 |
| `UdsEncoding`, `UdsRequests` (proofs in `IsoTpLoopback_proofs`) | the bytes of the requests, on their way to the ECU | `uds/session.py` 137-269 |
| `LoggedInterface`, `LoggedInterface_proofs` | frames and the logs they go to | `interface.py` 59-124, `log.py` 103 |
| `LogFile` | loops over a log, and its file | `log.py` 25-146 |
| `BruteforceSearch`, `MCBruteforceSearch` | the search, its strategy and parameters | `search/` |
| `CANSettings` | the setters, `serialize()`, `deserialize()` | `util/can_settings.py` |
| `Discovery` | `discover_canbadgers()` with a clock | process 15-64 |
| `PortableQueue` | a queue that counts its elements | `util/cross_platform_hacks.py` |
| `TraceRecorder` | the recorded calls and the code made of them | `util/trace_decorator.py` |
| `MCThreads`, `MCIsoTp`, `MCHelpers` | independent parts side by side, for one run each | - |
| `Helpers_proofs` | proofs about `EthernetStream` and the independent parts | - |
| `Naturals_proofs` | lemmas about numbers that other proofs cite | - |

`CANBadger` EXTENDS `ConnectionProcess` and replaces its free client by the one
the library has. `IsoTpHandler` and `IsoTpLoopback` EXTEND `IsoTpMessage`;
`UdsRequests` EXTENDS `IsoTpLoopback` with `UdsEncoding`, so that a request goes the
whole way from its arguments over bytes and frames to what the ECU reads.
`EthernetStream` and `ConnectionProcess` look at one thread twice: bytes in the
first, whole messages together with the other thread in the second.

### EthernetStream

A byte is its offset in the stream, so `buffer` is the interval from `pos` to
`recvd`. `Recv(n)` is one turn of the loop from `recv(4096)` on: n bytes are
added and, if six are there, one message is taken (`if`, not `while`). A body
that has not arrived completely makes `unserialize()` return a message without
data (`whole` is FALSE) and leaves the rest of the body to be read as a header
(`ExtractGarbage`: any message, or the ValueError that ends the thread). An
empty `recv()` (closed connection) is not recognised, and the loop goes on.

### ConnectionProcess

`main` and `reader` are the places of the two threads in `run()` and
`read_from_socket()`; the lock is held exactly while `main = "send"`, and the
reader's `recv()` waits for it. The reader puts a message in a queue in a step of
its own (`ReaderPuts`), when it has given the lock back. `conn` is the TCP connection as the process
meets it; the device connects, reads, answers, sends data and may fail
(`Failures`): an orderly close, a reset, an exceptional condition, a port that
is taken, a lost invitation, a KeyboardInterrupt. The lines between two
blocking calls of a thread are one action where nothing else can see a
difference. A queue is one sequence; `PipeCapacity` matters for `Exit` only,
where a process has to write out its queues before it can end.

### CANBadger

One action per call, or several where a call can be overtaken: `connect()` polls
(`ConnectPoll`), a send with an acknowledge waits (`AckArrives`, `AckTimeout`),
`receive()` asks for the status first, `reset()` asks for the shutdown, joins
and then renews (`Reset`, `ResetJoined`). A timeout may strike in every state
in which `get_nowait()` or `get(timeout)` may find nothing, which includes the
time an element spends with the feeder thread of its sender (`MaySeemEmpty`).
`posix` chooses between the two ways `reset()` kills: on Linux the `kill` raises
(-1 is no signal), elsewhere taskkill ends the process where it is, and what its
feeder threads had not written is lost (`Prefixes`). Several client threads
(`Threads`) are possible; the runs have one. `returned.astray` is a history
variable: a call has ended without its reply, which may still come or lie in the
queue.

### IsoTpMessage, IsoTpLoopback, IsoTpHandler

The bytes of a payload are named by their position, so that a byte lost, doubled
or taken from the padding shows. `Format` and `Feed` follow the code, the
counters included: `i % 15` when formatting, no reduction when feeding.
`IsoTpLoopback` is the sending side of the handler: `send_message()` sends the frames
one after the other, without a lock, without waiting for flow control and without
looking at the result, so that a frame may be lost (`SendFrameFails`) or one of the
tester present thread come between two of them (`OtherThreadSends`; its two bytes are
named `Foreign`). `IsoTpHandler` adds a queue of frames, an ECU that counts modulo 16 and waits
for flow control, other nodes, answers to tester present, and faults: a frame
lost or dropped by the tester present filter (`lost`), or a flow control that
comes too late (`late`). Calls give up at any time the queue is empty, and leave what comes after.

### UdsSession

The user is in one call at a time: `Request`, `SendRequest`, then `Answered`,
`NotAnswered` or `RequestRaises`; `start()` goes on into `start_tp()`
(`NewTp`, or "joining" and `JoinedTp`), `security_access` into a second request.
A tester present thread looks at `halt_tp`, at `mute_tp`, sends and sleeps, four
steps any of which the user's steps may come between. `forgotten` is a history
variable: the threads `stop_tp()` has not waited for, and `result.astray` says that
a response may be on its way that nobody waits for.

### UdsEncoding, UdsRequests

A request is the call and its arguments; `Encoded` are its bytes, with `Base` values
each, `Raises` the calls that raise instead. The bytes between numbers are the
service ids of the code. `And` is the `&` of two bytes, written bit by bit as the
provers know no operators on bits. `LengthFormat` follows the precedence of Python, by which
the length of the address is lost. `ReadsAs` says what the external ECU reads from a
request, a key byte by byte; what it reads from an upload is left open, as the lengths
it would need are not in the message.

### LoggedInterface

A frame goes through the loop over `self.logs` in single steps: the next element
of the list as it is at that moment (`LoopTurn`), its status (`StatusLookedUp`, or
the KeyError `StatusMissing`), the event (`EventIsLogged`). The user's calls are
as fine: `start_log()` lists the log and then gives it a status, `stop_log()` goes
the other way round, `disable_all()` loops. Sending and receiving differ in what
happens outside the loop only and are one action; a received frame with id 0 or
without a payload does not come to the loop (`FrameIsPassedOn`). A stopped log may be
enabled and added again, and `add_log()` does not ask whether the list has the log
already: `Doubled` are those that are there more than once. `disable_log()` is
`enable_log()`. A log that
is empty is false in Python, so that `stop_log(log)` raises for it: such a call,
and any other that raises at once, changes nothing and is no step.

### BruteforceSearch

`Search` and its strategy are one state machine of one caller. `Carry` is the loop
of `move_indices()`, with Python's negative indices (`At`) and its three ends: an
index that is not full, the return with the progress set to 1, which only a first
parameter without a value reaches, and the IndexError. `indices` is a dict with
the parameter objects as keys, so a parameter that is added twice has one index, and
two with the same values have two. The
properties compare `next()` with the k-th combination in lexicographic order,
computed by division (`Nth`). `Search.reset_all()` does not tell the strategy, so
`parameters` may differ from `assigned`.

### The smaller parts

* `CANSettings`: a text is its characters, a number the set of its bits; a message
  may be cut off anywhere (`Transfer`), and a name that is not ASCII raises. The setters
  are actions with their checks.
* `LogFile`: `current_iter_index` belongs to the log, so loops share it; `met` notes
  the loops that have met another one. `Save` and `Load` say what becomes of an event
  in JSON: a string.
* `PortableQueue`: `put()`, `get()` and `clear()` in the steps in which another
  user may come between. Both `put()` and `get()` may raise when they have counted
  (`PutRaises`, `GetRaises`); `raced` notes users in `clear()` that have met a `get()`.
* `Discovery` and `FrameReception` count time in ticks. Time passes where the code
  waits, and nowhere else.
* `TraceRecorder`: calls of functions, constructors and methods, and
  `get_code_lines()`, which may be called again and remembers names. Names of objects
  come from that of the class in lower case (`Lower`), so classes may share them.

### Parts side by side

`MCThreads` has the stream and a session, `MCIsoTp` both ways of ISO-TP, and `MCHelpers`
the smaller parts, the search and the interface. A behaviour is about one of them
(`subject`), and the others keep their initial state. As they share nothing, this checks
each of them as a run of its own would; so do the fairness conditions, as a part that is
not the subject never has a step to take.

## Runs

| Run | Shows | Bounds |
|---|---|---|
| `threads` | the stream: type, the channel refinement, the only damage is a truncation, everything comes out after a close; the session: tester presents in a request, one thread, muting, whose response, alive, stopped | 3 messages, header of 2 bytes, data of 0, 1 or 3, `recv()` of up to 5; 3 requests, 3 threads |
| `stream_split` (violation) | `recv()` inside a message cuts its data off | 2 messages, the real header size and `recv()` limit |
| `process` | type, order of the replies, life cycle, end of both threads and of the process | 2 commands, 2 messages, every failure, window and pipe of 1 |
| `process_fin` (violation) | an orderly close is not noticed | 1 command, 1 message |
| `client_faults` | the status, and the order of the commands, over a restart | 2 commands, 1 message, every failure, 1 restart, both platforms, RESETs of the user |
| `client_restart` | no stale command; a call gets the reply to its own command | 3 commands, 2 messages, waits of 2 polls, pipe of 2, 1 restart, no failure |
| `client_join` (violation) | `reset()` waits for ever for a process with full pipes | 2 commands, 2 messages, pipe of 1, no failure |
| `isotp` | prefix, completeness, round trip, and the ECU reads the arguments of a request; receiving: messages whole, in order, no error without a fault | payloads of up to 104 bytes, with and without padding, every UDS call, with numbers around the powers of `Base`; 2 messages of 3 or 15 bytes, 3 calls, 1 stray frame, 2 lost frames, 1 late flow control |
| `isotp_long` (violation) | the counter after 14 frames | lengths from 105 |
| `helpers` | a property of each part that works on its own; of the interface: a frame once per log, no frame missed by a log that is on, when a frame is lost, quiet | below |
| `search_exhausted` (violation) | a search that is over goes on | 2 of the parameters of `helpers`, 8 calls |
| `settings_address` (violation) | an address that is not sent | as `helpers`, fewer lengths and bits |

The bounds are small because the interesting cases need few things at once: a
message cut and the one after it; two replies in one `recv()`; a command before,
and one after, a restart; a message that follows an unfinished one. For the stream
the header and the `recv()` limit are scaled down so that a message takes
several calls and a call several messages; the proofs hold for every size.
In `client_restart` every reply fits into a pipe, so that every process ends and the
one after it is reached; `client_join` shows what happens otherwise.
`isotp` is complete for the
lengths below the first wrong counter; a byte has `Base` = 3 values in it rather
than 256, so that numbers of one, two and three bytes, and both their borders, are
small numbers. Two messages and three calls of `receive_message()` allow a call that gives
up, frames lost in a message, and the next message to be mistaken for the rest of
it.

In `helpers`:

* searches over up to 3 of 7 parameters of 0 to 3 values, two of which have the same
  values, and the same one twice too:
  12 combinations at most, so 16 calls go past the end;
* settings with names of 0, 1, 15, 16, 18 and 19 characters and addresses of 0, 7
  and 15 (the lengths at which the code decides differently), and the message cut
  at every byte;
* two loops over a log of 3 events, 4 turns;
* three users of one queue, 3 elements, 1 `get()` and 1 `put()` that raise: two may be
  in `get()` while the third puts;
* discovery of 2 nodes with a timeout of 2 and a `wait_time` of 4, 4 announcements;
* 5 recorded calls on 4 objects, two of them of one class and a third of one whose name
  differs in case only;
* the reception of up to 3 messages of 2 identifiers with timeouts of 0 and 2;
* two frames of 2 threads for 2 logs, with a list of 2, so that a log is stopped, put back
  or listed twice while the loops of both threads are at the other.

CHECK_DEADLOCK is FALSE: each of these systems really may stop, with the bounds used up, the connection gone or the messages delivered.

Conditions stated in the properties rather than left out of the models:

* `ResetEndsProcess`: but for two ways in which a process never ends, which it names.
  `WritesForEver` is a process that has to write out queues nobody reads, `ReadsForEver`
  one whose main thread has ended by an exception of `send()`, while nothing tells its
  reader thread. The device reads its commands (`Fairness`).
* `StatusTracksProcess`: where the process is joined (`posix`). A process killed
  by taskkill may have written signals that `reset()`, which takes one, leaves.
* `NoStaleCommand`: checked for a client that shuts down by `reset()` only and
  without failures. A RESET sent by hand leaves commands in the queue of which
  `reset()` takes one.
* `OneWholeMessage`: not when a flow control that comes too late and a lost first
  frame meet. The consecutive frames of the second message then complete the
  first, and nothing in the frames could tell.
* `NoErrorWithoutFault`: for calls that are given an arbitration id.
* `FewTpDuringRequest`, `OneTpThread`, `NotMutedBetweenRequests`, `KeepsAlive`:
  up to threads that `stop_tp()` did not wait for, and unless the last request
  raised: the session unmutes in the last lines of `request()`, without a
  `finally`.
* `OwnResponse`: as long as every request was answered once and in time. A late
  response, or the one that a negative response announces, goes to the next
  request, whichever it was for.
* `OncePerLog`, `SteadyLogsGetTheFrame`, `FramesAreLostToChangesOnly`: up to logs that
  are started, stopped or added while the frame is on its way, and logs that are listed
  more than once; of received frames only those with an id other than 0 and a payload
  are logged.
* `RequestsAreReadable`: of uploads only that they are sent.
* `AnsweredByOwnReply`: for one client thread, as long as every command was waited
  for and none in vain (`astray` is set otherwise). A reply that comes after the
  second that `wait_for_ack()` gives it is taken for the reply to the next command.
* `CollectsPrefix`, `CompleteAtTheEnd`: up to the other thread's single frame, which
  is a message of its own when it comes before the first frame.
* `SettingsArrive`: perhaps without the address, when the name is empty or has more than
  15 characters (`settings_address` shows it).
* `LoopSeesEveryEvent`: for a loop that no other loop over the same log has met.
* `ClearDoesNotWaitInVain`: until a `get()` or a `put()` has raised, and for a `clear()`
  that no other `get()` has met.
* `LinesRepeatTheCalls`: until another object of the same class, or of one with the same
  name in lower case, is made.
* `FindsAllInTime`: "in time" is less than two timeouts late.
* `EveryCombinationOnce`: for parameters that have values and are added once, and more
  than one combination; up to the last one.

### Fairness

`Fairness` (of `ConnectionProcess`) is weak fairness for each thread: an operating system lets a thread
that can run go on. It also lets a device whose connection is up connect back
and read its commands; it says nothing of the device sending anything, and
nothing of a client issuing commands or emptying queues, except that a thread in
`join()` goes on when the process has ended, or raises when it never was started
(`ObjectFairSpec`). In `UdsSession` a
wait for a response ends, as `receive_message()` has a timeout. In
`EthernetStream` the reader goes on while there are bytes or the connection is
closed. No strong fairness is used.

## Deviations between code and documentation

A violation run each shows that

* messages are truncated (`stream_split`, process 158-163) and a close is not noticed
  (`process_fin`, 151);
* `reset()` waits for ever for a process with full pipes (`client_join`,
  `canbadger.py:103`);
* the counter of consecutive frames is wrong from the 15th on (`isotp_long`,
  `iso_tp_message.py:158`);
* a search that has returned all combinations goes on with the second, and its progress
  goes past 1 (`search_exhausted`, `bruteforce_strategy.py:45`);
* whether the settings carry the address depends on the length of the name
  (`settings_address`, `can_settings.py:115`).

More of what the models contain contradicts a document or a comment, but shows in one
step or follows from one line, so that no run is spent on it:

* `send_canframe()` returns True for a NACK and False for an ACK (`canbadger.py:157`,
  `ValueFor`), against ":return: True on success, False otherwise" (`interface.py:26`);
* a tester present slips into a request (`uds/session.py:54-55`, `TpSends`), against
  "disable tester present while request is active" (98); `FewTpDuringRequest` says that it
  is one per thread;
* `request_download()` raises TypeError for all arguments (`uds/session.py:167`, `Raises`),
  against "send request and interpret answer" (171);
* `disable_log()` enables (`interface.py:85`, `DisableLog`), against "False means it's
  disabled" (63);
* a search with a single combination raises and never returns it
  (`bruteforce_strategy.py:43`, `MoveRaises`), against "chooses a suitable value combination
  and returns it" (`search.py:67`);
* `Search.reset_all()` "removes all assigned params" (`search.py:30`) from the `Search`
  only: the strategy keeps them (`ResetAll`);
* the size of a queue is wrong for good after a `get()` or a `put()` that raises
  (`cross_platform_hacks.py:50, 54`), against "reliable" (39); the theorem `SizeCorrect`
  says by how much;
* two instances of a class get one name in a trace, so that its lines, run as code, call
  methods of the wrong one (`trace_decorator.py:89`, `InstanceName`), against "you can copy
  and paste it to reproduce whatever happened in this trace" (105); `LinesRepeatTheCalls`
  says that this is the only way.

And there is what no document of the repository speaks of:

* a late response answers the next request (`uds/session.py:110`), and a late
  acknowledge the next command (`canbadger.py:195`);
* `add_log()` makes the next frame raise, or come twice, and a received frame with id 0
  or without a payload is not logged (`interface.py:79, 112`);
* `reset()` raises on Linux before a connection; `get_connection_status()` returns None
  for a new status; data looks like a tester present error; two tester present threads run after `stop_tp()` and `start()`;
* the events of a log read from JSON come back as strings, and
  `FrameEvent.from_dict()` raises for every event (`LogFile`);
* the byte for both lengths of an upload loses that of the address
  (`uds/session.py:142`, `UdsEncoding`);
* `receive_canframe()` waits one timeout for each message it passes over, and
  discovery up to two timeouts longer than `wait_time`.

## Proofs

`Helpers_proofs`, about `EthernetStream`, for every header size, every set of data
lengths, every `recv()` limit and any number of messages:

* `TypeCorrect`, `DamageCorrect`. The inductive invariant `FramingInv` says that
  messages lie one behind the other (`Layout`), and that, as long as nothing is
  damaged, `pos` is the start of the next message to be taken (`InStep`).
  `DamageStartsWithTruncation` alone is not inductive: it does not know where
  `pos` is. `StartsDiffer` says that a message is known by its start.
* `ChannelImplemented`: every step is a step of `MessageChannel` or a stutter.
  `ChannelInv` adds that with `WholeSegments` the bytes received end at a message
  boundary.
* `WholeMessages`: assuming `WholeSegments`, no message is truncated. This is the
  condition under which the finding of `stream_split` disappears.

`CANBadger_proofs`, first about `ConnectionProcess`, for all windows, pipes, failures and
bounds:

* `TypeCorrect`: types, with only replies in the ack queue and only data in the
  other.
* `LifecycleRefined`: every step is a step of `ConnectionLifecycle` or a stutter.
  `LifecycleInv` ties the place of the main thread to the status and to the
  reader: no reader before a connection, none running after the Shutdown, a
  RESET that was forwarded has set the event and is the last command. Without
  these, the step of the reader that hands over a message could not be mapped.

* `RepliesInOrder` (the property `AcksInOrder`): `CommandsInv` says that the
  numbers of the commands grow, from those the device has read to the end of the queue;
  `RepliesInv` that those of the replies do, from the client's queue back to the
  device, as one sequence (`OnTheWay`), and that each is to a command that was read.
  `MessagesMove` is the step: messages move on or drop out, the device reads a
  command, or one message is put at the end.

Then about the client object, for any number of commands and restarts. `ObjectSteps` says
that every step of the object is a step of the process, a use of a queue by the
client, or a new process over the old queues; each invariant is shown for these.

* `CommandsCorrect`, for any threads, platforms and failures.
* `StatusCorrect`: where the process is joined, for one client thread.
  `SignalsInv` says that the status the object knows and the signals in the queue
  are consecutive states of the life cycle, up to that of the process; `JoinInv`
  that `reset()` joins its own process, and only one it knows to have connected.
* `AnswersCorrect`: for one client thread. As long as nothing is astray, only the
  reply to the one command that is `Unanswered` is anywhere on its way.
* `FreshCorrect`: for one client thread, on Linux, without failures and without a
  RESET sent by hand. `FreshInv` says that in a `reset()` the RESET is the last
  command, so that the one element it takes out of the queue is all there is.

`UdsSession_proofs`, for any number of requests and threads: `TypeCorrect`;
`NotMutedCorrect`; `OneTpCorrect`, with `JoinsAThread` (who is in `stop_tp()` waits for
a thread that was running); `FewTpCorrect`, with `MutedDuringRequest` and `Senders`
(while the session waits it is muted, and only threads that looked before the mute
may still send); `OwnResponseCorrect`, with `OnlyOwnOnTheWay` (as long as all
requests were answered once and in time, a response on its way is to the request
being waited for).

`LoggedInterface_proofs`, for any sets of threads and logs and any number of
frames: `OnceCorrect`, `SteadyCorrect`, `LossCorrect`, `QuietCorrect`. The four
properties are about a frame's way through the loop over a list that changes
meanwhile, and none is inductive: `LogsInv` adds what a call knows of the list at
its place (`CallsInv`), how the list and the dictionary of statuses belong together
between the two halves of `stop_log()` (`StatusInv`), that after `disable_all()` no
log in the list is on (`QuietInv`), and which logs lie before the place of a loop
(`PlacesInv`).

`Helpers_proofs`, about the parts that work on their own:

* `SizeCorrect` (the size is the number of elements, but for calls on their way and calls
  that have raised) and `ClearCorrect`, for any finite set of users of a queue, with
  `FoundOne` (a `clear()` that has met nobody is the only one that takes elements, so
  the one its test found is still there).
* `DiscoveryCorrect`, for every `wait_time` and timeout, with `TimeIsKnown` and
  `AllFound`; `ReceptionCorrect`, for every timeout, filter and traffic, with
  `WaitedPerMessage`.
* `TraceCorrect`, for any objects and classes, whatever names they have. The lines are made by a fold over the
  recorded calls: what it does is proved by induction over its turns (`TraceInv`).
* `EveryCombinationCorrect`, for all parameters that their
  constructors accept and any number of calls. The k-th combination has the digits of k,
  each to the base of its parameter, and `move_indices()` is the addition of one with its
  carry (`CarryEnds`, `CarryGoesOn`). `SearchInv` says that the indices are those of the
  number that the length of the history gives (`Rank`, `InOrder`). As in the properties
  no parameter is there twice and each has a value (`Usable`).
* `LoopCorrect`, for any number of loops over a log one after the other, of events and
  of turns.
* `SettingsCorrect`, for names and addresses of every length, any sets of speeds and
  bits, and a message cut off anywhere: `deserialize()` is taken field by field, and at
  each the message has the length up to there or is refused.

`IsoTpMessage_proofs` has the lemmas about the operators: what bytes each frame of a
payload has, whatever its length, and what feeding one adds to a message. The two
other modules use them.

`IsoTpLoopback_proofs`, for `format()` and `feed()` back to back, with frames lost and
another thread's in between:

* `CompleteCorrect`, for payloads of every length.
* `PrefixCorrect`, for payloads of up to 111 bytes, which is as far as the property
  holds: with 112 there are 16 consecutive frames, and as the counter on the wire comes
  round after 15 a loss of 15 in a row goes unnoticed.
* `RoundTripCorrect`, for payloads of up to 104 bytes, 14 consecutive frames: the 15th
  has the counter 0 and is refused, which `isotp_long` shows.

The invariant says of a message that is being collected that it has the first bytes of the
payload, up to the frame whose number is the counter it expects.

* `RequestsCorrect`, for all UDS calls but uploads and downloads, with arguments of any size,
  and bytes of any number of values; of uploads, that they are sent: `RequestInv` adds to
  that invariant that the payload is the encoded request. The
  lemmas say that `to_bytes()` of a number below the power that `calc_byte_size()` finds,
  read digit by digit, gives the number again (`ValueOfNumber`), and that what is read from
  the bytes of a request are its arguments (`EncodedIsRead`).

`Naturals_proofs` has what several of these proofs need of numbers. The induction theorems of
the library take an operator as a parameter, which the provers cannot instantiate; in it
induction is stated about a set instead (`SetInduction`, from the well-foundedness of <), and
with it that functions defined by recursion exist and have the values that define them
(`Recursion`). Folds are unfolded in the same way (`SetFold` in `Helpers_proofs`).

`IsoTpHandler_proofs`, for messages of every length, any number of messages, of calls and
of strays, and any faults:

* `OrderCorrect`. `Inv` sees the queue as the frames of the ECU, each known by its message
  and its number in it, in the order in which they were sent (`Ordered`); what may still
  be returned is later than what has been (`TakenOK`).
* `WholeCorrect`. `ReceivedInOrder` and the types say nothing of frames that are not
  there, so `Chain` adds where they can be: without a loss a frame that was sent and is not
  in the queue lies before all that is there and before what the call expects. `Story`
  then compares what the call has collected with its message, also one that the ECU has
  finished meanwhile. The ECU keeps the length of its last message only, so the invariant
  is that lengths exist for which the queue, the ECU and the call agree. Where frames were
  lost but flow control is in time, a message with a gap is `Broken`: it collects to its
  end without ever being complete, as `InTime` says that no frames of another one follow.
* `NoErrorCorrect`, for messages of up to 111 bytes, 15 consecutive frames: the message
  does not reduce its counter modulo 16, as the ECU does, so that with 112 bytes the 16th
  frame is an error without a fault.

The assumptions are the ASSUMEs on the constants, the conditions in the properties
(above) and the ASSUME of the theorem for three theorems about the client object (one
thread; Linux and no failures for `FreshCorrect`) and for the lengths of ISO-TP payloads
just named. Of the ASSUMEs, `ParamsAssumption` says what the constructors of the search
parameters accept (a choice of integers, a range with a step and different ends; the number
of steps is an `int()` of a float, exact below 2^53), and `RequestsAssumption` that the
arguments of UDS calls are naturals. The runs use the same conditions or weaker ones.

Only model-checked:

* liveness (`DrainsAfterClose`, `AbortStopsReader`, `AbortEndsCommandLoop`,
  `ResetEndsProcess`, `KeepsAlive`, `StoppedForGood`), which is out
  of the proof system's reach: it needs fairness and with it ENABLED.

Every invariant and every safety property of the passing runs is stated by a theorem.

## Not modelled

* `connect()` in two steps (`canbadger.py:78`): the test and the `get()` are one step,
  which is right for one client thread; with another thread that takes signals the
  wait follows from the code, and no document says that other threads may call
  meanwhile. A second `connect()` (`:77`) raises and changes nothing.
* Between the release of the lock and the abort event after a RESET
  (`canbadger_connection_process.py:187, 189`) the reader thread may take one turn more;
  the two are one step.
* A killed process (`ResetKills`) that holds the read lock of a queue, which would leave
  it locked for good.
* Frames too short for the tester present filter (`iso_tp_handler.py:96`): the
  modelled ECU pads its frames, and no document says what a short one should do.
* `serialize()` of messages and the bytes that `configure()`, `set_gpio()` and
  `start_replay()` put in them: fixed layouts without a reader in this repository
  (but for the settings, which are modelled).
* Registering ISO-TP messages by class and `reset()` of a message: assignments.
* Methods without a body, the plain data modules (frames, exceptions, constants)
  and the command line script, which is a list of calls for a device at hand.
* Printing, formatting and sleeping: no property is about them. Time passes in
  `Discovery` and `FrameReception` only, elsewhere a timeout may happen at any time
  that it may be due.

The remaining parts are modelled, and what can be proved of them is proved, apart
from these lists. A natural next step is `connect()` with two client threads, once
the project says which calls may be made from which thread.
