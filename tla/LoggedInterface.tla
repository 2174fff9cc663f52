-------------------------- MODULE LoggedInterface ---------------------------
(***************************************************************************)
(* A LoggedInterface: frames that pass through it are written to its logs. *)
(* The thread of its user starts, stops, enables and disables logs, and    *)
(* sends and receives; the tester present thread of a session sends at any *)
(* time.  Nothing is locked, so a loop over the list of logs meets the     *)
(* changes to it.  A receive that times out is not logged and not modelled.*)
(***************************************************************************)
EXTENDS Naturals, Sequences, FiniteSets, SequencesExt

CONSTANTS
  Threads,   \* threads that send and receive
  User,      \* the one that also looks after the logs
  Logs,      \* the Log objects
  MaxListed, \* bound: length of the list of logs
  MaxFrames  \* bound: frames sent and received

ASSUME UserAssumption   == User \in Threads
ASSUME FramesAssumption == MaxListed \in Nat /\ MaxFrames \in Nat

VARIABLES
  logs,               \* self.logs
  log_to_status_map,  \* log -> On or Off, or Unmapped: not in the map
  events,             \* log -> its events
  call,               \* thread -> the call it is in
  frames,             \* frames that have come by
  made,               \* the Log objects there are
  added,              \* history: logs that add_log() has listed without a status, or
                      \* stop_log() has left listed so, and no call has given one since
  quiet               \* history: nothing has been enabled since disable_all()

interfaceVars == <<logs, log_to_status_map, events, call, frames, made, added, quiet>>

On       == "on"
Off      == "off"
Unmapped == "unmapped"
NoLog    == "no log"

\* "loop", "status" and "log" are in send_frame() and receive_frame().
CallPlaces == {"idle", "loop", "status", "log", "starting", "stopping", "disabling"}

\* An event: which frame, and which thread it came through.
Event == [frame : 1..MaxFrames, by : Threads]

\* at: the index of a loop over the logs; log: the log the call is about.
\* History: steady: the logs that have been on since the call began; met: the
\* changes it has met; doubled: the logs that have been in the list more than once
\* meanwhile; quiet: none has been on since it began.
Calls == [place : CallPlaces, frame : 0..MaxFrames, at : 1..(MaxListed + 1),
          log : Logs \cup {NoLog}, steady : SUBSET Logs,
          met : SUBSET {"start", "stop", "add"}, doubled : SUBSET Logs, quiet : BOOLEAN]

NoCall == [place |-> "idle", frame |-> 0, at |-> 1, log |-> NoLog, steady |-> {},
           met |-> {}, doubled |-> {}, quiet |-> FALSE]

TypeOK ==
  /\ logs \in Seq(Logs) /\ Len(logs) <= MaxListed
  /\ log_to_status_map \in [Logs -> {On, Off, Unmapped}]
  /\ events \in [Logs -> Seq(Event)]
  /\ call \in [Threads -> Calls]
  /\ frames \in 0..MaxFrames
  /\ ToSet(logs) \cup added \subseteq made /\ made \subseteq Logs
  /\ quiet \in BOOLEAN

InterfaceInit ==
  /\ logs = <<>>
  /\ log_to_status_map = [l \in Logs |-> Unmapped]
  /\ events = [l \in Logs |-> <<>>]
  /\ call = [t \in Threads |-> NoCall]
  /\ frames = 0
  /\ made = {} /\ added = {}
  /\ quiet = FALSE

-----------------------------------------------------------------------------
(* send_frame() and receive_frame() *)

Listed(l) == l \in ToSet(logs)

SwitchedOn == {l \in ToSet(logs) : log_to_status_map[l] = On}

\* Logs that are in the list more than once: add_log() does not look.
Doubled(list) == {l \in Logs : \E i, j \in DOMAIN list :
                                 i < j /\ list[i] = l /\ list[j] = l}

\* What the user is changing.
Changing == CASE call[User].place = "starting" -> {"start"}
              [] call[User].place = "stopping" -> {"stop"}
              [] OTHER                         -> {}

\* Mutant of Following: every second log is left out.
SecondNext(i) == i + 2

Following(i) == i + 1

AtLoop(t) == call[t].place = "loop"
InList(t) == call[t].at \in DOMAIN logs

\* A frame is to be sent, or has been received with an id other than 0 and a payload.
FrameBegins(t) ==
  /\ call[t].place = "idle"
  /\ frames < MaxFrames
  /\ frames' = frames + 1
  /\ call' = [call EXCEPT ![t] =
       [place |-> "loop", frame |-> frames', at |-> 1, log |-> NoLog,
        steady |-> SwitchedOn, met |-> Changing, doubled |-> Doubled(logs),
        quiet |-> quiet]]
  /\ UNCHANGED <<logs, log_to_status_map, events, made, added, quiet>>

\* A frame with id 0 or without a payload has been received, which is not logged.
FrameIsPassedOn(t) ==
  /\ call[t].place = "idle"
  /\ frames < MaxFrames
  /\ frames' = frames + 1
  /\ UNCHANGED <<logs, log_to_status_map, events, call, made, added, quiet>>

\* One turn of the loop, over the list as it is now.
LoopTurn(t) ==
  /\ AtLoop(t) /\ InList(t)
  /\ call' = [call EXCEPT ![t].place = "status", ![t].log = logs[call[t].at],
                          ![t].at = Following(@)]
  /\ UNCHANGED <<logs, log_to_status_map, events, frames, made, added, quiet>>

\* The frame is sent, or returned to the caller.
FrameDone(t) ==
  /\ AtLoop(t) /\ ~InList(t)
  /\ call' = [call EXCEPT ![t] = NoCall]
  /\ UNCHANGED <<logs, log_to_status_map, events, frames, made, added, quiet>>

StatusOf(t) == log_to_status_map[call[t].log]

StatusLookedUp(t) ==
  /\ call[t].place = "status"
  /\ StatusOf(t) # Unmapped
  /\ call' = [call EXCEPT ![t].place = IF StatusOf(t) = On THEN "log" ELSE "loop"]
  /\ UNCHANGED <<logs, log_to_status_map, events, frames, made, added, quiet>>

\* KeyError: the frame is not sent, or what has been received is lost.
StatusMissing(t) ==
  /\ call[t].place = "status"
  /\ StatusOf(t) = Unmapped
  /\ call' = [call EXCEPT ![t] = NoCall]
  /\ UNCHANGED <<logs, log_to_status_map, events, frames, made, added, quiet>>

EventIsLogged(t) ==
  /\ call[t].place = "log"
  /\ events' = [events EXCEPT ![call[t].log] =
                  Append(@, [frame |-> call[t].frame, by |-> t])]
  /\ call' = [call EXCEPT ![t].place = "loop"]
  /\ UNCHANGED <<logs, log_to_status_map, frames, made, added, quiet>>

FrameStep(t) == \/ FrameBegins(t) \/ FrameIsPassedOn(t)
                \/ LoopTurn(t) \/ FrameDone(t) \/ StatusLookedUp(t)
                \/ StatusMissing(t) \/ EventIsLogged(t)

-----------------------------------------------------------------------------
(* The user's calls *)

UserIdle == call[User].place = "idle"

\* Histories: all calls meet a change of the user's, who is in `mine' after it.
Meeting(change, mine) ==
  [t \in Threads |-> IF t = User THEN mine
                     ELSE IF call[t] = NoCall THEN NoCall
                     ELSE [call[t] EXCEPT !.met = @ \cup {change}]]

\* Mutant of Listing: a new log comes first.
ListedFirst(l) == <<l>> \o logs

Listing(l) == Append(logs, l)

\* start_log(), up to the line that gives the new log its status.
StartLists(l) ==
  /\ UserIdle
  /\ l \notin made
  /\ Len(logs) < MaxListed
  /\ made' = made \cup {l}
  /\ logs' = Listing(l)
  /\ call' = Meeting("start", [NoCall EXCEPT !.place = "starting", !.log = l])
  /\ UNCHANGED <<log_to_status_map, events, frames, added, quiet>>

\* The status of l becomes True; the logs are not quiet any more, for nobody.
SwitchesOn(l) ==
  /\ log_to_status_map' = [log_to_status_map EXCEPT ![l] = On]
  /\ added' = added \ {l}
  /\ quiet' = FALSE

Disturbed(calls) == [t \in Threads |-> [calls[t] EXCEPT !.quiet = FALSE]]

StartEnables ==
  /\ call[User].place = "starting"
  /\ SwitchesOn(call[User].log)
  /\ call' = Disturbed([call EXCEPT ![User] = NoCall])
  /\ UNCHANGED <<logs, events, frames, made>>

\* History: the logs listed more than once, for the frames on their way.
Doubling(calls, twice) ==
  [t \in Threads |-> [calls[t] EXCEPT !.doubled =
                        IF calls[t].frame # 0 THEN @ \cup twice ELSE @]]

\* add_log() gives the log no status, one that has been enabled before is on; and
\* it does not ask whether the list has the log.
AddLog(l) ==
  /\ UserIdle
  /\ Len(logs) < MaxListed
  /\ made' = made \cup {l}
  /\ logs' = Append(logs, l)
  /\ added' = IF log_to_status_map[l] = Unmapped THEN added \cup {l} ELSE added
  /\ quiet' = (quiet /\ log_to_status_map[l] # On)
  /\ call' = LET met == Doubling(Meeting("add", NoCall), Doubled(logs'))
             IN  IF log_to_status_map[l] = On THEN Disturbed(met) ELSE met
  /\ UNCHANGED <<log_to_status_map, events, frames>>

EnableLog(l) ==
  /\ UserIdle
  /\ l \in made
  /\ SwitchesOn(l)
  /\ call' = Disturbed(call)
  /\ UNCHANGED <<logs, events, frames, made>>

\* disable_log() stores True.
DisableLog(l) == EnableLog(l)

DisableBegins ==
  /\ UserIdle
  /\ call' = [call EXCEPT ![User].place = "disabling"]
  /\ UNCHANGED <<logs, log_to_status_map, events, frames, made, added, quiet>>

\* Mutants of DisabledStatus: disable_all() removes the status, or leaves it on.
RemovedStatus == Unmapped
LeftOn        == On

DisabledStatus == Off

Unsteady(calls, l) == [t \in Threads |-> [calls[t] EXCEPT !.steady = @ \ {l}]]

DisableTurn ==
  /\ call[User].place = "disabling" /\ InList(User)
  /\ LET l == logs[call[User].at]
     IN  /\ log_to_status_map' = [log_to_status_map EXCEPT ![l] = DisabledStatus]
         /\ added' = added \ {l}
         /\ call' = Unsteady([call EXCEPT ![User].at = @ + 1], l)
  /\ UNCHANGED <<logs, events, frames, made, quiet>>

DisableEnds ==
  /\ call[User].place = "disabling" /\ ~InList(User)
  /\ call' = [call EXCEPT ![User] = NoCall]
  /\ quiet' = TRUE
  /\ UNCHANGED <<logs, log_to_status_map, events, frames, made, added>>

\* stop_log(), by the log or by its name.  An empty log is false, so it can only
\* be stopped by its name, which is looked up in the list.  Without a status, or
\* without a log to stop, it raises and changes nothing.
StopUnmaps(l) ==
  /\ UserIdle
  /\ events[l] # <<>> \/ Listed(l)
  /\ log_to_status_map[l] # Unmapped
  /\ log_to_status_map' = [log_to_status_map EXCEPT ![l] = Unmapped]
  /\ call' = Unsteady(Meeting("stop", [NoCall EXCEPT !.place = "stopping", !.log = l]), l)
  /\ UNCHANGED <<logs, events, frames, made, added, quiet>>

\* A ValueError, if it is not in the list.  A log that was in it more than once is
\* still there, and has no status.
StopUnlists ==
  /\ call[User].place = "stopping"
  /\ logs' = RemoveFirst(logs, call[User].log)
  /\ added' = IF call[User].log \in ToSet(logs') THEN added \cup {call[User].log}
                                                ELSE added
  /\ call' = Meeting("stop", NoCall)
  /\ UNCHANGED <<log_to_status_map, events, frames, made, quiet>>

UserStep ==
  \/ \E l \in Logs : \/ StartLists(l) \/ AddLog(l)
                     \/ EnableLog(l) \/ DisableLog(l) \/ StopUnmaps(l)
  \/ StartEnables \/ StopUnlists
  \/ DisableBegins \/ DisableTurn \/ DisableEnds

InterfaceNext == (\E t \in Threads : FrameStep(t)) \/ UserStep

InterfaceSpec == InterfaceInit /\ [][InterfaceNext]_interfaceVars

-----------------------------------------------------------------------------
(* Properties *)

Took(l, frame) == \E i \in DOMAIN events[l] : events[l][i].frame = frame

\* A frame does not go to a log twice, whatever logs the loop has met the start and
\* stop of; unless the log was in the list more than once while the loop went on, or
\* was stopped and added again, when the loop finds it again at the end of the list.
OncePerLog ==
  \A t \in Threads :
    call[t].place = "log" /\ Took(call[t].log, call[t].frame) =>
      {"stop", "add"} \subseteq call[t].met \/ call[t].log \in call[t].doubled

\* A log that has been on for the whole of send_frame() has the frame, and so it is
\* with receive_frame() if the frame has an id other than 0 and a payload; unless
\* stop_log() has met the call: the loop then may have left it out, as the logs after
\* the stopped one have moved up.  Starting or adding a log does no harm.
SteadyLogsGetTheFrame ==
  \A t \in Threads :
    AtLoop(t) /\ ~InList(t) /\ "stop" \notin call[t].met =>
      \A l \in call[t].steady : Took(l, call[t].frame)

\* A frame is lost to a KeyError of the logging only if start_log() or stop_log() was
\* on its way while the call was, each of which leaves the log without a status for a
\* moment; or if the log was added by add_log() and not enabled, or was in the list
\* more than once when stop_log() removed its status and one of its places.
FramesAreLostToChangesOnly ==
  \A t \in Threads :
    call[t].place = "status" /\ StatusOf(t) = Unmapped =>
      call[t].met \cap {"start", "stop"} # {} \/ call[t].log \in added

\* No log takes a frame that came after disable_all(), until one is started, enabled,
\* "disabled" by disable_log(), or added when it has been on; nor while that frame is
\* on its way, whoever is in which loop.
QuietAfterDisableAll ==
  \A t \in Threads : call[t].quiet => \A l \in Logs : ~Took(l, call[t].frame)
=============================================================================
