----------------------------- MODULE UdsSession -----------------------------
(***************************************************************************)
(* A UDS session: the thread of its user, who makes one request at a time, *)
(* and the tester present threads it starts.  They share two events and    *)
(* the interface.  Messages are whole; their frames are the subject of     *)
(* IsoTpHandler, their acknowledges of CANBadger.                          *)
(***************************************************************************)
EXTENDS Naturals, Sequences, FiniteSets

CONSTANTS
  MaxRequests,  \* bound: requests
  MaxThreads    \* bound: tester present threads

ASSUME SessionAssumption == MaxRequests \in Nat /\ MaxThreads \in Nat

VARIABLES
  status,     \* self.status
  halt, mute, \* the events halt_tp and mute_tp
  tpThread,   \* self.tp_thread: a number in Threads, or None
  forgotten,  \* history: the threads that stop_tp() has not waited for
  tp,         \* where each tester present thread is
  userCall,   \* the user's call
  requests,   \* requests on their way to the ECU
  responses,  \* responses nobody has taken yet
  lastId,     \* number of the last request
  tpDuring,   \* tester presents sent during the last request
  result      \* what the last call has come to; history: astray, a response may be
              \* on its way that nobody waits for

sessionVars == <<status, halt, mute, tpThread, forgotten, tp, userCall, requests,
                 responses, lastId, tpDuring, result>>

Threads  == 1..MaxThreads
None     == 0
TpStates == {"unborn", "halted?", "muted?", "send", "sleep", "done"}

\* "plain" stands for request_upload, transfer_data, request_data_by_id and a
\* request() of the user's own, "seed" and "key" for the two requests of
\* security_access.
Ops   == {"start", "plain", "seed", "key"}

\* "sending" and "waiting" are inside request(), "callback" is between the two
\* requests of security_access and "joining" in start_tp().
Stages == {"idle", "sending", "waiting", "callback", "joining"}
InRequest == {"sending", "waiting"}

\* A response is positive or negative; it says which service it is for.
Response == [id : Nat, op : Ops, positive : BOOLEAN]
NoResponse == [id |-> 0, op |-> "plain", positive |-> FALSE]
NoUserCall == [stage |-> "idle", op |-> "plain", wait |-> FALSE]

Service(op) == IF op = "key" THEN "seed" ELSE op

SessionTypeOK ==
  /\ status \in {"Setup", "Declined", "Idle", "Failed"}
  /\ halt \in BOOLEAN /\ mute \in BOOLEAN
  /\ tpThread \in Threads \cup {None}
  /\ tp \in [Threads -> TpStates]
  /\ tpThread # None => tp[tpThread] # "unborn"
  /\ forgotten \subseteq Threads
  /\ userCall \in [stage : Stages, op : Ops, wait : BOOLEAN]
  /\ requests \in Seq([id : Nat, op : Ops]) /\ responses \in Seq(Response)
  /\ lastId \in 0..MaxRequests
  /\ tpDuring \in Nat
  /\ result \in [id : Nat, success : BOOLEAN, of : Nat, raised : BOOLEAN, astray : BOOLEAN]

SessionInit ==
  /\ status = "Setup" /\ halt = FALSE /\ mute = FALSE
  /\ tpThread = None /\ tp = [t \in Threads |-> "unborn"]
  /\ userCall = NoUserCall /\ requests = <<>> /\ responses = <<>> /\ lastId = 0
  /\ tpDuring = 0 /\ forgotten = {}
  /\ result = [id |-> 0, success |-> FALSE, of |-> 0, raised |-> FALSE, astray |-> FALSE]

-----------------------------------------------------------------------------
(* The tester present threads. *)

TpMoves(t, from, to) == tp[t] = from /\ tp' = [tp EXCEPT ![t] = to]

\* Mutants of HaltSeen and MuteSeen: the thread gets its two events the wrong
\* way round.
MuteForHalt == mute
HaltForMute == halt

HaltSeen == halt
MuteSeen == mute

TpChecksHalt(t) ==
  /\ TpMoves(t, "halted?", IF HaltSeen THEN "done" ELSE "muted?")
  /\ UNCHANGED <<status, halt, mute, tpThread, forgotten, userCall, requests,
                 responses, lastId, tpDuring, result>>

TpChecksMute(t) ==
  /\ TpMoves(t, "muted?", IF MuteSeen THEN "sleep" ELSE "send")
  /\ UNCHANGED <<status, halt, mute, tpThread, forgotten, userCall, requests,
                 responses, lastId, tpDuring, result>>

TpSends(t) ==
  /\ TpMoves(t, "send", "sleep")
  /\ tpDuring' = IF userCall.stage \in InRequest THEN tpDuring + 1 ELSE tpDuring
  /\ UNCHANGED <<status, halt, mute, tpThread, forgotten, userCall, requests,
                 responses, lastId, result>>

TpWakes(t) ==
  /\ TpMoves(t, "sleep", "halted?")
  /\ UNCHANGED <<status, halt, mute, tpThread, forgotten, userCall, requests,
                 responses, lastId, tpDuring, result>>

TpStep(t) == TpChecksHalt(t) \/ TpChecksMute(t) \/ TpSends(t) \/ TpWakes(t)

Running == {t \in Threads : tp[t] \notin {"unborn", "done"}}

-----------------------------------------------------------------------------
(* request(), and what its callers make of the response. *)

\* Muting comes first.
Begin(op, wait) ==
  /\ lastId < MaxRequests
  /\ lastId' = lastId + 1
  /\ mute' = TRUE
  /\ tpDuring' = 0
  /\ userCall' = [stage |-> "sending", op |-> op, wait |-> wait]

Request(op, wait) ==
  /\ userCall.stage = "idle"
  /\ op \in {"start", "seed"} => wait
  /\ Begin(op, wait)
  /\ UNCHANGED <<status, halt, tpThread, forgotten, tp, requests, responses, result>>

SendRequest ==
  /\ userCall.stage = "sending"
  /\ requests' = Append(requests, [id |-> lastId, op |-> Service(userCall.op)])
  /\ userCall' = [userCall EXCEPT !.stage = "waiting"]
  /\ UNCHANGED <<status, halt, mute, tpThread, forgotten, tp, responses, lastId,
                 tpDuring, result>>

\* Mutant of UnmuteAfter: tester present stays muted after a request.
UnmuteNever(s) == mute

\* Tester present is reenabled only in an Idle session.
UnmuteAfter(s) == IF s = "Idle" THEN FALSE ELSE mute

Returns(success, of, raised, astray) ==
  result' = [id |-> lastId, success |-> success, of |-> of, raised |-> raised,
             astray |-> result.astray \/ astray]

Finish == userCall' = NoUserCall

\* A new tester present thread; thread numbers are never used again.
NewTp ==
  LET t == 1 + Cardinality({u \in Threads : tp[u] # "unborn"}) IN
  /\ t \in Threads
  /\ halt' = FALSE /\ mute' = FALSE
  /\ tpThread' = t
  /\ tp' = [tp EXCEPT ![t] = "halted?"]

\* start() with a positive response: start_tp() halts the thread it knows of
\* and waits for it, or starts a new one straight away.
Started ==
  /\ status' = "Idle"
  /\ IF tpThread = None
     THEN NewTp /\ Finish
     ELSE /\ halt' = TRUE /\ mute' = UnmuteAfter(status)
          /\ userCall' = [userCall EXCEPT !.stage = "joining"]
          /\ UNCHANGED <<tpThread, tp>>

NotStarted(newStatus) ==
  /\ status' = newStatus
  /\ mute' = UnmuteAfter(status)
  /\ Finish
  /\ UNCHANGED <<halt, tpThread, tp>>

\* Mutant of Untaken: a response is looked at and left where it is.
AllUntaken == responses

Untaken == Tail(responses)

Answered ==
  /\ userCall.stage = "waiting" /\ userCall.wait
  /\ responses # <<>>
  /\ responses' = Untaken
  /\ LET r       == Head(responses)
         matches == r.positive /\ r.op = Service(userCall.op)
     IN
     IF userCall.op = "seed" /\ matches
     THEN \* request() is over, the callback computes the key
          /\ mute' = UnmuteAfter(status)
          /\ userCall' = [userCall EXCEPT !.stage = "callback"]
          /\ UNCHANGED <<status, halt, tpThread, tp, result>>
     ELSE /\ Returns(matches, r.id, FALSE, FALSE)
          /\ CASE userCall.op = "start" /\ matches -> Started
               [] userCall.op = "start" /\ ~r.positive -> NotStarted("Declined")
               [] OTHER -> NotStarted(status)
  /\ UNCHANGED <<forgotten, requests, lastId, tpDuring>>

\* The second request of security_access.
RequestKey ==
  /\ userCall.stage = "callback"
  /\ Begin("key", TRUE)
  /\ UNCHANGED <<status, halt, tpThread, forgotten, tp, requests, responses, result>>

\* b'' after a timeout or an erroneous message, or no response wanted.
NotAnswered ==
  /\ userCall.stage = "waiting"
  /\ Returns(FALSE, 0, FALSE, TRUE)
  /\ NotStarted(IF userCall.op = "start" THEN "Failed" ELSE status)
  /\ UNCHANGED <<forgotten, requests, responses, lastId, tpDuring>>

\* An exception: the interface is no longer connected, the request is too long,
\* a frame is too short to be looked at, or the callback raises.
RequestRaises ==
  /\ userCall.stage \in InRequest \cup {"callback"}
  /\ Finish
  /\ Returns(FALSE, 0, TRUE, TRUE)
  /\ UNCHANGED <<status, halt, mute, tpThread, forgotten, tp, requests, responses,
                 lastId, tpDuring>>

\* Mutant of OldThreadEnded: start_tp() does not join the old thread.
OldThreadIgnored == TRUE

OldThreadEnded == tp[tpThread] = "done"

\* tp_thread.join() has returned: start_tp() goes on.
JoinedTp ==
  /\ userCall.stage = "joining"
  /\ OldThreadEnded
  /\ NewTp
  /\ Finish
  /\ UNCHANGED <<status, forgotten, requests, responses, lastId, tpDuring, result>>

\* stop_tp(): the thread is halted and forgotten, not waited for.
StopTp ==
  /\ userCall.stage = "idle"
  /\ tpThread # None
  /\ halt' = TRUE
  /\ tpThread' = None
  /\ forgotten' = forgotten \cup {tpThread}
  /\ UNCHANGED <<status, mute, tp, userCall, requests, responses, lastId, tpDuring,
                 result>>

UserStep ==
  \/ \E op \in {"start", "plain", "seed"}, wait \in BOOLEAN : Request(op, wait)
  \/ SendRequest \/ RequestKey \/ Answered \/ NotAnswered \/ RequestRaises \/ JoinedTp \/ StopTp

-----------------------------------------------------------------------------
(* The ECU, external to src/: it answers requests in order, in its own time, *)
(* or not at all.  A negative answer may announce that another one follows.  *)

EcuAnswers ==
  /\ requests # <<>>
  /\ \E positive \in BOOLEAN :
       responses' = Append(responses, [id |-> Head(requests).id,
                                       op |-> Head(requests).op,
                                       positive |-> positive])
  /\ requests' = Tail(requests)
  /\ UNCHANGED <<status, halt, mute, tpThread, forgotten, tp, userCall, lastId,
                 tpDuring, result>>

EcuIgnores ==
  /\ requests # <<>>
  /\ requests' = Tail(requests)
  /\ UNCHANGED <<status, halt, mute, tpThread, forgotten, tp, userCall, responses,
                 lastId, tpDuring, result>>

EcuAnswersPending ==
  /\ requests # <<>>
  /\ LET pending == [id |-> Head(requests).id, op |-> Head(requests).op,
                     positive |-> FALSE]
     IN
     /\ \A i \in DOMAIN responses : responses[i] # pending
     /\ responses' = Append(responses, pending)
  /\ result' = [result EXCEPT !.astray = TRUE]
  /\ UNCHANGED <<status, halt, mute, tpThread, forgotten, tp, userCall, requests,
                 lastId, tpDuring>>

SessionNext ==
  \/ UserStep
  \/ \E t \in Threads : TpStep(t)
  \/ EcuAnswers \/ EcuIgnores \/ EcuAnswersPending

SessionSpec == SessionInit /\ [][SessionNext]_sessionVars

\* Every thread runs on; a wait for a response or for a thread comes to an end.
SessionFairness ==
  /\ \A t \in Threads : WF_sessionVars(TpStep(t))
  /\ WF_sessionVars(SendRequest) /\ WF_sessionVars(NotAnswered) /\ WF_sessionVars(JoinedTp)

-----------------------------------------------------------------------------
(* Properties *)

(* "disable tester present while request is active" (uds/session.py:98): a *)
(* tester present thread looks at the event once a round, so it slips into  *)
(* a request once at most, and only threads that stop_tp() did not wait for *)
(* can be there beside the one of the session (lines 51-56, 97-117).        *)
FewTpDuringRequest == tpDuring <= 1 + Cardinality(forgotten)

(* "if there is still a thread running, stop it and start a new one"        *)
(* (uds/session.py:231): no tester present thread runs beside the one of    *)
(* the session, except those that stop_tp() did not wait for (line 243).    *)
OneTpThread == Running \subseteq {tpThread} \cup forgotten

(* "reenable tp" (uds/session.py:112): between requests tester present is   *)
(* not muted in an Idle session, unless the last request raised.            *)
NotMutedBetweenRequests ==
  userCall.stage = "idle" /\ status = "Idle" /\ ~result.raised => ~mute

(* A session that stays Idle keeps sending tester presents, whatever        *)
(* requests, stops, restarts and failures came before, unless its last      *)
(* request raised (uds/session.py:112-114, 129-130, 230-244).               *)
KeepsAlive ==
  <>[](userCall.stage = "idle" /\ status = "Idle" /\ tpThread # None /\ ~result.raised)
    => []<>(\E t \in Threads : tp[t] = "send")

(* Without the join() that start_tp() has, stop_tp() still ends every       *)
(* tester present thread, those of earlier sessions included, unless the    *)
(* session is started again (uds/session.py:85-88, 240-244).                *)
StoppedForGood == <>[](tpThread = None) => <>[](Running = {})

(* "sends uds request and optionally returns response" (uds/session.py:96): *)
(* a response that makes a call succeed is the response to its own request, *)
(* in security_access too, as long as every request before it was answered  *)
(* once and in time. A late or second answer is taken by the next request,  *)
(* whichever it was for (lines 106-117).                                    *)
OwnResponse == result.success /\ ~result.astray => result.of = result.id
=============================================================================
