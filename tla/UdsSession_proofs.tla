------------------------- MODULE UdsSession_proofs --------------------------
(***************************************************************************)
(* Proofs about a UDS session, for any number of requests and of tester    *)
(* present threads: whose response a request gets, which threads run, how  *)
(* many tester presents slip into a request, and when they are muted.      *)
(***************************************************************************)
EXTENDS UdsSession, FiniteSetTheorems, TLAPS

\* The threads that have looked at the mute event and are about to send.
Senders == {t \in Threads : tp[t] = "send"}

\* start_tp() waits for a thread only if it knows of one.
JoinsAThread == userCall.stage = "joining" => tpThread # None

\* During a request tester present is muted, and the threads that had not noticed still
\* count.
MutedDuringRequest ==
  /\ FewTpDuringRequest
  /\ userCall.stage \in InRequest =>
       mute /\ tpDuring + Cardinality(Senders) <= 1 + Cardinality(forgotten)

\* Unless something has gone astray, only the request that waits is on its way, or its
\* response.
OnlyOwnOnTheWay ==
  ~result.astray =>
    /\ Len(requests) + Len(responses) <= (IF userCall.stage = "waiting" THEN 1 ELSE 0)
    /\ \A i \in DOMAIN requests : requests[i].id = lastId
    /\ \A i \in DOMAIN responses : responses[i].id = lastId

-----------------------------------------------------------------------------
(* The steps, with their cases one beside the other. *)

\* Leaving request(): start() has a thread to wait for or not; other calls change neither
\* the threads nor the halt event.
Leaves ==
  \/ status' = "Idle" /\ tpThread = None /\ NewTp /\ Finish
  \/ /\ status' = "Idle" /\ tpThread # None /\ halt' = TRUE /\ mute' = UnmuteAfter(status)
     /\ userCall' = [userCall EXCEPT !.stage = "joining"]
     /\ UNCHANGED <<tpThread, tp>>
  \/ \E s \in {"Declined", "Failed", status} : NotStarted(s)

SeedAnswered ==
  /\ mute' = UnmuteAfter(status)
  /\ userCall' = [userCall EXCEPT !.stage = "callback"]
  /\ UNCHANGED <<status, halt, tpThread, tp, result>>

LEMMA AnsweredCases ==
  Answered =>
    /\ userCall.stage = "waiting" /\ responses # <<>> /\ responses' = Tail(responses)
    /\ UNCHANGED <<forgotten, requests, lastId, tpDuring>>
    /\ \/ SeedAnswered
       \/ Leaves /\ \E b \in BOOLEAN : Returns(b, Head(responses).id, FALSE, FALSE)
<1> SUFFICES ASSUME Answered
             PROVE  \/ SeedAnswered
                    \/ Leaves /\ \E b \in BOOLEAN : Returns(b, Head(responses).id, FALSE, FALSE)
  BY DEF Answered, Untaken
<1> DEFINE r       == Head(responses)
           matches == r.positive /\ r.op = Service(userCall.op)
<1>1. CASE userCall.op = "seed" /\ matches
  BY <1>1 DEF Answered, SeedAnswered
<1>2. CASE ~(userCall.op = "seed" /\ matches)
  <2>1. Returns(matches, r.id, FALSE, FALSE)
    BY <1>2 DEF Answered
  <2>2. Started \/ NotStarted("Declined") \/ NotStarted(status)
    BY <1>2 DEF Answered
  <2>3. Leaves
    BY <2>2 DEF Leaves, Started
  <2>4. \E b \in BOOLEAN : Returns(b, r.id, FALSE, FALSE)
    BY <2>1
  <2> QED BY <2>3, <2>4
<1> QED BY <1>1, <1>2

LEMMA NotAnsweredCases ==
  NotAnswered =>
    /\ userCall.stage = "waiting"
    /\ UNCHANGED <<forgotten, requests, responses, lastId, tpDuring>>
    /\ Returns(FALSE, 0, FALSE, TRUE)
    /\ Leaves
  BY DEF NotAnswered, Leaves

\* The other steps of the user and the ECU.
LEMMA NextCases ==
  ASSUME SessionNext
  PROVE  \/ \E op \in {"start", "plain", "seed"}, wait \in BOOLEAN : Request(op, wait)
         \/ SendRequest \/ RequestKey \/ Answered \/ NotAnswered \/ RequestRaises
         \/ JoinedTp \/ StopTp
         \/ \E t \in Threads : TpChecksHalt(t) \/ TpChecksMute(t) \/ TpSends(t) \/ TpWakes(t)
         \/ EcuAnswers \/ EcuIgnores \/ EcuAnswersPending
  BY DEF SessionNext, UserStep, TpStep

-----------------------------------------------------------------------------
(* Type correctness *)

\* What is left of a sequence.
LEMMA HeadAndTail ==
  ASSUME NEW S, NEW s \in Seq(S), s # <<>>
  PROVE  /\ Head(s) \in S /\ Head(s) = s[1] /\ Tail(s) \in Seq(S)
         /\ Len(s) \in Nat \ {0} /\ Len(Tail(s)) = Len(s) - 1
         /\ \A i \in DOMAIN Tail(s) : i + 1 \in DOMAIN s /\ Tail(s)[i] = s[i + 1]
  OBVIOUS

LEMMA NewTpType ==
  ASSUME SessionTypeOK, NewTp
  PROVE  /\ halt' \in BOOLEAN /\ mute' \in BOOLEAN /\ tpThread' \in Threads \cup {None}
         /\ tp' \in [Threads -> TpStates] /\ (tpThread' # None => tp'[tpThread'] # "unborn")
  BY DEF SessionTypeOK, NewTp, TpStates

LEMMA ReturnsType ==
  ASSUME SessionTypeOK, NEW success \in BOOLEAN, NEW of \in Nat, NEW raised \in BOOLEAN,
         NEW astray \in BOOLEAN, Returns(success, of, raised, astray)
  PROVE  result' \in [id : Nat, success : BOOLEAN, of : Nat, raised : BOOLEAN, astray : BOOLEAN]
<1>1. lastId \in Nat /\ (result.astray \/ astray) \in BOOLEAN
  BY SessionAssumption DEF SessionTypeOK
<1> QED BY <1>1 DEF Returns

LEMMA LeavesType ==
  ASSUME SessionTypeOK, Leaves
  PROVE  /\ status' \in {"Setup", "Declined", "Idle", "Failed"}
         /\ halt' \in BOOLEAN /\ mute' \in BOOLEAN /\ tpThread' \in Threads \cup {None}
         /\ tp' \in [Threads -> TpStates] /\ (tpThread' # None => tp'[tpThread'] # "unborn")
         /\ userCall' \in [stage : Stages, op : Ops, wait : BOOLEAN]
<1>1. NoUserCall \in [stage : Stages, op : Ops, wait : BOOLEAN]
  BY DEF NoUserCall, Stages, Ops
<1>2. CASE status' = "Idle" /\ tpThread = None /\ NewTp /\ Finish
  BY <1>1, <1>2, NewTpType DEF Finish
<1>3. CASE \E s \in {"Declined", "Failed", status} : NotStarted(s)
  BY <1>1, <1>3 DEF NotStarted, Finish, SessionTypeOK, UnmuteAfter
<1>4. CASE /\ status' = "Idle" /\ halt' = TRUE /\ mute' = UnmuteAfter(status)
           /\ userCall' = [userCall EXCEPT !.stage = "joining"]
           /\ UNCHANGED <<tpThread, tp>>
  BY <1>4 DEF SessionTypeOK, UnmuteAfter, Stages
<1> QED BY <1>2, <1>3, <1>4 DEF Leaves

LEMMA TypeStep == SessionTypeOK /\ SessionNext => SessionTypeOK'
<1> SUFFICES ASSUME SessionTypeOK, SessionNext PROVE SessionTypeOK'
  OBVIOUS
<1>0. NoUserCall \in [stage : Stages, op : Ops, wait : BOOLEAN]
  BY DEF NoUserCall, Stages, Ops
<1>1. ASSUME NEW op \in Ops, NEW wait \in BOOLEAN, Begin(op, wait),
             UNCHANGED <<status, halt, tpThread, forgotten, tp, requests, responses, result>>
      PROVE  SessionTypeOK'
  BY <1>1, SessionAssumption DEF Begin, SessionTypeOK, Stages
<1>2. ASSUME NEW op \in {"start", "plain", "seed"}, NEW wait \in BOOLEAN, Request(op, wait)
      PROVE  SessionTypeOK'
  BY <1>1, <1>2 DEF Request, Ops
<1>3. CASE RequestKey
  BY <1>1, <1>3 DEF RequestKey, Ops
<1>4. CASE SendRequest
  <2>1. [id |-> lastId, op |-> Service(userCall.op)] \in [id : Nat, op : Ops]
    BY SessionAssumption DEF SessionTypeOK, Service, Ops
  <2>2. requests' \in Seq([id : Nat, op : Ops])
    BY <1>4, <2>1 DEF SendRequest, SessionTypeOK
  <2> QED BY <1>4, <2>2 DEF SendRequest, SessionTypeOK, Stages
<1>5. CASE Answered
  <2>1. responses' \in Seq(Response) /\ Head(responses) \in Response
    <3>1. responses \in Seq(Response) /\ responses # <<>> /\ responses' = Tail(responses)
      BY AnsweredCases, <1>5 DEF SessionTypeOK
    <3> QED BY <3>1, HeadAndTail
  <2>2. CASE SeedAnswered
    BY AnsweredCases, <1>5, <2>1, <2>2 DEF SeedAnswered, SessionTypeOK, UnmuteAfter, Stages
  <2>3. ASSUME Leaves, NEW b \in BOOLEAN, Returns(b, Head(responses).id, FALSE, FALSE)
        PROVE  SessionTypeOK'
    <3>1. result' \in [id : Nat, success : BOOLEAN, of : Nat, raised : BOOLEAN, astray : BOOLEAN]
      BY <2>1, <2>3, ReturnsType DEF Response
    <3> QED BY AnsweredCases, <1>5, <2>1, <2>3, <3>1, LeavesType DEF SessionTypeOK
  <2> QED BY AnsweredCases, <1>5, <2>2, <2>3
<1>6. CASE NotAnswered
  <2>1. result' \in [id : Nat, success : BOOLEAN, of : Nat, raised : BOOLEAN, astray : BOOLEAN]
    BY NotAnsweredCases, <1>6, ReturnsType
  <2> QED BY NotAnsweredCases, <1>6, <2>1, LeavesType DEF SessionTypeOK
<1>7. CASE RequestRaises
  <2>1. result' \in [id : Nat, success : BOOLEAN, of : Nat, raised : BOOLEAN, astray : BOOLEAN]
    BY <1>7, ReturnsType DEF RequestRaises
  <2> QED BY <1>0, <1>7, <2>1 DEF RequestRaises, Finish, SessionTypeOK
<1>8. CASE JoinedTp
  BY <1>0, <1>8, NewTpType DEF JoinedTp, Finish, SessionTypeOK
<1>9. CASE StopTp
  BY <1>9 DEF StopTp, SessionTypeOK
<1>10. ASSUME NEW t \in Threads,
              TpChecksHalt(t) \/ TpChecksMute(t) \/ TpSends(t) \/ TpWakes(t)
       PROVE  SessionTypeOK'
  <2>1. tp' \in [Threads -> TpStates] /\ (tpThread # None => tp'[tpThread] # "unborn")
    BY <1>10 DEF TpChecksHalt, TpChecksMute, TpSends, TpWakes, TpMoves, SessionTypeOK, TpStates
  <2>2. tpDuring' \in Nat
    BY <1>10 DEF TpChecksHalt, TpChecksMute, TpSends, TpWakes, SessionTypeOK
  <2> QED BY <1>10, <2>1, <2>2 DEF TpChecksHalt, TpChecksMute, TpSends, TpWakes, SessionTypeOK
<1>11. CASE EcuAnswers \/ EcuIgnores \/ EcuAnswersPending
  <2>1. requests # <<>> /\ requests' \in Seq([id : Nat, op : Ops])
        /\ Head(requests) \in [id : Nat, op : Ops]
    <3>1. requests # <<>> /\ requests \in Seq([id : Nat, op : Ops])
          /\ requests' \in {requests, Tail(requests)}
      BY <1>11 DEF EcuAnswers, EcuIgnores, EcuAnswersPending, SessionTypeOK
    <3> QED BY <3>1, HeadAndTail
  <2>2. \A b \in BOOLEAN :
          [id |-> Head(requests).id, op |-> Head(requests).op, positive |-> b] \in Response
    BY <2>1 DEF Response
  <2>3. responses' \in Seq(Response)
    <3>1. responses \in Seq(Response)
      BY DEF SessionTypeOK
    <3>2. CASE EcuAnswers
      BY <2>2, <3>1, <3>2 DEF EcuAnswers
    <3>3. CASE EcuIgnores
      BY <3>1, <3>3 DEF EcuIgnores
    <3>4. CASE EcuAnswersPending
      <4> DEFINE p == [id |-> Head(requests).id, op |-> Head(requests).op, positive |-> FALSE]
      <4>1. responses' = Append(responses, p)
        BY <3>4 DEF EcuAnswersPending
      <4>2. p \in Response
        BY <2>2
      <4> HIDE DEF p
      <4> QED BY <3>1, <4>1, <4>2
    <3> QED BY <1>11, <3>2, <3>3, <3>4
  <2>4. result' \in [id : Nat, success : BOOLEAN, of : Nat, raised : BOOLEAN, astray : BOOLEAN]
    BY <1>11 DEF EcuAnswers, EcuIgnores, EcuAnswersPending, SessionTypeOK
  <2> QED BY <1>11, <2>1, <2>3, <2>4 DEF EcuAnswers, EcuIgnores, EcuAnswersPending, SessionTypeOK
<1> QED BY NextCases, <1>2, <1>3, <1>4, <1>5, <1>6, <1>7, <1>8, <1>9, <1>10, <1>11

-----------------------------------------------------------------------------
(* Tester present: which threads run, and when they are muted *)

LEMMA NotMutedStep == SessionTypeOK /\ NotMutedBetweenRequests /\ SessionNext => NotMutedBetweenRequests'
<1> SUFFICES ASSUME SessionTypeOK, NotMutedBetweenRequests, SessionNext PROVE NotMutedBetweenRequests'
  OBVIOUS
<1>1. ASSUME Leaves PROVE userCall'.stage = "idle" /\ status' = "Idle" => ~mute'
  BY <1>1 DEF Leaves, NewTp, NotStarted, UnmuteAfter, SessionTypeOK, Stages
<1>2. CASE Answered
  BY <1>1, <1>2, AnsweredCases
     DEF SeedAnswered, SessionTypeOK, NotMutedBetweenRequests, Stages
<1>3. CASE NotAnswered
  BY <1>1, <1>3, NotAnsweredCases DEF NotMutedBetweenRequests
<1>4. CASE RequestRaises
  BY <1>4 DEF RequestRaises, Returns, NotMutedBetweenRequests
<1>5. CASE JoinedTp
  BY <1>5 DEF JoinedTp, NewTp, NotMutedBetweenRequests
<1>6. ASSUME NEW op \in {"start", "plain", "seed"}, NEW wait \in BOOLEAN, Request(op, wait)
      PROVE  NotMutedBetweenRequests'
  BY <1>6 DEF Request, Begin, NotMutedBetweenRequests
<1>7. CASE RequestKey \/ SendRequest
  BY <1>7 DEF RequestKey, Begin, SendRequest, NotMutedBetweenRequests, SessionTypeOK
<1>8. CASE StopTp \/ EcuAnswers \/ EcuIgnores
  BY <1>8 DEF StopTp, EcuAnswers, EcuIgnores, NotMutedBetweenRequests
<1>9. CASE EcuAnswersPending
  BY <1>9 DEF EcuAnswersPending, NotMutedBetweenRequests, SessionTypeOK
<1>10. ASSUME NEW t \in Threads,
              TpChecksHalt(t) \/ TpChecksMute(t) \/ TpSends(t) \/ TpWakes(t)
       PROVE  NotMutedBetweenRequests'
  BY <1>10 DEF TpChecksHalt, TpChecksMute, TpSends, TpWakes, NotMutedBetweenRequests
<1> QED BY NextCases, <1>2, <1>3, <1>4, <1>5, <1>6, <1>7, <1>8, <1>9, <1>10

\* A new thread is the only one that begins to run.
LEMMA NewTpRuns ==
  ASSUME SessionTypeOK, NewTp
  PROVE  Running' \subseteq Running \cup {tpThread'} /\ Senders' \subseteq Senders
  BY DEF SessionTypeOK, NewTp, Running, Senders

LEMMA OneTpStep ==
  SessionTypeOK /\ JoinsAThread /\ OneTpThread /\ SessionNext => JoinsAThread' /\ OneTpThread'
<1> SUFFICES ASSUME SessionTypeOK, JoinsAThread, OneTpThread, SessionNext
             PROVE  JoinsAThread' /\ OneTpThread'
  OBVIOUS
<1>0. Running \subseteq Threads /\ None \notin Threads
  BY SessionAssumption DEF Running, Threads, None
<1>1. ASSUME Leaves, UNCHANGED forgotten PROVE JoinsAThread' /\ OneTpThread'
  <2>1. CASE status' = "Idle" /\ tpThread = None /\ NewTp /\ Finish
    BY <1>0, <1>1, <2>1, NewTpRuns DEF Finish, NoUserCall, OneTpThread, JoinsAThread
  <2>2. CASE /\ tpThread # None /\ userCall' = [userCall EXCEPT !.stage = "joining"]
             /\ UNCHANGED <<tpThread, tp>>
    BY <1>1, <2>2 DEF OneTpThread, JoinsAThread, Running
  <2>3. CASE \E s \in {"Declined", "Failed", status} : NotStarted(s)
    BY <1>1, <2>3 DEF NotStarted, Finish, NoUserCall, OneTpThread, JoinsAThread, Running
  <2> QED BY <1>1, <2>1, <2>2, <2>3 DEF Leaves
<1>2. CASE Answered
  BY <1>1, <1>2, AnsweredCases
     DEF SeedAnswered, SessionTypeOK, OneTpThread, JoinsAThread, Running
<1>3. CASE NotAnswered
  BY <1>1, <1>3, NotAnsweredCases
<1>4. CASE RequestRaises
  BY <1>4 DEF RequestRaises, Finish, NoUserCall, OneTpThread, JoinsAThread, Running
<1>5. CASE JoinedTp
  <2>1. tpThread \notin Running
    BY <1>5 DEF JoinedTp, OldThreadEnded, Running
  <2> QED BY <1>5, <2>1, NewTpRuns DEF JoinedTp, Finish, NoUserCall, OneTpThread, JoinsAThread
<1>6. ASSUME NEW op \in {"start", "plain", "seed"}, NEW wait \in BOOLEAN, Request(op, wait)
      PROVE  JoinsAThread' /\ OneTpThread'
  BY <1>6 DEF Request, Begin, OneTpThread, JoinsAThread, Running
<1>7. CASE RequestKey \/ SendRequest
  BY <1>7 DEF RequestKey, Begin, SendRequest, OneTpThread, JoinsAThread, Running, SessionTypeOK
<1>8. CASE StopTp
  BY <1>8 DEF StopTp, OneTpThread, JoinsAThread, Running
<1>9. CASE EcuAnswers \/ EcuIgnores \/ EcuAnswersPending
  BY <1>9 DEF EcuAnswers, EcuIgnores, EcuAnswersPending, OneTpThread, JoinsAThread, Running
<1>10. ASSUME NEW t \in Threads,
              TpChecksHalt(t) \/ TpChecksMute(t) \/ TpSends(t) \/ TpWakes(t)
       PROVE  JoinsAThread' /\ OneTpThread'
  <2>1. Running' \subseteq Running
    BY <1>10 DEF TpChecksHalt, TpChecksMute, TpSends, TpWakes, TpMoves, SessionTypeOK, Running
  <2> QED BY <1>10, <2>1
          DEF TpChecksHalt, TpChecksMute, TpSends, TpWakes, OneTpThread, JoinsAThread
<1> QED BY NextCases, <1>2, <1>3, <1>4, <1>5, <1>6, <1>7, <1>8, <1>9, <1>10

-----------------------------------------------------------------------------
(* Tester presents that slip into a request *)

LEMMA ThreadsAreFinite ==
  /\ IsFiniteSet(Threads)
  /\ \A S \in SUBSET Threads : IsFiniteSet(S) /\ Cardinality(S) \in Nat
<1>1. IsFiniteSet(Threads)
  BY SessionAssumption, FS_Interval DEF Threads
<1> QED BY <1>1, FS_Subset, FS_CardinalityType

\* No more threads run than the one of the session and those that were not waited for.
LEMMA FewSenders ==
  ASSUME SessionTypeOK, OneTpThread
  PROVE  Cardinality(Senders) <= 1 + Cardinality(forgotten)
<1>1. forgotten \subseteq Threads /\ IsFiniteSet(forgotten) /\ Cardinality(forgotten) \in Nat
  BY ThreadsAreFinite DEF SessionTypeOK
<1>2. Senders \subseteq forgotten \cup {tpThread}
  BY DEF OneTpThread, Senders, Running
<1>3. IsFiniteSet(forgotten \cup {tpThread})
      /\ Cardinality(forgotten \cup {tpThread}) <= Cardinality(forgotten) + 1
  <2>1. CASE tpThread \in forgotten
    <3> DEFINE G == forgotten \cup {tpThread}
    <3>1. G = forgotten
      BY <2>1
    <3>2. IsFiniteSet(G) /\ Cardinality(G) = Cardinality(forgotten)
      BY <1>1, <3>1, Zenon
    <3>3. Cardinality(forgotten) \in Nat
      BY <1>1
    <3> HIDE DEF G
    <3>4. Cardinality(G) <= Cardinality(forgotten) + 1
      BY <3>2, <3>3
    <3> QED BY <3>2, <3>4 DEF G
  <2>2. CASE tpThread \notin forgotten
    <3>1. IsFiniteSet(forgotten \cup {tpThread})
          /\ Cardinality(forgotten \cup {tpThread}) = Cardinality(forgotten) + 1
      BY <1>1, <2>2, FS_AddElement
    <3> QED BY <1>1, <3>1
  <2> QED BY <2>1, <2>2
<1>4. Cardinality(Senders) <= Cardinality(forgotten \cup {tpThread})
  BY <1>2, <1>3, FS_Subset
<1>5. /\ Cardinality(Senders) \in Nat /\ Cardinality(forgotten) \in Nat
      /\ Cardinality(forgotten \cup {tpThread}) \in Nat
  BY <1>1, <1>2, <1>3, FS_Subset, FS_CardinalityType
<1> QED BY <1>3, <1>4, <1>5

LEMMA MutedStep ==
  SessionTypeOK /\ OneTpThread /\ MutedDuringRequest /\ SessionNext => MutedDuringRequest'
<1> SUFFICES ASSUME SessionTypeOK, OneTpThread, MutedDuringRequest, SessionNext
             PROVE  MutedDuringRequest'
  OBVIOUS
<1> DEFINE F == Cardinality(forgotten)
           S == Cardinality(Senders)
<1>0. F \in Nat /\ S \in Nat /\ tpDuring \in Nat /\ S <= 1 + F /\ Senders \subseteq Threads
  BY ThreadsAreFinite, FewSenders DEF SessionTypeOK, Senders
<1> USE DEF MutedDuringRequest, FewTpDuringRequest
<1>1. ASSUME Leaves, UNCHANGED <<forgotten, tpDuring>> PROVE MutedDuringRequest'
  <2>1. userCall'.stage \notin InRequest
    BY <1>1 DEF Leaves, Finish, NotStarted, NoUserCall, InRequest, SessionTypeOK
  <2> QED BY <1>1, <2>1
<1>2. CASE Answered
  <2>1. CASE SeedAnswered
    <3>1. userCall'.stage \notin InRequest
      BY <2>1 DEF SeedAnswered, InRequest, SessionTypeOK
    <3> QED BY <1>2, <3>1, AnsweredCases
  <2> QED BY <1>1, <1>2, <2>1, AnsweredCases
<1>3. CASE NotAnswered
  BY <1>1, <1>3, NotAnsweredCases
<1>4. CASE RequestRaises
  BY <1>4 DEF RequestRaises, Finish, NoUserCall, InRequest
<1>5. CASE JoinedTp
  BY <1>5 DEF JoinedTp, Finish, NoUserCall, InRequest
<1>6. ASSUME NEW op \in Ops, NEW wait \in BOOLEAN, Begin(op, wait), UNCHANGED <<tp, forgotten>>
      PROVE  MutedDuringRequest'
  <2>1. mute' = TRUE /\ tpDuring' = 0 /\ Senders' = Senders /\ forgotten' = forgotten
    BY <1>6 DEF Begin, Senders
  <2> QED BY <1>0, <2>1
<1>7. ASSUME NEW op \in {"start", "plain", "seed"}, NEW wait \in BOOLEAN, Request(op, wait)
      PROVE  MutedDuringRequest'
  BY <1>6, <1>7 DEF Request, Ops
<1>8. CASE RequestKey
  BY <1>6, <1>8 DEF RequestKey, Ops
<1>9. CASE SendRequest
  <2>1. mute' = mute /\ tpDuring' = tpDuring /\ Senders' = Senders /\ forgotten' = forgotten
        /\ userCall.stage \in InRequest
    BY <1>9 DEF SendRequest, Senders, InRequest
  <2> QED BY <2>1
<1>10. CASE StopTp
  <2>1. userCall'.stage \notin InRequest /\ tpDuring' = tpDuring
        /\ forgotten \subseteq forgotten' /\ forgotten' \subseteq Threads
    BY <1>10 DEF StopTp, InRequest, SessionTypeOK
  <2>2. F <= Cardinality(forgotten') /\ Cardinality(forgotten') \in Nat
    BY <2>1, ThreadsAreFinite, FS_Subset
  <2> QED BY <1>0, <2>1, <2>2
<1>11. CASE EcuAnswers \/ EcuIgnores \/ EcuAnswersPending
  <2>1. UNCHANGED <<mute, userCall, tpDuring, forgotten>> /\ Senders' = Senders
    BY <1>11 DEF EcuAnswers, EcuIgnores, EcuAnswersPending, Senders
  <2> QED BY <2>1
<1>12. ASSUME NEW t \in Threads, TpChecksHalt(t) \/ TpWakes(t) PROVE MutedDuringRequest'
  <2>1. UNCHANGED <<mute, userCall, tpDuring, forgotten>> /\ Senders' = Senders
    BY <1>12 DEF TpChecksHalt, TpWakes, TpMoves, Senders, SessionTypeOK
  <2> QED BY <2>1
<1>13. ASSUME NEW t \in Threads, TpChecksMute(t) PROVE MutedDuringRequest'
  <2>1. UNCHANGED <<mute, userCall, tpDuring, forgotten>> /\ (mute => Senders' = Senders)
    BY <1>13 DEF TpChecksMute, MuteSeen, TpMoves, Senders, SessionTypeOK
  <2> QED BY <2>1
<1>14. ASSUME NEW t \in Threads, TpSends(t) PROVE MutedDuringRequest'
  <2>1. t \in Senders /\ Senders' = Senders \ {t} /\ UNCHANGED <<mute, userCall, forgotten>>
    BY <1>14 DEF TpSends, TpMoves, Senders, SessionTypeOK
  <2>2. Cardinality(Senders') = S - 1
    BY <1>0, <2>1, ThreadsAreFinite, FS_RemoveElement
  <2>3. tpDuring' = IF userCall.stage \in InRequest THEN tpDuring + 1 ELSE tpDuring
    BY <1>14 DEF TpSends
  <2>4. S >= 1
    BY <1>0, <2>1, ThreadsAreFinite, FS_EmptySet
  <2> QED BY <1>0, <2>1, <2>2, <2>3, <2>4
<1> QED BY NextCases, <1>2, <1>3, <1>4, <1>5, <1>7, <1>8, <1>9, <1>10, <1>11, <1>12,
           <1>13, <1>14

-----------------------------------------------------------------------------
(* Whose response a request gets *)

LEMMA OwnStep == SessionTypeOK /\ OnlyOwnOnTheWay /\ OwnResponse /\ SessionNext => OnlyOwnOnTheWay' /\ OwnResponse'
<1> SUFFICES ASSUME SessionTypeOK, OnlyOwnOnTheWay, OwnResponse, SessionNext
             PROVE  OnlyOwnOnTheWay' /\ OwnResponse'
  OBVIOUS
<1> DEFINE R == requests
           A == responses
<1>0. /\ R \in Seq([id : Nat, op : Ops]) /\ A \in Seq(Response)
      /\ Len(R) \in Nat /\ Len(A) \in Nat
      /\ DOMAIN R = 1..Len(R) /\ DOMAIN A = 1..Len(A)
  BY DEF SessionTypeOK
<1>1. CASE Answered
  <2>1. /\ userCall.stage = "waiting" /\ A # <<>> /\ A' = Tail(A)
        /\ UNCHANGED <<requests, lastId>>
    BY <1>1, AnsweredCases
  <2>2. Len(A) >= 1 /\ Len(A') = Len(A) - 1 /\ Head(A) = A[1] /\ 1 \in DOMAIN A
        /\ DOMAIN A' = 1..Len(A')
    BY <1>0, <2>1, HeadAndTail
  <2>3. ~result.astray => Len(R) = 0 /\ Len(A') = 0 /\ Head(A).id = lastId
    BY <1>0, <2>1, <2>2 DEF OnlyOwnOnTheWay
  <2>4. ~result.astray => DOMAIN R = {} /\ DOMAIN A' = {}
    BY <1>0, <2>2, <2>3
  <2>5. result'.astray = result.astray /\ OwnResponse'
    <3>1. CASE SeedAnswered
      BY <3>1 DEF SeedAnswered, OwnResponse
    <3>2. ASSUME NEW b \in BOOLEAN, Returns(b, Head(A).id, FALSE, FALSE)
          PROVE  result'.astray = result.astray /\ OwnResponse'
      BY <2>3, <3>2 DEF Returns, OwnResponse, SessionTypeOK
    <3> QED BY <1>1, AnsweredCases, <3>1, <3>2
  <2> QED BY <2>1, <2>3, <2>4, <2>5 DEF OnlyOwnOnTheWay
<1>2. CASE NotAnswered \/ RequestRaises
  <2>1. Returns(FALSE, 0, FALSE, TRUE) \/ Returns(FALSE, 0, TRUE, TRUE)
    BY <1>2, NotAnsweredCases DEF RequestRaises
  <2>2. result'.astray = (result.astray \/ TRUE) /\ result'.success = FALSE
    BY <2>1 DEF Returns
  <2> QED BY <2>2 DEF OnlyOwnOnTheWay, OwnResponse
<1>3. CASE JoinedTp \/ StopTp
  BY <1>3 DEF JoinedTp, StopTp, Finish, NoUserCall, OnlyOwnOnTheWay, OwnResponse
<1>4. ASSUME NEW op, NEW wait, Begin(op, wait), UNCHANGED <<requests, responses, result>>,
             userCall.stage # "waiting"
      PROVE  OnlyOwnOnTheWay' /\ OwnResponse'
  <2>1. ~result.astray => DOMAIN R = {} /\ DOMAIN A = {} /\ Len(R) = 0 /\ Len(A) = 0
    BY <1>0, <1>4 DEF OnlyOwnOnTheWay
  <2>2. userCall'.stage = "sending"
    BY <1>4 DEF Begin
  <2> QED BY <1>4, <2>1, <2>2 DEF OnlyOwnOnTheWay, OwnResponse
<1>5. ASSUME NEW op \in {"start", "plain", "seed"}, NEW wait \in BOOLEAN, Request(op, wait)
      PROVE  OnlyOwnOnTheWay' /\ OwnResponse'
  BY <1>4, <1>5 DEF Request
<1>6. CASE RequestKey
  BY <1>4, <1>6 DEF RequestKey
<1>7. CASE SendRequest
  <2> DEFINE r == [id |-> lastId, op |-> Service(userCall.op)]
  <2>1. userCall.stage = "sending" /\ R' = Append(R, r) /\ UNCHANGED <<responses, lastId, result>>
        /\ userCall'.stage = "waiting"
    BY <1>7 DEF SendRequest, SessionTypeOK
  <2>2. r.id = lastId
    OBVIOUS
  <2>3. ~result.astray => Len(R) = 0 /\ Len(A) = 0
    BY <1>0, <2>1 DEF OnlyOwnOnTheWay
  <2> HIDE DEF r
  <2>4. Len(R') = Len(R) + 1 /\ DOMAIN R' = 1..(Len(R) + 1) /\ R'[Len(R) + 1] = r
    BY <1>0, <2>1
  <2> QED BY <1>0, <2>1, <2>2, <2>3, <2>4 DEF OnlyOwnOnTheWay, OwnResponse
<1>8. CASE EcuAnswers
  <2>1. PICK b \in BOOLEAN :
          A' = Append(A, [id |-> Head(R).id, op |-> Head(R).op, positive |-> b])
    BY <1>8 DEF EcuAnswers
  <2> DEFINE r == [id |-> Head(R).id, op |-> Head(R).op, positive |-> b]
  <2>2. R # <<>> /\ R' = Tail(R) /\ UNCHANGED <<userCall, lastId, result>>
    BY <1>8 DEF EcuAnswers
  <2>3. Len(R) >= 1 /\ Len(R') = Len(R) - 1 /\ Head(R) = R[1] /\ DOMAIN R' = 1..Len(R')
        /\ \A i \in DOMAIN R' : i + 1 \in DOMAIN R /\ R'[i] = R[i + 1]
    BY <1>0, <2>2, HeadAndTail
  <2>4. ~result.astray => r.id = lastId
    BY <1>0, <2>3 DEF OnlyOwnOnTheWay
  <2> HIDE DEF r
  <2>5. /\ Len(A') = Len(A) + 1 /\ DOMAIN A' = 1..(Len(A) + 1) /\ A'[Len(A) + 1] = r
        /\ \A i \in 1..Len(A) : A'[i] = A[i]
    BY <1>0, <2>1 DEF r
  <2> QED BY <1>0, <2>2, <2>3, <2>4, <2>5 DEF OnlyOwnOnTheWay, OwnResponse
<1>9. CASE EcuIgnores
  <2>1. R # <<>> /\ R' = Tail(R) /\ UNCHANGED <<userCall, lastId, result, responses>>
    BY <1>9 DEF EcuIgnores
  <2>2. Len(R') = Len(R) - 1 /\ \A i \in DOMAIN R' : i + 1 \in DOMAIN R /\ R'[i] = R[i + 1]
    BY <1>0, <2>1, HeadAndTail
  <2> QED BY <1>0, <2>1, <2>2 DEF OnlyOwnOnTheWay, OwnResponse
<1>10. CASE EcuAnswersPending
  BY <1>10 DEF EcuAnswersPending, OnlyOwnOnTheWay, OwnResponse, SessionTypeOK
<1>11. ASSUME NEW t \in Threads,
              TpChecksHalt(t) \/ TpChecksMute(t) \/ TpSends(t) \/ TpWakes(t)
       PROVE  OnlyOwnOnTheWay' /\ OwnResponse'
  BY <1>11 DEF TpChecksHalt, TpChecksMute, TpSends, TpWakes, OnlyOwnOnTheWay, OwnResponse
<1> QED BY NextCases, <1>1, <1>2, <1>3, <1>5, <1>6, <1>7, <1>8, <1>9, <1>10, <1>11

-----------------------------------------------------------------------------
LEMMA InitType == SessionInit => SessionTypeOK
<1> SUFFICES ASSUME SessionInit PROVE SessionTypeOK
  OBVIOUS
<1>1. userCall \in [stage : Stages, op : Ops, wait : BOOLEAN]
  BY DEF SessionInit, NoUserCall, Stages, Ops
<1>2. result \in [id : Nat, success : BOOLEAN, of : Nat, raised : BOOLEAN, astray : BOOLEAN]
  BY DEF SessionInit
<1>3. tp \in [Threads -> TpStates] /\ tpThread = None
  BY DEF SessionInit, TpStates
<1>4. requests \in Seq([id : Nat, op : Ops]) /\ responses \in Seq(Response)
  BY DEF SessionInit
<1>5. lastId \in 0..MaxRequests /\ tpDuring \in Nat /\ forgotten \subseteq Threads
  BY SessionAssumption DEF SessionInit
<1> QED BY <1>1, <1>2, <1>3, <1>4, <1>5 DEF SessionInit, SessionTypeOK

-----------------------------------------------------------------------------
\* Type correctness, for any bounds.
THEOREM TypeCorrect == SessionSpec => []SessionTypeOK
<1>1. SessionTypeOK /\ UNCHANGED sessionVars => SessionTypeOK'
  BY DEF SessionTypeOK, sessionVars
<1> QED BY <1>1, InitType, TypeStep, PTL DEF SessionSpec

\* "reenable tp" (uds/session.py:112): between the requests of an Idle session tester
\* present is not muted, unless the last request raised.
THEOREM NotMutedCorrect == SessionSpec => []NotMutedBetweenRequests
<1>1. SessionInit => NotMutedBetweenRequests
  BY DEF SessionInit, NotMutedBetweenRequests
<1>2. NotMutedBetweenRequests /\ UNCHANGED sessionVars => NotMutedBetweenRequests'
  BY DEF NotMutedBetweenRequests, sessionVars
<1> QED BY <1>1, <1>2, TypeCorrect, NotMutedStep, PTL DEF SessionSpec

\* OneTpThread with what it rests on.
LEMMA OneTpInvariant == SessionSpec => [](JoinsAThread /\ OneTpThread)
<1>1. SessionInit => JoinsAThread /\ OneTpThread
  BY DEF SessionInit, NoUserCall, JoinsAThread, OneTpThread, Running
<1>2. JoinsAThread /\ OneTpThread /\ UNCHANGED sessionVars => JoinsAThread' /\ OneTpThread'
  BY DEF JoinsAThread, OneTpThread, Running, sessionVars
<1> QED BY <1>1, <1>2, TypeCorrect, OneTpStep, PTL DEF SessionSpec

\* start_tp() leaves no tester present thread of before running, but those that stop_tp()
\* did not wait for, however often a session is started and stopped
\* (uds/session.py:230-244).
THEOREM OneTpCorrect == SessionSpec => []OneTpThread
  BY OneTpInvariant, PTL

\* "disable tester present while request is active" (uds/session.py:98): a thread slips
\* into a request once at most.
THEOREM FewTpCorrect == SessionSpec => []FewTpDuringRequest
<1>1. SessionInit => MutedDuringRequest
  <2> SUFFICES ASSUME SessionInit PROVE MutedDuringRequest OBVIOUS
  <2>1. tpDuring = 0 /\ userCall.stage \notin InRequest /\ forgotten = {}
    BY DEF SessionInit, NoUserCall, InRequest
  <2> QED BY <2>1, FS_EmptySet DEF MutedDuringRequest, FewTpDuringRequest
<1>2. MutedDuringRequest /\ UNCHANGED sessionVars => MutedDuringRequest'
  BY DEF MutedDuringRequest, FewTpDuringRequest, Senders, sessionVars
<1>3. MutedDuringRequest => FewTpDuringRequest
  BY DEF MutedDuringRequest
<1> QED BY <1>1, <1>2, <1>3, TypeCorrect, OneTpInvariant, MutedStep, PTL DEF SessionSpec

\* A response that makes a call succeed is the one to its own request, as long as every
\* request was answered once and in time (uds/session.py:96-117).
THEOREM OwnResponseCorrect == SessionSpec => []OwnResponse
<1>1. SessionInit => OnlyOwnOnTheWay /\ OwnResponse
  BY DEF SessionInit, NoUserCall, OnlyOwnOnTheWay, OwnResponse
<1>2. OnlyOwnOnTheWay /\ OwnResponse /\ UNCHANGED sessionVars => OnlyOwnOnTheWay' /\ OwnResponse'
  BY DEF OnlyOwnOnTheWay, OwnResponse, sessionVars
<1> QED BY <1>1, <1>2, TypeCorrect, OwnStep, PTL DEF SessionSpec
=============================================================================
