----------------------- MODULE LoggedInterface_proofs -----------------------
(***************************************************************************)
(* Proofs about the logs of a LoggedInterface, for any number of threads,  *)
(* logs and frames.  Every theorem rests on one inductive invariant, which *)
(* says where the loop of every frame stands in the list of logs, as the   *)
(* user changes it.                                                        *)
(***************************************************************************)
EXTENDS LoggedInterface, Naturals_proofs

Statuses == {On, Off, Unmapped}
Changes  == {"start", "stop", "add"}

CallsType ==
  [place : CallPlaces, frame : Nat, at : Nat \ {0}, log : Logs \cup {NoLog},
   steady : SUBSET Logs, met : SUBSET Changes, doubled : SUBSET Logs, quiet : BOOLEAN]

LogsTypeOK ==
  /\ logs \in Seq(Logs)
  /\ log_to_status_map \in [Logs -> Statuses]
  /\ events \in [Logs -> Seq([frame : Nat, by : Threads])]
  /\ call \in [Threads -> CallsType]
  /\ frames \in Nat
  /\ ToSet(logs) \subseteq made /\ made \subseteq Logs /\ added \subseteq Logs
  /\ quiet \in BOOLEAN

\* A frame that is on its way has a number of its own; the calls of the user have none.
\* Nothing is known of a log before it is made.
CallsInv ==
  /\ \A t \in Threads :
       /\ call[t].place = "idle" => call[t] = NoCall
       /\ t # User => call[t].place \in {"idle", "loop", "status", "log"}
       /\ call[t].frame # 0 <=> call[t].place \in {"loop", "status", "log"}
       /\ call[t].frame <= frames
       /\ call[t].place \in {"status", "log", "starting", "stopping"} => call[t].log \in made
  /\ \A t, u \in Threads : call[t].frame = call[u].frame /\ call[t].frame # 0 => t = u
  /\ \A l \in Logs : \A i \in DOMAIN events[l] :
       events[l][i].frame # 0 /\ events[l][i].frame <= frames
  /\ \A l \in Logs : l \notin made => events[l] = <<>> /\ log_to_status_map[l] = Unmapped

\* A log in the list lacks a status only while the user is starting or stopping it, which
\* the frames on their way have met; or as it was added, or stopped only once.
StatusInv ==
  /\ \A l \in ToSet(logs) :
       log_to_status_map[l] = Unmapped =>
         l \in added \/ (Changing # {} /\ call[User].log = l)
  /\ \A t \in Threads : call[t].frame # 0 => Changing \subseteq call[t].met
  /\ FramesAreLostToChangesOnly

\* When it is quiet no log in the list is on, nor one that a frame has just looked up.
QuietInv ==
  /\ quiet => \A l \in ToSet(logs) : log_to_status_map[l] # On
  /\ \A t \in Threads : call[t].quiet =>
       /\ quiet
       /\ call[t].place = "status" => log_to_status_map[call[t].log] # On
       /\ call[t].place # "log"
  /\ call[User].place = "disabling" =>
       \A i \in DOMAIN logs : i < call[User].at => log_to_status_map[logs[i]] # On
  /\ QuietAfterDisableAll

\* The logs that the loop of thread t has done with, or is at.
Passed(t) ==
  {l \in Logs : \/ Took(l, call[t].frame)
                \/ call[t].place \in {"status", "log"} /\ call[t].log = l}

\* The logs that are in the list more than once are known to every frame on its way.
DoubledInv == \A t \in Threads : call[t].frame # 0 => Doubled(logs) \subseteq call[t].doubled

\* Those a loop has passed lie before the place it has reached, unless a log was stopped;
\* and not after it, unless one was stopped and one added, or they are in the list twice.
\* A log that is on all the time lies after that place, or has been passed.
PlacesInv ==
  \A t \in Threads : call[t].frame # 0 =>
    /\ "stop" \notin call[t].met =>
         /\ \A l \in Passed(t) : \E i \in DOMAIN logs : i < call[t].at /\ logs[i] = l
         /\ \A l \in call[t].steady :
              /\ log_to_status_map[l] = On
              /\ l \in Passed(t) \/ \E i \in DOMAIN logs : i >= call[t].at /\ logs[i] = l
    /\ ~({"stop", "add"} \subseteq call[t].met) =>
         /\ \A l \in Passed(t) \ call[t].doubled, i \in DOMAIN logs :
              i >= call[t].at => logs[i] # l
         /\ call[t].place \in {"status", "log"} /\ call[t].log \notin call[t].doubled =>
              ~Took(call[t].log, call[t].frame)

LogsInv == LogsTypeOK /\ CallsInv /\ StatusInv /\ QuietInv /\ DoubledInv /\ PlacesInv

-----------------------------------------------------------------------------
(* Lists of logs *)

LEMMA Appended ==
  ASSUME NEW S, NEW s \in Seq(S), NEW e \in S
  PROVE  /\ Append(s, e) \in Seq(S)
         /\ ToSet(Append(s, e)) = ToSet(s) \cup {e}
         /\ DOMAIN Append(s, e) = DOMAIN s \cup {Len(s) + 1}
         /\ \A i \in DOMAIN s : Append(s, e)[i] = s[i]
         /\ Append(s, e)[Len(s) + 1] = e
  BY DEF ToSet

LEMMA ElementOf ==
  ASSUME NEW S, NEW s \in Seq(S), NEW i \in DOMAIN s
  PROVE  s[i] \in S
  OBVIOUS

\* The elements of list r are some of those of list s, in the same order, and none has
\* moved backwards.
Within(r, s) ==
  \A i \in DOMAIN r : \E p \in DOMAIN s :
    /\ p >= i /\ s[p] = r[i]
    /\ \A j \in DOMAIN r : i < j => \E q \in DOMAIN s : p < q /\ s[q] = r[j]

LEMMA WithinWithoutOne ==
  ASSUME NEW S, NEW s \in Seq(S), NEW r \in Seq(S), NEW k \in 1..Len(s),
         DOMAIN r = 1..(Len(s) - 1),
         \A i \in DOMAIN r : r[i] = IF i < k THEN s[i] ELSE s[i + 1]
  PROVE  Within(r, s)
<1> SUFFICES ASSUME NEW i \in DOMAIN r
             PROVE  \E p \in DOMAIN s :
                      /\ p >= i /\ s[p] = r[i]
                      /\ \A j \in DOMAIN r : i < j => \E q \in DOMAIN s : p < q /\ s[q] = r[j]
  BY DEF Within
<1> DEFINE p == IF i < k THEN i ELSE i + 1
<1>1. p \in DOMAIN s /\ p >= i /\ s[p] = r[i]
  OBVIOUS
<1>2. ASSUME NEW j \in DOMAIN r, i < j
      PROVE  \E q \in DOMAIN s : p < q /\ s[q] = r[j]
  <2> DEFINE q == IF j < k THEN j ELSE j + 1
  <2>1. q \in DOMAIN s /\ p < q /\ s[q] = r[j]
    BY <1>2
  <2> QED BY <2>1
<1> HIDE DEF p
<1> QED BY <1>1, <1>2

LEMMA WithinItself ==
  ASSUME NEW S, NEW s \in Seq(S)
  PROVE  Within(s, s)
<1>1. \A i \in DOMAIN s : i \in Int
  OBVIOUS
<1> QED BY <1>1 DEF Within

\* What is left of a list without the first e.
LEMMA Removed ==
  ASSUME NEW S, NEW s \in Seq(S), NEW e
  PROVE  RemoveFirst(s, e) \in Seq(S) /\ Within(RemoveFirst(s, e), s)
<1>1. CASE \A i \in 1..Len(s) : s[i] # e
  <2>1. RemoveFirst(s, e) = s
    BY <1>1 DEF RemoveFirst
  <2> QED BY <2>1, WithinItself
<1>2. CASE \E i \in 1..Len(s) : s[i] = e
  <2> DEFINE I == {i \in 1..Len(s) : s[i] = e}
             r == RemoveFirst(s, e)
  <2>1. PICK k \in I : \A i \in I : k <= i
    <3>1. I \in SUBSET Nat /\ I # {}
      BY <1>2
    <3> HIDE DEF I
    <3> QED BY <3>1, LeastOf
  <2>2. Min(I) \in I
    BY <2>1 DEF Min
  <2> DEFINE m == Min(I)
  <2>3. m \in 1..Len(s) /\ SelectInSeq(s, LAMBDA v : v = e) = m
    BY <2>1, <2>2 DEF SelectInSeq
  <2> HIDE DEF m
  <2>4. r = SubSeq(s, 1, m - 1) \o SubSeq(s, m + 1, Len(s))
    BY <1>2, <2>3 DEF RemoveFirst, RemoveAt
  <2> HIDE DEF r
  <2>5. r \in Seq(S) /\ Within(r, s)
    <3> DEFINE a == SubSeq(s, 1, m - 1)
               b == SubSeq(s, m + 1, Len(s))
    <3>1. a \in Seq(S) /\ Len(a) = m - 1 /\ \A i \in 1..(m - 1) : a[i] = s[i]
      BY <2>3
    <3>2. /\ b \in Seq(S) /\ Len(b) = Len(s) - m
          /\ \A i \in 1..(Len(s) - m) : b[i] = s[m + i]
      BY <2>3
    <3> HIDE DEF a, b
    <3>3. r = a \o b
      BY <2>4 DEF a, b
    <3>4. r \in Seq(S) /\ Len(r) = Len(s) - 1 /\ DOMAIN r = 1..(Len(s) - 1)
      BY <2>3, <3>1, <3>2, <3>3
    <3>5. ASSUME NEW i \in 1..(Len(s) - 1)
          PROVE  r[i] = IF i < m THEN s[i] ELSE s[i + 1]
      <4>1. CASE i < m
        BY <2>3, <3>1, <3>2, <3>3, <4>1
      <4>2. CASE i >= m
        <5>1. r[i] = b[i - (m - 1)] /\ i - (m - 1) \in 1..(Len(s) - m)
          BY <2>3, <3>1, <3>2, <3>3, <4>2
        <5> QED BY <2>3, <3>2, <4>2, <5>1
      <4> QED BY <2>3, <4>1, <4>2
    <3> QED BY <2>3, <3>4, <3>5, WithinWithoutOne
  <2> QED BY <2>5 DEF r
<1> QED BY <1>1, <1>2

LEMMA WithinElements ==
  ASSUME NEW S, NEW s \in Seq(S), NEW r \in Seq(S), Within(r, s)
  PROVE  ToSet(r) \subseteq ToSet(s)
  BY DEF Within, ToSet

\* A log that is not in the list does not double another by coming to its end.
LEMMA DoubledAppended ==
  ASSUME logs \in Seq(Logs), NEW l \in Logs, l \notin ToSet(logs), logs' = Append(logs, l)
  PROVE  Doubled(logs') \subseteq Doubled(logs)
<1> SUFFICES ASSUME NEW k \in Doubled(logs') PROVE k \in Doubled(logs)
  OBVIOUS
<1>1. PICK i \in DOMAIN logs', j \in DOMAIN logs' : i < j /\ logs'[i] = k /\ logs'[j] = k
  BY DEF Doubled
<1>2. /\ DOMAIN logs' = DOMAIN logs \cup {Len(logs) + 1} /\ logs'[Len(logs) + 1] = l
      /\ \A m \in DOMAIN logs : logs'[m] = logs[m]
  BY Appended
<1>3. i \in DOMAIN logs
  BY <1>1, <1>2
<1>4. j \in DOMAIN logs
  BY <1>1, <1>2, <1>3 DEF ToSet
<1> QED BY <1>1, <1>2, <1>3, <1>4 DEF Doubled

LEMMA DoubledWithin ==
  ASSUME logs \in Seq(Logs), logs' \in Seq(Logs), Within(logs', logs)
  PROVE  Doubled(logs') \subseteq Doubled(logs)
<1> SUFFICES ASSUME NEW k \in Doubled(logs') PROVE k \in Doubled(logs)
  OBVIOUS
<1>1. PICK i \in DOMAIN logs', j \in DOMAIN logs' : i < j /\ logs'[i] = k /\ logs'[j] = k
  BY DEF Doubled
<1>2. PICK p \in DOMAIN logs, q \in DOMAIN logs : p < q /\ logs[p] = k /\ logs[q] = k
  BY <1>1 DEF Within
<1> QED BY <1>2 DEF Doubled

\* A log in the list that comes to its end is doubled.
LEMMA AppendedDoubles ==
  ASSUME logs \in Seq(Logs), NEW l \in ToSet(logs), logs' = Append(logs, l)
  PROVE  l \in Doubled(logs')
<1>1. PICK i \in DOMAIN logs : logs[i] = l
  BY DEF ToSet
<1>2. /\ i \in DOMAIN logs' /\ Len(logs) + 1 \in DOMAIN logs' /\ i < Len(logs) + 1
      /\ logs'[i] = l /\ logs'[Len(logs) + 1] = l /\ l \in Logs
  BY <1>1, Appended
<1> QED BY <1>2 DEF Doubled

-----------------------------------------------------------------------------
(* The calls *)

LEMMA NoCallType == NoCall \in CallsType /\ NoCall.frame = 0 /\ NoCall.place = "idle"
  BY DEF NoCall, CallsType, CallPlaces, Changes

LEMMA EventAppended ==
  ASSUME NEW s \in Seq([frame : Nat, by : Threads]), NEW f \in Nat, NEW t \in Threads
  PROVE  /\ Append(s, [frame |-> f, by |-> t]) \in Seq([frame : Nat, by : Threads])
         /\ DOMAIN Append(s, [frame |-> f, by |-> t]) = DOMAIN s \cup {Len(s) + 1}
         /\ \A i \in DOMAIN s : Append(s, [frame |-> f, by |-> t])[i] = s[i]
         /\ Append(s, [frame |-> f, by |-> t])[Len(s) + 1].frame = f
<1> DEFINE e == [frame |-> f, by |-> t]
<1>1. e \in [frame : Nat, by : Threads] /\ e.frame = f
  OBVIOUS
<1> HIDE DEF e
<1>2. /\ Append(s, e) \in Seq([frame : Nat, by : Threads])
      /\ DOMAIN Append(s, e) = DOMAIN s \cup {Len(s) + 1}
      /\ \A i \in DOMAIN s : Append(s, e)[i] = s[i]
      /\ Append(s, e)[Len(s) + 1] = e
  BY <1>1
<1> QED BY <1>1, <1>2 DEF e

\* What the steps change of a call, and what they leave.
LEMMA CallChanges ==
  ASSUME NEW c \in CallsType, NEW p \in CallPlaces, NEW n \in Nat \ {0}, NEW l \in Logs
  PROVE  /\ [c EXCEPT !.place = p] \in CallsType
         /\ [c EXCEPT !.place = p, !.log = l, !.at = n] \in CallsType
         /\ [c EXCEPT !.at = n] \in CallsType
  BY DEF CallsType

\* Call c after a turn of its loop, which finds log l.
Turned(c, l) == [c EXCEPT !.place = "status", !.log = l, !.at = @ + 1]

LEMMA TurnChanges ==
  ASSUME NEW c \in CallsType, NEW l \in Logs
  PROVE  Turned(c, l) \in CallsType
<1>1. "status" \in CallPlaces /\ c.at + 1 \in Nat \ {0}
  BY DEF CallPlaces, CallsType
<1> QED BY <1>1 DEF Turned, CallsType

\* Call d is at the same place as call c.
SamePlace(c, d) ==
  /\ d.place = c.place /\ d.frame = c.frame /\ d.at = c.at /\ d.log = c.log

LEMMA HistoryChanges ==
  ASSUME NEW c \in CallsType
  PROVE  /\ [c EXCEPT !.quiet = FALSE] \in CallsType
         /\ SamePlace(c, [c EXCEPT !.quiet = FALSE])
         /\ [c EXCEPT !.quiet = FALSE].quiet = FALSE
         /\ [c EXCEPT !.quiet = FALSE].met = c.met
         /\ [c EXCEPT !.quiet = FALSE].steady = c.steady
         /\ [c EXCEPT !.quiet = FALSE].doubled = c.doubled
  BY DEF CallsType, SamePlace

LEMMA SteadyChanges ==
  ASSUME NEW c \in CallsType, NEW l
  PROVE  /\ [c EXCEPT !.steady = @ \ {l}] \in CallsType
         /\ SamePlace(c, [c EXCEPT !.steady = @ \ {l}])
         /\ [c EXCEPT !.steady = @ \ {l}].quiet = c.quiet
         /\ [c EXCEPT !.steady = @ \ {l}].met = c.met
         /\ [c EXCEPT !.steady = @ \ {l}].steady = c.steady \ {l}
         /\ [c EXCEPT !.steady = @ \ {l}].doubled = c.doubled
  BY DEF CallsType, SamePlace

LEMMA MetChanges ==
  ASSUME NEW c \in CallsType, NEW change \in Changes
  PROVE  /\ [c EXCEPT !.met = @ \cup {change}] \in CallsType
         /\ SamePlace(c, [c EXCEPT !.met = @ \cup {change}])
         /\ [c EXCEPT !.met = @ \cup {change}].quiet = c.quiet
         /\ [c EXCEPT !.met = @ \cup {change}].met = c.met \cup {change}
         /\ [c EXCEPT !.met = @ \cup {change}].steady = c.steady
         /\ [c EXCEPT !.met = @ \cup {change}].doubled = c.doubled
  BY DEF CallsType, SamePlace

LEMMA SameCalls ==
  ASSUME NEW c \in CallsType, NEW d \in CallsType, SamePlace(c, d),
         c.steady = d.steady, c.met = d.met, c.doubled = d.doubled, c.quiet = d.quiet
  PROVE  c = d
  BY DEF CallsType, SamePlace

\* Call d is call c, with the logs `twice' among the doubled ones if it is about a frame.
KnowsMore(c, d, twice) ==
  /\ d \in CallsType /\ SamePlace(c, d)
  /\ d.quiet = c.quiet /\ d.met = c.met /\ d.steady = c.steady
  /\ c.doubled \subseteq d.doubled /\ (c.frame # 0 => twice \subseteq d.doubled)
  /\ c.frame = 0 => d = c

LEMMA DoubledChanges ==
  ASSUME NEW c \in CallsType, NEW twice \in SUBSET Logs
  PROVE  KnowsMore(c, [c EXCEPT !.doubled = IF c.frame # 0 THEN @ \cup twice ELSE @], twice)
<1>1. CASE c.frame # 0
  <2>1. KnowsMore(c, [c EXCEPT !.doubled = @ \cup twice], twice)
    BY <1>1 DEF CallsType, SamePlace, KnowsMore
  <2> QED BY <1>1, <2>1
<1>2. CASE c.frame = 0
  <2>1. [c EXCEPT !.doubled = @] = c
    BY DEF CallsType
  <2> QED BY <1>2, <2>1 DEF SamePlace, KnowsMore
<1> QED BY <1>1, <1>2

LEMMA NoCallChanges ==
  /\ [NoCall EXCEPT !.quiet = FALSE] = NoCall
  /\ \A l : [NoCall EXCEPT !.steady = @ \ {l}] = NoCall
<1>1. NoCall.quiet = FALSE /\ NoCall.steady = {}
  BY DEF NoCall
<1>2. [NoCall EXCEPT !.quiet = FALSE] = NoCall
  BY <1>1, NoCallType, HistoryChanges, SameCalls
<1>3. ASSUME NEW l PROVE [NoCall EXCEPT !.steady = @ \ {l}] = NoCall
  <2> DEFINE d == [NoCall EXCEPT !.steady = @ \ {l}]
  <2>1. /\ d \in CallsType /\ SamePlace(NoCall, d) /\ d.quiet = NoCall.quiet
        /\ d.met = NoCall.met /\ d.doubled = NoCall.doubled
        /\ d.steady = NoCall.steady \ {l}
    BY NoCallType, SteadyChanges
  <2>2. d.steady = NoCall.steady
    BY <1>1, <2>1
  <2> HIDE DEF d
  <2>3. NoCall = d
    BY <2>1, <2>2, NoCallType, SameCalls
  <2> QED BY <2>3 DEF d
<1> QED BY <1>2, <1>3

\* A call of the user's begins, goes on or ends, and meets the other calls.
LEMMA MeetingType ==
  ASSUME call \in [Threads -> CallsType], NEW change \in Changes, NEW mine \in CallsType
  PROVE  Meeting(change, mine) \in [Threads -> CallsType]
  BY NoCallType DEF Meeting, CallsType

LEMMA DoublingType ==
  ASSUME NEW c \in [Threads -> CallsType]
  PROVE  /\ Doubling(c, Doubled(logs')) \in [Threads -> CallsType]
         /\ \A t \in Threads :
              KnowsMore(c[t], Doubling(c, Doubled(logs'))[t], Doubled(logs'))
<1>1. Doubled(logs') \in SUBSET Logs
  BY DEF Doubled
<1> QED BY <1>1, DoubledChanges DEF Doubling, KnowsMore

LEMMA CallsTypeStep ==
  ASSUME LogsTypeOK, CallsInv, InterfaceNext
  PROVE  call' \in [Threads -> CallsType]
<1> USE UserAssumption, NoCallType DEF LogsTypeOK, CallsInv
<1>1. ASSUME NEW t \in Threads, FrameBegins(t) PROVE call' \in [Threads -> CallsType]
  <2>1. [place |-> "loop", frame |-> frames', at |-> 1, log |-> NoLog, steady |-> SwitchedOn,
         met |-> Changing, doubled |-> Doubled(logs), quiet |-> quiet] \in CallsType
    <3>1. frames' \in Nat /\ SwitchedOn \in SUBSET Logs
      BY <1>1 DEF FrameBegins, SwitchedOn
    <3>2. Changing \in SUBSET Changes /\ Doubled(logs) \in SUBSET Logs /\ quiet \in BOOLEAN
      BY DEF Changing, Changes, Doubled
    <3>3. "loop" \in CallPlaces
      BY DEF CallPlaces
    <3> HIDE DEF LogsTypeOK, CallsInv
    <3> QED BY <3>1, <3>2, <3>3 DEF CallsType
  <2> QED BY <1>1, <2>1 DEF FrameBegins
<1>2. ASSUME NEW t \in Threads, LoopTurn(t) PROVE call' \in [Threads -> CallsType]
  <2>1. call[t] \in CallsType /\ logs[call[t].at] \in Logs
    BY <1>2 DEF LoopTurn, InList
  <2>2. Turned(call[t], logs[call[t].at]) \in CallsType
    BY <2>1, TurnChanges
  <2> QED BY <1>2, <2>2 DEF LoopTurn, Following, Turned
<1>3. ASSUME NEW t \in Threads, FrameDone(t) \/ StatusMissing(t) \/ FrameIsPassedOn(t)
      PROVE  call' \in [Threads -> CallsType]
  BY <1>3 DEF FrameDone, StatusMissing, FrameIsPassedOn
<1>4. ASSUME NEW t \in Threads, StatusLookedUp(t) \/ EventIsLogged(t)
      PROVE  call' \in [Threads -> CallsType]
  <2>1. PICK p \in {"log", "loop"} : call' = [call EXCEPT ![t].place = p]
    <3>1. CASE StatusLookedUp(t) /\ StatusOf(t) = On
      BY <3>1 DEF StatusLookedUp
    <3>2. CASE StatusLookedUp(t) /\ StatusOf(t) # On
      BY <3>2 DEF StatusLookedUp
    <3>3. CASE EventIsLogged(t)
      BY <3>3 DEF EventIsLogged
    <3> QED BY <1>4, <3>1, <3>2, <3>3
  <2>2. p \in CallPlaces /\ call[t] \in CallsType
    BY <2>1 DEF CallPlaces
  <2>3. [call[t] EXCEPT !.place = p] \in CallsType
    BY <2>2 DEF CallsType
  <2> QED BY <2>1, <2>3
<1>5. ASSUME NEW l \in Logs, StartLists(l) PROVE call' \in [Threads -> CallsType]
  <2>1. [NoCall EXCEPT !.place = "starting", !.log = l] \in CallsType
    BY DEF NoCall, CallsType, CallPlaces
  <2> QED BY <1>5, <2>1, MeetingType DEF StartLists, Changes
<1>6. ASSUME NEW l \in Logs, AddLog(l) PROVE call' \in [Threads -> CallsType]
  <2> DEFINE m == Meeting("add", NoCall)
             n == Doubling(m, Doubled(logs'))
  <2>1. m \in [Threads -> CallsType]
    BY MeetingType DEF Changes
  <2> HIDE DEF m
  <2>2. n \in [Threads -> CallsType]
    BY <2>1, DoublingType
  <2> HIDE DEF n
  <2>3. Disturbed(n) \in [Threads -> CallsType]
    BY <2>2, ZenonT(30) DEF Disturbed, CallsType
  <2> QED BY <1>6, <2>2, <2>3 DEF AddLog, m, n
<1>7. ASSUME NEW l \in Logs, EnableLog(l) \/ DisableLog(l)
      PROVE  call' \in [Threads -> CallsType]
  <2>1. call' = Disturbed(call)
    BY <1>7 DEF EnableLog, DisableLog
  <2> QED BY <2>1, HistoryChanges DEF Disturbed
<1>8. ASSUME NEW l \in Logs, StopUnmaps(l) PROVE call' \in [Threads -> CallsType]
  <2>1. [NoCall EXCEPT !.place = "stopping", !.log = l] \in CallsType
    BY DEF NoCall, CallsType, CallPlaces
  <2> DEFINE m == Meeting("stop", [NoCall EXCEPT !.place = "stopping", !.log = l])
  <2>2. m \in [Threads -> CallsType]
    BY <2>1, MeetingType DEF Changes
  <2> HIDE DEF m
  <2>3. Unsteady(m, l) \in [Threads -> CallsType]
    BY <2>2, ZenonT(30) DEF Unsteady, CallsType
  <2> QED BY <1>8, <2>3 DEF StopUnmaps, m
<1>9. CASE StartEnables
  <2> DEFINE c == [call EXCEPT ![User] = NoCall]
  <2>1. c \in [Threads -> CallsType]
    OBVIOUS
  <2> HIDE DEF c
  <2>2. call' = Disturbed(c)
    BY <1>9 DEF StartEnables, c
  <2> QED BY <2>1, <2>2, HistoryChanges DEF Disturbed
<1>10. CASE StopUnlists
  BY <1>10, MeetingType DEF StopUnlists, Changes
<1>11. CASE DisableBegins \/ DisableEnds
  <2>1. call[User] \in CallsType /\ "disabling" \in CallPlaces
    BY DEF CallPlaces
  <2>2. [call[User] EXCEPT !.place = "disabling"] \in CallsType
    BY <2>1 DEF CallsType
  <2> QED BY <1>11, <2>2 DEF DisableBegins, DisableEnds
<1>12. CASE DisableTurn
  <2> DEFINE l == logs[call[User].at]
             c == [call EXCEPT ![User].at = @ + 1]
  <2>1. l \in Logs
    BY <1>12 DEF DisableTurn, InList
  <2>2. call[User] \in CallsType /\ call[User].at + 1 \in Nat \ {0}
    BY DEF CallsType
  <2>3. c \in [Threads -> CallsType]
    <3>1. [call[User] EXCEPT !.at = @ + 1] \in CallsType
      BY <2>2 DEF CallsType
    <3> QED BY <3>1
  <2> HIDE DEF c
  <2>4. call' = Unsteady(c, l)
    BY <1>12 DEF DisableTurn, c
  <2> HIDE DEF l
  <2> QED BY <2>1, <2>3, <2>4, SteadyChanges DEF Unsteady
<1> QED BY <1>1, <1>2, <1>3, <1>4, <1>5, <1>6, <1>7, <1>8, <1>9, <1>10, <1>11, <1>12
        DEF InterfaceNext, FrameStep, UserStep

LEMMA LogsTypeStep == LogsTypeOK /\ CallsInv /\ InterfaceNext => LogsTypeOK'
<1> SUFFICES ASSUME LogsTypeOK, CallsInv, InterfaceNext PROVE LogsTypeOK'
  OBVIOUS
<1>0. call' \in [Threads -> CallsType]
  BY CallsTypeStep
<1> USE <1>0, UserAssumption DEF LogsTypeOK, CallsInv
<1>1. ASSUME NEW t \in Threads, EventIsLogged(t) PROVE LogsTypeOK'
  <2>1. call[t].log \in Logs /\ call[t].frame \in Nat
    BY <1>1 DEF EventIsLogged, CallsType
  <2>2. events' \in [Logs -> Seq([frame : Nat, by : Threads])]
    BY <1>1, <2>1, EventAppended DEF EventIsLogged
  <2> QED BY <1>1, <2>2 DEF EventIsLogged
<1>2. ASSUME NEW t \in Threads,
             \/ FrameBegins(t) \/ FrameIsPassedOn(t) \/ LoopTurn(t) \/ FrameDone(t)
             \/ StatusLookedUp(t) \/ StatusMissing(t)
      PROVE  LogsTypeOK'
  <2>1. /\ frames' \in Nat
        /\ UNCHANGED <<logs, log_to_status_map, events, made, added, quiet>>
    BY <1>2 DEF FrameBegins, FrameIsPassedOn, LoopTurn, FrameDone, StatusLookedUp, StatusMissing
  <2> QED BY <2>1
<1>3. ASSUME NEW l \in Logs, StartLists(l) PROVE LogsTypeOK'
  <2>1. logs' \in Seq(Logs) /\ ToSet(logs') = ToSet(logs) \cup {l}
    BY <1>3, Appended DEF StartLists, Listing
  <2> QED BY <1>3, <2>1 DEF StartLists
<1>4. ASSUME NEW l \in Logs, AddLog(l) PROVE LogsTypeOK'
  <2>1. logs' \in Seq(Logs) /\ ToSet(logs') = ToSet(logs) \cup {l}
    BY <1>4, Appended DEF AddLog
  <2>2. added' \subseteq Logs /\ quiet' \in BOOLEAN
    BY <1>4 DEF AddLog
  <2> QED BY <1>4, <2>1, <2>2 DEF AddLog
<1>5. ASSUME NEW l \in Logs, EnableLog(l) \/ DisableLog(l) PROVE LogsTypeOK'
  BY <1>5 DEF EnableLog, DisableLog, SwitchesOn, Statuses
<1>6. ASSUME NEW l \in Logs, StopUnmaps(l) PROVE LogsTypeOK'
  BY <1>6 DEF StopUnmaps, Statuses
<1>7. CASE StartEnables
  BY <1>7 DEF StartEnables, SwitchesOn, Statuses
<1>8. CASE StopUnlists
  <2>1. logs' \in Seq(Logs) /\ ToSet(logs') \subseteq ToSet(logs)
    BY <1>8, Removed, WithinElements DEF StopUnlists
  <2>2. added' \subseteq Logs
    BY <1>8, <2>1 DEF StopUnlists
  <2> QED BY <1>8, <2>1, <2>2 DEF StopUnlists
<1>9. CASE DisableBegins \/ DisableEnds
  BY <1>9 DEF DisableBegins, DisableEnds
<1>10. CASE DisableTurn
  BY <1>10 DEF DisableTurn, DisabledStatus, Statuses
<1> QED BY <1>1, <1>2, <1>3, <1>4, <1>5, <1>6, <1>7, <1>8, <1>9, <1>10
        DEF InterfaceNext, FrameStep, UserStep

\* A step of the user's leaves the frames that are on their way where they are; it only
\* adds to what they have met, and takes from the logs that have been on.
GoesOn(t) ==
  /\ call'[t].frame = call[t].frame
  /\ call'[t].place \in {"status", "log", "loop"} <=> call[t].place \in {"status", "log", "loop"}
  /\ call[t].frame # 0 =>
       /\ call'[t].place = call[t].place /\ call'[t].at = call[t].at
       /\ call'[t].log = call[t].log
       /\ call[t].met \subseteq call'[t].met /\ call'[t].steady \subseteq call[t].steady
       /\ call[t].doubled \subseteq call'[t].doubled
  /\ call'[t].quiet => call[t].quiet
  /\ t # User =>
       /\ call'[t].place = call[t].place
       /\ call[t] = NoCall => call'[t] = NoCall

LEMMA MeetingGoesOn ==
  ASSUME LogsTypeOK, CallsInv, NEW change \in Changes, NEW mine \in CallsType,
         ~(call[User].place \in {"status", "log", "loop"}),
         ~(mine.place \in {"status", "log", "loop"}), mine.frame = 0, mine.quiet = FALSE,
         call' = Meeting(change, mine)
  PROVE  /\ \A t \in Threads : GoesOn(t) /\ (call[t].frame # 0 => change \in call'[t].met)
         /\ call'[User] = mine
<1> SUFFICES ASSUME NEW t \in Threads
             PROVE  /\ GoesOn(t) /\ (call[t].frame # 0 => change \in call'[t].met)
                    /\ call'[User] = mine
  BY UserAssumption
<1>1. call[t] \in CallsType
  BY DEF LogsTypeOK
<1>2. CASE t = User
  BY <1>2, NoCallType DEF Meeting, GoesOn, CallsInv
<1>3. CASE t # User /\ call[t] = NoCall
  BY <1>3, UserAssumption, NoCallType DEF Meeting, GoesOn
<1>4. CASE t # User /\ call[t] # NoCall
  <2>1. call'[t] = [call[t] EXCEPT !.met = @ \cup {change}]
    BY <1>4 DEF Meeting
  <2> QED BY <1>1, <1>4, <2>1, UserAssumption DEF Meeting, GoesOn, CallsType
<1> QED BY <1>2, <1>3, <1>4

\* Every frame on its way has met the change.
Met(change) == \A t \in Threads : call[t].frame # 0 => change \in call'[t].met

AllGoOn == \A t \in Threads : GoesOn(t)

NoneQuiet == \A t \in Threads : ~call'[t].quiet

NoneSteady(l) == \A t \in Threads : l \notin call'[t].steady

LEMMA StartListsCalls ==
  ASSUME LogsTypeOK, CallsInv, NEW l \in Logs, StartLists(l)
  PROVE  AllGoOn /\ Met("start") /\ call'[User].place = "starting" /\ call'[User].log = l
<1> DEFINE mine == [NoCall EXCEPT !.place = "starting", !.log = l]
<1>1. mine \in CallsType
  BY NoCallType DEF CallsType, CallPlaces
<1>2. mine.place = "starting" /\ mine.log = l /\ mine.frame = 0 /\ mine.quiet = FALSE
  BY DEF NoCall
<1> HIDE DEF mine
<1>3. call' = Meeting("start", mine) /\ call[User].place = "idle"
  BY DEF StartLists, UserIdle, mine
<1> QED BY <1>1, <1>2, <1>3, MeetingGoesOn DEF AllGoOn, Met, Changes

LEMMA StopUnmapsCalls ==
  ASSUME LogsTypeOK, CallsInv, NEW l \in Logs, StopUnmaps(l)
  PROVE  /\ AllGoOn /\ Met("stop") /\ call'[User].place = "stopping" /\ call'[User].log = l
         /\ NoneSteady(l)
<1> DEFINE mine == [NoCall EXCEPT !.place = "stopping", !.log = l]
           m    == Meeting("stop", mine)
<1>1. mine \in CallsType
  BY NoCallType DEF CallsType, CallPlaces
<1>2. /\ mine.place = "stopping" /\ mine.log = l /\ mine.frame = 0 /\ mine.quiet = FALSE
      /\ mine.steady = {}
  BY DEF NoCall
<1> HIDE DEF mine
<1>3. m \in [Threads -> CallsType]
  BY <1>1, MeetingType DEF LogsTypeOK, Changes
<1>4. call' = Unsteady(m, l) /\ call[User].place = "idle"
  BY DEF StopUnmaps, UserIdle, mine
<1>5. m[User] = mine
  BY UserAssumption DEF Meeting
<1>6. ASSUME NEW t \in Threads, t # User, call[t] # NoCall
      PROVE  m[t] = [call[t] EXCEPT !.met = @ \cup {"stop"}]
  BY <1>6 DEF Meeting
<1>7. ASSUME NEW t \in Threads, t # User, call[t] = NoCall PROVE m[t] = NoCall
  BY <1>7 DEF Meeting
<1> HIDE DEF m
<1>8. ASSUME NEW t \in Threads
      PROVE  /\ call'[t] = [m[t] EXCEPT !.steady = @ \ {l}]
             /\ SamePlace(m[t], call'[t]) /\ call'[t].quiet = m[t].quiet
             /\ call'[t].met = m[t].met /\ call'[t].steady = m[t].steady \ {l}
             /\ call'[t].doubled = m[t].doubled
  <2>1. m[t] \in CallsType /\ call'[t] = [m[t] EXCEPT !.steady = @ \ {l}]
    BY <1>3, <1>4 DEF Unsteady
  <2> QED BY <2>1, SteadyChanges
<1>9. GoesOn(User) /\ call'[User].place = "stopping" /\ call'[User].log = l
      /\ call'[User].frame = 0
  BY <1>2, <1>4, <1>5, <1>8, UserAssumption, ZenonT(30) DEF GoesOn, CallsInv, SamePlace
<1>10. ASSUME NEW t \in Threads, t # User
       PROVE  GoesOn(t) /\ (call[t].frame # 0 => "stop" \in call'[t].met)
  <2>1. CASE call[t] # NoCall
    <3>1. call[t] \in CallsType
      BY DEF LogsTypeOK
    <3>2. /\ SamePlace(call[t], m[t]) /\ m[t].quiet = call[t].quiet
          /\ m[t].met = call[t].met \cup {"stop"} /\ m[t].steady = call[t].steady
          /\ m[t].doubled = call[t].doubled
      BY <1>6, <1>10, <2>1, <3>1, MetChanges DEF Changes
    <3> QED BY <1>8, <1>10, <2>1, <3>2 DEF GoesOn, SamePlace
  <2>2. CASE call[t] = NoCall
    <3>1. call'[t] = NoCall
      BY <1>7, <1>8, <1>10, <2>2, NoCallChanges
    <3> QED BY <1>10, <2>2, <3>1, NoCallType DEF GoesOn
  <2> QED BY <2>1, <2>2
<1>11. AllGoOn
  BY <1>9, <1>10 DEF AllGoOn
<1>12. Met("stop")
  BY <1>4, <1>10, UserAssumption DEF Met, CallsInv
<1>13. NoneSteady(l)
  BY <1>8 DEF NoneSteady
<1> QED BY <1>9, <1>11, <1>12, <1>13

LEMMA StopUnlistsCalls ==
  ASSUME LogsTypeOK, CallsInv, StopUnlists
  PROVE  AllGoOn /\ Met("stop") /\ call'[User] = NoCall
  BY NoCallType, MeetingGoesOn DEF StopUnlists, AllGoOn, Met, Changes, NoCall

\* Switching a log on.
LEMMA DisturbedGoesOn ==
  ASSUME NEW c \in [Threads -> CallsType], NEW t \in Threads, call' = Disturbed(c)
  PROVE  /\ SamePlace(c[t], call'[t]) /\ ~call'[t].quiet
         /\ call'[t].met = c[t].met /\ call'[t].steady = c[t].steady
         /\ call'[t].doubled = c[t].doubled
         /\ c[t] = NoCall => call'[t] = NoCall
<1>1. c[t] \in CallsType /\ call'[t] = [c[t] EXCEPT !.quiet = FALSE]
  BY DEF Disturbed
<1> QED BY <1>1, HistoryChanges, NoCallChanges

\* The frames on their way know what is in the list more than once.
AllKnow == \A t \in Threads : call[t].frame # 0 => Doubled(logs') \subseteq call'[t].doubled

LEMMA AddLogCalls ==
  ASSUME LogsTypeOK, CallsInv, NEW l \in Logs, AddLog(l)
  PROVE  /\ AllGoOn /\ Met("add") /\ AllKnow /\ call'[User] = NoCall
         /\ log_to_status_map[l] = On => NoneQuiet
<1> DEFINE m == Meeting("add", NoCall)
           n == Doubling(m, Doubled(logs'))
<1>1. m \in [Threads -> CallsType]
  BY NoCallType, MeetingType DEF LogsTypeOK, Changes
<1>2. call[User].place = "idle" /\ call' = IF log_to_status_map[l] = On THEN Disturbed(n) ELSE n
  BY DEF AddLog, UserIdle
<1>3. m[User] = NoCall
  BY UserAssumption DEF Meeting
<1>4. ASSUME NEW t \in Threads, t # User, call[t] # NoCall
      PROVE  m[t] = [call[t] EXCEPT !.met = @ \cup {"add"}]
  BY <1>4 DEF Meeting
<1>5. ASSUME NEW t \in Threads, t # User, call[t] = NoCall PROVE m[t] = NoCall
  BY <1>5 DEF Meeting
<1> HIDE DEF m
<1>6. /\ n \in [Threads -> CallsType]
      /\ \A t \in Threads : KnowsMore(m[t], n[t], Doubled(logs'))
  BY <1>1, DoublingType
<1> HIDE DEF n
<1>7. ASSUME NEW t \in Threads
      PROVE  /\ SamePlace(n[t], call'[t])
             /\ call'[t].met = n[t].met /\ call'[t].steady = n[t].steady
             /\ call'[t].doubled = n[t].doubled
             /\ call'[t].quiet => n[t].quiet
             /\ log_to_status_map[l] = On => ~call'[t].quiet
             /\ n[t] = NoCall => call'[t] = NoCall
  <2>1. CASE log_to_status_map[l] # On
    BY <1>2, <2>1 DEF SamePlace
  <2>2. CASE log_to_status_map[l] = On
    BY <1>2, <1>6, <2>2, DisturbedGoesOn
  <2> QED BY <2>1, <2>2
<1>8. ASSUME NEW t \in Threads
      PROVE  /\ SamePlace(m[t], call'[t])
             /\ call'[t].met = m[t].met /\ call'[t].steady = m[t].steady
             /\ m[t].doubled \subseteq call'[t].doubled
             /\ m[t].frame # 0 => Doubled(logs') \subseteq call'[t].doubled
             /\ call'[t].quiet => m[t].quiet
             /\ m[t] = NoCall => call'[t] = NoCall
  <2>1. KnowsMore(m[t], n[t], Doubled(logs'))
    BY <1>6
  <2>2. m[t] = NoCall => call'[t] = NoCall
    BY <1>7, <2>1, NoCallType DEF KnowsMore
  <2> QED BY <1>7, <2>1, <2>2 DEF KnowsMore, SamePlace
<1>9. GoesOn(User) /\ call'[User] = NoCall /\ call[User].frame = 0
  BY <1>2, <1>3, <1>8, NoCallType, UserAssumption DEF GoesOn, CallsInv, NoCall
<1>10. ASSUME NEW t \in Threads, t # User
       PROVE  /\ GoesOn(t)
              /\ call[t].frame # 0 =>
                   "add" \in call'[t].met /\ Doubled(logs') \subseteq call'[t].doubled
  <2>1. CASE call[t] # NoCall
    <3>1. call[t] \in CallsType
      BY DEF LogsTypeOK
    <3>2. /\ SamePlace(call[t], m[t]) /\ m[t].quiet = call[t].quiet
          /\ m[t].met = call[t].met \cup {"add"} /\ m[t].steady = call[t].steady
          /\ m[t].doubled = call[t].doubled
      BY <1>4, <1>10, <2>1, <3>1, MetChanges DEF Changes
    <3> QED BY <1>8, <1>10, <2>1, <3>2 DEF GoesOn, SamePlace
  <2>2. CASE call[t] = NoCall
    BY <1>5, <1>8, <1>10, <2>2, NoCallType DEF GoesOn
  <2> QED BY <2>1, <2>2
<1>11. log_to_status_map[l] = On => NoneQuiet
  BY <1>7 DEF NoneQuiet
<1> QED BY <1>9, <1>10, <1>11, UserAssumption DEF AllGoOn, Met, AllKnow

LEMMA EnableCalls ==
  ASSUME LogsTypeOK, CallsInv, StartEnables \/ \E l \in Logs : EnableLog(l) \/ DisableLog(l)
  PROVE  AllGoOn /\ NoneQuiet /\ call'[User] = NoCall
<1> DEFINE c == [call EXCEPT ![User] = NoCall]
<1>1. c \in [Threads -> CallsType]
  BY NoCallType DEF LogsTypeOK
<1>2. call[User].frame = 0 /\ call' = Disturbed(c)
  <2>1. CASE StartEnables
    BY <2>1, UserAssumption DEF StartEnables, CallsInv
  <2>2. CASE \E l \in Logs : EnableLog(l) \/ DisableLog(l)
    <3>1. call[User] = NoCall /\ call' = Disturbed(call)
      BY <2>2, UserAssumption DEF EnableLog, DisableLog, UserIdle, CallsInv
    <3>2. call = c
      BY <3>1 DEF LogsTypeOK
    <3> QED BY <3>1, <3>2, NoCallType
  <2> QED BY <2>1, <2>2
<1>3. c[User] = NoCall /\ \A t \in Threads \ {User} : c[t] = call[t]
  BY UserAssumption DEF LogsTypeOK
<1> HIDE DEF c
<1>4. ASSUME NEW t \in Threads
      PROVE  /\ SamePlace(c[t], call'[t]) /\ ~call'[t].quiet
             /\ call'[t].met = c[t].met /\ call'[t].steady = c[t].steady
             /\ call'[t].doubled = c[t].doubled
             /\ c[t] = NoCall => call'[t] = NoCall
  BY <1>1, <1>2, DisturbedGoesOn
<1>5. GoesOn(User) /\ call'[User] = NoCall
  BY <1>2, <1>3, <1>4, NoCallType, UserAssumption DEF GoesOn, CallsInv
<1>6. ASSUME NEW t \in Threads \ {User} PROVE GoesOn(t)
  <2>1. call[t] \in CallsType /\ c[t] = call[t]
    BY <1>3 DEF LogsTypeOK
  <2> QED BY <1>4, <2>1 DEF GoesOn, SamePlace
<1> QED BY <1>4, <1>5, <1>6 DEF AllGoOn, NoneQuiet

LEMMA DisableCalls ==
  ASSUME LogsTypeOK, CallsInv
  PROVE  /\ DisableBegins =>
              AllGoOn /\ call'[User].place = "disabling" /\ call'[User].at = 1
         /\ DisableTurn =>
              /\ AllGoOn /\ NoneSteady(logs[call[User].at])
              /\ call'[User].place = "disabling" /\ call'[User].at = call[User].at + 1
         /\ DisableEnds => AllGoOn /\ call'[User] = NoCall
<1>0. call \in [Threads -> CallsType] /\ call[User] \in CallsType
  BY UserAssumption DEF LogsTypeOK
<1>1. ASSUME DisableBegins
      PROVE  AllGoOn /\ call'[User].place = "disabling" /\ call'[User].at = 1
  <2>1. /\ call[User] = NoCall
        /\ call'[User] = [NoCall EXCEPT !.place = "disabling"]
        /\ \A t \in Threads \ {User} : call'[t] = call[t]
    BY <1>0, <1>1, UserAssumption DEF DisableBegins, UserIdle, CallsInv
  <2> QED BY <2>1, UserAssumption DEF AllGoOn, GoesOn, NoCall
<1>2. ASSUME DisableTurn
      PROVE  /\ AllGoOn /\ NoneSteady(logs[call[User].at])
             /\ call'[User].place = "disabling" /\ call'[User].at = call[User].at + 1
  <2> DEFINE c == [call EXCEPT ![User].at = @ + 1]
             l == logs[call[User].at]
  <2>1. c \in [Threads -> CallsType]
    <3>1. [call[User] EXCEPT !.at = @ + 1] \in CallsType
      BY <1>0 DEF CallsType
    <3> QED BY <1>0, <3>1
  <2>2. c[User].at = call[User].at + 1 /\ c[User].place = "disabling"
        /\ c[User].frame = call[User].frame /\ c[User].quiet = call[User].quiet
    BY <1>0, <1>2, UserAssumption DEF DisableTurn, CallsType
  <2>3. \A t \in Threads \ {User} : c[t] = call[t]
    BY <1>0
  <2>4. call' = Unsteady(c, l) /\ call[User].place = "disabling"
    BY <1>2 DEF DisableTurn
  <2> HIDE DEF c, l
  <2>5. \A t \in Threads : call'[t] = [c[t] EXCEPT !.steady = @ \ {l}]
    BY <2>4 DEF Unsteady
  <2>6. ASSUME NEW t \in Threads
        PROVE  /\ l \notin call'[t].steady /\ call'[t].steady \subseteq c[t].steady
               /\ call'[t].frame = c[t].frame /\ call'[t].place = c[t].place
               /\ call'[t].at = c[t].at /\ call'[t].log = c[t].log
               /\ call'[t].met = c[t].met /\ call'[t].quiet = c[t].quiet
               /\ call'[t].doubled = c[t].doubled
               /\ c[t] = NoCall => call'[t] = NoCall
    <3>1. c[t] \in CallsType
      BY <2>1
    <3>2. call'[t] = [c[t] EXCEPT !.steady = @ \ {l}]
      BY <2>5
    <3>3. c[t] = NoCall => call'[t] = NoCall
      BY <3>2, NoCallChanges
    <3> QED BY <3>1, <3>2, <3>3, SteadyChanges DEF SamePlace
  <2>7. GoesOn(User)
    BY <2>2, <2>4, <2>6, UserAssumption DEF GoesOn, CallsInv
  <2>8. \A t \in Threads \ {User} : GoesOn(t)
    BY <2>3, <2>6 DEF GoesOn
  <2> QED BY <2>2, <2>6, <2>7, <2>8, UserAssumption DEF AllGoOn, NoneSteady, l
<1>3. ASSUME DisableEnds PROVE AllGoOn /\ call'[User] = NoCall
  <2>1. /\ call[User].place = "disabling" /\ call'[User] = NoCall
        /\ \A t \in Threads \ {User} : call'[t] = call[t]
    BY <1>0, <1>3, UserAssumption DEF DisableEnds
  <2> QED BY <2>1, NoCallType, UserAssumption DEF AllGoOn, GoesOn, CallsInv, NoCall
<1> QED BY <1>1, <1>2, <1>3

LEMMA UserGoesOn ==
  ASSUME LogsTypeOK, CallsInv, UserStep
  PROVE  /\ AllGoOn /\ UNCHANGED <<events, frames>> /\ made \subseteq made'
         /\ \A l \in made' \ made : events[l] = <<>>
         /\ \A l \in Logs \ made' : log_to_status_map'[l] = Unmapped
         /\ \/ call'[User] = NoCall
            \/ call'[User].place \in {"starting", "stopping"} /\ call'[User].log \in made'
            \/ call'[User].place = "disabling"
<1> USE DEF LogsTypeOK, CallsInv
<1>1. ASSUME NEW l \in Logs, StartLists(l)
      PROVE  /\ UNCHANGED <<events, frames, log_to_status_map>> /\ made' = made \cup {l}
             /\ AllGoOn /\ call'[User].place = "starting" /\ call'[User].log = l
  <2>1. UNCHANGED <<events, frames, log_to_status_map>> /\ made' = made \cup {l}
    BY <1>1 DEF StartLists
  <2> QED BY <1>1, <2>1, StartListsCalls
<1>2. ASSUME NEW l \in Logs, AddLog(l)
      PROVE  /\ UNCHANGED <<events, frames, log_to_status_map>> /\ made' = made \cup {l}
             /\ AllGoOn /\ call'[User] = NoCall
  BY <1>2, AddLogCalls DEF AddLog
<1>3. ASSUME NEW l \in Logs, EnableLog(l) \/ DisableLog(l)
      PROVE  /\ UNCHANGED <<events, frames, made>> /\ l \in made
             /\ log_to_status_map' = [log_to_status_map EXCEPT ![l] = On]
             /\ AllGoOn /\ call'[User] = NoCall
  BY <1>3, EnableCalls DEF EnableLog, DisableLog, SwitchesOn
<1>4. ASSUME NEW l \in Logs, StopUnmaps(l)
      PROVE  /\ UNCHANGED <<events, frames, made>> /\ l \in made
             /\ log_to_status_map' = [log_to_status_map EXCEPT ![l] = Unmapped]
             /\ AllGoOn /\ call'[User].place = "stopping" /\ call'[User].log = l
  <2>1. /\ UNCHANGED <<events, frames, made>>
        /\ log_to_status_map' = [log_to_status_map EXCEPT ![l] = Unmapped]
    BY <1>4 DEF StopUnmaps
  <2>2. l \in made
    BY <1>4 DEF StopUnmaps
  <2> QED BY <1>4, <2>1, <2>2, StopUnmapsCalls
<1>5. CASE StartEnables
  <2>1. call[User].log \in made
    BY <1>5, UserAssumption DEF StartEnables
  <2>2. /\ UNCHANGED <<events, frames, made>>
        /\ log_to_status_map' = [log_to_status_map EXCEPT ![call[User].log] = On]
    BY <1>5 DEF StartEnables, SwitchesOn
  <2> QED BY <1>5, <2>1, <2>2, EnableCalls
<1>6. CASE StopUnlists
  <2>1. UNCHANGED <<events, frames, made, log_to_status_map>>
    BY <1>6 DEF StopUnlists
  <2> QED BY <1>6, <2>1, StopUnlistsCalls
<1>7. CASE DisableBegins \/ DisableEnds
  <2>1. UNCHANGED <<events, frames, made, log_to_status_map>>
    BY <1>7 DEF DisableBegins, DisableEnds
  <2> QED BY <1>7, <2>1, DisableCalls
<1>8. CASE DisableTurn
  <2>1. logs[call[User].at] \in made
    BY <1>8 DEF DisableTurn, InList, ToSet
  <2>2. /\ UNCHANGED <<events, frames, made>>
        /\ log_to_status_map' = [log_to_status_map EXCEPT ![logs[call[User].at]] = Off]
    BY <1>8 DEF DisableTurn, DisabledStatus
  <2> QED BY <1>8, <2>1, <2>2, DisableCalls
<1>9. CASE \E l \in Logs : StartLists(l) \/ AddLog(l)
  BY <1>1, <1>2, <1>9
<1>10. CASE \E l \in Logs : EnableLog(l) \/ DisableLog(l)
  BY <1>3, <1>10
<1>11. CASE \E l \in Logs : StopUnmaps(l)
  BY <1>4, <1>11
<1> QED BY <1>5, <1>6, <1>7, <1>8, <1>9, <1>10, <1>11 DEF UserStep

LEMMA CallsUserStep ==
  ASSUME LogsTypeOK, CallsInv, UserStep
  PROVE  CallsInv'
<1>1. ASSUME NEW t \in Threads
      PROVE  /\ call'[t].place = "idle" => call'[t] = NoCall
             /\ t # User => call'[t].place \in {"idle", "loop", "status", "log"}
             /\ call'[t].frame # 0 <=> call'[t].place \in {"loop", "status", "log"}
             /\ call'[t].frame = call[t].frame /\ call'[t].frame <= frames'
             /\ call'[t].place \in {"status", "log", "starting", "stopping"}
                  => call'[t].log \in made'
  <2>1. GoesOn(t) /\ frames' = frames /\ made \subseteq made'
    BY UserGoesOn DEF AllGoOn
  <2>2. CASE t = User
    <3>1. /\ call[t].frame # 0 <=> call[t].place \in {"loop", "status", "log"}
          /\ call[t].frame <= frames
      BY DEF CallsInv
    <3>2. call'[t].frame # 0 <=> call'[t].place \in {"loop", "status", "log"}
      BY <2>1, <3>1 DEF GoesOn
    <3>3. CASE call'[t] = NoCall
      BY <2>1, <2>2, <3>1, <3>2, <3>3, NoCallType DEF GoesOn
    <3>4. CASE call'[t].place \in {"starting", "stopping"} /\ call'[t].log \in made'
      BY <2>1, <2>2, <3>1, <3>2, <3>4 DEF GoesOn
    <3>5. CASE call'[t].place = "disabling"
      BY <2>1, <2>2, <3>1, <3>2, <3>5 DEF GoesOn
    <3> QED BY <2>2, <3>3, <3>4, <3>5, UserGoesOn
  <2>3. CASE t # User
    BY <2>1, <2>3 DEF GoesOn, CallsInv
  <2> QED BY <2>2, <2>3
<1>2. \A l \in Logs : l \notin made' => events'[l] = <<>> /\ log_to_status_map'[l] = Unmapped
  BY UserGoesOn DEF CallsInv
<1>3. events' = events /\ frames' = frames
  BY UserGoesOn
<1>4. \A l \in Logs : \A i \in DOMAIN events'[l] :
        events'[l][i].frame # 0 /\ events'[l][i].frame <= frames'
  BY <1>3 DEF CallsInv
<1>5. \A t, u \in Threads : call'[t].frame = call'[u].frame /\ call'[t].frame # 0 => t = u
  BY <1>1 DEF CallsInv
<1> QED BY <1>1, <1>2, <1>4, <1>5 DEF CallsInv

-----------------------------------------------------------------------------
(* The frames *)

\* A step of thread t's frame leaves the other calls, the list and the status map alone.
OnlyMoves(t) ==
  /\ \A u \in Threads \ {t} : call'[u] = call[u]
  /\ UNCHANGED <<logs, log_to_status_map, made, added, quiet>>

LEMMA FrameBeginsCalls ==
  ASSUME LogsTypeOK, CallsInv, NEW t \in Threads, FrameBegins(t)
  PROVE  /\ OnlyMoves(t) /\ events' = events /\ frames' = frames + 1 /\ call[t] = NoCall
         /\ call'[t].place = "loop" /\ call'[t].frame = frames + 1 /\ call'[t].at = 1
         /\ call'[t].steady = SwitchedOn /\ call'[t].met = Changing /\ call'[t].quiet = quiet
         /\ call'[t].doubled = Doubled(logs)
<1>1. call'[t] = [place |-> "loop", frame |-> frames + 1, at |-> 1, log |-> NoLog,
                  steady |-> SwitchedOn, met |-> Changing, doubled |-> Doubled(logs),
                  quiet |-> quiet]
      /\ \A u \in Threads \ {t} : call'[u] = call[u]
  BY DEF FrameBegins, LogsTypeOK
<1>2. /\ call'[t].place = "loop" /\ call'[t].frame = frames + 1 /\ call'[t].at = 1
      /\ call'[t].steady = SwitchedOn /\ call'[t].met = Changing /\ call'[t].quiet = quiet
      /\ call'[t].doubled = Doubled(logs)
  BY <1>1 DEF NoCall
<1> QED BY <1>1, <1>2 DEF FrameBegins, OnlyMoves, CallsInv

LEMMA FrameEndsCalls ==
  ASSUME LogsTypeOK, CallsInv, NEW t \in Threads,
         FrameDone(t) \/ StatusMissing(t) \/ FrameIsPassedOn(t)
  PROVE  /\ OnlyMoves(t) /\ events' = events /\ call'[t] = NoCall
         /\ call[t].place \in {"loop", "status", "idle"}
         /\ frames' = frames \/ frames' = frames + 1
<1>1. CASE FrameDone(t) \/ StatusMissing(t)
  BY <1>1 DEF FrameDone, AtLoop, StatusMissing, OnlyMoves, LogsTypeOK
<1>2. CASE FrameIsPassedOn(t)
  BY <1>2 DEF FrameIsPassedOn, OnlyMoves, CallsInv
<1> QED BY <1>1, <1>2

\* Thread t's frame goes on, and is still the same one.
SameFrame(t) ==
  /\ call'[t].frame = call[t].frame /\ call'[t].steady = call[t].steady
  /\ call'[t].met = call[t].met /\ call'[t].doubled = call[t].doubled
  /\ call'[t].quiet = call[t].quiet

LEMMA LoopTurnCalls ==
  ASSUME LogsTypeOK, CallsInv, NEW t \in Threads, LoopTurn(t)
  PROVE  /\ OnlyMoves(t) /\ SameFrame(t) /\ UNCHANGED <<events, frames>>
         /\ call[t].place = "loop" /\ call[t].at \in DOMAIN logs
         /\ call'[t].place = "status" /\ call'[t].log = logs[call[t].at]
         /\ call'[t].at = call[t].at + 1
<1>1. call[t] \in CallsType
  BY DEF LogsTypeOK
<1>2. call'[t] = [call[t] EXCEPT !.place = "status", !.log = logs[call[t].at], !.at = @ + 1]
      /\ \A u \in Threads \ {t} : call'[u] = call[u]
  BY DEF LoopTurn, Following, LogsTypeOK
<1>3. SameFrame(t) /\ call'[t].place = "status" /\ call'[t].log = logs[call[t].at]
      /\ call'[t].at = call[t].at + 1
  BY <1>1, <1>2 DEF SameFrame, CallsType
<1> QED BY <1>2, <1>3 DEF LoopTurn, AtLoop, InList, OnlyMoves

LEMMA StatusLookedUpCalls ==
  ASSUME LogsTypeOK, CallsInv, NEW t \in Threads, StatusLookedUp(t)
  PROVE  /\ OnlyMoves(t) /\ SameFrame(t) /\ UNCHANGED <<events, frames>>
         /\ call[t].place = "status"
         /\ call'[t].at = call[t].at /\ call'[t].log = call[t].log
         /\ \/ call'[t].place = "log" /\ log_to_status_map[call[t].log] = On
            \/ call'[t].place = "loop" /\ log_to_status_map[call[t].log] # On
<1>1. call[t] \in CallsType
  BY DEF LogsTypeOK
<1>2. PICK p : /\ call' = [call EXCEPT ![t].place = p]
               /\ \/ p = "log" /\ log_to_status_map[call[t].log] = On
                  \/ p = "loop" /\ log_to_status_map[call[t].log] # On
  <2>1. CASE StatusOf(t) = On
    BY <2>1 DEF StatusLookedUp, StatusOf
  <2>2. CASE StatusOf(t) # On
    BY <2>2 DEF StatusLookedUp, StatusOf
  <2> QED BY <2>1, <2>2
<1>3. call'[t] = [call[t] EXCEPT !.place = p] /\ \A u \in Threads \ {t} : call'[u] = call[u]
  BY <1>2 DEF LogsTypeOK
<1>4. SameFrame(t) /\ call'[t].place = p /\ call'[t].at = call[t].at
      /\ call'[t].log = call[t].log
  BY <1>1, <1>3 DEF SameFrame, CallsType
<1> QED BY <1>2, <1>3, <1>4 DEF StatusLookedUp, OnlyMoves

LEMMA EventIsLoggedCalls ==
  ASSUME LogsTypeOK, CallsInv, NEW t \in Threads, EventIsLogged(t)
  PROVE  /\ OnlyMoves(t) /\ SameFrame(t) /\ frames' = frames
         /\ call[t].place = "log" /\ call'[t].place = "loop"
         /\ call'[t].at = call[t].at /\ call'[t].log = call[t].log
<1>1. call[t] \in CallsType
  BY DEF LogsTypeOK
<1>2. call'[t] = [call[t] EXCEPT !.place = "loop"]
      /\ \A u \in Threads \ {t} : call'[u] = call[u]
  BY DEF EventIsLogged, LogsTypeOK
<1>3. SameFrame(t) /\ call'[t].place = "loop" /\ call'[t].at = call[t].at
      /\ call'[t].log = call[t].log
  BY <1>1, <1>2 DEF SameFrame, CallsType
<1> QED BY <1>2, <1>3 DEF EventIsLogged, OnlyMoves

\* The one log gets the one frame, and no log another.
LEMMA EventIsLoggedTook ==
  ASSUME LogsTypeOK, CallsInv, NEW t \in Threads, EventIsLogged(t)
  PROVE  /\ \A l \in Logs, f \in Nat :
              Took(l, f)' <=> Took(l, f) \/ (l = call[t].log /\ f = call[t].frame)
         /\ \A l \in Logs : \A i \in DOMAIN events'[l] :
              \/ events'[l][i].frame = call[t].frame
              \/ i \in DOMAIN events[l] /\ events'[l][i] = events[l][i]
         /\ \A l \in Logs : events'[l] = events[l] \/ l = call[t].log
<1> DEFINE k == call[t].log
           f == call[t].frame
           e == [frame |-> f, by |-> t]
<1>1. k \in Logs /\ f \in Nat
  BY DEF EventIsLogged, CallsInv, LogsTypeOK, CallsType
<1>2. events' = [events EXCEPT ![k] = Append(@, e)]
      /\ events \in [Logs -> Seq([frame : Nat, by : Threads])]
  BY DEF EventIsLogged, LogsTypeOK
<1>3. \A l \in Logs : l # k => events'[l] = events[l]
  BY <1>2
<1>4. /\ events'[k] = Append(events[k], e)
      /\ DOMAIN events'[k] = DOMAIN events[k] \cup {Len(events[k]) + 1}
      /\ \A i \in DOMAIN events[k] : events'[k][i] = events[k][i]
      /\ events'[k][Len(events[k]) + 1].frame = f
  <2>1. events[k] \in Seq([frame : Nat, by : Threads]) /\ events'[k] = Append(events[k], e)
    BY <1>1, <1>2
  <2>2. f \in Nat
    BY <1>1
  <2> HIDE DEF f, k
  <2> QED BY <2>1, <2>2, EventAppended
<1> HIDE DEF e, k, f
<1>5. ASSUME NEW l \in Logs, NEW g \in Nat
      PROVE  Took(l, g)' <=> Took(l, g) \/ (l = k /\ g = f)
  <2>1. CASE l # k
    BY <1>3, <2>1 DEF Took
  <2>2. CASE l = k
    BY <1>4, <2>2 DEF Took
  <2> QED BY <2>1, <2>2
<1>6. ASSUME NEW l \in Logs, NEW i \in DOMAIN events'[l]
      PROVE  \/ events'[l][i].frame = f
             \/ i \in DOMAIN events[l] /\ events'[l][i] = events[l][i]
  <2>1. CASE l # k
    BY <1>3, <1>6, <2>1
  <2>2. CASE l = k
    <3>1. i \in DOMAIN events[k] \/ i = Len(events[k]) + 1
      BY <1>4, <1>6, <2>2
    <3>2. i \in DOMAIN events[k] => events'[k][i] = events[k][i]
      BY <1>4
    <3>3. i = Len(events[k]) + 1 => events'[k][i].frame = f
      BY <1>4
    <3>4. events'[l] = events'[k] /\ events[l] = events[k]
      BY <2>2
    <3>5. CASE i \in DOMAIN events[k]
      BY <3>2, <3>4, <3>5
    <3>6. CASE i = Len(events[k]) + 1
      BY <3>3, <3>4, <3>6
    <3> QED BY <3>1, <3>5, <3>6
  <2> QED BY <2>1, <2>2
<1> QED BY <1>3, <1>5, <1>6 DEF k, f

LEMMA CallsTransferStep ==
  ASSUME LogsTypeOK, CallsInv, NEW t \in Threads, FrameStep(t)
  PROVE  CallsInv'
<1>0. /\ frames \in Nat /\ \A u \in Threads : call[u].frame \in Nat
      /\ \A l \in Logs : \A i \in DOMAIN events[l] :
           events[l][i].frame <= frames /\ events[l][i].frame <= frames + 1
  <2>1. frames \in Nat /\ \A u \in Threads : call[u].frame \in Nat
    BY DEF LogsTypeOK, CallsType
  <2>2. ASSUME NEW l \in Logs, NEW i \in DOMAIN events[l]
        PROVE  events[l][i].frame <= frames /\ events[l][i].frame <= frames + 1
    <3>1. events[l] \in Seq([frame : Nat, by : Threads])
      BY DEF LogsTypeOK
    <3>2. events[l][i] \in [frame : Nat, by : Threads]
      BY <3>1, ElementOf
    <3>3. events[l][i].frame \in Nat
      BY <3>2
    <3>4. events[l][i].frame <= frames
      BY DEF CallsInv
    <3> QED BY <2>1, <3>3, <3>4
  <2> QED BY <2>1, <2>2
<1>1. CASE FrameBegins(t)
  <2>2. /\ \A u \in Threads \ {t} : call'[u] = call[u]
        /\ UNCHANGED <<logs, log_to_status_map, made, events>>
        /\ frames' = frames + 1 /\ call'[t].place = "loop" /\ call'[t].frame = frames + 1
    BY <1>1, FrameBeginsCalls DEF OnlyMoves
  <2>3. ASSUME NEW u \in Threads
        PROVE  /\ call'[u].place = "idle" => call'[u] = NoCall
               /\ u # User => call'[u].place \in {"idle", "loop", "status", "log"}
               /\ call'[u].frame # 0 <=> call'[u].place \in {"loop", "status", "log"}
               /\ call'[u].frame <= frames'
               /\ call'[u].place \in {"status", "log", "starting", "stopping"}
                    => call'[u].log \in made'
    BY <1>0, <2>2 DEF CallsInv
  <2>4. ASSUME NEW u \in Threads, NEW v \in Threads,
               call'[u].frame = call'[v].frame, call'[u].frame # 0
        PROVE  u = v
    BY <1>0, <2>2, <2>4 DEF CallsInv
  <2> QED BY <1>0, <2>2, <2>3, <2>4 DEF CallsInv
<1>2. CASE FrameDone(t) \/ StatusMissing(t) \/ FrameIsPassedOn(t)
  <2>1. /\ \A u \in Threads \ {t} : call'[u] = call[u]
        /\ UNCHANGED <<logs, log_to_status_map, made, events>> /\ call'[t] = NoCall
        /\ frames' = frames \/ frames' = frames + 1
    BY <1>2, FrameEndsCalls DEF OnlyMoves
  <2>2. ASSUME NEW u \in Threads
        PROVE  /\ call'[u].place = "idle" => call'[u] = NoCall
               /\ u # User => call'[u].place \in {"idle", "loop", "status", "log"}
               /\ call'[u].frame # 0 <=> call'[u].place \in {"loop", "status", "log"}
               /\ call'[u].frame <= frames'
               /\ call'[u].place \in {"status", "log", "starting", "stopping"}
                    => call'[u].log \in made'
    <3>1. CASE u = t
      BY <1>0, <2>1, <3>1, NoCallType DEF NoCall
    <3>2. CASE u # t
      <4>1. call'[u] = call[u] /\ call[u].frame <= frames /\ call[u].frame <= frames + 1
        BY <1>0, <2>1, <3>2 DEF CallsInv
      <4> QED BY <2>1, <4>1 DEF CallsInv
    <3> QED BY <3>1, <3>2
  <2>3. ASSUME NEW u \in Threads, NEW v \in Threads,
               call'[u].frame = call'[v].frame, call'[u].frame # 0
        PROVE  u = v
    BY <2>1, <2>3, NoCallType DEF CallsInv
  <2>4. \A l \in Logs : \A i \in DOMAIN events'[l] :
          events'[l][i].frame # 0 /\ events'[l][i].frame <= frames'
    <3>1. ASSUME NEW l \in Logs, NEW i \in DOMAIN events[l]
          PROVE  events[l][i].frame # 0 /\ events[l][i].frame <= frames'
      <4>1. events[l][i].frame # 0
        BY DEF CallsInv
      <4> QED BY <1>0, <2>1, <4>1
    <3> QED BY <2>1, <3>1
  <2>5. \A l \in Logs : l \notin made' => events'[l] = <<>> /\ log_to_status_map'[l] = Unmapped
    BY <2>1 DEF CallsInv
  <2> QED BY <2>2, <2>3, <2>4, <2>5 DEF CallsInv
<1>3. CASE LoopTurn(t)
  <2>1. logs[call[t].at] \in made
    BY <1>3, LoopTurnCalls DEF LogsTypeOK, ToSet
  <2> QED BY <1>3, <2>1, LoopTurnCalls DEF OnlyMoves, SameFrame, CallsInv
<1>4. CASE StatusLookedUp(t)
  BY <1>4, StatusLookedUpCalls DEF OnlyMoves, SameFrame, CallsInv
<1>5. CASE EventIsLogged(t)
  <2>1. call[t].frame # 0 /\ call[t].frame <= frames /\ call[t].log \in made
    BY <1>5, EventIsLoggedCalls DEF CallsInv
  <2>2. /\ \A l \in Logs : \A i \in DOMAIN events'[l] :
             events'[l][i].frame # 0 /\ events'[l][i].frame <= frames'
        /\ \A l \in Logs : l \notin made' =>
             events'[l] = <<>> /\ log_to_status_map'[l] = Unmapped
    BY <1>5, <2>1, EventIsLoggedCalls, EventIsLoggedTook DEF OnlyMoves, CallsInv
  <2> QED BY <1>5, <2>2, EventIsLoggedCalls DEF OnlyMoves, SameFrame, CallsInv
<1> QED BY <1>1, <1>2, <1>3, <1>4, <1>5 DEF FrameStep

-----------------------------------------------------------------------------
(* The status of a log *)

LEMMA NothingChanges ==
  /\ call[User].place \notin {"starting", "stopping"} => Changing = {}
  /\ call'[User].place \notin {"starting", "stopping"} => Changing' = {}
  /\ call'[User].place = call[User].place => Changing' = Changing
  /\ call[User].place = "starting" <=> Changing = {"start"}
  /\ call'[User].place = "starting" <=> Changing' = {"start"}
  /\ call'[User].place = "stopping" => Changing' = {"stop"}
  /\ Changing = {} \/ Changing = {"start"} \/ Changing = {"stop"}
  BY DEF Changing

\* Where every frame has met the change, the log of each is excused.
LEMMA StatusMetStep ==
  ASSUME LogsTypeOK, CallsInv, StatusInv, AllGoOn,
         NEW change \in {"start", "stop"}, Met(change), Changing' \subseteq {change},
         \A l \in ToSet(logs') : log_to_status_map'[l] = Unmapped =>
           l \in added' \/ (Changing' # {} /\ call'[User].log = l)
  PROVE  StatusInv'
<1>1. ASSUME NEW t \in Threads, call'[t].frame # 0
      PROVE  Changing' \subseteq call'[t].met /\ call'[t].met \cap {"start", "stop"} # {}
  BY <1>1 DEF AllGoOn, GoesOn, Met
<1>2. ASSUME NEW t \in Threads, call'[t].place = "status"
      PROVE  call'[t].frame # 0
  BY <1>2 DEF AllGoOn, GoesOn, CallsInv
<1> QED BY <1>1, <1>2 DEF StatusInv, FramesAreLostToChangesOnly

\* Where log k is switched on or off, or no log is.
LEMMA StatusKeptStep ==
  ASSUME LogsTypeOK, CallsInv, StatusInv, AllGoOn, Changing' = {},
         \A l \in ToSet(logs') : log_to_status_map'[l] = Unmapped => l \in added',
         \A l \in Logs : log_to_status_map'[l] = Unmapped =>
           log_to_status_map[l] = Unmapped /\ (l \in added => l \in added')
  PROVE  StatusInv'
<1>1. ASSUME NEW t \in Threads, call'[t].place = "status", StatusOf(t)' = Unmapped
      PROVE  call'[t].met \cap {"start", "stop"} # {} \/ call'[t].log \in added'
  <2>1. /\ call[t].place = "status" /\ call'[t].log = call[t].log
        /\ call[t].met \subseteq call'[t].met /\ call[t].log \in Logs
    BY <1>1 DEF AllGoOn, GoesOn, CallsInv, LogsTypeOK
  <2>2. StatusOf(t) = Unmapped
    BY <1>1, <2>1 DEF StatusOf
  <2> QED BY <1>1, <2>1, <2>2 DEF StatusInv, FramesAreLostToChangesOnly, StatusOf
<1> QED BY <1>1 DEF StatusInv, FramesAreLostToChangesOnly

LEMMA StatusUserStep ==
  ASSUME LogsTypeOK, CallsInv, StatusInv, UserStep
  PROVE  StatusInv'
<1>1. ASSUME NEW l \in Logs, StartLists(l) PROVE StatusInv'
  <2>0. call[User].place = "idle"
    BY <1>1 DEF StartLists, UserIdle
  <2>1. /\ AllGoOn /\ Met("start") /\ Changing' = {"start"} /\ call'[User].log = l
        /\ Changing = {}
    BY <1>1, <2>0, StartListsCalls, NothingChanges
  <2>2. ToSet(logs') = ToSet(logs) \cup {l}
    BY <1>1, Appended DEF StartLists, Listing, LogsTypeOK
  <2>3. UNCHANGED <<log_to_status_map, added>>
    BY <1>1 DEF StartLists
  <2> QED BY <2>1, <2>2, <2>3, StatusMetStep DEF StatusInv
<1>2. ASSUME NEW l \in Logs, AddLog(l) PROVE StatusInv'
  <2>1. AllGoOn /\ Changing' = {} /\ Changing = {}
    BY <1>2, AddLogCalls, NoCallType, NothingChanges DEF AddLog, UserIdle
  <2>2. ToSet(logs') = ToSet(logs) \cup {l}
    BY <1>2, Appended DEF AddLog, LogsTypeOK
  <2>3. /\ log_to_status_map' = log_to_status_map /\ added \subseteq added'
        /\ log_to_status_map[l] = Unmapped => l \in added'
    BY <1>2 DEF AddLog
  <2> QED BY <2>1, <2>2, <2>3, StatusKeptStep DEF StatusInv
<1>3. ASSUME NEW l \in Logs, EnableLog(l) \/ DisableLog(l) PROVE StatusInv'
  <2>1. AllGoOn /\ Changing' = {} /\ Changing = {}
    BY <1>3, EnableCalls, NoCallType, NothingChanges DEF EnableLog, DisableLog, UserIdle
  <2>2. /\ logs' = logs /\ added' = added \ {l}
        /\ log_to_status_map' = [log_to_status_map EXCEPT ![l] = On]
    BY <1>3 DEF EnableLog, DisableLog, SwitchesOn
  <2>3. \A k \in Logs : log_to_status_map'[k] = Unmapped =>
                          log_to_status_map[k] = Unmapped /\ k # l
    BY <2>2 DEF LogsTypeOK, On, Unmapped
  <2> QED BY <2>1, <2>2, <2>3, StatusKeptStep DEF StatusInv, LogsTypeOK
<1>4. ASSUME NEW l \in Logs, StopUnmaps(l) PROVE StatusInv'
  <2>0. call[User].place = "idle"
    BY <1>4 DEF StopUnmaps, UserIdle
  <2>1. /\ AllGoOn /\ Met("stop") /\ Changing' = {"stop"} /\ call'[User].log = l
        /\ Changing = {}
    BY <1>4, <2>0, StopUnmapsCalls, NothingChanges
  <2>2. /\ logs' = logs /\ added' = added
        /\ log_to_status_map' = [log_to_status_map EXCEPT ![l] = Unmapped]
    BY <1>4 DEF StopUnmaps
  <2>3. \A k \in ToSet(logs') : log_to_status_map'[k] = Unmapped => k \in added' \/ k = l
    BY <2>1, <2>2 DEF StatusInv, LogsTypeOK
  <2> QED BY <2>1, <2>3, StatusMetStep
<1>5. CASE StartEnables
  <2> DEFINE l == call[User].log
  <2>1. AllGoOn /\ Changing' = {}
    BY <1>5, EnableCalls, NoCallType, NothingChanges
  <2>2. /\ logs' = logs /\ added' = added \ {l}
        /\ log_to_status_map' = [log_to_status_map EXCEPT ![l] = On]
    BY <1>5 DEF StartEnables, SwitchesOn
  <2>3. \A k \in Logs : log_to_status_map'[k] = Unmapped =>
                          log_to_status_map[k] = Unmapped /\ k # l
    BY <2>2 DEF LogsTypeOK, On, Unmapped
  <2> QED BY <2>1, <2>2, <2>3, StatusKeptStep DEF StatusInv, LogsTypeOK
<1>6. CASE StopUnlists
  <2>1. /\ AllGoOn /\ Met("stop") /\ Changing' = {} /\ Changing' \subseteq {"stop"}
    BY <1>6, StopUnlistsCalls, NoCallType, NothingChanges
  <2>2. /\ ToSet(logs') \subseteq ToSet(logs) /\ log_to_status_map' = log_to_status_map
        /\ added \subseteq added'
        /\ call[User].log \in ToSet(logs') => call[User].log \in added'
    BY <1>6, Removed, WithinElements DEF StopUnlists, LogsTypeOK
  <2>3. \A k \in ToSet(logs') : log_to_status_map'[k] = Unmapped => k \in added'
    BY <2>2 DEF StatusInv
  <2> QED BY <2>1, <2>3, StatusMetStep
<1>7. CASE DisableBegins \/ DisableEnds
  <2>1. AllGoOn /\ Changing' = {} /\ Changing = {}
    BY <1>7, DisableCalls, NoCallType, NothingChanges DEF DisableBegins, DisableEnds, UserIdle
  <2>2. UNCHANGED <<logs, log_to_status_map, added>>
    BY <1>7 DEF DisableBegins, DisableEnds
  <2> QED BY <2>1, <2>2, StatusKeptStep DEF StatusInv
<1>8. CASE DisableTurn
  <2> DEFINE l == logs[call[User].at]
  <2>1. AllGoOn /\ Changing' = {} /\ Changing = {}
    BY <1>8, DisableCalls, NothingChanges DEF DisableTurn
  <2>2. /\ logs' = logs /\ added' = added \ {l}
        /\ log_to_status_map' = [log_to_status_map EXCEPT ![l] = Off]
    BY <1>8 DEF DisableTurn, DisabledStatus
  <2>3. \A k \in Logs : log_to_status_map'[k] = Unmapped =>
                          log_to_status_map[k] = Unmapped /\ k # l
    BY <2>2 DEF LogsTypeOK, Off, Unmapped
  <2> QED BY <2>1, <2>2, <2>3, StatusKeptStep DEF StatusInv, LogsTypeOK
<1>9. CASE \E l \in Logs : StartLists(l) \/ AddLog(l)
  BY <1>1, <1>2, <1>9
<1>10. CASE \E l \in Logs : EnableLog(l) \/ DisableLog(l) \/ StopUnmaps(l)
  BY <1>3, <1>4, <1>10
<1> QED BY <1>5, <1>6, <1>7, <1>8, <1>9, <1>10 DEF UserStep

\* The user does not change the logs while in a frame.
LEMMA TransferChanging ==
  ASSUME LogsTypeOK, CallsInv, NEW t \in Threads, OnlyMoves(t),
         call[t].place \notin {"starting", "stopping"},
         call'[t].place \notin {"starting", "stopping"}
  PROVE  Changing' = Changing
<1>1. CASE t = User
  BY <1>1, NothingChanges
<1>2. CASE t # User
  BY <1>2, UserAssumption, NothingChanges DEF OnlyMoves
<1> QED BY <1>1, <1>2

LEMMA StatusTransferStep ==
  ASSUME LogsTypeOK, CallsInv, StatusInv, NEW t \in Threads, FrameStep(t)
  PROVE  StatusInv'
<1>1. /\ OnlyMoves(t)
      /\ call[t].place \notin {"starting", "stopping"}
      /\ call'[t].place \notin {"starting", "stopping"}
      /\ call'[t].frame # 0 => Changing \subseteq call'[t].met
      /\ call'[t].place = "status" =>
           /\ call'[t].log \in ToSet(logs) /\ call'[t].frame # 0
  <2>1. CASE FrameBegins(t)
    BY <2>1, FrameBeginsCalls, NoCallType
  <2>2. CASE FrameDone(t) \/ StatusMissing(t) \/ FrameIsPassedOn(t)
    BY <2>2, FrameEndsCalls, NoCallType
  <2>3. CASE LoopTurn(t)
    BY <2>3, LoopTurnCalls DEF ToSet, SameFrame, StatusInv, CallsInv
  <2>4. CASE StatusLookedUp(t)
    BY <2>4, StatusLookedUpCalls DEF SameFrame, StatusInv
  <2>5. CASE EventIsLogged(t)
    BY <2>5, EventIsLoggedCalls DEF SameFrame, StatusInv
  <2> QED BY <2>1, <2>2, <2>3, <2>4, <2>5 DEF FrameStep
<1>2. Changing' = Changing
  BY <1>1, TransferChanging
<1>3. ASSUME NEW l \in ToSet(logs), log_to_status_map[l] = Unmapped
      PROVE  l \in added \/ (Changing # {} /\ call'[User].log = l)
  <2>1. l \in added \/ (Changing # {} /\ call[User].log = l)
    BY <1>3 DEF StatusInv
  <2>2. Changing # {} => t # User
    BY <1>1, NothingChanges
  <2> QED BY <1>1, <2>1, <2>2, UserAssumption DEF OnlyMoves
<1>4. ASSUME NEW u \in Threads
      PROVE  /\ call'[u].frame # 0 => Changing \subseteq call'[u].met
             /\ call'[u].place = "status" /\ StatusOf(u)' = Unmapped =>
                  call'[u].met \cap {"start", "stop"} # {} \/ call'[u].log \in added
  <2>1. CASE u # t
    BY <1>1, <2>1 DEF OnlyMoves, StatusInv, FramesAreLostToChangesOnly, StatusOf
  <2>2. CASE u = t
    <3>1. ASSUME call'[t].place = "status", StatusOf(t)' = Unmapped,
                 call'[t].log \notin added
          PROVE  call'[t].met \cap {"start", "stop"} # {}
      <4>1. log_to_status_map[call'[t].log] = Unmapped
        BY <1>1, <3>1 DEF OnlyMoves, StatusOf
      <4>2. Changing # {}
        BY <1>1, <3>1, <4>1 DEF StatusInv
      <4>3. Changing \subseteq call'[t].met
        BY <1>1, <3>1
      <4> QED BY <4>2, <4>3, NothingChanges
    <3> QED BY <1>1, <2>2, <3>1
  <2> QED BY <2>1, <2>2
<1> QED BY <1>1, <1>2, <1>3, <1>4 DEF StatusInv, OnlyMoves, FramesAreLostToChangesOnly

-----------------------------------------------------------------------------
(* Quiet *)

LEMMA QuietKeptStep ==
  ASSUME LogsTypeOK, CallsInv, QuietInv, AllGoOn, UNCHANGED <<events, frames>>,
         quiet' => \A l \in ToSet(logs') : log_to_status_map'[l] # On,
         NoneQuiet \/ (/\ quiet => quiet'
                       /\ \A l \in Logs :
                            log_to_status_map'[l] = On => log_to_status_map[l] = On),
         call'[User].place = "disabling" =>
           \A i \in DOMAIN logs' : i < call'[User].at => log_to_status_map'[logs'[i]] # On
  PROVE  QuietInv'
<1>1. ASSUME NEW t \in Threads, call'[t].quiet
      PROVE  /\ quiet'
             /\ call'[t].place = "status" => log_to_status_map'[call'[t].log] # On
             /\ call'[t].place # "log"
             /\ \A l \in Logs : ~Took(l, call[t].frame)
             /\ call'[t].frame = call[t].frame
  <2>1. GoesOn(t) /\ ~NoneQuiet
    BY <1>1 DEF AllGoOn, NoneQuiet
  <2>2. call[t].quiet
    BY <1>1, <2>1 DEF GoesOn
  <2>3. /\ quiet /\ call[t].place # "log" /\ \A l \in Logs : ~Took(l, call[t].frame)
        /\ call[t].place = "status" => log_to_status_map[call[t].log] # On
    BY <2>2 DEF QuietInv, QuietAfterDisableAll
  <2>4. quiet'
    BY <2>1, <2>3
  <2>5. call'[t].place # "log" /\ call'[t].frame = call[t].frame
    BY <2>1, <2>3 DEF GoesOn, CallsInv
  <2>6. ASSUME call'[t].place = "status" PROVE log_to_status_map'[call'[t].log] # On
    <3>1. call[t].place = "status" /\ call'[t].log = call[t].log /\ call[t].log \in Logs
      BY <2>1, <2>6 DEF GoesOn, CallsInv, LogsTypeOK
    <3> QED BY <2>1, <2>3, <3>1
  <2> QED BY <2>3, <2>4, <2>5, <2>6
<1>2. QuietAfterDisableAll'
  BY <1>1 DEF QuietAfterDisableAll, Took
<1> QED BY <1>1, <1>2 DEF QuietInv

LEMMA QuietUserStep ==
  ASSUME LogsTypeOK, CallsInv, QuietInv, UserStep
  PROVE  QuietInv'
<1>1. ASSUME NEW l \in Logs, StartLists(l) PROVE QuietInv'
  <2>1. AllGoOn /\ call'[User].place = "starting"
    BY <1>1, StartListsCalls
  <2>2. ToSet(logs') = ToSet(logs) \cup {l} /\ log_to_status_map[l] # On
    BY <1>1, Appended DEF StartLists, Listing, LogsTypeOK, CallsInv, On, Unmapped
  <2>3. UNCHANGED <<log_to_status_map, events, frames, quiet>>
    BY <1>1 DEF StartLists
  <2> QED BY <2>1, <2>2, <2>3, QuietKeptStep DEF QuietInv
<1>2. ASSUME NEW l \in Logs, AddLog(l) PROVE QuietInv'
  <2>1. /\ AllGoOn /\ call'[User].place = "idle"
        /\ log_to_status_map[l] = On => NoneQuiet
    BY <1>2, AddLogCalls, NoCallType
  <2>2. ToSet(logs') = ToSet(logs) \cup {l}
    BY <1>2, Appended DEF AddLog, LogsTypeOK
  <2>3. /\ UNCHANGED <<log_to_status_map, events, frames>>
        /\ quiet' = (quiet /\ log_to_status_map[l] # On)
    BY <1>2 DEF AddLog
  <2> QED BY <2>1, <2>2, <2>3, QuietKeptStep DEF QuietInv
<1>3. CASE StartEnables \/ \E l \in Logs : EnableLog(l) \/ DisableLog(l)
  <2>1. AllGoOn /\ NoneQuiet /\ call'[User].place = "idle"
    BY <1>3, EnableCalls, NoCallType
  <2>2. UNCHANGED <<events, frames>> /\ quiet' = FALSE
    BY <1>3 DEF StartEnables, EnableLog, DisableLog, SwitchesOn
  <2> QED BY <2>1, <2>2, QuietKeptStep
<1>4. ASSUME NEW l \in Logs, StopUnmaps(l) PROVE QuietInv'
  <2>1. AllGoOn /\ call'[User].place = "stopping"
    BY <1>4, StopUnmapsCalls
  <2>2. /\ UNCHANGED <<logs, events, frames, quiet>>
        /\ log_to_status_map' = [log_to_status_map EXCEPT ![l] = Unmapped]
    BY <1>4 DEF StopUnmaps
  <2>3. \A k \in Logs : log_to_status_map'[k] = On => log_to_status_map[k] = On
    BY <2>2 DEF LogsTypeOK, On, Unmapped
  <2> QED BY <2>1, <2>2, <2>3, QuietKeptStep DEF QuietInv, LogsTypeOK
<1>5. CASE StopUnlists
  <2>1. AllGoOn /\ call'[User].place = "idle"
    BY <1>5, StopUnlistsCalls, NoCallType
  <2>2. /\ UNCHANGED <<log_to_status_map, events, frames, quiet>>
        /\ ToSet(logs') \subseteq ToSet(logs)
    BY <1>5, Removed, WithinElements DEF StopUnlists, LogsTypeOK
  <2> QED BY <2>1, <2>2, QuietKeptStep DEF QuietInv
<1>6. CASE DisableBegins
  <2>1. AllGoOn /\ call'[User].at = 1
    BY <1>6, DisableCalls
  <2>2. UNCHANGED <<logs, log_to_status_map, events, frames, quiet>>
    BY <1>6 DEF DisableBegins
  <2>3. \A i \in DOMAIN logs : ~(i < 1)
    BY DEF LogsTypeOK
  <2> QED BY <2>1, <2>2, <2>3, QuietKeptStep DEF QuietInv
<1>7. CASE DisableTurn
  <2> DEFINE at == call[User].at
             l  == logs[at]
  <2>1. AllGoOn /\ call'[User].at = at + 1 /\ call[User].place = "disabling"
    BY <1>7, DisableCalls DEF DisableTurn
  <2>2. /\ UNCHANGED <<logs, events, frames, quiet>> /\ at \in DOMAIN logs
        /\ log_to_status_map' = [log_to_status_map EXCEPT ![l] = Off]
    BY <1>7 DEF DisableTurn, DisabledStatus, InList
  <2>3. l \in Logs /\ at \in Nat
    BY <2>2, ElementOf DEF LogsTypeOK
  <2>4. /\ log_to_status_map'[l] # On
        /\ \A k \in Logs : log_to_status_map'[k] = On => log_to_status_map[k] = On
    BY <2>2, <2>3 DEF LogsTypeOK, On, Off
  <2>5. ASSUME NEW i \in DOMAIN logs, i < at + 1
        PROVE  log_to_status_map'[logs[i]] # On
    <3>1. i \in Nat /\ logs[i] \in Logs
      BY ElementOf DEF LogsTypeOK
    <3>2. CASE i = at
      BY <2>4, <3>2
    <3>3. CASE i < at
      BY <2>1, <2>4, <3>1, <3>3 DEF QuietInv
    <3> QED BY <2>3, <2>5, <3>1, <3>2, <3>3
  <2>6. quiet => \A k \in ToSet(logs) : log_to_status_map'[k] # On
    BY <2>4 DEF QuietInv, LogsTypeOK
  <2> HIDE DEF at, l
  <2> QED BY <2>1, <2>2, <2>4, <2>5, <2>6, QuietKeptStep
<1>8. CASE DisableEnds
  <2>1. AllGoOn /\ call'[User].place = "idle"
    BY <1>8, DisableCalls, NoCallType
  <2>2. /\ UNCHANGED <<logs, log_to_status_map, events, frames>> /\ quiet' = TRUE
        /\ call[User].place = "disabling" /\ call[User].at \notin DOMAIN logs
    BY <1>8 DEF DisableEnds, InList
  <2>3. \A i \in DOMAIN logs : i < call[User].at
    BY <2>2, UserAssumption DEF LogsTypeOK, CallsType
  <2>4. \A k \in ToSet(logs) : log_to_status_map[k] # On
    BY <2>2, <2>3 DEF QuietInv, ToSet
  <2> QED BY <2>1, <2>2, <2>4, QuietKeptStep
<1>9. CASE \E l \in Logs : StartLists(l) \/ AddLog(l) \/ StopUnmaps(l)
  BY <1>1, <1>2, <1>4, <1>9
<1> QED BY <1>3, <1>5, <1>6, <1>7, <1>8, <1>9 DEF UserStep

LEMMA QuietTransferStep ==
  ASSUME LogsTypeOK, CallsInv, QuietInv, NEW t \in Threads, FrameStep(t)
  PROVE  QuietInv'
<1>1. /\ OnlyMoves(t)
      /\ call[t].place # "disabling" /\ call'[t].place # "disabling"
  <2>1. CASE FrameBegins(t)
    BY <2>1, FrameBeginsCalls, NoCallType
  <2>2. CASE FrameDone(t) \/ StatusMissing(t) \/ FrameIsPassedOn(t)
    BY <2>2, FrameEndsCalls, NoCallType
  <2>3. CASE LoopTurn(t)
    BY <2>3, LoopTurnCalls
  <2>4. CASE StatusLookedUp(t)
    BY <2>4, StatusLookedUpCalls
  <2>5. CASE EventIsLogged(t)
    BY <2>5, EventIsLoggedCalls
  <2> QED BY <2>1, <2>2, <2>3, <2>4, <2>5 DEF FrameStep
<1>2. ASSUME call'[t].quiet
      PROVE  /\ quiet /\ call'[t].place # "log" /\ events' = events
             /\ call'[t].place = "status" => log_to_status_map[call'[t].log] # On
             /\ \A l \in Logs : ~Took(l, call'[t].frame)
  <2>1. CASE FrameBegins(t)
    <3>1. /\ quiet /\ call'[t].place = "loop" /\ events' = events
          /\ call'[t].frame = frames + 1
      BY <1>2, <2>1, FrameBeginsCalls
    <3>2. ASSUME NEW l \in Logs, Took(l, frames + 1) PROVE FALSE
      <4>1. PICK i \in DOMAIN events[l] : events[l][i].frame = frames + 1
        BY <3>2 DEF Took
      <4>2. events[l][i].frame <= frames /\ frames \in Nat
        BY DEF CallsInv, LogsTypeOK
      <4> QED BY <4>1, <4>2
    <3> QED BY <3>1, <3>2
  <2>2. CASE FrameDone(t) \/ StatusMissing(t) \/ FrameIsPassedOn(t)
    BY <1>2, <2>2, FrameEndsCalls DEF NoCall
  <2>3. CASE LoopTurn(t)
    <3>1. /\ call[t].quiet /\ events' = events /\ call'[t].place = "status"
          /\ call'[t].log \in ToSet(logs) /\ call'[t].frame = call[t].frame
      BY <1>2, <2>3, LoopTurnCalls DEF SameFrame, ToSet
    <3> QED BY <3>1 DEF QuietInv, QuietAfterDisableAll
  <2>4. CASE StatusLookedUp(t)
    BY <1>2, <2>4, StatusLookedUpCalls DEF SameFrame, QuietInv, QuietAfterDisableAll
  <2>5. CASE EventIsLogged(t)
    BY <1>2, <2>5, EventIsLoggedCalls DEF SameFrame, QuietInv
  <2> QED BY <2>1, <2>2, <2>3, <2>4, <2>5 DEF FrameStep
<1>3. ASSUME NEW u \in Threads, u # t, call'[u].quiet
      PROVE  /\ quiet /\ call'[u].place # "log"
             /\ call'[u].place = "status" => log_to_status_map[call'[u].log] # On
             /\ \A l \in Logs, f \in Nat : f = call'[u].frame => ~Took(l, f)'
  <2>1. call'[u] = call[u]
    BY <1>1, <1>3 DEF OnlyMoves
  <2>2. /\ quiet /\ call[u].place # "log"
        /\ call[u].place = "status" => log_to_status_map[call[u].log] # On
        /\ \A l \in Logs : ~Took(l, call[u].frame)
    BY <1>3, <2>1 DEF QuietInv, QuietAfterDisableAll
  <2>3. CASE events' = events
    BY <2>1, <2>2, <2>3 DEF Took
  <2>4. CASE EventIsLogged(t)
    <3>1. call[t].frame # 0
      BY <2>4, EventIsLoggedCalls DEF CallsInv
    <3>2. call[u].frame # call[t].frame /\ call[u].frame \in Nat
      BY <1>3, <3>1 DEF CallsInv, LogsTypeOK, CallsType
    <3>3. \A l \in Logs, f \in Nat : f = call[u].frame => ~Took(l, f)'
      BY <2>2, <2>4, <3>2, EventIsLoggedTook
    <3> QED BY <2>1, <2>2, <3>3
  <2> QED BY <2>3, <2>4 DEF FrameStep, FrameBegins, FrameIsPassedOn, LoopTurn, FrameDone, StatusLookedUp,
                   StatusMissing
<1>4. QuietAfterDisableAll'
  <2>1. ASSUME NEW u \in Threads, call'[u].quiet, NEW l \in Logs, NEW f, f = call'[u].frame
        PROVE  ~Took(l, f)'
    <3>1. f \in Nat
      <4>1. call'[u] \in CallsType
        BY CallsTypeStep DEF InterfaceNext
      <4> QED BY <2>1, <4>1 DEF CallsType
    <3>2. CASE u = t
      BY <1>2, <2>1, <3>2 DEF Took
    <3>3. CASE u # t
      BY <1>3, <2>1, <3>1, <3>3
    <3> QED BY <3>2, <3>3
  <2> QED BY <2>1 DEF QuietAfterDisableAll, Took
<1>5. call'[User].place = "disabling" => call'[User] = call[User]
  BY <1>1, UserAssumption DEF OnlyMoves
<1>6. ASSUME NEW u \in Threads, call'[u].quiet
      PROVE  /\ quiet /\ call'[u].place # "log"
             /\ call'[u].place = "status" => log_to_status_map[call'[u].log] # On
  BY <1>2, <1>3, <1>6
<1> QED BY <1>1, <1>4, <1>5, <1>6 DEF OnlyMoves, QuietInv

-----------------------------------------------------------------------------
(* Logs that are in the list more than once *)

LEMMA DoubledUserStep ==
  ASSUME LogsTypeOK, CallsInv, DoubledInv, UserStep
  PROVE  DoubledInv'
<1>0. AllGoOn
  BY UserGoesOn
<1>1. ASSUME Doubled(logs') \subseteq Doubled(logs) PROVE DoubledInv'
  BY <1>0, <1>1 DEF AllGoOn, GoesOn, DoubledInv, Doubled
<1>2. ASSUME NEW l \in Logs, StartLists(l) PROVE DoubledInv'
  <2>1. logs' = Append(logs, l) /\ l \notin ToSet(logs)
    BY <1>2 DEF StartLists, Listing, LogsTypeOK
  <2> QED BY <1>1, <2>1, DoubledAppended DEF LogsTypeOK
<1>3. ASSUME NEW l \in Logs, AddLog(l) PROVE DoubledInv'
  BY <1>0, <1>3, AddLogCalls DEF AllGoOn, GoesOn, AllKnow, DoubledInv, Doubled
<1>4. CASE StopUnlists
  <2>1. logs' \in Seq(Logs) /\ Within(logs', logs)
    BY <1>4, Removed DEF StopUnlists, LogsTypeOK
  <2> QED BY <1>1, <2>1, DoubledWithin DEF LogsTypeOK
<1>5. CASE UNCHANGED logs
  BY <1>1, <1>5
<1>6. CASE \E l \in Logs : StartLists(l) \/ AddLog(l)
  BY <1>2, <1>3, <1>6
<1>7. CASE \E l \in Logs : EnableLog(l) \/ DisableLog(l) \/ StopUnmaps(l)
  BY <1>5, <1>7 DEF EnableLog, DisableLog, StopUnmaps
<1>8. CASE StartEnables \/ DisableBegins \/ DisableTurn \/ DisableEnds
  BY <1>5, <1>8 DEF StartEnables, DisableBegins, DisableTurn, DisableEnds
<1> QED BY <1>4, <1>6, <1>7, <1>8 DEF UserStep

LEMMA DoubledTransferStep ==
  ASSUME LogsTypeOK, CallsInv, DoubledInv, NEW t \in Threads, FrameStep(t)
  PROVE  DoubledInv'
<1>1. /\ OnlyMoves(t)
      /\ call'[t].frame # 0 => Doubled(logs) \subseteq call'[t].doubled
  <2>1. CASE FrameBegins(t)
    BY <2>1, FrameBeginsCalls
  <2>2. CASE FrameDone(t) \/ StatusMissing(t) \/ FrameIsPassedOn(t)
    BY <2>2, FrameEndsCalls, NoCallType
  <2>3. CASE LoopTurn(t)
    BY <2>3, LoopTurnCalls DEF SameFrame, DoubledInv
  <2>4. CASE StatusLookedUp(t)
    BY <2>4, StatusLookedUpCalls DEF SameFrame, DoubledInv
  <2>5. CASE EventIsLogged(t)
    BY <2>5, EventIsLoggedCalls DEF SameFrame, DoubledInv
  <2> QED BY <2>1, <2>2, <2>3, <2>4, <2>5 DEF FrameStep
<1> QED BY <1>1 DEF OnlyMoves, DoubledInv, Doubled

-----------------------------------------------------------------------------
(* The places of the loops *)

\* What PlacesInv says of call c, with the list, the status map and Passed given.
PlaceOf(c, list, map, passed) ==
  /\ "stop" \notin c.met =>
       /\ \A l \in passed : \E i \in DOMAIN list : i < c.at /\ list[i] = l
       /\ \A l \in c.steady :
            /\ map[l] = On
            /\ l \in passed \/ \E i \in DOMAIN list : i >= c.at /\ list[i] = l
  /\ ~({"stop", "add"} \subseteq c.met) =>
       \A l \in passed \ c.doubled, i \in DOMAIN list : i >= c.at => list[i] # l

LEMMA PlacesByThread ==
  PlacesInv <=>
    \A t \in Threads : call[t].frame # 0 =>
      /\ PlaceOf(call[t], logs, log_to_status_map, Passed(t))
      /\ ~({"stop", "add"} \subseteq call[t].met) =>
           (call[t].place \in {"status", "log"} /\ call[t].log \notin call[t].doubled =>
              ~Took(call[t].log, call[t].frame))
  BY DEF PlacesInv, PlaceOf

LEMMA PassedUserStep ==
  ASSUME LogsTypeOK, CallsInv, AllGoOn, events' = events,
         NEW t \in Threads, call[t].frame # 0
  PROVE  /\ Passed(t)' = Passed(t) /\ Passed(t) \subseteq made
         /\ \A l : Took(l, call[t].frame)' <=> Took(l, call[t].frame)
<1>1. GoesOn(t)
  BY DEF AllGoOn
<1>2. \A l : Took(l, call[t].frame)' <=> Took(l, call[t].frame)
  BY <1>1 DEF GoesOn, Took
<1>3. Passed(t)' = Passed(t)
  BY <1>1, <1>2 DEF GoesOn, Passed
<1>4. ASSUME NEW l \in Passed(t) PROVE l \in made
  BY <1>4 DEF Passed, Took, CallsInv
<1> QED BY <1>2, <1>3, <1>4

\* The user's steps: a list that has only become longer, or a shorter one that every
\* frame has met.
LEMMA PlacesKeptStep ==
  ASSUME LogsTypeOK, CallsInv, PlacesInv, AllGoOn, events' = events,
         \A t \in Threads : call[t].frame # 0 /\ "stop" \notin call'[t].met =>
           /\ \A i \in DOMAIN logs : i \in DOMAIN logs' /\ logs'[i] = logs[i]
           /\ \A l \in call'[t].steady : log_to_status_map[l] = On => log_to_status_map'[l] = On,
         \A t \in Threads :
           call[t].frame # 0 /\ ~({"stop", "add"} \subseteq call'[t].met) =>
             \A l \in Passed(t) \ call'[t].doubled, i \in DOMAIN logs' :
               i >= call[t].at => logs'[i] # l
  PROVE  PlacesInv'
<1> SUFFICES ASSUME NEW t \in Threads, call'[t].frame # 0
             PROVE  /\ PlaceOf(call'[t], logs', log_to_status_map', Passed(t)')
                    /\ ~({"stop", "add"} \subseteq call'[t].met) =>
                         (call'[t].place \in {"status", "log"}
                          /\ call'[t].log \notin call'[t].doubled =>
                            ~Took(call[t].log, call[t].frame)')
  BY DEF PlacesInv, PlaceOf
<1>1. /\ call[t].frame # 0 /\ call'[t].frame = call[t].frame
      /\ call'[t].place = call[t].place /\ call'[t].at = call[t].at
      /\ call'[t].log = call[t].log
      /\ call[t].met \subseteq call'[t].met /\ call'[t].steady \subseteq call[t].steady
      /\ call[t].doubled \subseteq call'[t].doubled
  BY DEF AllGoOn, GoesOn
<1>2. Passed(t)' = Passed(t) /\ \A l : Took(l, call[t].frame)' <=> Took(l, call[t].frame)
  BY <1>1, PassedUserStep
<1>3. /\ PlaceOf(call[t], logs, log_to_status_map, Passed(t))
      /\ ~({"stop", "add"} \subseteq call[t].met) =>
           (call[t].place \in {"status", "log"} /\ call[t].log \notin call[t].doubled =>
              ~Took(call[t].log, call[t].frame))
  BY <1>1, PlacesByThread
<1>4. ~({"stop", "add"} \subseteq call'[t].met) =>
        (call'[t].place \in {"status", "log"} /\ call'[t].log \notin call'[t].doubled =>
           ~Took(call[t].log, call[t].frame)')
  <2>1. Took(call[t].log, call[t].frame)' => Took(call[t].log, call[t].frame)
    BY <1>1, events' = events DEF Took
  <2> QED BY <1>1, <1>3, <2>1
<1>5. ASSUME "stop" \notin call'[t].met
      PROVE  /\ \A l \in Passed(t) : \E i \in DOMAIN logs' : i < call[t].at /\ logs'[i] = l
             /\ \A l \in call'[t].steady :
                  /\ log_to_status_map'[l] = On
                  /\ l \in Passed(t) \/ \E i \in DOMAIN logs' : i >= call[t].at /\ logs'[i] = l
  <2>1. "stop" \notin call[t].met
    BY <1>1, <1>5
  <2>2. /\ \A i \in DOMAIN logs : i \in DOMAIN logs' /\ logs'[i] = logs[i]
        /\ \A l \in call'[t].steady : log_to_status_map[l] = On => log_to_status_map'[l] = On
    BY <1>1, <1>5
  <2> QED BY <1>1, <1>3, <2>1, <2>2 DEF PlaceOf
<1>6. ASSUME ~({"stop", "add"} \subseteq call'[t].met)
      PROVE  \A l \in Passed(t) \ call'[t].doubled, i \in DOMAIN logs' :
               i >= call[t].at => logs'[i] # l
  BY <1>1, <1>6
<1> QED BY <1>1, <1>2, <1>4, <1>5, <1>6 DEF PlaceOf

LEMMA PlacesUserStep ==
  ASSUME LogsTypeOK, CallsInv, PlacesInv, UserStep
  PROVE  PlacesInv'
<1>0. AllGoOn /\ events' = events
  BY UserGoesOn
<1>1. ASSUME NEW l \in Logs, StartLists(l) \/ AddLog(l) PROVE PlacesInv'
  <2>1. logs' = Append(logs, l) /\ log_to_status_map' = log_to_status_map
    BY <1>1 DEF StartLists, AddLog, Listing
  <2>2. /\ DOMAIN logs' = DOMAIN logs \cup {Len(logs) + 1}
        /\ \A i \in DOMAIN logs : logs'[i] = logs[i]
        /\ logs'[Len(logs) + 1] = l
    BY <2>1, Appended DEF LogsTypeOK
  <2>3. ASSUME NEW t \in Threads, call[t].frame # 0,
               ~({"stop", "add"} \subseteq call'[t].met)
        PROVE  \A k \in Passed(t) \ call'[t].doubled, i \in DOMAIN logs' :
                 i >= call[t].at => logs'[i] # k
    <3>0. call[t].met \subseteq call'[t].met /\ call[t].doubled \subseteq call'[t].doubled
      BY <1>0, <2>3 DEF AllGoOn, GoesOn
    <3>1. l \notin Passed(t) \ call'[t].doubled
      <4>1. CASE StartLists(l)
        BY <1>0, <2>3, <4>1, PassedUserStep DEF StartLists
      <4>2. CASE AddLog(l)
        <5>1. "add" \in call'[t].met /\ Doubled(logs') \subseteq call'[t].doubled
          BY <2>3, <4>2, AddLogCalls DEF Met, AllKnow
        <5>2. "stop" \notin call[t].met
          BY <2>3, <3>0, <5>1
        <5>3. l \in Passed(t) => l \in ToSet(logs)
          BY <2>3, <5>2 DEF PlacesInv, ToSet
        <5>4. l \in ToSet(logs) => l \in Doubled(logs')
          BY <2>1, AppendedDoubles DEF LogsTypeOK
        <5> QED BY <5>1, <5>3, <5>4
      <4> QED BY <1>1, <4>1, <4>2
    <3>2. \A k \in Passed(t) \ call[t].doubled, i \in DOMAIN logs : i >= call[t].at => logs[i] # k
      <4>1. ~({"stop", "add"} \subseteq call[t].met)
        BY <2>3, <3>0
      <4> QED BY <2>3, <4>1 DEF PlacesInv
    <3> QED BY <2>2, <3>0, <3>1, <3>2
  <2> QED BY <1>0, <2>1, <2>2, <2>3, PlacesKeptStep
<1>2. ASSUME UNCHANGED logs,
             \A t \in Threads : "stop" \notin call'[t].met =>
               \A l \in call'[t].steady : log_to_status_map[l] = On => log_to_status_map'[l] = On
      PROVE  PlacesInv'
  <2>1. ASSUME NEW t \in Threads, call[t].frame # 0,
               ~({"stop", "add"} \subseteq call'[t].met)
        PROVE  \A l \in Passed(t) \ call'[t].doubled, i \in DOMAIN logs' :
                 i >= call[t].at => logs'[i] # l
    <3>1. call[t].met \subseteq call'[t].met /\ call[t].doubled \subseteq call'[t].doubled
      BY <1>0, <2>1 DEF AllGoOn, GoesOn
    <3>2. ~({"stop", "add"} \subseteq call[t].met)
      BY <2>1, <3>1
    <3> QED BY <1>2, <2>1, <3>1, <3>2 DEF PlacesInv
  <2> QED BY <1>0, <1>2, <2>1, PlacesKeptStep
<1>3. CASE StartEnables \/ \E l \in Logs : EnableLog(l) \/ DisableLog(l)
  <2>1. PICK l : log_to_status_map' = [log_to_status_map EXCEPT ![l] = On] /\ logs' = logs
    BY <1>3 DEF StartEnables, EnableLog, DisableLog, SwitchesOn
  <2>2. \A k \in Logs : log_to_status_map[k] = On => log_to_status_map'[k] = On
    BY <2>1 DEF LogsTypeOK
  <2>3. \A t \in Threads : call'[t].steady \subseteq Logs
    BY CallsTypeStep DEF InterfaceNext, CallsType
  <2> QED BY <1>2, <2>1, <2>2, <2>3
<1>4. ASSUME NEW l \in Logs, StopUnmaps(l) PROVE PlacesInv'
  <2>1. NoneSteady(l) /\ logs' = logs
        /\ log_to_status_map' = [log_to_status_map EXCEPT ![l] = Unmapped]
    BY <1>4, StopUnmapsCalls DEF StopUnmaps
  <2>2. \A k \in Logs \ {l} : log_to_status_map'[k] = log_to_status_map[k]
    BY <2>1 DEF LogsTypeOK
  <2>3. \A t \in Threads : call'[t].steady \subseteq Logs \ {l}
    BY <2>1, CallsTypeStep DEF InterfaceNext, CallsType, NoneSteady
  <2> QED BY <1>2, <2>1, <2>2, <2>3
<1>5. CASE StopUnlists
  <2>1. Met("stop")
    BY <1>5, StopUnlistsCalls
  <2>2. /\ \A i \in DOMAIN logs' : \E j \in DOMAIN logs : j >= i /\ logs[j] = logs'[i]
        /\ logs' \in Seq(Logs)
    BY <1>5, Removed DEF StopUnlists, LogsTypeOK, Within
  <2>3. ASSUME NEW t \in Threads, call[t].frame # 0,
               ~({"stop", "add"} \subseteq call'[t].met),
               NEW l \in Passed(t) \ call'[t].doubled,
               NEW i \in DOMAIN logs', i >= call[t].at
        PROVE  logs'[i] # l
    <3>1. PICK j \in DOMAIN logs : j >= i /\ logs[j] = logs'[i]
      BY <2>2
    <3>2. i \in Nat /\ j \in Nat /\ call[t].at \in Nat
      BY <2>2 DEF LogsTypeOK, CallsType
    <3>3. call[t].met \subseteq call'[t].met /\ call[t].doubled \subseteq call'[t].doubled
      BY <1>0, <2>3 DEF AllGoOn, GoesOn
    <3>4. ~({"stop", "add"} \subseteq call[t].met) /\ j >= call[t].at
      BY <2>3, <3>1, <3>2, <3>3
    <3> QED BY <2>3, <3>1, <3>3, <3>4 DEF PlacesInv
  <2> QED BY <1>0, <2>1, <2>3, PlacesKeptStep DEF Met
<1>6. CASE DisableBegins \/ DisableEnds
  BY <1>2, <1>6 DEF DisableBegins, DisableEnds
<1>7. CASE DisableTurn
  <2> DEFINE l == logs[call[User].at]
  <2>1. NoneSteady(l) /\ logs' = logs
        /\ log_to_status_map' = [log_to_status_map EXCEPT ![l] = Off]
    BY <1>7, DisableCalls DEF DisableTurn, DisabledStatus
  <2> HIDE DEF l
  <2>2. \A k \in Logs \ {l} : log_to_status_map'[k] = log_to_status_map[k]
    BY <2>1 DEF LogsTypeOK
  <2>3. \A t \in Threads : call'[t].steady \subseteq Logs \ {l}
    BY <2>1, CallsTypeStep DEF InterfaceNext, CallsType, NoneSteady
  <2> QED BY <1>2, <2>1, <2>2, <2>3
<1> QED BY <1>1, <1>3, <1>4, <1>5, <1>6, <1>7 DEF UserStep

LEMMA PlacesTransferStep ==
  ASSUME LogsTypeOK, CallsInv, DoubledInv, PlacesInv, NEW t \in Threads, FrameStep(t)
  PROVE  PlacesInv'
<1> DEFINE Place(u) ==
      /\ PlaceOf(call'[u], logs, log_to_status_map, Passed(u)')
      /\ ~({"stop", "add"} \subseteq call'[u].met) =>
           (call'[u].place \in {"status", "log"} /\ call'[u].log \notin call'[u].doubled =>
              ~(\E f \in Nat : f = call'[u].frame /\ \E l \in Logs : l = call'[u].log /\ Took(l, f)'))
<1>0. /\ OnlyMoves(t) /\ call' \in [Threads -> CallsType]
      /\ CallsInv'
  <2>1. OnlyMoves(t)
    BY FrameBeginsCalls, FrameEndsCalls, LoopTurnCalls, StatusLookedUpCalls,
       EventIsLoggedCalls DEF FrameStep
  <2> QED BY <2>1, CallsTypeStep, CallsTransferStep DEF InterfaceNext
<1>1. ASSUME NEW u \in Threads, u # t, call'[u].frame # 0 PROVE Place(u)
  <2>1. call'[u] = call[u] /\ call[u].frame \in Nat /\ call[u].frame # 0
    BY <1>0, <1>1 DEF OnlyMoves, LogsTypeOK, CallsType
  <2>2. ASSUME NEW l \in Logs, NEW f \in Nat, f = call[u].frame
        PROVE  Took(l, f)' <=> Took(l, f)
    <3>1. CASE events' = events
      BY <3>1 DEF Took
    <3>2. CASE EventIsLogged(t)
      <4>1. call[t].frame # 0
        BY <3>2, EventIsLoggedCalls DEF CallsInv
      <4>2. f # call[t].frame
        BY <1>1, <2>2, <4>1 DEF CallsInv
      <4> QED BY <3>2, <4>2, EventIsLoggedTook
    <3> QED BY <3>1, <3>2
            DEF FrameStep, FrameBegins, FrameIsPassedOn, LoopTurn, FrameDone, StatusLookedUp,
                   StatusMissing
  <2>3. \A l \in Logs : l \in Passed(u)' <=> l \in Passed(u)
    BY <2>1, <2>2 DEF Passed, Took
  <2>4. Passed(u)' = Passed(u)
    BY <2>3 DEF Passed
  <2>5. /\ PlaceOf(call[u], logs, log_to_status_map, Passed(u))
        /\ ~({"stop", "add"} \subseteq call[u].met) =>
             (call[u].place \in {"status", "log"} /\ call[u].log \notin call[u].doubled =>
                ~Took(call[u].log, call[u].frame))
    BY <2>1, PlacesByThread
  <2> QED BY <2>1, <2>2, <2>4, <2>5
<1>2. ASSUME call'[t].frame # 0 PROVE Place(t)
  <2>1. CASE FrameBegins(t)
    <3>1. /\ call'[t].place = "loop" /\ call'[t].frame = frames + 1 /\ call'[t].at = 1
          /\ call'[t].steady = SwitchedOn /\ events' = events
      BY <2>1, FrameBeginsCalls
    <3>2. \A l \in Logs : ~Took(l, frames + 1)
      <4>1. \A l \in Logs : \A i \in DOMAIN events[l] : events[l][i].frame # frames + 1
        BY DEF CallsInv, LogsTypeOK
      <4> QED BY <4>1 DEF Took
    <3>3. Passed(t)' = {}
      BY <3>1, <3>2 DEF Passed, Took
    <3>4. \A l \in SwitchedOn :
            log_to_status_map[l] = On /\ \E i \in DOMAIN logs : i >= 1 /\ logs[i] = l
      BY DEF SwitchedOn, ToSet, LogsTypeOK
    <3> QED BY <3>1, <3>3, <3>4 DEF PlaceOf
  <2>2. CASE FrameDone(t) \/ StatusMissing(t) \/ FrameIsPassedOn(t)
    BY <1>2, <2>2, FrameEndsCalls, NoCallType
  <2>3. CASE LoopTurn(t)
    <3> DEFINE at == call[t].at
               k  == logs[at]
    <3>1. /\ call[t].place = "loop" /\ at \in DOMAIN logs /\ events' = events
          /\ call'[t].place = "status" /\ call'[t].log = k /\ call'[t].at = at + 1
          /\ SameFrame(t)
      BY <2>3, LoopTurnCalls
    <3>2. at \in Nat /\ k \in Logs /\ \A i \in DOMAIN logs : i \in Nat
      BY <3>1, ElementOf DEF LogsTypeOK
    <3>3. Passed(t)' = Passed(t) \cup {k}
      BY <3>1, <3>2 DEF Passed, SameFrame, Took
    <3>4. k \notin call[t].doubled => \A i \in DOMAIN logs : i >= at + 1 => logs[i] # k
      <4>1. Doubled(logs) \subseteq call[t].doubled
        BY <1>2, <3>1 DEF DoubledInv, SameFrame
      <4> QED BY <3>1, <3>2, <4>1 DEF Doubled
    <3>5. PlaceOf(call[t], logs, log_to_status_map, Passed(t))
      BY <1>2, <3>1, PlacesByThread DEF SameFrame
    <3> HIDE DEF at, k
    <3>6. call[t].at = at /\ logs[at] = k
      BY DEF at, k
    <3>7. ASSUME "stop" \notin call'[t].met
          PROVE  /\ \A l \in Passed(t) \cup {k} : \E i \in DOMAIN logs : i < at + 1 /\ logs[i] = l
                 /\ \A l \in call'[t].steady :
                      /\ log_to_status_map[l] = On
                      /\ \/ l \in Passed(t) \cup {k}
                         \/ \E i \in DOMAIN logs : i >= at + 1 /\ logs[i] = l
      <4>1. \A l \in Passed(t) : \E i \in DOMAIN logs : i < at /\ logs[i] = l
        BY <3>1, <3>5, <3>6, <3>7 DEF PlaceOf, SameFrame
      <4>2. \A l \in Passed(t) : \E i \in DOMAIN logs : i < at + 1 /\ logs[i] = l
        BY <3>2, <4>1
      <4>3. at < at + 1
        BY <3>2
      <4>4. \A l \in call'[t].steady :
              /\ log_to_status_map[l] = On
              /\ l \in Passed(t) \/ \E i \in DOMAIN logs : i >= at /\ logs[i] = l
        BY <3>1, <3>5, <3>6, <3>7 DEF PlaceOf, SameFrame
      <4>5. ASSUME NEW l, NEW i \in DOMAIN logs, i >= at, logs[i] = l
            PROVE  l = k \/ i >= at + 1
        BY <3>2, <3>6, <4>5
      <4>6. ASSUME NEW l \in call'[t].steady
            PROVE  \/ l \in Passed(t) \cup {k}
                   \/ \E i \in DOMAIN logs : i >= at + 1 /\ logs[i] = l
        BY <4>4, <4>5
      <4> QED BY <3>1, <3>6, <4>2, <4>3, <4>4, <4>6
    <3>8. ASSUME ~({"stop", "add"} \subseteq call'[t].met)
          PROVE  /\ \A l \in (Passed(t) \cup {k}) \ call'[t].doubled, i \in DOMAIN logs :
                      i >= at + 1 => logs[i] # l
                 /\ k \notin call'[t].doubled => k \notin Passed(t)
      <4>0. call'[t].doubled = call[t].doubled
        BY <3>1 DEF SameFrame
      <4>1. \A l \in Passed(t) \ call[t].doubled, i \in DOMAIN logs : i >= at => logs[i] # l
        BY <3>1, <3>5, <3>6, <3>8 DEF PlaceOf, SameFrame
      <4>2. k \notin call[t].doubled => k \notin Passed(t)
        BY <3>1, <3>2, <3>6, <4>1
      <4>3. \A i \in DOMAIN logs : i >= at + 1 => i >= at
        BY <3>2
      <4> QED BY <3>4, <4>0, <4>1, <4>2, <4>3
    <3>9. \A l \in Logs, f \in Nat :
            l = k /\ f = call'[t].frame => (Took(l, f)' => k \in Passed(t))
      BY <3>1, <3>2 DEF Passed, SameFrame, Took
    <3>10. ~({"stop", "add"} \subseteq call'[t].met) /\ call'[t].log \notin call'[t].doubled =>
             \A f \in Nat, l \in Logs :
               f = call'[t].frame /\ l = call'[t].log => ~Took(l, f)'
      BY <3>1, <3>8, <3>9
    <3>11. PlaceOf(call'[t], logs, log_to_status_map, Passed(t)')
      BY <3>1, <3>3, <3>7, <3>8 DEF PlaceOf
    <3> QED BY <3>10, <3>11
  <2>4. CASE StatusLookedUp(t)
    <3> DEFINE k == call[t].log
    <3>1. /\ SameFrame(t) /\ events' = events /\ call[t].place = "status"
          /\ call'[t].at = call[t].at /\ call'[t].log = k
          /\ \/ call'[t].place = "log" /\ log_to_status_map[k] = On
             \/ call'[t].place = "loop" /\ log_to_status_map[k] # On
      BY <2>4, StatusLookedUpCalls
    <3>2. /\ PlaceOf(call[t], logs, log_to_status_map, Passed(t))
          /\ ~({"stop", "add"} \subseteq call[t].met) /\ k \notin call[t].doubled =>
               ~Took(k, call[t].frame)
      BY <1>2, <3>1, PlacesByThread DEF SameFrame
    <3>3. /\ \A f \in Nat : f = call'[t].frame => (Took(k, f)' => Took(k, call[t].frame))
          /\ \A l \in Logs : Took(l, call[t].frame)' <=> Took(l, call[t].frame)
      BY <3>1 DEF SameFrame, Took
    <3>4. CASE call'[t].place = "log"
      <4>1. Passed(t)' = Passed(t)
        BY <3>1, <3>3, <3>4 DEF Passed
      <4> QED BY <3>1, <3>2, <3>3, <4>1 DEF PlaceOf, SameFrame
    <3>5. CASE call'[t].place = "loop"
      <4>1. Passed(t)' \subseteq Passed(t) /\ \A l \in Passed(t) : l # k => l \in Passed(t)'
        BY <3>1, <3>3, <3>5 DEF Passed
      <4>2. log_to_status_map[k] # On
        BY <3>1, <3>5
      <4> QED BY <3>1, <3>2, <3>5, <4>1, <4>2 DEF PlaceOf, SameFrame
    <3> QED BY <3>1, <3>4, <3>5
  <2>5. CASE EventIsLogged(t)
    <3>1. /\ SameFrame(t) /\ call[t].place = "log" /\ call'[t].place = "loop"
          /\ call'[t].at = call[t].at /\ call[t].frame \in Nat
      BY <2>5, EventIsLoggedCalls DEF LogsTypeOK, CallsType
    <3>2. \A l \in Logs, f \in Nat :
            f = call[t].frame => (Took(l, f)' <=> Took(l, f) \/ l = call[t].log)
      BY <2>5, EventIsLoggedTook
    <3>3. \A l \in Logs : l \in Passed(t)' <=> l \in Passed(t)
      BY <3>1, <3>2 DEF Passed, SameFrame, Took
    <3>4. Passed(t)' = Passed(t)
      BY <3>3 DEF Passed
    <3>5. PlaceOf(call[t], logs, log_to_status_map, Passed(t))
      BY <1>2, <3>1, PlacesByThread DEF SameFrame
    <3> QED BY <3>1, <3>4, <3>5 DEF PlaceOf, SameFrame
  <2> QED BY <2>1, <2>2, <2>3, <2>4, <2>5 DEF FrameStep
<1>3. ASSUME NEW u \in Threads, call'[u].frame # 0, Place(u)
      PROVE  /\ PlaceOf(call'[u], logs, log_to_status_map, Passed(u)')
             /\ ~({"stop", "add"} \subseteq call'[u].met) =>
                  (call'[u].place \in {"status", "log"} /\ call'[u].log \notin call'[u].doubled =>
                     ~Took(call[u].log, call[u].frame)')
  <2>1. /\ call'[u].frame \in Nat
        /\ call'[u].place \in {"status", "log"} => call'[u].log \in Logs
    BY <1>0, LogsTypeStep DEF CallsType, CallsInv, LogsTypeOK, InterfaceNext
  <2> QED BY <1>3, <2>1 DEF Took
<1> HIDE DEF Place
<1>4. \A u \in Threads : call'[u].frame # 0 =>
        /\ PlaceOf(call'[u], logs, log_to_status_map, Passed(u)')
        /\ ~({"stop", "add"} \subseteq call'[u].met) =>
             (call'[u].place \in {"status", "log"} /\ call'[u].log \notin call'[u].doubled =>
                ~Took(call[u].log, call[u].frame)')
  BY <1>1, <1>2, <1>3
<1>5. UNCHANGED <<logs, log_to_status_map>>
  BY <1>0 DEF OnlyMoves
<1> QED BY <1>4, <1>5 DEF PlacesInv, PlaceOf

-----------------------------------------------------------------------------
LEMMA LogsInvariant == InterfaceSpec => []LogsInv
<1>1. InterfaceInit => LogsInv
  <2> SUFFICES ASSUME InterfaceInit PROVE LogsInv
    OBVIOUS
  <2>1. /\ logs = <<>> /\ frames = 0 /\ made = {} /\ added = {} /\ quiet = FALSE
        /\ \A l \in Logs : events[l] = <<>> /\ log_to_status_map[l] = Unmapped
        /\ \A t \in Threads : call[t] = NoCall
    BY DEF InterfaceInit
  <2>2. LogsTypeOK
    <3>1. call \in [Threads -> CallsType]
      BY NoCallType DEF InterfaceInit
    <3>2. logs \in Seq(Logs) /\ ToSet(logs) = {}
      BY <2>1 DEF ToSet
    <3>3. /\ log_to_status_map \in [Logs -> Statuses]
          /\ events \in [Logs -> Seq([frame : Nat, by : Threads])]
      BY DEF InterfaceInit, Statuses
    <3> QED BY <2>1, <3>1, <3>2, <3>3 DEF LogsTypeOK
  <2>3. \A t \in Threads : call[t].place = "idle" /\ call[t].frame = 0 /\ call[t].quiet = FALSE
    BY <2>1 DEF NoCall
  <2>4. CallsInv
    BY <2>1, <2>2, <2>3 DEF CallsInv, LogsTypeOK
  <2>5. StatusInv /\ QuietInv /\ DoubledInv /\ PlacesInv
    BY <2>1, <2>3, UserAssumption
       DEF StatusInv, QuietInv, DoubledInv, PlacesInv, FramesAreLostToChangesOnly, QuietAfterDisableAll,
           ToSet
  <2> QED BY <2>2, <2>4, <2>5 DEF LogsInv
<1>2. LogsInv /\ [InterfaceNext]_interfaceVars => LogsInv'
  <2>1. ASSUME LogsInv, NEW t \in Threads, FrameStep(t) PROVE LogsInv'
    BY <2>1, LogsTypeStep, CallsTransferStep, StatusTransferStep, QuietTransferStep,
       DoubledTransferStep, PlacesTransferStep DEF LogsInv, InterfaceNext
  <2>2. CASE LogsInv /\ UserStep
    BY <2>2, LogsTypeStep, CallsUserStep, StatusUserStep, QuietUserStep, DoubledUserStep,
       PlacesUserStep DEF LogsInv, InterfaceNext
  <2>3. CASE LogsInv /\ UNCHANGED interfaceVars
    <3> USE <2>3 DEF LogsInv, interfaceVars
    <3>1. LogsTypeOK'
      BY DEF LogsTypeOK
    <3>2. CallsInv'
      BY DEF CallsInv
    <3>3. StatusInv'
      BY DEF StatusInv, Changing, FramesAreLostToChangesOnly, StatusOf
    <3>4. QuietInv'
      BY DEF QuietInv, QuietAfterDisableAll, Took
    <3>5. DoubledInv' /\ PlacesInv'
      BY DEF DoubledInv, Doubled, PlacesInv, Passed, Took
    <3> QED BY <3>1, <3>2, <3>3, <3>4, <3>5
  <2> QED BY <2>1, <2>2, <2>3 DEF InterfaceNext
<1> QED BY <1>1, <1>2, PTL DEF InterfaceSpec

\* A frame goes to a log once, unless the log was in the list more than once meanwhile, or
\* was stopped and added again (interface.py:110-124).
THEOREM OnceCorrect == InterfaceSpec => []OncePerLog
<1>1. LogsInv => OncePerLog
  BY DEF LogsInv, OncePerLog, PlacesInv, CallsInv
<1> QED BY <1>1, LogsInvariant, PTL

\* A log that is on all the time gets the frame that is sent, or received with an id and a
\* payload, unless stop_log() has met it (interface.py:110-124).
THEOREM SteadyCorrect == InterfaceSpec => []SteadyLogsGetTheFrame
<1>1. ASSUME LogsInv, NEW t \in Threads, AtLoop(t), ~InList(t), "stop" \notin call[t].met,
             NEW l \in call[t].steady
      PROVE  Took(l, call[t].frame)
  <2>1. call[t].frame # 0 /\ call[t].place = "loop" /\ call[t].at \notin DOMAIN logs
    BY <1>1 DEF LogsInv, CallsInv, AtLoop, InList
  <2>2. l \in Passed(t) \/ \E i \in DOMAIN logs : i >= call[t].at
    BY <1>1, <2>1 DEF LogsInv, PlacesInv
  <2>3. \A i \in DOMAIN logs : ~(i >= call[t].at)
    <3>1. logs \in Seq(Logs) /\ call[t] \in CallsType
      BY <1>1 DEF LogsInv, LogsTypeOK
    <3>2. call[t].at \in Nat \ {0}
      BY <3>1 DEF CallsType
    <3> QED BY <2>1, <3>1, <3>2
  <2> QED BY <2>1, <2>2, <2>3 DEF Passed
<1>2. LogsInv => SteadyLogsGetTheFrame
  BY <1>1 DEF SteadyLogsGetTheFrame
<1> QED BY <1>2, LogsInvariant, PTL

\* Logging costs a frame only while a log is started or stopped, or after a log was added
\* without a status, or was stopped that is in the list more than once
\* (interface.py:67-79, 91-124).
THEOREM LossCorrect == InterfaceSpec => []FramesAreLostToChangesOnly
  BY LogsInvariant, PTL DEF LogsInv, StatusInv

\* After disable_all() nothing is logged, whoever is in which loop (interface.py:87-89).
THEOREM QuietCorrect == InterfaceSpec => []QuietAfterDisableAll
  BY LogsInvariant, PTL DEF LogsInv, QuietInv
=============================================================================
