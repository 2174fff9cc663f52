------------------------------- MODULE LogFile ------------------------------
(***************************************************************************)
(* A Log: events are appended, loops go through them by an index that is   *)
(* part of the log and not of the loop, and the log is saved as JSON and   *)
(* loaded again.  Two loops and the appending take turns in any order.     *)
(***************************************************************************)
EXTENDS Naturals, Sequences, SequencesExt

CONSTANTS
  Loops,      \* the for loops
  MaxEvents,  \* bound: events of a log
  MaxTurns    \* bound: turns of a loop

ASSUME LogBounds == MaxEvents \in Nat /\ MaxTurns \in Nat

VARIABLES
  logged,              \* Log.events
  current_iter_index,
  going,               \* the loops that go on
  file,                \* the entries of the JSON file
  seen,                \* history: what each loop has got
  met                  \* history: the loops that have met another one

logVars == <<logged, current_iter_index, going, file, seen, met>>

Events == {"frame", "named"}

\* Entries of a JSON array: a string, an object that has the type of an event, another.
Entries == {"string", "frame object", "named object", "object"}

LogInit ==
  /\ logged = <<>> /\ current_iter_index = 0
  /\ going = {} /\ met = {} /\ file = <<>>
  /\ seen = [l \in Loops |-> <<>>]

LogEvent(e) ==
  /\ Len(logged) < MaxEvents
  /\ logged' = Append(logged, e)
  /\ UNCHANGED <<current_iter_index, going, file, seen, met>>

\* Mutant of FirstOfLoop: a loop goes on where the last one stopped.
IndexIsKept == current_iter_index

FirstOfLoop == 0

\* iter()
IterBegins(l) ==
  /\ l \notin going
  /\ current_iter_index' = FirstOfLoop
  /\ going' = going \cup {l}
  /\ seen' = [seen EXCEPT ![l] = <<>>]
  /\ met' = IF going = {} THEN met \ {l} ELSE met \cup going'
  /\ UNCHANGED <<logged, file>>

IterGets(l) ==
  /\ l \in going
  /\ Len(seen[l]) < MaxTurns
  /\ current_iter_index < Len(logged)
  /\ current_iter_index' = current_iter_index + 1
  /\ seen' = [seen EXCEPT ![l] = Append(@, logged[current_iter_index + 1])]
  /\ UNCHANGED <<logged, going, file, met>>

\* StopIteration, or the caller leaves the loop.
IterEnds(l) ==
  /\ l \in going
  /\ going' = going \ {l}
  /\ UNCHANGED <<logged, current_iter_index, file, seen, met>>

-----------------------------------------------------------------------------
(* to_json() and from_json() *)

\* The encoder gets a string from serialize(), not a dict, and encodes it as one.
\* What has been loaded as a string or a dict stays one.
Saved(e) == IF e = "dict" THEN "object" ELSE "string"

Save ==
  /\ file' = [i \in DOMAIN logged |-> Saved(logged[i])]
  /\ UNCHANGED <<logged, current_iter_index, going, seen, met>>

\* Somebody else's file.
ForeignFile(entries) ==
  /\ file' = entries
  /\ UNCHANGED <<logged, current_iter_index, going, seen, met>>

Parsed(entry) == CASE entry = "string"       -> "text"
                   [] entry = "named object" -> "named"
                   [] entry = "object"       -> "dict"

\* A new Log; loops over the old one are none of its business.  FrameEvent.from_dict()
\* always raises, as it leaves out an argument.
Load ==
  /\ "frame object" \notin ToSet(file)
  /\ logged' = [i \in DOMAIN file |-> Parsed(file[i])]
  /\ current_iter_index' = 0
  /\ going' = {} /\ met' = {}
  /\ seen' = [l \in Loops |-> <<>>]
  /\ UNCHANGED file

LogNext ==
  \/ \E e \in Events : LogEvent(e)
  \/ \E l \in Loops : IterBegins(l) \/ IterGets(l) \/ IterEnds(l)
  \/ Save \/ Load
  \/ \E e \in Entries : ForeignFile(<<e>>)

LogSpec == LogInit /\ [][LogNext]_logVars

-----------------------------------------------------------------------------
(* Properties *)

(* "it should allow iterating over events" (test_logger.py:71): a loop that *)
(* no other loop over the same log has met, has got every event up to its   *)
(* place, each once and in order, also those logged while it goes on; so it *)
(* has got all of them when it ends (log.py:83-93). Loops that meet share   *)
(* the index, and get events twice or not at all.                           *)
LoopSeesEveryEvent ==
  \A l \in going \ met :
    /\ current_iter_index <= Len(logged)
    /\ seen[l] = SubSeq(logged, 1, current_iter_index)
=============================================================================
