---------------------------- MODULE PortableQueue ---------------------------
(***************************************************************************)
(* The portable multiprocessing queue: a counter that put() and get()      *)
(* change before they do anything else, and that empty() and clear() look  *)
(* at instead of the queue.  Users are threads or processes.               *)
(***************************************************************************)
EXTENDS Integers, FiniteSets

CONSTANTS
  Users,      \* threads and processes that use the queue
  MaxPuts,    \* bound: calls of put()
  MaxFulls,   \* bound: calls of put() that raise
  MaxEmpties  \* bound: calls of get() that raise

ASSUME UsersAssumption ==
  IsFiniteSet(Users) /\ MaxPuts \in Nat /\ MaxFulls \in Nat /\ MaxEmpties \in Nat

VARIABLES
  size,     \* self.size
  elements, \* number of elements in the queue
  doing,    \* user -> where it is
  puts,     \* number of calls of put()
  fulls,    \* history: calls of put() that have raised Full, or ValueError
  empties,  \* history: calls of get() that have raised Empty, or ValueError
  raced     \* history: users in clear() that have met another get()

queueVars == <<size, elements, doing, puts, fulls, empties, raced>>

\* clear() is at its test, between test and get(), or inside of get().
Places == {"idle", "put", "get", "test", "clear", "take"}

Busy(place)   == {u \in Users : doing[u] = place}
Getters     == Busy("get") \cup Busy("take")
Moves(u, from, to) == doing[u] = from /\ doing' = [doing EXCEPT ![u] = to]

QueueInit ==
  /\ size = 0 /\ elements = 0
  /\ doing = [u \in Users |-> "idle"]
  /\ puts = 0 /\ fulls = 0 /\ empties = 0 /\ raced = {}

PutCounts(u) ==
  /\ puts < MaxPuts
  /\ Moves(u, "idle", "put")
  /\ size' = size + 1
  /\ puts' = puts + 1
  /\ UNCHANGED <<elements, fulls, empties, raced>>

PutAdds(u) ==
  /\ Moves(u, "put", "idle")
  /\ elements' = elements + 1
  /\ UNCHANGED <<size, puts, fulls, empties, raced>>

\* The queue is full and put() does not wait for ever, or the queue has been closed.
PutRaises(u) ==
  /\ fulls < MaxFulls
  /\ Moves(u, "put", "idle")
  /\ fulls' = fulls + 1
  /\ UNCHANGED <<size, elements, puts, empties, raced>>

\* Mutant of Counted: the size does not become negative.
CountedFromZero == IF size > 0 THEN size - 1 ELSE 0

Counted == size - 1

\* What every get() does first.  Users of clear() that have seen the size have met it.
GetCounts(u) ==
  /\ \/ Moves(u, "idle", "get")
     \/ Moves(u, "clear", "take")
  /\ size' = Counted
  /\ raced' = raced \cup ((Busy("clear") \cup Busy("take")) \ {u})
  /\ UNCHANGED <<elements, puts, fulls, empties>>

GetTakes(u) ==
  /\ elements > 0
  /\ \/ Moves(u, "get", "idle")
     \/ Moves(u, "take", "test")
  /\ elements' = elements - 1
  /\ UNCHANGED <<size, puts, fulls, empties, raced>>

\* A timeout, or get_nowait(); or, the only one for clear(), a queue that is closed.
GetRaises(u) ==
  /\ empties < MaxEmpties
  /\ \/ Moves(u, "get", "idle")
     \/ Moves(u, "take", "idle")
  /\ empties' = empties + 1
  /\ UNCHANGED <<size, elements, puts, fulls, raced>>

ClearBegins(u) ==
  /\ Moves(u, "idle", "test")
  /\ UNCHANGED <<size, elements, puts, fulls, empties, raced>>

SeemsEmpty == size = 0

ClearTests(u) ==
  /\ Moves(u, "test", IF SeemsEmpty THEN "idle" ELSE "clear")
  /\ raced' = IF Getters = {} THEN raced \ {u} ELSE raced \cup {u}
  /\ UNCHANGED <<size, elements, puts, fulls, empties>>

QueueNext == \E u \in Users :
  \/ PutCounts(u) \/ PutAdds(u) \/ PutRaises(u)
  \/ GetCounts(u) \/ GetTakes(u) \/ GetRaises(u)
  \/ ClearBegins(u) \/ ClearTests(u)

QueueSpec == QueueInit /\ [][QueueNext]_queueVars

-----------------------------------------------------------------------------
(* Properties *)

(* clear(), which gets without a timeout whenever the size is not 0, does  *)
(* not wait for an element nobody puts, as long as no get() and no put()   *)
(* has raised, which leaves the size wrong for good, and it has met no     *)
(* other get() (cross_platform_hacks.py:49-68).                            *)
ClearDoesNotWaitInVain ==
  \A u \in Busy("take") \ raced :
    empties = 0 /\ fulls = 0 => elements > 0 \/ Busy("put") # {}

(* What is true of the size: it is the number of elements, give or take    *)
(* the calls on their way, less the calls of get() and more the calls of   *)
(* put() that have raised: what they have counted is never taken back      *)
(* (cross_platform_hacks.py:49-55).                                        *)
SizeCounts ==
  size = elements + Cardinality(Busy("put")) - Cardinality(Getters) - empties + fulls
=============================================================================
