---------------------------- MODULE TraceRecorder ---------------------------
(***************************************************************************)
(* The Trace: calls of decorated functions and methods are recorded while  *)
(* it is on, and made into lines of code that shall repeat them.  How      *)
(* arguments are written is left out; names of objects are not.            *)
(***************************************************************************)
EXTENDS Naturals, Sequences, SequencesExt, FiniteSetsExt

CONSTANTS
  Objects,  \* objects of decorated classes
  ClassOf,  \* object -> the name of its class
  Lower,    \* name of a class -> the same in lower case
  MaxTrace  \* bound: recorded calls

ASSUME TraceAssumption ==
  /\ DOMAIN ClassOf = Objects /\ \A o \in Objects : ClassOf[o] \in DOMAIN Lower
  /\ MaxTrace \in Nat

VARIABLES
  enable,
  call_sequence,
  class_to_instance_map,  \* object -> its name, for those that have one
  class_instance_count,   \* class -> number, for those that have one
  constructed,            \* the objects there are
  code                    \* history: the lines made last, and if that raised

traceVars == <<enable, call_sequence, class_to_instance_map, class_instance_count,
               constructed, code>>

Function == "a function"
NoCode   == [lines |-> <<>>, raised |-> FALSE]

TraceInit ==
  /\ enable = FALSE /\ call_sequence = <<>>
  /\ class_to_instance_map = <<>> /\ class_instance_count = <<>>
  /\ constructed = {}
  /\ code = NoCode

Start == enable' = TRUE
         /\ UNCHANGED <<call_sequence, class_to_instance_map, class_instance_count,
                        constructed, code>>
Stop  == enable' = FALSE
         /\ UNCHANGED <<call_sequence, class_to_instance_map, class_instance_count,
                        constructed, code>>

\* The wrappers: the call is recorded before it is made.
Recorded(call) ==
  /\ Len(call_sequence) < MaxTrace
  /\ call_sequence' = IF enable THEN Append(call_sequence, call) ELSE call_sequence
  /\ UNCHANGED <<enable, class_to_instance_map, class_instance_count, code>>

CallFunction == Recorded([kind |-> "function", on |-> Function]) /\ UNCHANGED constructed

Construct(o) ==
  /\ o \notin constructed
  /\ constructed' = constructed \cup {o}
  /\ Recorded([kind |-> "constructor", on |-> o])

CallMethod(o) ==
  /\ o \in constructed
  /\ Recorded([kind |-> "method", on |-> o])
  /\ UNCHANGED constructed

-----------------------------------------------------------------------------
(* get_code_lines() *)

\* Mutant of InstanceName: one name for all classes.
OneNameForAll(class, number) == <<"instance", number>>

\* Classes whose names differ in case only share the names of their objects.
InstanceName(class, number) == <<Lower[class], number>>

\* f with f[x] = y, as an assignment to an item of a dict.
With(f, x, y) == [z \in DOMAIN f \cup {x} |-> IF z = x THEN y ELSE f[z]]

Line(call, name) == [kind |-> call.kind, on |-> call.on, name |-> name]

\* One turn of the loop.  The number of a class is set to 0 and never changed.
Written(state, call) ==
  LET class  == ClassOf[call.on]
      counts == IF class \in DOMAIN state.counts THEN state.counts
                                                 ELSE With(state.counts, class, 0)
      name   == InstanceName(class, counts[class])
  IN CASE state.raised -> state
       [] ~state.raised /\ call.kind = "function" ->
            [state EXCEPT !.lines = Append(@, Line(call, Function))]
       [] ~state.raised /\ call.kind = "constructor" ->
            [state EXCEPT !.lines  = Append(@, Line(call, name)),
                          !.names  = With(@, call.on, name),
                          !.counts = counts]
       [] ~state.raised /\ call.kind = "method" ->
            IF call.on \in DOMAIN state.names
            THEN [state EXCEPT !.lines = Append(@, Line(call, state.names[call.on]))]
            ELSE [state EXCEPT !.raised = TRUE]

\* A KeyError for an object without a name; what has been remembered stays.
GetCodeLines ==
  LET state == FoldLeft(Written, [lines |-> <<>>, raised |-> FALSE,
                                  names |-> class_to_instance_map,
                                  counts |-> class_instance_count], call_sequence)
  IN  /\ code' = [lines |-> state.lines, raised |-> state.raised]
      /\ class_to_instance_map' = state.names
      /\ class_instance_count' = state.counts
      /\ UNCHANGED <<enable, call_sequence, constructed>>

TraceNext ==
  \/ Start \/ Stop \/ CallFunction \/ GetCodeLines
  \/ \E o \in Objects : Construct(o) \/ CallMethod(o)

TraceSpec == TraceInit /\ [][TraceNext]_traceVars

-----------------------------------------------------------------------------
(* Properties *)

\* The object that the name in line i stands for when the lines are run: the one
\* that the last constructor before has given this name.
Denoted(i) ==
  LET given == {j \in 1..i : code.lines[j].kind = "constructor"
                             /\ code.lines[j].name = code.lines[i].name}
  IN  code.lines[Max(given)].on

Between(o, p, i) ==
  \E j, k \in 1..i : j < k /\ code.lines[j] = [code.lines[j] EXCEPT !.kind = "constructor", !.on = o]
                     /\ code.lines[k] = [code.lines[k] EXCEPT !.kind = "constructor", !.on = p]

(* Run as code, each line is about the object its call was about, unless  *)
(* an object of the same class, or of one that is written the same way in  *)
(* lower case, has been made since, which gets the same name               *)
(* (trace_decorator.py:86-98).                                             *)
LinesRepeatTheCalls ==
  \A i \in DOMAIN code.lines :
    code.lines[i].kind = "method" =>
      LET o == code.lines[i].on
      IN  \/ Denoted(i) = o
          \/ \E p \in Objects \ {o} :
               Lower[ClassOf[p]] = Lower[ClassOf[o]] /\ Between(o, p, i)
=============================================================================
