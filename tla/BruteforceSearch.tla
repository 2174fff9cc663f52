-------------------------- MODULE BruteforceSearch --------------------------
(***************************************************************************)
(* A Search with its BruteforceStrategy, which goes through all            *)
(* combinations of the values of its parameters.  One caller, no threads:  *)
(* what is difficult is the carry from one parameter to the one before it, *)
(* which relies on a negative index to start again from the last.          *)
(***************************************************************************)
EXTENDS Integers, Sequences, FiniteSets, SequencesExt

CONSTANTS
  Params,     \* the Parameter objects: choices and ranges of integers
  MaxParams,  \* bound: parameters of a search
  MaxCalls    \* bound: calls of next() in a row

ASSUME BoundsAssumption == MaxParams \in Nat /\ MaxCalls \in Nat

\* The constructor of a range refuses the others.
Accepted(p) == p.kind = "range" => p.step # 0 /\ p.start # p.stop

\* An object is itself and its values: the keys of a dict are compared as objects, so that
\* two parameters with the same values are two.
Parameter == [object : Nat, kind : {"choice"}, values : Seq(Int)]
               \cup [object : Nat, kind : {"range"}, start : Int, stop : Int, step : Int]

ASSUME ParamsAssumption ==
  /\ Params \subseteq Parameter
  /\ \A p \in Params : Accepted(p) /\ \A q \in Params : p.object = q.object => p = q

VARIABLES
  assigned,            \* Search.parameters
  parameters,          \* those of the strategy
  indices,             \* parameter -> the index of its next value
  total_returned_cnt,
  returned,            \* history: what next() has returned since a reset
  calls,               \* history: calls of next() since then
  raised               \* history: the last call has raised

searchVars == <<assigned, parameters, indices, total_returned_cnt, returned, calls, raised>>

-----------------------------------------------------------------------------
(* Parameters *)

Magnitude(n) == IF n < 0 THEN -n ELSE n

\* int(a / b): towards zero, for which the floats are exact enough below 2^53.
Truncated(a, b) ==
  IF (a < 0) = (b < 0) THEN Magnitude(a) \div Magnitude(b)
                       ELSE -(Magnitude(a) \div Magnitude(b))

LengthOf(p) == IF p.kind = "choice" THEN Len(p.values)
                                    ELSE Truncated(p.stop - p.start, p.step)

\* An index past a list raises; a range takes any.
HasValue(p, i) == p.kind = "choice" => i < Len(p.values)

Get(p, i) == IF p.kind = "choice" THEN p.values[i + 1] ELSE p.start + i * p.step

-----------------------------------------------------------------------------
Size == Len(parameters)

\* length(): the product of the lengths.
length ==
  IF parameters = <<>> THEN 0
  ELSE FoldLeft(LAMBDA product, p : product * LengthOf(p), 1, parameters)

\* The keys of indices, in the order of their insertion: a parameter that has
\* been added twice is there once.
Keys == FoldLeft(LAMBDA keys, p : IF Contains(keys, p) THEN keys ELSE Append(keys, p),
                 <<>>, parameters)

\* The combination at indices, if each of them has a value.
HasNext == \A p \in ToSet(parameters) : HasValue(p, indices[p])
Combination == [i \in DOMAIN Keys |-> Get(Keys[i], indices[Keys[i]])]

\* self.parameters[i], where i may be negative.
HasAt(i) == i \in (-Size)..(Size - 1)
At(i)    == parameters[IF i < 0 THEN Size + i + 1 ELSE i + 1]

Moved(ind, how) == [indices |-> ind, how |-> how]

Advanced(ind, i) == [ind EXCEPT ![At(i)] = @ + 1]

\* Mutant of Full: an index may be as large as the length.
Overfull(ind, p) == ind[p] > LengthOf(p)

Full(ind, p) == ind[p] >= LengthOf(p)

Exhausted(ind, i) == i = 0 /\ ind[At(0)] > LengthOf(At(0))

\* The loop of move_indices(), which has just advanced the index of parameter i:
\* a full index is cleared and the one before it advanced; the first is
\* preceded by the last.
Carry[i \in (-Size)..(Size - 1)] ==
  [ind \in [ToSet(parameters) -> Nat] |->
    LET cleared == [ind EXCEPT ![At(i)] = 0]
        carried == Advanced(cleared, i - 1)
    IN  IF ~Full(ind, At(i)) THEN Moved(ind, "moved")
        ELSE IF ~HasAt(i - 1) THEN Moved(cleared, "raised")
        ELSE IF Exhausted(carried, i - 1) THEN Moved(carried, "exhausted")
        ELSE Carry[i - 1][carried]]

MoveIndices == Carry[Size - 1][Advanced(indices, Size - 1)]

-----------------------------------------------------------------------------
\* update() of the strategy.
Updated(ps) ==
  /\ parameters' = ps
  /\ indices' = [p \in ToSet(ps) |-> 0]
  /\ total_returned_cnt' = 0

Afresh == returned' = <<>> /\ calls' = 0

SearchInit ==
  /\ assigned = <<>> /\ parameters = <<>>
  /\ indices = [p \in {} |-> 0]
  /\ total_returned_cnt = 0
  /\ returned = <<>> /\ calls = 0 /\ raised = FALSE

\* add_param() starts the search again.
AddParam(p) ==
  /\ Len(assigned) < MaxParams
  /\ assigned' = Append(assigned, p)
  /\ Updated(assigned')
  /\ Afresh
  /\ raised' = FALSE

Reset ==
  /\ parameters # <<>>
  /\ Updated(parameters)
  /\ Afresh
  /\ raised' = FALSE
  /\ UNCHANGED assigned

\* reduce() of nothing raises, after all has been reset.
ResetNothing ==
  /\ parameters = <<>>
  /\ Updated(parameters)
  /\ Afresh
  /\ raised' = TRUE
  /\ UNCHANGED assigned

\* reset_all() of the Search: the strategy is not told.
ResetAll ==
  /\ assigned' = <<>>
  /\ raised' = FALSE
  /\ UNCHANGED <<parameters, indices, total_returned_cnt, returned, calls>>

\* next(): the values are read, then the indices are moved on.
Call == calls < MaxCalls /\ calls' = calls + 1

NextReturns ==
  /\ parameters # <<>> /\ HasNext
  /\ MoveIndices.how # "raised"
  /\ Call
  /\ returned' = Append(returned, Combination)
  /\ indices' = MoveIndices.indices
  /\ total_returned_cnt' = IF MoveIndices.how = "exhausted" THEN 1
                                                            ELSE total_returned_cnt + 1
  /\ raised' = FALSE
  /\ UNCHANGED <<assigned, parameters>>

\* An IndexError in get(), or at once when there is no parameter.
NextHasNoValue ==
  /\ parameters = <<>> \/ ~HasNext
  /\ Call
  /\ raised' = TRUE
  /\ UNCHANGED <<assigned, parameters, indices, total_returned_cnt, returned>>

\* An IndexError in move_indices(): the values are lost, the indices cleared.
MoveRaises ==
  /\ parameters # <<>> /\ HasNext
  /\ MoveIndices.how = "raised"
  /\ Call
  /\ indices' = MoveIndices.indices
  /\ raised' = TRUE
  /\ UNCHANGED <<assigned, parameters, total_returned_cnt, returned>>

SearchNext ==
  \/ \E p \in Params : AddParam(p)
  \/ Reset \/ ResetNothing \/ ResetAll
  \/ NextReturns \/ NextHasNoValue \/ MoveRaises

SearchSpec == SearchInit /\ [][SearchNext]_searchVars

-----------------------------------------------------------------------------
(* Properties *)

\* What the caller has asked for: the parameters added since the last reset_all(), or,
\* if none has been added, those of before, which the strategy goes on with.
Searched == IF assigned = <<>> THEN parameters ELSE assigned

Combinations(ps) == FoldLeft(LAMBDA product, p : product * LengthOf(p), 1, ps)
Total == Combinations(Searched)

\* The reference: the k-th combination in lexicographic order, whose i-th value
\* changes once in as many combinations as the parameters after it have.
Nth(k) == [i \in DOMAIN Searched |->
             LET turn == Combinations(SubSeq(Searched, i + 1, Len(Searched)))
             IN  Get(Searched[i], ((k - 1) \div turn) % LengthOf(Searched[i]))]

Sound == Searched # <<>> /\ IsInjective(Searched)
         /\ \A p \in ToSet(Searched) : LengthOf(p) >= 1

\* A search that has something to go through.
Searchable == Sound /\ Total > 1

\* The first length() calls of next() return every combination of the parameters
\* once, the last parameter changing fastest (the carry of move_indices).  So progress()
\* comes to 1 with the last of them, where testscript.py:54 stops: the count is that of
\* the calls since the last reset or added parameter, none of which has raised.
EveryCombinationOnce ==
  Searchable => /\ length = Total
                /\ \A k \in DOMAIN returned : k <= Total => returned[k] = Nth(k)
                /\ total_returned_cnt = Len(returned) /\ Len(returned) = calls

\* "when exhausted, it should have progress = 1" (test_bruteforce_search.py:63): once all
\* combinations have been returned, the count that progress() divides by length() is that
\* of the combinations.
ExhaustedAtOne == Searchable /\ Len(returned) >= Total => total_returned_cnt = Total
=============================================================================
