------------------------- MODULE MCBruteforceSearch -------------------------
(* A search over choices of none, one and two values, two of which have the  *)
(* same values, and ranges that go up, down, and whose step is larger than   *)
(* they are.                                                                 *)
EXTENDS BruteforceSearch

Choice(object, values) == [object |-> object, kind |-> "choice", values |-> values]
Steps(object, start, stop, step) ==
  [object |-> object, kind |-> "range", start |-> start, stop |-> stop, step |-> step]

MCParams == {Choice(1, <<>>), Choice(2, <<7>>), Choice(3, <<4, 2>>), Choice(4, <<4, 2>>),
             Steps(5, 0, 5, 2), Steps(6, 3, 0, -1), Steps(7, 0, 1, 2)}
=============================================================================
