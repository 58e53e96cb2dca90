--------------------------- MODULE MCBatchGrading ---------------------------
(* Instances of BatchGrading: two items in one invocation of an empty         *)
(* directory, and one item in two invocations of a directory where an earlier *)
(* invocation has graded the other item, and may have paid for a take of it.  *)
EXTENDS BatchGrading

CONSTANTS i1, i2

LOCAL Old(i, final) ==
  [item |-> i, run |-> 0, attempt |-> 1, final |-> final, torn |-> FALSE]

MCStarts == {[run |-> 1, votes |-> {}],
             [run |-> 0, votes |-> {Old(i2, TRUE)}],
             [run |-> 0, votes |-> {Old(i2, TRUE), Old(i1, FALSE)}]}
=============================================================================
