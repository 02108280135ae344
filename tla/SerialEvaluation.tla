------------------------- MODULE SerialEvaluation -------------------------
(***************************************************************************)
(* What init_result_vector promises the simplifier: the value of the       *)
(* expression under every truth assignment, in the order of the            *)
(* assignments' indices, since entry i is looked up by its index ever      *)
(* after.  The value of entry i is written i.                              *)
(***************************************************************************)
EXTENDS Integers, Sequences

CONSTANT NumEntries   \* 2^vnumber

VARIABLE resultVector

Init == resultVector = <<>>

\* One iteration of the serial loop.
Evaluate ==
  /\ Len(resultVector) < NumEntries
  /\ resultVector' = Append(resultVector, Len(resultVector))

Next == Evaluate

Safety == Init /\ [][Next]_resultVector

Spec == Safety /\ WF_resultVector(Evaluate)

=============================================================================
