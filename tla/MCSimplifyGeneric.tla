------------------------ MODULE MCSimplifyGeneric ------------------------
(***************************************************************************)
(* SimplifyGeneric on four variables, for the inputs with at most two      *)
(* nonzero values: enough for every pair of conjunctions to interact,      *)
(* without the 2^16 inputs of the smallest modulus.                        *)
(***************************************************************************)
EXTENDS SimplifyGeneric

MCInit ==
  /\ \E i, j \in Entries, x, y \in Word :
       initialResultVector = [n \in Entries |-> IF n = i THEN x ELSE IF n = j THEN y ELSE 0]
  /\ pc = "constant"
  /\ resultVector = initialResultVector
  /\ combinations = <<>>
  /\ New = 0
  /\ count = 0
  /\ size = 0
  /\ e = 1
  /\ nnew = 0
  /\ constant = 0
  /\ expr = <<>>
  /\ position = 1

MCSpec == MCInit /\ [][Next]_vars /\ WF_vars(Next)
=============================================================================
