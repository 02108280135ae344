---------------------------- MODULE MCTryRefine ----------------------------
(***************************************************************************)
(* Instances of TryRefine for three variables.                             *)
(***************************************************************************)
EXTENDS TryRefine

\* Vectors with up to six values: entries 5 and 6 repeat entries 1 and 2.
PartlySymmetric ==
  {<<w[2], w[3], w[4], w[5], w[2], w[3], w[6]>> @@ (0 :> w[1]) :
     w \in {0, 1} \X {0, 5} \X Word \X Word \X Word \X Word}

\* The vectors of a*x + b*y + c*z + d*(x&y), for four sums of conjunctions that are
\* as long as sums of fewer bitwise expressions are.
FourTerms ==
  {[i \in Entries |->
      LET on(v) == IF Bit(i, v) THEN 1 ELSE 0
      IN  (w[1] * on(0) + w[2] * on(1) + w[3] * on(2) + w[4] * on(0) * on(1)) % Modulus] :
     w \in Word \X Word \X Word \X {1, 6}}

\* Vectors with two values: rules (2), (3) and (4).
TwoValued ==
  {[i \in Entries |-> IF i \in on THEN a ELSE b] :
     on \in SUBSET (Entries \ {0}), a \in Word, b \in {0, 1, 3, 6}}

SomeVectors == PartlySymmetric \union FourTerms \union TwoValued
=============================================================================
