------------------------ MODULE LinearDecomposition ------------------------
(***************************************************************************)
(* What the linear simplifier promises: a linear mixed Boolean-arithmetic  *)
(* expression is determined by its values on the truth assignments of its  *)
(* variables, and the sum of conjunctions built from those values has the  *)
(* same values again.                                                      *)
(*                                                                         *)
(* A truth assignment is the set of variables that are 1, a conjunction of *)
(* variables is the set of them, and the constant term is the conjunction  *)
(* of no variable.  The text of the expression under construction is       *)
(* abstracted to the function it denotes.  Simplifier::simplify_generic,   *)
(* GeneralSimplifier and the per-bit loop of MultibitSimplifier code the   *)
(* same elimination differently; only the order all of them share is kept: *)
(* a conjunction is handled after every conjunction of fewer of its        *)
(* variables.                                                              *)
(***************************************************************************)
EXTENDS Integers

CONSTANTS
  Variables,   \* the variables of the input expression
  Modulus      \* 2^bitCount

ASSUME ModulusAssumption == Modulus \in Nat \ {0}

VARIABLES
  original,      \* the values of the input expression
  resultVector,  \* what the conjunctions not handled yet must account for
  expr,          \* the values of the expression built so far
  todo           \* the conjunctions not handled yet

vars == <<original, resultVector, expr, todo>>

Word == 0 .. Modulus - 1

Assignments == SUBSET Variables

\* Addition and subtraction of words, which wrap around.
Plus(a, b) == IF a + b < Modulus THEN a + b ELSE a + b - Modulus

\* Mistake: a difference that is not reduced.
Minus_Unreduced(a, b) == a - b

Minus(a, b) == IF b <= a THEN a - b ELSE a - b + Modulus

----------------------------------------------------------------------------

\* Mistake: the conjunctions are taken in any order.
Lowest_AnyOrder(comb) == TRUE

\* No smaller conjunction of comb's variables is left to handle.
Lowest(comb) == \A T \in todo : T \subseteq comb => T = comb

\* Mistake: only the conjunctions of one more variable are corrected.
Residual_NextLargerOnly(comb, coeff) ==
  [S \in Assignments |->
     IF \E v \in Variables \ comb : S = comb \union {v}
       THEN Minus(resultVector[S], coeff) ELSE resultVector[S]]

\* The residual once coeff is attributed to comb.  The entry of comb itself is
\* left as it is: nothing reads it again.
Residual(comb, coeff) ==
  [S \in Assignments |->
     IF comb \subseteq S /\ comb # S THEN Minus(resultVector[S], coeff)
                                     ELSE resultVector[S]]

\* The values of the expression with the term coeff * (conjunction of comb).
WithTerm(comb, coeff) ==
  [S \in Assignments |-> IF comb \subseteq S THEN Plus(expr[S], coeff) ELSE expr[S]]

Init ==
  /\ original \in [Assignments -> Word]
  /\ resultVector = original
  /\ expr = [S \in Assignments |-> 0]
  /\ todo = Assignments

Eliminate(comb) ==
  LET coeff == resultVector[comb] IN
  /\ comb \in todo
  /\ Lowest(comb)
  /\ resultVector' = Residual(comb, coeff)
  /\ expr' = WithTerm(comb, coeff)
  /\ todo' = todo \ {comb}
  /\ UNCHANGED original

Next == \E comb \in Assignments : Eliminate(comb)

Spec == Init /\ [][Next]_vars

----------------------------------------------------------------------------

TypeOK ==
  /\ original \in [Assignments -> Word]
  /\ resultVector \in [Assignments -> Word]
  /\ expr \in [Assignments -> Word]
  /\ todo \subseteq Assignments

\* On an assignment that is still to be handled, the expression built so far and
\* the residual add up to the input; on every other one the expression already
\* has the input's value, and no later term disturbs it.
Accounted ==
  \A S \in Assignments :
    original[S] = IF S \in todo THEN Plus(expr[S], resultVector[S]) ELSE expr[S]

\* The conjunctions left are closed under adding variables: handling one can
\* no longer change the value on an assignment already settled.
UpwardClosed ==
  \A T \in todo, S \in Assignments : T \subseteq S => S \in todo

\* The sum of conjunctions simplify_generic returns has the values of the input
\* on every truth assignment.
Equivalent == todo = {} => expr = original

=============================================================================
