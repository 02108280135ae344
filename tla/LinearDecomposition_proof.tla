--------------------- MODULE LinearDecomposition_proof ---------------------
(***************************************************************************)
(* The elimination of LinearDecomposition is correct for every set of      *)
(* variables, every modulus, every input and every order that respects     *)
(* inclusion.                                                              *)
(***************************************************************************)
EXTENDS LinearDecomposition, TLAPS

\* Words are closed under the wrapped sum and difference.
LEMMA WordClosed ==
  ASSUME NEW a \in Word, NEW b \in Word
  PROVE  Plus(a, b) \in Word /\ Minus(a, b) \in Word
BY ModulusAssumption DEF Word, Plus, Minus

\* What is added to the expression and taken from the residual cancels out.
LEMMA TransferKeepsSum ==
  ASSUME NEW e \in Word, NEW r \in Word, NEW c \in Word
  PROVE  Plus(Plus(e, c), Minus(r, c)) = Plus(e, r)
BY ModulusAssumption DEF Word, Plus, Minus

\* The empty expression accounts for nothing.
LEMMA ZeroPlus ==
  ASSUME NEW a \in Word
  PROVE  0 \in Word /\ Plus(0, a) = a
BY ModulusAssumption DEF Word, Plus

----------------------------------------------------------------------------

\* The inductive invariant.  Accounted alone is not inductive: without
\* UpwardClosed a term could change the value on a settled assignment.
IInv == TypeOK /\ UpwardClosed /\ Accounted

\* At first the residual is the whole result vector, and nothing is settled.
LEMMA InitIInv == Init => IInv
BY ZeroPlus DEF Init, IInv, TypeOK, UpwardClosed, Accounted, Assignments

\* One term moves from the residual to the expression on the assignments above it
\* only, which are all unsettled.
LEMMA EliminateIInv ==
  ASSUME IInv, NEW comb \in Assignments, Eliminate(comb)
  PROVE  IInv'
<1> DEFINE coeff == resultVector[comb]
<1>1. /\ comb \in todo
      /\ Lowest(comb)
      /\ resultVector' = Residual(comb, coeff)
      /\ expr' = WithTerm(comb, coeff)
      /\ todo' = todo \ {comb}
      /\ original' = original
  BY DEF Eliminate
<1>2. TypeOK /\ UpwardClosed /\ Accounted
  BY DEF IInv
<1>3. coeff \in Word
  BY <1>2 DEF TypeOK
<1> HIDE DEF coeff
<1>4. TypeOK'
  <2>1. \A S \in Assignments : Minus(resultVector[S], coeff) \in Word
                            /\ Plus(expr[S], coeff) \in Word
    BY <1>2, <1>3, WordClosed DEF TypeOK
  <2>2. Residual(comb, coeff) \in [Assignments -> Word]
    BY <1>2, <2>1 DEF TypeOK, Residual
  <2>3. WithTerm(comb, coeff) \in [Assignments -> Word]
    BY <1>2, <2>1 DEF TypeOK, WithTerm
  <2> QED
    BY <1>1, <1>2, <2>2, <2>3 DEF TypeOK
<1>5. UpwardClosed'
  <2> SUFFICES ASSUME NEW T \in todo', NEW S \in Assignments, T \subseteq S
               PROVE  S \in todo'
    BY DEF UpwardClosed, Assignments
  <2>1. T \in todo /\ T # comb
    BY <1>1
  <2>2. S \in todo
    BY <2>1, <1>2 DEF UpwardClosed
  <2>3. S # comb
    BY <2>1, <1>1 DEF Lowest
  <2> QED
    BY <2>2, <2>3, <1>1
<1>6. Accounted'
  <2> SUFFICES ASSUME NEW S \in Assignments
               PROVE  original[S] = IF S \in todo' THEN Plus(expr'[S], resultVector'[S])
                                                  ELSE expr'[S]
    BY <1>1 DEF Accounted, Assignments
  <2>1. expr[S] \in Word /\ resultVector[S] \in Word
    BY <1>2 DEF TypeOK
  <2>2. resultVector'[S] = IF comb \subseteq S /\ comb # S
                             THEN Minus(resultVector[S], coeff) ELSE resultVector[S]
    BY <1>1 DEF Residual
  <2>3. expr'[S] = IF comb \subseteq S THEN Plus(expr[S], coeff) ELSE expr[S]
    BY <1>1 DEF WithTerm
  <2>4. original[S] = IF S \in todo THEN Plus(expr[S], resultVector[S]) ELSE expr[S]
    BY <1>2 DEF Accounted
  <2>5. CASE S = comb
    \* The term settles the assignment it was read from.
    <3>1. expr'[S] = Plus(expr[S], resultVector[S])
      BY <2>3, <2>5 DEF coeff
    <3> QED
      BY <3>1, <2>4, <2>5, <1>1
  <2>6. CASE S # comb /\ S \in todo /\ comb \subseteq S
    <3>1. Plus(expr'[S], resultVector'[S]) = Plus(expr[S], resultVector[S])
      BY <2>1, <2>2, <2>3, <2>6, <1>3, TransferKeepsSum
    <3> QED
      BY <3>1, <2>4, <2>6, <1>1
  <2>7. CASE S # comb /\ S \in todo /\ ~(comb \subseteq S)
    BY <2>2, <2>3, <2>4, <2>7, <1>1
  <2>8. CASE S # comb /\ S \notin todo
    \* A settled assignment contains no conjunction that is still to do.
    <3>1. ~(comb \subseteq S)
      BY <2>8, <1>1, <1>2 DEF UpwardClosed
    <3> QED
      BY <3>1, <2>3, <2>4, <2>8, <1>1
  <2> QED
    BY <2>5, <2>6, <2>7, <2>8
<1> QED
  BY <1>4, <1>5, <1>6 DEF IInv

\* Every step keeps the invariant.
LEMMA StepIInv == IInv /\ [Next]_vars => IInv'
<1> SUFFICES ASSUME IInv, [Next]_vars
             PROVE  IInv'
  OBVIOUS
<1>1. CASE Next
  BY <1>1, EliminateIInv DEF Next
<1>2. CASE UNCHANGED vars
  BY <1>2 DEF vars, IInv, TypeOK, UpwardClosed, Accounted, Assignments, Word
<1> QED
  BY <1>1, <1>2

\* Every state of the elimination satisfies the inductive invariant.
THEOREM Invariance == Spec => []IInv
BY InitIInv, StepIInv, PTL DEF Spec

\* The residual and the expression stay words, one per truth assignment.
THEOREM TypeCorrect == Spec => []TypeOK
<1>1. IInv => TypeOK
  BY DEF IInv
<1> QED
  BY Invariance, <1>1, PTL

\* At every moment expression and residual account for the input, whatever the
\* number of variables, the width and the input.
THEOREM AlwaysAccounted == Spec => []Accounted
<1>1. IInv => Accounted
  BY DEF IInv
<1> QED
  BY Invariance, <1>1, PTL

\* When no conjunction is left, the expression has the values of the input.
THEOREM EliminationCorrect == Spec => []Equivalent
<1>1. IInv => Equivalent
  BY DEF IInv, TypeOK, Accounted, Equivalent
<1> QED
  BY Invariance, <1>1, PTL

=============================================================================
