-------------------------- MODULE SimplifyGeneric --------------------------
(***************************************************************************)
(* Simplifier::simplify_generic with the helpers it calls, on the vector   *)
(* the code really keeps: entry i holds the value of the expression under  *)
(* the truth assignment whose bit v is variable v.  The conjunctions are   *)
(* enumerated by get_variable_combinations, and subtract_coefficient finds *)
(* the entries to update by striding over the index.                       *)
(***************************************************************************)
EXTENDS TruthTable

VARIABLES
  pc,
  initialResultVector,  \* the values of the input
  resultVector,         \* the residual, updated in place
  combinations,         \* the list get_variable_combinations fills
  New,                  \* how many of its last entries the latest round added
  count,                \* the rounds begun
  size,                 \* the length of the list when the round began
  e,                    \* the conjunction the round enlarges next
  nnew,                 \* how many the round has added
  constant,             \* the constant term
  expr,                 \* the terms appended so far
  position              \* the entry of combinations handled next

roundVars == <<count, size, e, nnew>>
termVars == <<constant, expr, position>>
vars == <<pc, initialResultVector, resultVector, combinations, New, roundVars, termVars>>

\* The index of the assignment in which exactly the variables of comb are 1.
IndexOf(comb) ==
  LET index[k \in 0 .. Len(comb)] ==
        IF k = 0 THEN 0 ELSE index[k - 1] + groupsizes[comb[k]]
  IN  index[Len(comb)]

----------------------------------------------------------------------------

\* Mistake: every shift starts from bit 0 again instead of from prev.
are_variables_true_NoPrev(n, variables, start) ==
  \A k \in start .. Len(variables) :
    LET shifted == FoldSeq(LAMBDA v, sum : sum + v, 0, SubSeq(variables, start, k))
    IN  shifted < vnumber /\ Bit(n, shifted)

\* The shifts n >>= v - prev telescope: the loop inspects bit v of n.
are_variables_true(n, variables, start) ==
  \A k \in start .. Len(variables) : Bit(n, variables[k])

\* Mistake: the stride is one group instead of one period.
Targets_HalfPeriod(firstStart, variables) ==
  LET groupsize1 == groupsizes[variables[1]]
      starts == {s \in Entries : s >= firstStart /\ (s - firstStart) % groupsize1 = 0}
  IN  {i \in Entries \ {firstStart} :
         /\ \E s \in starts : i \in s .. s + groupsize1 - 1
         /\ Len(variables) = 1 \/ are_variables_true(i, variables, 2)}

\* The entries subtract_coefficient changes: windows of groupsize1 entries, one
\* per period from firstStart on, in which the first variable is 1 by design.
Targets(firstStart, variables) ==
  LET groupsize1 == groupsizes[variables[1]]
      starts == {s \in Entries : s >= firstStart
                               /\ (s - firstStart) % (2 * groupsize1) = 0}
  IN  {i \in UNION {s .. s + groupsize1 - 1 : s \in starts} :
         /\ i # firstStart
         /\ Len(variables) = 1 \/ are_variables_true(i, variables, 2)}

\* Mistake: the residual is not reduced.
subtract_coefficient_Unreduced(coeff, firstStart, variables) ==
  [i \in Entries |->
     IF i \in Targets(firstStart, variables) THEN resultVector[i] - coeff
                                             ELSE resultVector[i]]

subtract_coefficient(coeff, firstStart, variables) ==
  [i \in Entries |->
     IF i \in Targets(firstStart, variables)
       THEN (resultVector[i] - coeff) % Modulus ELSE resultVector[i]]

append_conjunction(coeff, variables) ==
  IF coeff = 0 THEN expr
               ELSE Append(expr, [coeff |-> coeff, variables |-> variables])

----------------------------------------------------------------------------

Init ==
  /\ pc = "constant"
  /\ initialResultVector \in [Entries -> Word]
  /\ resultVector = initialResultVector
  /\ combinations = <<>>
  /\ New = 0
  /\ count = 0
  /\ size = 0
  /\ e = 1
  /\ nnew = 0
  /\ constant = 0
  /\ expr = <<>>
  /\ position = 1

SubtractConstant ==
  /\ pc = "constant"
  /\ constant' = resultVector[0]
  /\ resultVector' = [i \in Entries |->
       IF i = 0 THEN resultVector[0]
                ELSE (resultVector[i] - resultVector[0]) % Modulus]
  /\ pc' = "singletons"
  /\ UNCHANGED <<initialResultVector, combinations, New, roundVars, expr, position>>

\* get_variable_combinations first lists every variable on its own ...
ListSingletons ==
  /\ pc = "singletons"
  /\ combinations' = [v \in 1 .. vnumber |-> <<v - 1>>]
  /\ New' = vnumber
  /\ pc' = "rounds"
  /\ UNCHANGED <<initialResultVector, resultVector, roundVars, termVars>>

\* ... and then goes through the conjunctions of the round before, vnumber - 1
\* times.
NextRound ==
  /\ pc = "rounds"
  /\ e > size
  /\ count + 1 < vnumber
  /\ count' = count + 1
  /\ size' = Len(combinations)
  /\ e' = Len(combinations) - New + 1
  /\ nnew' = 0
  /\ UNCHANGED <<pc, initialResultVector, resultVector, combinations, New, termVars>>

\* Mistake: the variable added starts at the last one instead of behind it.
Enlarged_FromLast(comb) ==
  [k \in 1 .. vnumber - Last(comb) |-> Append(comb, Last(comb) + k - 1)]

\* The conjunction with each variable behind its last one.
Enlarged(comb) ==
  [k \in 1 .. vnumber - 1 - Last(comb) |-> Append(comb, Last(comb) + k)]

EnlargeCombination ==
  /\ pc = "rounds"
  /\ e <= size
  /\ combinations' = combinations \o Enlarged(combinations[e])
  /\ nnew' = nnew + Len(Enlarged(combinations[e]))
  /\ New' = nnew'
  /\ e' = e + 1
  /\ UNCHANGED <<pc, initialResultVector, resultVector, count, size, termVars>>

CombinationsListed ==
  /\ pc = "rounds"
  /\ e > size
  /\ count + 1 >= vnumber
  /\ pc' = "terms"
  /\ UNCHANGED <<initialResultVector, resultVector, combinations, New, roundVars,
                 termVars>>

\* Mistake: a zero coefficient is skipped without moving on.
AppendTerm_StuckOnZero ==
  LET comb  == combinations[position]
      index == IndexOf(comb)
      coeff == resultVector[index]
  IN  /\ pc = "terms"
      /\ position <= Len(combinations)
      /\ coeff # 0
      /\ resultVector' = subtract_coefficient(coeff, index, comb)
      /\ expr' = append_conjunction(coeff, comb)
      /\ position' = position + 1
      /\ UNCHANGED <<pc, initialResultVector, combinations, New, roundVars,
                     constant>>

\* One iteration of the loop over the conjunctions: the entry of comb itself is
\* its coefficient.
AppendTerm ==
  LET comb  == combinations[position]
      index == IndexOf(comb)
      coeff == resultVector[index]
  IN  /\ pc = "terms"
      /\ position <= Len(combinations)
      /\ resultVector' = IF coeff = 0 THEN resultVector
                                      ELSE subtract_coefficient(coeff, index, comb)
      /\ expr' = append_conjunction(coeff, comb)
      /\ position' = position + 1
      /\ UNCHANGED <<pc, initialResultVector, combinations, New, roundVars,
                     constant>>

Return ==
  /\ pc = "terms"
  /\ position > Len(combinations)
  /\ pc' = "done"
  /\ UNCHANGED <<initialResultVector, resultVector, combinations, New, roundVars,
                 termVars>>

Next ==
  \/ SubtractConstant
  \/ ListSingletons
  \/ NextRound
  \/ EnlargeCombination
  \/ CombinationsListed
  \/ AppendTerm
  \/ Return

Spec == Init /\ [][Next]_vars /\ WF_vars(Next)

----------------------------------------------------------------------------

TypeOK ==
  /\ pc \in {"constant", "singletons", "rounds", "terms", "done"}
  /\ initialResultVector \in [Entries -> Word]
  /\ resultVector \in [Entries -> Word]
  /\ combinations \in Seq(Seq(0 .. vnumber - 1))
  /\ size \in 0 .. Len(combinations)
  /\ New \in 0 .. Len(combinations)
  /\ nnew \in 0 .. Len(combinations)
  /\ count \in 0 .. vnumber - 1
  /\ e \in 1 .. size + 1
  /\ constant \in Word
  /\ expr \in Seq([coeff : Word \ {0}, variables : Seq(0 .. vnumber - 1)])
  /\ position \in 1 .. Len(combinations) + 1

Ascends(comb) == \A j, k \in DOMAIN comb : j < k => comb[j] < comb[k]

\* When the loop over the conjunctions starts, each nonempty set of variables is
\* in the list once, in ascending order, and none is followed by a subset of its
\* own: no coefficient is read before all that is below it is subtracted.
CombinationsExact ==
  pc \in {"terms", "done"} =>
    /\ \A k \in DOMAIN combinations : Ascends(combinations[k])
    /\ \A S \in (SUBSET (0 .. vnumber - 1)) \ {{}} :
         \E k \in DOMAIN combinations : ToSet(combinations[k]) = S
    /\ \A j, k \in DOMAIN combinations :
         j < k => ~ ToSet(combinations[k]) \subseteq ToSet(combinations[j])

\* simplify_generic returns: none of its loops runs on.
Returns == <>(pc = "done")

----------------------------------------------------------------------------

\* The index of the assignment in which the variables of S are 1.
AsIndex(S) == CHOOSE i \in Entries : AsSet(i) = S

AsFunction(vector) == [S \in SUBSET (0 .. vnumber - 1) |-> vector[AsIndex(S)]]

\* What the terms appended so far evaluate to under assignment S.
ValueOf(S) ==
  LET value[k \in 0 .. Len(expr)] ==
        IF k = 0 THEN constant
        ELSE IF ToSet(expr[k].variables) \subseteq S
             THEN (value[k - 1] + expr[k].coeff) % Modulus ELSE value[k - 1]
  IN  value[Len(expr)]

\* The conjunctions still to handle; the constant is the one of no variable.
Todo ==
  LET handled == IF pc = "constant" THEN {}
                   ELSE {{}} \union {ToSet(combinations[k]) : k \in 1 .. position - 1}
  IN  (SUBSET (0 .. vnumber - 1)) \ handled

Abstract == INSTANCE LinearDecomposition WITH
  Variables    <- 0 .. vnumber - 1,
  original     <- AsFunction(initialResultVector),
  resultVector <- AsFunction(resultVector),
  expr         <- [S \in SUBSET (0 .. vnumber - 1) |-> ValueOf(S)],
  todo         <- Todo

\* The index arithmetic implements the elimination of LinearDecomposition: every
\* step of the loops is an elimination of one conjunction or leaves the values
\* alone.
ImplementsDecomposition == Abstract!Spec

\* The terms simplify_generic has emitted when it returns evaluate to the input's
\* value under every truth assignment, and no two of them have the same variables.
ReturnedExact ==
  pc = "done" =>
    /\ \A i \in Entries : ValueOf(AsSet(i)) = initialResultVector[i]
    /\ \A j, k \in DOMAIN expr : j # k => expr[j].variables # expr[k].variables

=============================================================================
