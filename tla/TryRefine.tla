----------------------------- MODULE TryRefine -----------------------------
(***************************************************************************)
(* Simplifier::try_refine and the helpers it calls: for at most three      *)
(* variables, the sum of conjunctions simplify_generic returned is         *)
(* replaced by a shorter sum of arbitrary bitwise expressions, looked up   *)
(* by truth vector in the tables of BitwiseList.h.                         *)
(*                                                                         *)
(* An expression is a constant and a sequence of terms.  A term is a       *)
(* coefficient and the truth vector of a bitwise expression, kept as the   *)
(* set of entries it is true on, possibly negated: the words ~0 and ~1 are *)
(* -1 and -2.                                                              *)
(***************************************************************************)
EXTENDS TruthTable

CONSTANT Inputs   \* the result vectors the runs start from

ASSUME InputsAssumption == Inputs \subseteq [Entries -> Word] /\ vnumber <= 3

VARIABLES
  pc,
  initialResultVector,
  resultVector,
  constant,
  expr,      \* the expression, as it is when try_refine returns
  rule       \* which of the numbered rules has produced it

vars == <<pc, initialResultVector, resultVector, constant, expr, rule>>

----------------------------------------------------------------------------

\* Entry 0 is the constant's: no term of a table is true there.
Terms == [coeff : Word \ {0}, on : SUBSET (Entries \ {0}), negated : BOOLEAN]
Expressions == [constant : Word, terms : Seq(Terms)]

Term(coeff, on)  == [coeff |-> coeff, on |-> on, negated |-> FALSE]
Sum(c, terms)    == [constant |-> c, terms |-> terms]

\* The number of summands, as the '+' signs in the text give it.
NumTerms(e) == Len(e.terms) + (IF e.constant = 0 THEN 0 ELSE 1)

\* The word a bitwise expression is under the truth assignment of entry i.
WordAt(t, i) ==
  IF i \in t.on THEN (IF t.negated THEN -2 ELSE 1) ELSE (IF t.negated THEN -1 ELSE 0)

\* The value of an expression under the truth assignment of entry i.
ValueAt(e, i) ==
  LET value[k \in 0 .. Len(e.terms)] ==
        IF k = 0 THEN e.constant
        ELSE (value[k - 1] + e.terms[k].coeff * WordAt(e.terms[k], i)) % Modulus
  IN  value[Len(e.terms)]

Denotes(e, vector) == \A i \in Entries : ValueAt(e, i) = vector[i]

\* What simplify_generic returns for a vector: the constant, and then the conjunction of
\* each entry with what is left there as its coefficient.  Larger conjunctions have
\* larger entries.
Generic(vector) ==
  LET conjunction(i) == {j \in Entries : AsSet(i) \subseteq AsSet(j)}
      sum[i \in Entries] ==
        IF i = 0 THEN Sum(vector[0], <<>>)
        ELSE LET before == sum[i - 1]
                 left == (vector[i] - ValueAt(before, i)) % Modulus
             IN  IF left = 0 THEN before
                 ELSE Sum(vector[0], Append(before.terms, Term(left, conjunction(i))))
  IN  sum[groupsizes[vnumber] - 1]

\* fillResultSet: the distinct values, in the order in which they first occur.
fillResultSet(vector) ==
  LET seen[i \in 0 .. groupsizes[vnumber]] ==
        IF i = 0 THEN <<>>
        ELSE LET before == seen[i - 1]
             IN  IF vector[i - 1] \in ToSet(before) THEN before
                 ELSE Append(before, vector[i - 1])
  IN  seen[groupsizes[vnumber]]

\* The entries whose value is one of vals.
On(vals) == {i \in Entries \ {0} : resultVector[i] \in vals}

\* Mistake: the alternative value is not looked for.
TermFor_NoAlternative(r1, rAlt) == Term(r1, On({r1}))

\* append_term_refinement; rAlt is r1 itself when there is no alternative.
TermFor(r1, rAlt) == Term(r1, On({r1, rAlt}))

\* A loop that appends one term for each of the values, except those left out.
AppendTerms(terms, vals, out) ==
  LET simpler[k \in 0 .. Len(vals)] ==
        IF k = 0 THEN terms
        ELSE IF vals[k] \in out THEN simpler[k - 1]
             ELSE Append(simpler[k - 1], TermFor(vals[k], vals[k]))
  IN  simpler[Len(vals)]

\* expression_for_each_unique_value: one term per nonzero value.
TermPerValue(vals) == AppendTerms(<<>>, vals, {0})

----------------------------------------------------------------------------

Signed(a) == IF 2 * a < Modulus THEN a ELSE a - Modulus

\* Doubling wraps in the first test; the second is made on the sign-extended
\* values, where nothing wraps.
is_double_modulo(a, b) ==
  \/ (2 * b) % Modulus = a
  \/ 2 * Signed(a) = Signed(b) + Modulus

is_sum_modulo(s1, s2, a) ==
  \/ (s1 + s2) % Modulus = a
  \/ Signed(s1) + Signed(s2) = Signed(a) + Modulus

\* try_find_negated_single_expression: the pair <<a, b>> after the exchange that
\* is to make b the double of a.
DoublePair(vals) ==
  IF is_double_modulo(vals[1], vals[2]) THEN <<vals[2], vals[1]>> ELSE vals

FindsNegated(vals) ==
  /\ is_double_modulo(vals[1], vals[2]) \/ is_double_modulo(vals[2], vals[1])
  /\ resultVector[0] # DoublePair(vals)[2]

\* Mistake: the coefficient is not reduced.
Negated_Unreduced(vals) ==
  LET pair == DoublePair(vals)
  IN  Sum(0, <<[coeff |-> -pair[1], on |-> On({pair[2]}), negated |-> TRUE]>>)

Negated(vals) ==
  LET pair == DoublePair(vals)
  IN  Sum(0, <<[coeff |-> (-pair[1]) % Modulus, on |-> On({pair[2]}), negated |-> TRUE]>>)

\* try_eliminate_unique_value.  The triples <<i, j, k>> of positions such that the
\* k-th value is the sum of the i-th and the j-th, and the first one in the order
\* of the loops.
SumTriples(u) ==
  {t \in (DOMAIN u) \X (DOMAIN u) \X (DOMAIN u) :
     t[1] < t[2] /\ t[3] \notin {t[1], t[2]} /\ is_sum_modulo(u[t[1]], u[t[2]], u[t[3]])}

FirstTriple(u) ==
  LET rank(t) == (t[1] * 10 + t[2]) * 10 + t[3]
  IN  CHOOSE t \in SumTriples(u) : \A s \in SumTriples(u) : rank(t) <= rank(s)

\* Mistake: the two summands are not erased from the values that follow.
WithoutSum_KeepsSummands(u) ==
  LET t == FirstTriple(u)
  IN  AppendTerms([n \in 1 .. t[2] - t[1] + 1 |-> TermFor(u[t[1] + n - 1], u[t[3]])],
                  u, {u[t[3]]})

\* The loop runs from position i up to position j, and the values at the other
\* positions than i, j and k follow with a term of their own.
WithoutSum(u) ==
  LET t == FirstTriple(u)
  IN  AppendTerms([n \in 1 .. t[2] - t[1] + 1 |-> TermFor(u[t[1] + n - 1], u[t[3]])],
                  u, {u[t[1]], u[t[2]], u[t[3]]})

\* With more than three values, one may be the sum of all others: the sum is
\* formed without wrapping.  The loop over the others returns in its first round.
HalfOfAll(u) ==
  LET sum[k \in 0 .. Len(u)] == IF k = 0 THEN 0 ELSE sum[k - 1] + u[k]
  IN  {k \in DOMAIN u : 2 * u[k] = sum[Len(u)]}

FirstOther(u) ==
  LET k == CHOOSE m \in HalfOfAll(u) : \A n \in HalfOfAll(u) : m <= n
      j == IF k = 1 THEN 2 ELSE 1
  IN  <<TermFor(u[j], u[k])>>

try_eliminate_unique_value(u) ==
  IF SumTriples(u) # {} THEN WithoutSum(u)
  ELSE IF Len(u) >= 4 /\ HalfOfAll(u) # {} THEN FirstOther(u)
  ELSE <<>>

\* The entries of Bitwise_List_1, _2 and _3 whose text is not in parentheses.
Unparenthesised ==
  CASE vnumber = 1 -> {0, 1}
    [] vnumber = 2 -> {0, 2, 5, 6}
    [] vnumber = 3 -> {0, 1, 2, 4, 21, 24, 34, 40, 65, 69, 83, 85, 87, 102, 120}

get_bitwise_index_for_vector(on) == MapThenSumSet(LAMBDA i : 2 ^ (i - 1), on)

----------------------------------------------------------------------------

\* simplify only refines when more than one value occurs.
Init ==
  /\ pc = "two_values"
  /\ initialResultVector \in Inputs
  /\ initialResultVector # [i \in Entries |-> initialResultVector[0]]
  /\ resultVector = initialResultVector
  /\ constant = 0
  /\ expr = Generic(initialResultVector)
  /\ rule = "generic"

Values == fillResultSet(resultVector)

Count == NumTerms(Generic(initialResultVector))

\* The nonzero values in ascending order: the comparison of the sort, not R <= L, is
\* L < R.
UniqueValues ==
  LET occurs == ToSet(Values)
      sorted[k \in 0 .. Modulus - 1] ==
        IF k = 0 THEN <<>>
        ELSE IF k \in occurs THEN Append(sorted[k - 1], k)
             ELSE sorted[k - 1]
  IN  sorted[Modulus - 1]

ReturnWith(e, name) ==
  /\ expr' = e
  /\ rule' = name
  /\ pc' = "done"
  /\ UNCHANGED <<initialResultVector, resultVector, constant>>

\* (2) One nonzero value, and zero for all variables zero: a single expression,
\* taken only when its text starts and ends with a parenthesis, which a
\* coefficient other than 1 prevents.
SingleTermTaken ==
  /\ Len(Values) = 2
  /\ resultVector[0] = 0
  /\ Values[2] = 1
  /\ get_bitwise_index_for_vector(On({1})) \notin Unparenthesised

SingleExpression ==
  /\ pc = "two_values"
  /\ Count > 1
  /\ SingleTermTaken
  /\ ReturnWith(Sum(0, TermPerValue(Values)), "single")

\* (3) One negated expression.
NegatedExpression ==
  /\ pc = "two_values"
  /\ Count > 1
  /\ ~SingleTermTaken
  /\ Len(Values) = 2
  /\ FindsNegated(Values)
  /\ ReturnWith(Negated(Values), "negated")

\* Nothing better is possible for one term, or for two after the attempts above.
KeepShort ==
  /\ pc = "two_values"
  /\ Count <= 2
  /\ Count > 1 => ~SingleTermTaken /\ ~(Len(Values) = 2 /\ FindsNegated(Values))
  /\ ReturnWith(expr, "generic")

\* The constant is taken off every entry, the first one included.
SubtractConstant ==
  /\ pc = "two_values"
  /\ Count > 2
  /\ ~SingleTermTaken
  /\ ~(Len(Values) = 2 /\ FindsNegated(Values))
  /\ constant' = resultVector[0]
  /\ resultVector' = [i \in Entries |-> (resultVector[i] - resultVector[0]) % Modulus]
  /\ pc' = "values"
  /\ UNCHANGED <<initialResultVector, expr, rule>>

\* (4) The constant and one expression.
ConstantAndSingle ==
  /\ pc = "values"
  /\ Len(Values) = 2
  /\ ReturnWith(Sum(constant, TermPerValue(Values)), "constant_single")

\* (5) Two terms.
TwoTerms ==
  /\ pc = "values"
  /\ Len(Values) = 3
  /\ constant = 0
  /\ ReturnWith(Sum(0, TermPerValue(Values)), "two_terms")

\* (6) Three values, one of them the sum of the others.
EliminateOfThree ==
  /\ pc = "values"
  /\ Len(Values) = 4
  /\ constant = 0
  /\ try_eliminate_unique_value(UniqueValues) # <<>>
  /\ ReturnWith(Sum(0, try_eliminate_unique_value(UniqueValues)), "eliminated_three")

\* The conditions under which rules (4), (5) and (6) have not returned.
Remaining ==
  /\ pc = "values"
  /\ Len(Values) > 2
  /\ ~(Len(Values) = 3 /\ constant = 0)
  /\ ~(Len(Values) = 4 /\ constant = 0 /\ try_eliminate_unique_value(UniqueValues) # <<>>)

KeepThree ==
  /\ Remaining
  /\ Count = 3
  /\ ReturnWith(expr, "generic")

\* (7) One term per value.
OneTermPerValue ==
  /\ Remaining
  /\ Count > 3
  /\ constant = 0
  /\ ReturnWith(Sum(0, TermPerValue(Values)), "per_value")

\* (8) The constant, and the values without one that is a sum of others.
EliminateBesideConstant ==
  /\ Remaining
  /\ Count > 3
  /\ constant # 0
  /\ try_eliminate_unique_value(UniqueValues) # <<>>
  /\ ReturnWith(Sum(constant, try_eliminate_unique_value(UniqueValues)), "eliminated")

KeepGeneric ==
  /\ Remaining
  /\ Count > 3
  /\ constant # 0
  /\ try_eliminate_unique_value(UniqueValues) = <<>>
  /\ ReturnWith(expr, "generic")

Next ==
  \/ SingleExpression
  \/ NegatedExpression
  \/ KeepShort
  \/ SubtractConstant
  \/ ConstantAndSingle
  \/ TwoTerms
  \/ EliminateOfThree
  \/ KeepThree
  \/ OneTermPerValue
  \/ EliminateBesideConstant
  \/ KeepGeneric

Spec == Init /\ [][Next]_vars

----------------------------------------------------------------------------

TypeOK ==
  /\ pc \in {"two_values", "values", "done"}
  /\ initialResultVector \in [Entries -> Word]
  /\ resultVector \in [Entries -> Word]
  /\ constant \in Word
  /\ expr \in Expressions
  /\ rule \in {"generic", "single", "negated", "constant_single", "two_terms",
               "eliminated_three", "per_value", "eliminated"}

\* The expression try_refine leaves has the values of the input on every truth
\* assignment, by whichever rule it was found.
RefinementFaithful == Denotes(expr, initialResultVector)

\* Rule (8) replaces one value by a sum of two others.  The loop that is to give the
\* third value to the terms of both gives it to every term between them too.  When
\* one value is the sum of all others instead, only one of their terms is written.
SummandsApart ==
  /\ rule = "eliminated"
  /\ SumTriples(UniqueValues) # {} => FirstTriple(UniqueValues)[2] > FirstTriple(UniqueValues)[1] + 1

\* The same, except where rule (8) meets two summands that are not neighbours in
\* the sorted list, or a value that is the sum of all others.
FaithfulUnlessApart == SummandsApart \/ Denotes(expr, initialResultVector)

\* With at most three nonzero values refining never makes the expression longer: the
\* rules come in the order of what they save.
NeverLonger == Len(UniqueValues) <= 3 => NumTerms(expr) <= Count

=============================================================================
