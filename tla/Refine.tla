------------------------------- MODULE Refine -------------------------------
(***************************************************************************)
(* Node::refine as an operator: refineStep1 and refineStep2 in turn, until *)
(* step 2 changes nothing or MAX_IT rounds are made.                       *)
(***************************************************************************)
EXTENDS RefineC

CONSTANT MAX_IT

ASSUME MaxItAssumption == MAX_IT \in Nat \ {0}

(***************************************************************************)
(* The rules of refineStep2, in order.                                     *)
(***************************************************************************)
Rules == <<"NestedNegations", "BitwiseNegations", "PowersOfTwo", "BeautifyConstants",
           "MoveInNegations", "NegationsInXor", "RewritePowers", "ProductOfPowers",
           "ConstantTimesSum", "FactorOutOfSum", "InverseNegationsInSum", "FixedInConj",
           "FixedInDisj", "TrivialXor", "XorSame", "ConjZero", "ConjNegXorZero",
           "DisjNegXorMinusOne", "ConjNegatedXorZero", "ConjXorIdentity", "DisjXorIdentity",
           "ConjNegConj", "DisjDisj", "ConjConj", "DisjConj", "DisjConj2", "ConjDisj",
           "DisjNegDisj", "DisjSubDisj", "DisjSubConj", "ConjAddConj", "DisjDisjConj",
           "ConjConjDisj", "DisjDisjConj2">>

\* The node after a rule.
After(r, n, parent) ==
    CASE r = "NestedNegations"    -> eliminateNestedNegationsAdvanced(n)
      [] r = "BitwiseNegations"   -> checkBitwiseNegations(n, parent)
      [] r = "PowersOfTwo"        -> checkBitwisePowersOfTwo(n)
      [] r = "BeautifyConstants"  -> checkBeautifyConstantsInProducts(n)
      [] r = "MoveInNegations"    -> checkMoveInBitwiseNegations(n)
      [] r = "NegationsInXor"     -> checkBitwiseNegationsInExclDisjunctions(n)
      [] r = "RewritePowers"      -> checkRewritePowers(n, parent).node
      [] r = "ProductOfPowers"    -> checkResolveProductOfPowers(n)
      [] r = "ConstantTimesSum"   -> checkResolveProductOfConstantAndSum(n)
      [] r = "FactorOutOfSum"     -> checkFactorOutOfSum(n)
      [] r = "InverseNegationsInSum" -> checkResolveInverseNegationsInSum(n)
      [] r = "FixedInConj"        -> insertFixedInConj(n)
      [] r = "FixedInDisj"        -> insertFixedInDisj(n)
      [] r = "TrivialXor"         -> checkTrivialXor(n)
      [] r = "XorSame"            -> checkXorSameMultByMinusOne(n)
      [] r = "ConjZero"           -> checkConjZeroRule(n)
      [] r = "ConjNegXorZero"     -> checkConjNegXorZeroRule(n)
      [] r = "DisjNegXorMinusOne" -> checkConjNegXorMinusOneRule(n)
      [] r = "ConjNegatedXorZero" -> checkConjNegatedXorZeroRule(n)
      [] r = "ConjXorIdentity"    -> checkConjXorIdentityRule(n)
      [] r = "DisjXorIdentity"    -> checkDisjXorIdentityRule(n)
      [] r = "ConjNegConj"        -> checkConjNegConjIdentityRule(n)
      [] r = "DisjDisj"           -> checkNestedBitwiseIdentityRule(n, "INCL_DISJUNCTION")
      [] r = "ConjConj"           -> checkNestedBitwiseIdentityRule(n, "CONJUNCTION")
      [] r = "DisjConj"           -> checkDisjConjIdentityRule(n)
      [] r = "DisjConj2"          -> checkDisjConjIdentityRule2(n)
      [] r = "ConjDisj"           -> checkConjDisjIdentityRule(n)
      [] r = "DisjNegDisj"        -> checkDisjNegDisjIdentityRule(n)
      [] r = "DisjSubDisj"        -> checkDisjSubDisjIdentityRule(n)
      [] r = "DisjSubConj"        -> checkDisjSubConjIdentityRule(n)
      [] r = "ConjAddConj"        -> checkConjAddConjIdentityRule(n)
      [] r = "DisjDisjConj"       -> checkNestedBitwiseRule(n, "INCL_DISJUNCTION")
      [] r = "ConjConjDisj"       -> checkNestedBitwiseRule(n, "CONJUNCTION")
      [] r = "DisjDisjConj2"      -> checkDisjDisjConjRule2(n)

(***************************************************************************)
(* refineStep2 of a node.  The result is a record of the node, of whether  *)
(* a rule has changed it, and of whether checkRewritePowers has inserted a *)
(* constant into the children of the parent.                               *)
(***************************************************************************)
\* The first rule from r on that changes the node, and 0 if none does.
NextRuleOf(n, r, parent) ==
    SelectInSubSeq(Rules, r, Len(Rules), LAMBDA name : After(name, n, parent) # n)

RECURSIVE RefineNode(_, _, _)
RefineNode(acc, r, parent) ==
    LET k == NextRuleOf(acc.node, r, parent)
    IN IF acc.node = undefined THEN acc
       ELSE IF k = 0 THEN acc
       ELSE RefineNode([node     |-> After(Rules[k], acc.node, parent),
                        changed  |-> TRUE,
                        inserted |-> acc.inserted \/ ( /\ Rules[k] = "RewritePowers"
                                                      /\ checkRewritePowers(acc.node, parent).inserted)],
                       k + 1, parent)

\* The children are refined in a loop over the list of children itself: when one of
\* them inserts a constant into that list, what follows is undefined.
RECURSIVE refineStep2(_, _), RefineChildren(_, _, _)
refineStep2(n, parent) == RefineNode(RefineChildren(n, 1, FALSE), 1, parent)
RefineChildren(n, i, changed) ==
    LET child == refineStep2(n.ch[i], ParentOf(n, i))
    IN IF i > Len(n.ch) THEN [node |-> n, changed |-> changed, inserted |-> FALSE]
       ELSE IF child.inserted \/ child.node = undefined
       THEN [node |-> undefined, changed |-> TRUE, inserted |-> FALSE]
       ELSE RefineChildren([n EXCEPT !.ch[i] = child.node], i + 1, changed \/ child.changed)

\* settled: the last round has changed nothing.
RECURSIVE RefineRounds(_, _)
RefineRounds(n, iteration) ==
    LET step2 == refineStep2(refineStep1(n), NoParent)
    IN IF ~step2.changed \/ step2.node = undefined \/ iteration = MAX_IT
       THEN [node |-> step2.node, settled |-> ~step2.changed]
       ELSE RefineRounds(step2.node, iteration + 1)
refine(n) == RefineRounds(n, 1).node

=============================================================================
