---------------------------- MODULE MCTreePasses ----------------------------
(***************************************************************************)
(* TreePasses over small trees: one or a few for each rule, and every pair *)
(* from small pools under every operator.                                  *)
(***************************************************************************)
EXTENDS TreePasses

x == newVariableNode(1)
y == newVariableNode(2)
K(k)        == newConstantNode(k)
Not(a)      == newNode("NEGATION", <<a>>)
And(a, b)   == newNode("CONJUNCTION", <<a, b>>)
Or(a, b)    == newNode("INCL_DISJUNCTION", <<a, b>>)
Xor(a, b)   == newNode("EXCL_DISJUNCTION", <<a, b>>)
Plus(a, b)  == newNode("SUM", <<a, b>>)
Times(k, a) == IF k = 1 THEN a ELSE newNode("PRODUCT", <<K(k), a>>)
Neg(a)      == Times(-1, a)
Power(a, k) == newNode("POWER", <<a, K(k)>>)

\* A linear solver: the combination of conjunctions, where it has fewer nodes.
AllTypes == {NodeTypes[i] : i \in DOMAIN NodeTypes}
MCSimplifyLinear(n) ==
    LET names  == collectAndEnumerateVariables(n)
        coeff  == getLinearCombination(n, names)
        Scaled(k, m) == IF k = 1 THEN m ELSE newNode("PRODUCT", <<newConstantNode(k), m>>)
        Summand(b) == IF b = 0 THEN newConstantNode(coeff[0]) ELSE Scaled(coeff[b], getBasisExpression(b, names))
        used   == SelectSeq([b \in 1 .. 2 ^ Len(names) |-> b - 1], LAMBDA b : coeff[b] # 0)
        answer == IF used = <<>> THEN newConstantNode(0)
                  ELSE NodeOrOnly("SUM", [i \in DOMAIN used |-> Summand(used[i])])
    IN IF countNodes(answer, AllTypes) < countNodes(n, AllTypes) THEN answer ELSE n

\* Trees on which the rules of refineStep2 fire.
XorMinus == Xor(x, Neg(x))
RefineSeeds == {
    And(Neg(XorMinus), Not(Times(2, x))),
    Or(Not(Neg(XorMinus)), Times(2, x)),
    And(Not(XorMinus), Times(2, x)),
    Or(Neg(XorMinus), Times(2, x)),
    And(Neg(x), Not(And(x, Times(2, x)))),
    Or(x, Neg(Or(x, Neg(x)))),
    And(x, Neg(And(x, Neg(x)))),
    Or(Neg(x), And(Not(x), Times(2, x))),
    And(x, Or(Plus(K(1), Times(2, x)), Plus(K(1), x))),
    And(Plus(K(-1), x), Or(Not(Times(2, x)), x)),
    Or(Neg(x), Neg(Or(x, Times(2, x)))),
    Or(y, Plus(Or(x, y), Neg(x))),
    Or(x, Plus(x, Neg(And(x, y)))),
    And(x, Plus(x, And(Not(x), y))),
    Or(y, Neg(Or(And(x, y), Neg(x)))),
    And(y, Neg(And(Or(x, y), Neg(x)))),
    Or(And(x, y), Neg(Or(newNode("CONJUNCTION", <<K(2), x, y>>), Neg(x)))),
    Plus(x, Xor(x, K(-1))), Times(2, And(x, Neg(x))), Or(Not(x), And(Neg(x), Times(2, x))),
    And(And(x, Neg(x)), Times(2, x)),
    Power(Times(2, x), 2), Plus(y, Power(Neg(x), 2)), Plus(y, Power(Times(3, x), 3))}

Operands == {K(-1), K(1), K(2), x, y, Not(x), Not(y), Neg(x), Times(2, x), Times(-2, y)}
Nested   == {And(a, b) : a \in {x, Neg(x)}, b \in {y, Not(y), K(2)}} 
                \cup {Or(x, b) : b \in {y, Neg(y), K(2)}}
                \cup {Xor(a, b) : a \in {x, Neg(x)}, b \in {y, Neg(x), K(2)}}
BitwisePairs == {newNode(t, <<a, b>>) : t \in BitwiseBinops, a \in Operands \cup Nested, b \in Operands}
ProductPairs == {newNode("PRODUCT", <<a, b>>) : a \in Operands \cup Nested, b \in Operands}

SumPairs == {Plus(a, b) : a \in Operands \cup Nested, b \in Operands}
RefineInputs == BitwisePairs \cup ProductPairs \cup {Not(a) : a \in Operands \cup SumPairs}

\* Trees on which the rules of refineAfterSubstitution fire.
ScaledBitwise == {Times(k, newNode(t, <<a, b>>)) : k \in {1, -1, 2}, t \in BitwiseBinops,
                                             a \in {x, K(1), K(2)}, b \in {y, Not(y)}}
TripleSums == {newNode("SUM", <<Times(a, newNode(t, <<K(1), x>>)), Times(b, newNode(t, <<K(2), x>>)),
                             Times(c, newNode(t, <<K(k), x>>))>>) :
                a \in {1, -1}, b, c \in {1, 2, 3}, t \in BitwiseBinops, k \in {3, 4}}
LinearSums == {newNode("SUM", <<Times(a, x), Times(b, y), Times(c, newNode(t, <<x, y>>))>>) :
                a, b, c \in {1, -1, -2}, t \in BitwiseBinops}
AcceptedInputs ==
    {Plus(a, b) : a \in ScaledBitwise, b \in {n \in ScaledBitwise : countNodes(n, {"NEGATION"}) = 0}}
      \cup TripleSums \cup LinearSums
      \cup {Or(x, Xor(x, y)), Plus(y, Times(2, Or(And(x, K(2)), Xor(x, y)))),
            Xor(Plus(K(1), x), Or(Plus(K(1), x), y)), Plus(y, Neg(And(x, Neg(x))))}

\* Trees with operands to substitute, that occur again in part or negated.
Sums   == {Plus(K(1), x), Plus(x, y), Times(2, x), Plus(x, Neg(y)), Power(x, 2)}
Others == {x, Neg(y), Plus(x, Plus(K(1), y)), newNode("PRODUCT", <<y, Plus(K(-1), Neg(x))>>),
           newNode("PRODUCT", <<K(2), x, y>>), newNode("UREM", <<Plus(x, y), y>>),
           Power(Or(x, Plus(K(1), x)), 2)}
SubstituteInputs(operands) ==
    {Plus(a, newNode(t, <<b, c>>)) : a \in Others, t \in BitwiseBinops, b \in Sums, c \in operands}
      \cup {newNode(t, <<a, Not(b)>>) : t \in BitwiseBinops, a, b \in Sums}

\* Products and sums of products.
FactorPool  == {x, y, K(3), Times(2, x), Neg(y), And(x, y), Not(x), Power(x, 2), Plus(x, y), Plus(K(1), x),
             Plus(x, Neg(y)), newNode("PRODUCT", <<x, y>>), newNode("PRODUCT", <<K(2), x, And(x, y)>>),
             Plus(And(x, y), newNode("PRODUCT", <<x, y>>))}
Products == {newNode("PRODUCT", <<a, b>>) : a, b \in FactorPool} \cup {Power(a, 2) : a \in FactorPool}
SumsOfProducts == {Plus(a, b) : a, b \in FactorPool}
          \cup {Plus(newNode("PRODUCT", <<x, a>>), newNode("PRODUCT", <<x, b>>)) : a, b \in FactorPool}

\* Sums of two products of linear factors, with and without a linear part.
Linear == {x, And(x, y), And(Not(x), y), Plus(x, Neg(y))}
NonlinearSums ==
    {newNode("SUM", s \o <<newNode("PRODUCT", <<a, b>>), newNode("PRODUCT", <<K(3), c, Not(y)>>)>>) :
        s \in {<<>>, <<K(1), x>>}, a, b \in Linear, c \in {x, Plus(x, Neg(y))}}
      \cup {Plus(Times(k, Power(a, 2)), Neg(Power(b, 2))) : k \in {1, 2}, a, b \in Linear}

(***************************************************************************)
(* Trees on which the code does what its comments say it does not.         *)
(***************************************************************************)
Call(n, name) == {<<n, <<name>> >>}
Sum3(a, b, c)  == newNode("SUM", <<a, b, c>>)
With(t, k)     == newNode(t, <<K(k), x, y>>)     \* k & x & y, and so on

\* (2^x) + (6^x) + (4^x).
XorsOfConstants == Call(Sum3(Xor(K(2), x), Xor(K(6), x), Xor(K(4), x)), "simplify")

\* x * (2*y)**2.
PowerInProduct == Call(newNode("PRODUCT", <<x, Power(Times(2, y), 2)>>), "simplify")

\* 0 + x%y.
OnlyRemainder == Call(Plus(K(0), newNode("UREM", <<x, y>>)), "simplify")

\* y + (x*y)%x.
ProductDivided == Call(Plus(y, newNode("UREM", <<newNode("PRODUCT", <<x, y>>), x>>)), "simplify")

\* 2*(3|x|y) - 2*(3&x&y).
XorOfThree == Call(Plus(Times(2, With("INCL_DISJUNCTION", 3)), Times(-2, With("CONJUNCTION", 3))), "simplify")

\* (1&x&y) - (2|x|y).
MixedPair == Call(Plus(With("CONJUNCTION", 1), Neg(With("INCL_DISJUNCTION", 2))), "simplify")

\* (3|x|y) - (-4|x|y) + 2*(4|x|y).
ThreeDisjunctions ==
    Call(Sum3(With("INCL_DISJUNCTION", 3), Neg(With("INCL_DISJUNCTION", -4)), Times(2, With("INCL_DISJUNCTION", 4))),
         "accept")

\* (x-1) & (x ^ (2*x-1)).
XorForDisjunction == Call(And(Plus(K(-1), x), Xor(x, Plus(K(-1), Times(2, x)))), "refine")

\* x**y * x**y.
PowersOfVariable ==
    LET p == newNode("POWER", <<x, y>>) IN Call(newNode("PRODUCT", <<p, p>>), "simplify")

\* (x + 8*y) * 2 * y.
LastSummand == Call(newNode("PRODUCT", <<Plus(x, Times(8, y)), K(2), y>>), "expand")

MCKnown ==
    XorsOfConstants \cup OnlyRemainder \cup ProductDivided \cup XorOfThree \cup MixedPair
      \cup ThreeDisjunctions \cup XorForDisjunction \cup PowersOfVariable \cup LastSummand

(***************************************************************************)
(* The calls of the run in which all must hold.                            *)
(***************************************************************************)
MCCalls ==
    (RefineInputs \X {<<"refine">>})
      \cup ((AcceptedInputs \cup RefineSeeds \cup SumPairs) \X {<<"refine", "accept", "polish">>})
      \cup (Products \X {<<"refine", "refactor", "polish">>})
      \cup ((Products \cup SumsOfProducts) \X {<<"expand">>, <<"markLinear", "factorize">>})
      \cup (SubstituteInputs({y, K(2), Plus(y, Times(2, x))}) \X {<<"substitute">>, <<"hurry">>, <<"direct">>})
      \cup ((RefineSeeds \cup SubstituteInputs({y}) \cup SumsOfProducts \cup NonlinearSums) \X {<<"simplify">>})
      \cup MCKnown

=============================================================================
