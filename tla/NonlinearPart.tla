---------------------------- MODULE NonlinearPart ----------------------------
(***************************************************************************)
(* MBA/GeneralSimplifier.cpp, trySimplifySumNonlinearPart: the products of *)
(* two linear factors and the squares of linear bases in a sum are written *)
(* as one combination of products of conjunctions of variables.            *)
(*                                                                         *)
(* A basis expression is numbered by the bits of an index: bit j - 1 says  *)
(* that the j-th variable is in the conjunction, and index 0 stands for 1. *)
(* The combination goes by way of text, and the parser reads it as the     *)
(* tree built here, with constants that are not reduced.                   *)
(***************************************************************************)
EXTENDS RefineA

(***************************************************************************)
(* The variables of a node, ordered by length of name and then by name.    *)
(* Negative numbers stand for the names Y[0], Y[1], ..., which are longer. *)
(***************************************************************************)
RECURSIVE VariablesIn(_)
VariablesIn(n) == IF n.type = "VARIABLE" THEN {n.vname}
                  ELSE UNION {VariablesIn(n.ch[i]) : i \in DOMAIN n.ch}

collectAndEnumerateVariables(n) ==
    SetToSortSeq(VariablesIn(n), LAMBDA v, w : IF (v > 0) = (w > 0) THEN v < w ELSE v > 0)

Bases(vars)     == 0 .. 2 ^ Len(vars) - 1
In(j, b)          == BitOf(b, j - 1) = 1
SubIndex(a, b, k) == a # b /\ \A j \in 1 .. k : In(j, a) => In(j, b)

getBasisExpression(b, vars) ==
    LET in == SelectSeq([j \in DOMAIN vars |-> j], LAMBDA j : In(j, b))
    IN IF b = 0 THEN RawConstant(1)
       ELSE NodeOrOnly("CONJUNCTION", [i \in DOMAIN in |-> newVariableNode(vars[in[i]])])

(***************************************************************************)
(* The coefficients of a linear node, an index each.                       *)
(***************************************************************************)
getResultVector(n, vars) ==
    [b \in Bases(vars) |->
        eval(n, [v \in ToSet(vars) |-> IF In(CHOOSE j \in DOMAIN vars : vars[j] = v, b) THEN 1 ELSE 0])]

\* What is left at an index once the coefficients of smaller conjunctions are
\* subtracted there.
getLinearCombination(n, vars) ==
    LET vector == getResultVector(n, vars)
        coeff[b \in Bases(vars)] ==
            (vector[b] - MapThenSumSet(LAMBDA a : coeff[a],
                                       {a \in Bases(vars) : SubIndex(a, b, Len(vars))})) % Full
    IN [b \in Bases(vars) |-> coeff[b]]

(***************************************************************************)
(* The candidates: products of two linear factors, or a constant and two,  *)
(* and squares of linear bases, or a constant times one.                   *)
(***************************************************************************)
hasNonlinearChild(n) == \E i \in DOMAIN n.ch : state(n.ch[i]) \in {"NONLINEAR", "MIXED"}
IsSimpleSquare(n) ==
    n.type = "POWER" /\ state(n) = "NONLINEAR" /\ isConstant(n.ch[2], 2) /\ ~hasNonlinearChild(n)

isCandidateForSimplificationInSum(n) ==
    \/ IsSimpleSquare(n)
    \/ /\ n.type = "PRODUCT" /\ state(n) = "NONLINEAR"
       /\ Len(n.ch) = 2 \/ (Len(n.ch) = 3 /\ IsConst(n.ch[1]))
       /\ IF IsConst(n.ch[1]) /\ n.ch[2].type = "POWER"
          THEN Len(n.ch) = 2 /\ IsSimpleSquare(n.ch[2])
          ELSE ~hasNonlinearChild(n)

getIndicesOfSimpleNonlinearProductsInSum(n) ==
    IF linearEnd(n) >= Len(n.ch) - 1 THEN {}
    ELSE {i \in DOMAIN n.ch : isCandidateForSimplificationInSum(n.ch[i])}

\* A candidate as a product of its constant and the combinations of both factors.
Product(n, vars) ==
    LET scaled  == IsConst(n.ch[1])
        Of(f, g, k) == [left     |-> getLinearCombination(f, vars),
                        right    |-> getLinearCombination(g, vars),
                        constant |-> k]
    IN CASE n.type = "POWER" -> Of(n.ch[1], n.ch[1], 1)
         [] n.type = "PRODUCT" /\ n.ch[2].type = "POWER" /\ scaled ->
                Of(n.ch[2].ch[1], n.ch[2].ch[1], n.ch[1].constant)
         [] OTHER -> Of(n.ch[Len(n.ch) - 1], Last(n.ch), IF Len(n.ch) = 3 THEN n.ch[1].constant ELSE 1)

\* The coefficient of the basis expressions b and a in a product of combinations:
\* getProductLinearCombination, getPowerLinearCombination.
Coefficient(p, b, a) ==
    p.constant * (p.left[b] * p.right[a] + (IF a = b THEN 0 ELSE p.left[a] * p.right[b]))

(***************************************************************************)
(* The sum with one combination in the place of its candidates.            *)
(***************************************************************************)
Pairs(vars) ==
    FlattenSeq([i \in 1 .. 2 ^ Len(vars) |->
                   [j \in 1 .. 2 ^ Len(vars) + 1 - i |-> <<i - 1, i + j - 2>>]])

\* The product of two basis expressions, times k.
Term(k, b, a, vars) ==
    LET Basis(i) == getBasisExpression(i, vars)
        factors  == IF a = b THEN <<newNode("POWER", <<Basis(b), RawConstant(2)>>)>>
                    ELSE <<Basis(b), Basis(a)>>
    IN NodeOrOnly("PRODUCT", IF k = 1 THEN factors ELSE <<RawConstant(k)>> \o factors)

Terms(products, vars) ==
    LET Sum(b, a)  == MapThenSumSet(LAMBDA i : Coefficient(products[i], b, a), DOMAIN products) % Full
        Added(s, p) == LET k == Sum(p[1], p[2]) IN IF k = 0 THEN s ELSE Append(s, Term(k, p[1], p[2], vars))
    IN FoldLeft(Added, <<>>, Pairs(vars))

canSimplifySumNonlinearPart(n) == Cardinality(getIndicesOfSimpleNonlinearProductsInSum(n)) > 1

trySimplifySumNonlinearPart(n) ==
    LET indices  == getIndicesOfSimpleNonlinearProductsInSum(n)
        first    == CHOOSE i \in indices : \A j \in indices : i <= j
        vars     == collectAndEnumerateVariables(n)
        terms    == Terms([i \in indices |-> Product(n.ch[i], vars)], vars)
        combined == IF terms = <<>> THEN <<>> ELSE <<NodeOrOnly("SUM", terms)>>
        Place(s, i) == CASE i = first   -> s \o combined
                         [] i \in indices \ {first} -> s
                         [] OTHER -> Append(s, n.ch[i])
        ch       == FoldLeft(Place, <<>>, [i \in DOMAIN n.ch |-> i])
    IN IF ch = <<>> THEN newConstantNode(0) ELSE NodeOrOnly("SUM", ch)

=============================================================================
