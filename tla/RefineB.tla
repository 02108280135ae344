------------------------------ MODULE RefineB ------------------------------
(***************************************************************************)
(* MBA/RefineB.cpp: rules of refineStep2 on negations, powers of two,      *)
(* powers and common factors.  Each is an operator from the node before to *)
(* the node after; a rule that does not apply returns the node it is given.*)
(***************************************************************************)
EXTENDS RefineA

(***************************************************************************)
(* What a rule looks at in the parent of the i-th child: its type, whether *)
(* it is a constant times this child, and whether its first child, already *)
(* refined, is a product.                                                  *)
(***************************************************************************)
ParentOf(n, i) == [type         |-> n.type,
                   scalar       |-> Len(n.ch) = 2 /\ IsConst(n.ch[1]),
                   productFirst |-> i > 1 /\ n.ch[1].type = "PRODUCT"]
NoParent == [type |-> "none", scalar |-> FALSE, productFirst |-> FALSE]

(***************************************************************************)
(* checkBitwiseNegations.                                                  *)
(***************************************************************************)
AddToFront(ch, k) ==      \* k added to the constant in front, which 0 is if there is none
    IF SelectInSeq(ch, IsConst) = 1
    THEN [ch EXCEPT ![1] = newConstantNode(@.constant + k)]
    ELSE <<newConstantNode(k)>> \o ch
TimesFront(ch, k) ==
    IF IsConst(ch[1]) THEN [ch EXCEPT ![1] = newConstantNode(@.constant * k)]
    ELSE <<newConstantNode(k)>> \o ch

substituteBitwiseNegationProduct(n) ==
    newNode("SUM", <<newConstantNode(-1), [n.ch[1] EXCEPT !.ch = TimesFront(@, -1)]>>)
substituteBitwiseNegationSum(n) ==
    newNode("PRODUCT", <<newConstantNode(-1), [n.ch[1] EXCEPT !.ch = AddToFront(@, 1)]>>)
substituteBitwiseNegationGeneric(n, parent) ==
    IF parent.type = "SUM" \/ (parent.type = "PRODUCT" /\ parent.scalar)
    THEN newNode("SUM", <<newConstantNode(-1), newNode("PRODUCT", <<newConstantNode(-1), n.ch[1]>>)>>)
    ELSE n

checkBitwiseNegations(n, parent) ==
    LET bitwise == parent.type = "NEGATION" \/ parent.type \in BitwiseBinops
        arg     == getOptTransformedNegated(n)
    IN CASE n.type = "NEGATION" /\ bitwise -> n
         [] n.type = "NEGATION" /\ ~bitwise ->
                CASE n.ch[1].type = "PRODUCT" -> substituteBitwiseNegationProduct(n)
                  [] n.ch[1].type = "SUM"     -> substituteBitwiseNegationSum(n)
                  [] OTHER -> substituteBitwiseNegationGeneric(n, parent)
         [] n.type # "NEGATION" /\ bitwise /\ arg # nullptr -> newNode("NEGATION", <<arg>>)
         [] OTHER -> n

(***************************************************************************)
(* checkBitwisePowersOfTwo: a power of two that divides every operand, up  *)
(* to a constant remainder.  -1 is the factor of what any power divides.   *)
(***************************************************************************)
RECURSIVE getMaxFactorPowerOfTwo(_, _)
getMaxFactorPowerOfTwoInChildren(n, allowRem) ==
    LET withNeg == allowRem /\ isBitwiseBinop(n)
        free    == allowRem /\ IsConst(n.ch[1])
        exps    == {getMaxFactorPowerOfTwo(n.ch[i], withNeg) :
                        i \in IF free THEN 2 .. Len(n.ch) ELSE DOMAIN n.ch} \ {-1}
    IN IF 0 \in exps THEN 0 ELSE IF exps = {} THEN -1 ELSE Min(exps)

getMaxFactorPowerOfTwo(n, allowRem) ==
    CASE n.type = "CONSTANT" -> trailingZeros(toLow64(n.constant))
      [] n.type = "PRODUCT"  -> getMaxFactorPowerOfTwo(n.ch[1], FALSE)
      [] n.type = "SUM"      -> getMaxFactorPowerOfTwoInChildren(n, allowRem)
      [] n.type = "NEGATION" /\ allowRem -> getMaxFactorPowerOfTwo(n.ch[1], FALSE)
      [] OTHER -> 0

\* n without a first child k, which is neutral.
WithoutFirst(n, k) == IF isConstant(n.ch[1], k) THEN NodeOrOnly(n.type, Rest(n)) ELSE n

\* What is left of n, and the remainder.
RECURSIVE divideByPowerOfTwo(_, _)
divideByPowerOfTwo(n, e) ==
    LET parts == [i \in DOMAIN n.ch |-> divideByPowerOfTwo(n.ch[i], e)]
        terms == [n EXCEPT !.ch = [i \in DOMAIN n.ch |-> parts[i].node]]
        rest  == SelectLastInSeq(parts, LAMBDA p : p.rem # 0)
    IN CASE n.type = "CONSTANT" ->
                [node |-> [n EXCEPT !.constant = lshr(@, e)],
                 rem  |-> toLow64(n.constant - lshr(n.constant, e) * 2 ^ e)]
         [] n.type = "PRODUCT"  ->
                [node |-> WithoutFirst([n EXCEPT !.ch[1] = parts[1].node], 1), rem |-> 0]
         [] n.type = "SUM"      ->
                [node |-> WithoutFirst(terms, 0), rem |-> IF rest = 0 THEN 0 ELSE parts[rest].rem]
         [] OTHER -> [node |-> terms, rem |-> 2 ^ e - 1]

applyBitwise(t, a, b) ==
    CASE t = "CONJUNCTION" -> AndTable[a, b]
      [] t = "INCL_DISJUNCTION" -> OrTable[a, b]
      [] t = "EXCL_DISJUNCTION" -> XorTable[a, b]

checkBitwisePowersOfTwo(n) ==
    LET e     == getMaxFactorPowerOfTwoInChildren(n, TRUE)
        parts == [i \in DOMAIN n.ch |-> divideByPowerOfTwo(n.ch[i], e)]
        add   == FoldLeft(LAMBDA a, p : applyBitwise(n.type, a, p.rem), parts[1].rem, Tail(parts))
        prod  == newNode("PRODUCT", <<newConstantNode(2 ^ e),
                                      [n EXCEPT !.ch = [i \in DOMAIN n.ch |-> parts[i].node]]>>)
    IN IF ~isBitwiseBinop(n) THEN n
       ELSE IF e <= 0 THEN n
       ELSE IF add = 0 THEN prod
       ELSE newNode("SUM", <<newConstantNode(add), prod>>)

(***************************************************************************)
(* checkBeautifyConstantsInProducts: under a factor with e trailing zeros  *)
(* the upper e bits of a constant do not matter.  (e is 64 for the factor  *)
(* 0, where the shifts are undefined; masked by the processor they change  *)
(* no constant.)                                                           *)
(***************************************************************************)
popcount(x) == FoldLeft(LAMBDA c, i : c + BitOf(x, i), 0, [i \in 1 .. Width |-> i - 1])

RECURSIVE checkBeautifyConstants(_, _)
checkBeautifyConstants(n, e) ==
    LET mask == 2 ^ (Width - e) - 1
        low  == toLow64(n.constant) % (mask + 1)
        top  == BitOf(low, Width - e - 1)
    IN CASE isBitwiseOp(n) \/ n.type \in {"SUM", "PRODUCT"} ->
                [n EXCEPT !.ch = [i \in DOMAIN n.ch |-> checkBeautifyConstants(n.ch[i], e)]]
         [] n.type = "CONSTANT" /\ e < Width ->
                \* b == 1: the bit itself is the lowest one
                IF top = 1 /\ (popcount(low) > 1 \/ e = Width - 1)
                THEN newConstantNode(low - (mask + 1)) ELSE newConstantNode(low)
         [] OTHER -> n

checkBeautifyConstantsInProducts(n) ==
    LET e == trailingZeros(toLow64(n.ch[1].constant))
    IN IF ~HasConstFactor(n) THEN n
       ELSE IF e <= 0 THEN n
       ELSE [n EXCEPT !.ch = [i \in DOMAIN n.ch |->
                                 IF i = 1 THEN n.ch[1] ELSE checkBeautifyConstants(n.ch[i], e)]]

(***************************************************************************)
(* checkMoveInBitwiseNegations, checkBitwiseNegationsInExclDisjunctions.   *)
(***************************************************************************)
isNegated(n) == n.type = "NEGATION" \/ getOptTransformedNegated(n) # nullptr

negate(n) ==
    LET arg == getOptTransformedNegated(n)
    IN CASE n.type = "NEGATION" -> n.ch[1]
         [] n.type # "NEGATION" /\ arg # nullptr -> arg
         [] OTHER -> newNode("NEGATION", <<n>>)

\* getRecursivelyNegatedChild without a depth limit returns the first child
\* that is negated or has a negated operand below it.
RECURSIVE IsNegatedBelow(_)
IsNegatedBelow(n) == isNegated(n) \/ (isBitwiseBinop(n) /\ \E i \in DOMAIN n.ch : IsNegatedBelow(n.ch[i]))

checkMoveInBitwiseNegations(n) ==
    LET child == n.ch[1]
        dual  == IF child.type = "CONJUNCTION" THEN "INCL_DISJUNCTION" ELSE "CONJUNCTION"
        first == SelectInSeq(child.ch, IsNegatedBelow)
    IN CASE n.type # "NEGATION" -> n
         [] n.type = "NEGATION" /\ child.type = "EXCL_DISJUNCTION" ->
                IF first = 0 THEN n ELSE [child EXCEPT !.ch[first] = negate(@)]
         [] n.type = "NEGATION" /\ child.type \in {"CONJUNCTION", "INCL_DISJUNCTION"} ->
                IF \A i \in DOMAIN child.ch : ~isNegated(child.ch[i]) THEN n
                ELSE newNode(dual, [i \in DOMAIN child.ch |-> negate(child.ch[i])])
         [] OTHER -> n

checkBitwiseNegationsInExclDisjunctions(n) ==
    LET Before(i) == Cardinality({j \in 1 .. i : isNegated(n.ch[j])})
        pairs     == Before(Len(n.ch)) \div 2
    IN IF n.type # "EXCL_DISJUNCTION" THEN n
       ELSE [n EXCEPT !.ch = [i \in DOMAIN n.ch |->
                IF isNegated(n.ch[i]) /\ Before(i) <= 2 * pairs THEN negate(n.ch[i]) ELSE n.ch[i]]]

(***************************************************************************)
(* Powers.                                                                 *)
(***************************************************************************)
\* The power without the constant in its base.  That constant's power becomes a
\* factor here, or, when the parent is a product, is inserted in front of the
\* parent's children (inserted) -- unless the first of these is a product: then
\* it goes into that product's field constant, and is lost.
checkRewritePowers(n, parent) ==
    LET base == n.ch[1]
        exp  == n.ch[2]
        k    == power(toLow64(base.ch[1].constant), toLow64(exp.constant))
        rest == [n EXCEPT !.ch[1] = NodeOrOnly("PRODUCT", Rest(base))]
    IN IF n.type # "POWER" THEN [node |-> n, inserted |-> FALSE]
       ELSE IF ~IsConst(exp) \/ ~HasConstFactor(base) THEN [node |-> n, inserted |-> FALSE]
       ELSE IF k = 1 THEN [node |-> rest, inserted |-> FALSE]
       ELSE IF parent.type = "PRODUCT" THEN [node |-> rest, inserted |-> ~parent.productFirst]
       ELSE [node |-> newNode("PRODUCT", <<newConstantNode(k), rest>>), inserted |-> FALSE]

addConstant(n, k) ==
    CASE n.type = "CONSTANT" -> newConstantNode(n.constant + k)
      [] n.type = "SUM"      -> [n EXCEPT !.ch = AddToFront(@, k)]
      [] OTHER -> newNode("SUM", <<newConstantNode(k), n>>)

addToSum(n, o) ==
    LET Plus(s, c) == IF IsConst(c) THEN addConstant(s, toLow64(c.constant))
                      ELSE [s EXCEPT !.ch = Append(@, c)]
    IN mergeSimilarNodesSum(IF o.type = "SUM" THEN FoldLeft(Plus, n, o.ch)
                            ELSE [n EXCEPT !.ch = Append(@, o)])

add(n, o) ==
    CASE IsConst(n) -> addConstant(o, toLow64(n.constant))
      [] ~IsConst(n) /\ IsConst(o) -> addConstant(n, toLow64(o.constant))
      [] n.type = "SUM" /\ ~IsConst(o) -> addToSum(n, o)
      [] n.type \notin {"SUM", "CONSTANT"} /\ o.type = "SUM" -> addToSum(o, n)
      [] OTHER -> mergeSimilarNodesSum(newNode("SUM", <<n, o>>))

\* The loops of checkResolveProductOfPowers: child i against child j, from the
\* last child down and for each from index start up.
RECURSIVE MergePowers(_, _, _, _)
MergePowers(ch, start, i, j) ==
    LET c == ch[i]
        d == ch[j]
        Next_(s) == MergePowers(s, start, i - 1, start)
        Power(x) == x.type = "POWER"
    IN IF i <= start THEN ch
       ELSE IF j = i THEN Next_(ch)
       ELSE IF Power(d) /\ equals(d.ch[1], c)
            THEN Next_(RemoveAt([ch EXCEPT ![j].ch[2] = addConstant(@, 1)], i))
       ELSE IF Power(d) /\ Power(c) /\ equals(d.ch[1], c.ch[1])
            THEN Next_(RemoveAt([ch EXCEPT ![j].ch[2] = add(@, c.ch[2])], i))
       ELSE IF Power(c)
            THEN IF equals(c.ch[1], d)
                 THEN Next_(RemoveAt([ch EXCEPT ![j] = [c EXCEPT !.ch[2] = addConstant(@, 1)]], i))
                 ELSE Next_(ch)
       ELSE IF equals(c, d)
            THEN Next_(RemoveAt([ch EXCEPT ![j] = newNode("POWER", <<c, newConstantNode(2)>>)], i))
       ELSE MergePowers(ch, start, i, j + 1)

checkResolveProductOfPowers(n) ==
    LET start == IF IsConst(n.ch[1]) THEN 2 ELSE 1
    IN IF n.type # "PRODUCT" THEN n
       ELSE NodeOrOnly("PRODUCT", MergePowers(n.ch, start, Len(n.ch), start))

(***************************************************************************)
(* Products with a sum, and sums with a common factor.                     *)
(***************************************************************************)
TimesTerm(c, k) ==
    CASE IsConst(c) -> newConstantNode(c.constant * k)
      [] c.type = "PRODUCT" -> [c EXCEPT !.ch = TimesFront(@, k)]
      [] OTHER -> newNode("PRODUCT", <<newConstantNode(k), c>>)

checkResolveProductOfConstantAndSum(n) ==
    LET k     == n.ch[1].constant
        terms == [i \in DOMAIN n.ch[2].ch |-> TimesTerm(n.ch[2].ch[i], k)]
    IN IF ~HasConstFactor(n) \/ Len(n.ch) < 2 THEN n
       ELSE IF n.ch[2].type # "SUM" THEN n
       ELSE NodeOrOnly("PRODUCT", <<newNode("SUM", terms)>> \o SubSeq(n.ch, 3, Len(n.ch)))

PowerOf(c)   == c.type = "POWER" /\ IsConst(c.ch[2]) /\ ~isConstant(c.ch[2], 0)
hasFactorProduct(n, f) ==
    \E i \in DOMAIN n.ch : equals(n.ch[i], f) \/ (PowerOf(n.ch[i]) /\ equals(n.ch[i].ch[1], f))
hasFactor(n, f) ==
    CASE n.type = "PRODUCT" -> hasFactorProduct(n, f)
      [] n.type # "PRODUCT" /\ PowerOf(n) -> equals(n.ch[1], f)
      [] OTHER -> equals(n, f)
hasFactorInRemainingChildren(n, f) == \A i \in 2 .. Len(n.ch) : hasFactor(n.ch[i], f)

\* Mistake: a constant is taken out of a sum, into which it is multiplied again.
getCommonFactorInSum_Constants(n) ==
    LET all == IF n.ch[1].type = "PRODUCT" THEN n.ch[1].ch ELSE <<n.ch[1]>>
        k   == SelectInSeq(all, LAMBDA f : hasFactorInRemainingChildren(n, f))
    IN IF k = 0 THEN nullptr ELSE all[k]

\* The first factor of the first term that the others have too, powers and
\* their bases included, and constants not.
getCommonFactorInSum(n) ==
    LET first == n.ch[1]
        Candidates(c) == <<c>> \o (IF PowerOf(c) THEN <<c.ch[1]>> ELSE <<>>)
        all == CASE first.type = "PRODUCT" ->
                        FlattenSeq([i \in DOMAIN first.ch |->
                            IF IsConst(first.ch[i]) THEN <<>> ELSE Candidates(first.ch[i])])
                 [] first.type = "POWER"   ->
                        IF PowerOf(first) THEN SelectSeq(<<first.ch[1]>>, NotConst) ELSE <<>>
                 [] OTHER -> SelectSeq(<<first>>, NotConst)
        k   == SelectInSeq(all, LAMBDA f : hasFactorInRemainingChildren(n, f))
    IN IF k = 0 THEN nullptr ELSE all[k]

decrementExponent(n) ==
    LET exp == addConstant(n.ch[2], -1)
    IN CASE isConstant(exp, 1) -> n.ch[1]
         [] isConstant(exp, 0) -> newConstantNode(1)
         [] OTHER -> [n EXCEPT !.ch[2] = exp]

eliminateFactor(n, f) ==
    LET k == SelectInSeq(n.ch, LAMBDA c : equals(c, f) \/ (c.type = "POWER" /\ equals(c.ch[1], f)))
    IN CASE n.type = "PRODUCT" ->
                IF k = 0 THEN n
                ELSE IF equals(n.ch[k], f) THEN NodeOrOnly("PRODUCT", RemoveAt(n.ch, k))
                ELSE [n EXCEPT !.ch[k] = decrementExponent(@)]
         [] n.type = "POWER" -> IF equals(n, f) THEN newConstantNode(1) ELSE decrementExponent(n)
         [] OTHER -> newConstantNode(1)

\* The loop of checkFactorOutOfSum: the factors, then what is left of the sum.
RECURSIVE FactorOut(_)
FactorOut(n) ==
    LET f == getCommonFactorInSum(n)
    IN IF f = nullptr THEN <<n>>
       ELSE <<f>> \o FactorOut([n EXCEPT !.ch = [i \in DOMAIN n.ch |-> eliminateFactor(n.ch[i], f)]])

\* Mistake: a product of one factor is kept.
checkFactorOutOfSum_KeepsProduct(n) ==
    IF n.type # "SUM" \/ Len(n.ch) <= 1 THEN n ELSE newNode("PRODUCT", FactorOut(n))
checkFactorOutOfSum(n) ==
    IF n.type # "SUM" \/ Len(n.ch) <= 1 THEN n ELSE NodeOrOnly("PRODUCT", FactorOut(n))

(***************************************************************************)
(* checkResolveInverseNegationsInSum: a + ~a is -1, and a*b + ~a*b is -b.  *)
(***************************************************************************)
\* getOnlyDifferingChildIndices of two nodes of the same type: 0 if there is
\* not exactly one child of each without an equal one in the other.
RECURSIVE Unmatched(_, _)
Unmatched(l1, l2) ==      \* the first list without those that have a partner in the second
    IF l1 = <<>> THEN <<>>
    ELSE LET j == SelectInSeq(l2, LAMBDA o : equals(l1[1], o))
         IN IF j = 0 THEN <<l1[1]>> \o Unmatched(Tail(l1), l2)
            ELSE Unmatched(Tail(l1), RemoveAt(l2, j))
RECURSIVE LeftOver(_, _)
LeftOver(l1, idx2) ==     \* the indices of the second list left over: idx2 pairs them with nodes
    IF l1 = <<>> THEN idx2
    ELSE LET j == SelectInSeq(idx2, LAMBDA p : equals(l1[1], p.node))
         IN LeftOver(Tail(l1), IF j = 0 THEN idx2 ELSE RemoveAt(idx2, j))

DifferingChild(n, o) == LET u == Unmatched(n.ch, o.ch) IN IF Len(u) = 1 THEN u[1] ELSE nullptr
DifferingIndex(n, o) == LeftOver(n.ch, [i \in DOMAIN o.ch |-> [i |-> i, node |-> o.ch[i]]])[1].i

differOnlyByNegation(n, o) ==
    /\ n.type = "PRODUCT" /\ o.type = "PRODUCT" /\ Len(n.ch) = Len(o.ch)
    /\ DifferingChild(n, o) # nullptr
    /\ equalsNegated(DifferingChild(n, o), o.ch[DifferingIndex(n, o)])

\* The loops, from child i down: the children left and the constant collected.
RECURSIVE ResolveNegations(_, _, _)
ResolveNegations(ch, i, constTerm) ==
    LET j == SelectInSubSeq(ch, 1, i - 1,
                            LAMBDA d : equalsNegated(ch[i], d) \/ differOnlyByNegation(ch[i], d))
        d == ch[j]
        b == NodeOrOnly("PRODUCT", RemoveAt(d.ch, DifferingIndex(ch[i], d)))
    IN IF i <= 1 THEN [ch |-> ch, constTerm |-> constTerm]
       ELSE IF j = 0 THEN ResolveNegations(ch, i - 1, constTerm)
       ELSE IF equalsNegated(ch[i], d)
            THEN ResolveNegations(RemoveAt(RemoveAt(ch, i), j), i - 2, constTerm - 1)
       ELSE ResolveNegations(RemoveAt([ch EXCEPT ![j] = multiplyByMinusOne(b)], i), i - 1, constTerm)

checkResolveInverseNegationsInSum(n) ==
    LET r   == ResolveNegations(n.ch, Len(n.ch), 0)
        all == IF r.ch = <<>> THEN <<newConstantNode(r.constTerm)>> ELSE AddToFront(r.ch, r.constTerm)
        ch  == IF Len(all) > 1 /\ isConstant(all[1], 0) THEN Tail(all) ELSE all
    IN IF n.type # "SUM" THEN n ELSE NodeOrOnly("SUM", ch)

=============================================================================
