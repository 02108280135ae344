------------------------------ MODULE RefineC ------------------------------
(***************************************************************************)
(* MBA/RefineC.cpp: the rules of refineStep2 on conjunctions and           *)
(* disjunctions.  Most of them rest on what x, -x and 2x have in common:   *)
(* with b the lowest bit of x, x & -x is b and x ^ -x is -2b.              *)
(***************************************************************************)
EXTENDS RefineB

minus(n)       == multiplyByMinusOne(n)
isDouble(n, o) == equals(n, multiply(o, 2))
Has2(n, t)     == n.type = t /\ Len(n.ch) = 2

\* The node of the first alternative <<condition, node>> that holds.
FirstWhere(alts) ==
    LET k == SelectInSeq(alts, LAMBDA a : a[1]) IN IF k = 0 THEN nullptr ELSE alts[k][2]
OrElse(n, m) == IF n # nullptr THEN n ELSE m

(***************************************************************************)
(* insertFixedInConj and insertFixedInDisj: an operand is -1 (0) inside    *)
(* the other operands of a conjunction (disjunction).                      *)
(***************************************************************************)
RECURSIVE insertFixed(_, _, _)      \* checkInsertFixedTrue and checkInsertFixedFalse
insertFixed(n, o, k) ==
    IF ~isBitwiseOp(n) THEN n
    ELSE [n EXCEPT !.ch = [i \in DOMAIN n.ch |->
             IF equals(n.ch[i], o) THEN newConstantNode(k) ELSE insertFixed(n.ch[i], o, k)]]

insertFixedInChildren(n, k) ==
    [n EXCEPT !.ch =
        FoldLeft(LAMBDA ch, i : [j \in DOMAIN ch |->
                                    IF j = i THEN ch[j] ELSE insertFixed(ch[j], ch[i], k)],
                 n.ch, [i \in DOMAIN n.ch |-> i])]

insertFixedInConj(n) == IF n.type = "CONJUNCTION" THEN insertFixedInChildren(n, -1) ELSE n
insertFixedInDisj(n) == IF n.type = "INCL_DISJUNCTION" THEN insertFixedInChildren(n, 0) ELSE n

checkTrivialXor(n) ==
    IF n.type # "EXCL_DISJUNCTION" THEN n
    ELSE IF Len(n.ch) = 2 /\ isConstant(n.ch[1], -1) THEN newNode("NEGATION", Rest(n))
    ELSE IF isConstant(n.ch[1], 0) THEN NodeOrOnly(n.type, Rest(n)) ELSE n

\* 2 * (x & -x) is -(x ^ -x) and 2 * (x | -x) is x ^ -x: the loop over the
\* factors, from the last one to the second, while the constant is even.
RECURSIVE XorSame(_, _)
XorSame(ch, i) ==
    LET c    == ch[i]
        half == lshr(ch[1].constant, 1)
        k    == IF c.type = "CONJUNCTION" THEN newConstantNode(-half) ELSE RawConstant(half)
    IN IF i = 1 \/ toLow64(ch[1].constant) % 2 = 1 THEN ch
       ELSE IF /\ c.type \in {"CONJUNCTION", "INCL_DISJUNCTION"} /\ Len(c.ch) = 2
               /\ equals(minus(c.ch[1]), c.ch[2])
            THEN XorSame([ch EXCEPT ![1] = k, ![i] = newNode("EXCL_DISJUNCTION", c.ch)], i - 1)
       ELSE XorSame(ch, i - 1)

checkXorSameMultByMinusOne(n) ==
    IF HasConstFactor(n) THEN [n EXCEPT !.ch = XorSame(@, Len(@))] ELSE n

(***************************************************************************)
(* Conjunctions that are 0 and disjunctions that are -1.                   *)
(***************************************************************************)
IsMinus(n)      == Has2(n, "PRODUCT") /\ isConstant(n.ch[1], -1)
xorSameNeg(x)   == IF Has2(x, "EXCL_DISJUNCTION") THEN equals(minus(x.ch[1]), x.ch[2]) ELSE FALSE
isXorSameNeg(x) == IF Has2(x, "EXCL_DISJUNCTION") THEN equals(minus(x.ch[2]), x.ch[1]) ELSE FALSE
isDoubleOrMinus(n, o) == isDouble(n, o) \/ isDouble(n, minus(o))

\* getOptArgNegXorSameNeg of -(x ^ -x), getOptArgNegatedXorSameNeg of ~(x ^ -x).
getOptArgNegXorSameNeg(n) ==
    IF ~IsMinus(n) THEN nullptr
    ELSE IF xorSameNeg(n.ch[2]) THEN minus(n.ch[2].ch[1]) ELSE nullptr
getOptArgNegatedXorSameNeg(n) ==
    IF n.type # "NEGATION" THEN nullptr
    ELSE IF xorSameNeg(n.ch[1]) THEN minus(n.ch[1].ch[1]) ELSE nullptr

\* Two different children of n, such that.
TwoChildren(n, Rel(_, _)) ==
    \E i, j \in DOMAIN n.ch : i # j /\ Rel(n.ch[i], n.ch[j])

hasConjZeroRule(n) ==
    \E i, j, k \in DOMAIN n.ch :
        /\ i < j /\ k \notin {i, j}
        /\ equals(n.ch[i], minus(n.ch[j]))
        /\ isDouble(n.ch[k], n.ch[i]) \/ isDouble(n.ch[k], n.ch[j])
hasConjNegXorZeroRule(n) ==
    TwoChildren(n, LAMBDA c, d : LET x == getOptArgNegXorSameNeg(c)
                                 IN x # nullptr /\ isDoubleOrMinus(negate(d), x))
hasDisjNegXorMinusOneRule(n) ==
    TwoChildren(n, LAMBDA c, d : /\ c.type = "NEGATION"
                                 /\ LET x == getOptArgNegXorSameNeg(c.ch[1])
                                    IN x # nullptr /\ isDoubleOrMinus(d, x))
hasConjNegatedXorZeroRule(n) ==
    TwoChildren(n, LAMBDA c, d : LET x == getOptArgNegatedXorSameNeg(c)
                                 IN x # nullptr /\ isDoubleOrMinus(d, x))

ConstantIf(n, t, Has(_), k) == IF n.type # t THEN n ELSE IF Has(n) THEN newConstantNode(k) ELSE n
checkConjZeroRule(n)           == ConstantIf(n, "CONJUNCTION", hasConjZeroRule, 0)
checkConjNegXorZeroRule(n)     == ConstantIf(n, "CONJUNCTION", hasConjNegXorZeroRule, 0)
checkConjNegXorMinusOneRule(n) == ConstantIf(n, "INCL_DISJUNCTION", hasDisjNegXorMinusOneRule, -1)
checkConjNegatedXorZeroRule(n) == ConstantIf(n, "CONJUNCTION", hasConjNegatedXorZeroRule, 0)

(***************************************************************************)
(* Children that another child makes superfluous.  The rules share their   *)
(* loop: child i is erased if some other child j has Absorbs(i, j).        *)
(***************************************************************************)
EraseAbsorbed(n, t, Absorbs(_, _)) ==
    LET Step(acc, any) ==
            LET ch == acc[1]  i == acc[2]
            IN IF \E j \in DOMAIN ch \ {i} : Absorbs(ch[i], ch[j])
               THEN <<RemoveAt(ch, i), i>> ELSE <<ch, i + 1>>
    IN IF n.type # t THEN n ELSE NodeOrOnly(t, FoldLeft(Step, <<n.ch, 1>>, n.ch)[1])

\* The common case: Arg(i) is a node that j equals.
EraseIfEqual(n, t, Arg(_)) ==
    EraseAbsorbed(n, t, LAMBDA c, d : LET a == Arg(c) IN a # nullptr /\ equals(d, a))
EraseIfMinus(n, t, Arg(_)) ==
    EraseAbsorbed(n, t, LAMBDA c, d : LET a == Arg(c) IN a # nullptr /\ equals(minus(d), a))

DoubleOfOperand(d, x) == isDouble(d, x.ch[1]) \/ isDouble(d, x.ch[2])
checkConjXorIdentityRule(n) ==
    EraseAbsorbed(n, "CONJUNCTION", LAMBDA c, d : isXorSameNeg(c) /\ DoubleOfOperand(d, c))
checkDisjXorIdentityRule(n) ==
    EraseAbsorbed(n, "INCL_DISJUNCTION",
                  LAMBDA c, d : /\ IsMinus(c)
                                /\ isXorSameNeg(c.ch[2]) /\ DoubleOfOperand(d, c.ch[2]))

\* x, for the operands x and 2x or -2x in either order.
DoubledOf(c, d) ==
    FirstWhere(<< <<isDouble(c, d), d>>, <<isDouble(d, c), c>>,
                  <<isDouble(minus(c), d), d>>, <<isDouble(minus(d), c), c>> >>)
getOptArgNegConjDouble1(n) ==
    IF n.type # "NEGATION" THEN nullptr
    ELSE IF Has2(n.ch[1], "CONJUNCTION") THEN DoubledOf(n.ch[1].ch[1], n.ch[1].ch[2]) ELSE nullptr
getOptArgNegConjDouble2(n) ==
    IF Has2(n, "INCL_DISJUNCTION") THEN DoubledOf(negate(n.ch[1]), negate(n.ch[2])) ELSE nullptr
checkConjNegConjIdentityRule(n) ==
    EraseIfMinus(n, "CONJUNCTION",
                 LAMBDA c : OrElse(getOptArgNegConjDouble1(c), getOptArgNegConjDouble2(c)))

Dual(t) == IF t = "INCL_DISJUNCTION" THEN "CONJUNCTION" ELSE "INCL_DISJUNCTION"

getCandidatesNestedBitwiseIdentity(n, t) ==
    LET bitw == n.ch[2]
        a    == bitw.ch[1]
        b    == bitw.ch[2]
        Operand(c, m) == c.type = Dual(t) /\ hasChild(c, m)
        neg  == IF b.type = Dual(t) THEN minus(a) ELSE minus(b)
    IN IF ~IsMinus(n) THEN <<>>
       ELSE IF ~Has2(bitw, t) THEN <<>>
       ELSE IF equals(minus(b), a) THEN <<a, b>>
       ELSE IF Operand(a, minus(b)) THEN <<minus(b)>>
       ELSE IF Operand(b, minus(a)) THEN <<minus(a)>>
       ELSE IF equals(neg, a) THEN <<bitw>> ELSE <<>>
checkNestedBitwiseIdentityRule(n, t) ==
    EraseAbsorbed(n, t, LAMBDA c, d : LET all == getCandidatesNestedBitwiseIdentity(c, t)
                                      IN \E i \in DOMAIN all : equals(d, all[i]))

RECURSIVE divided(_, _)
divided(n, k) ==
    LET low   == toLow64(n.constant)
        parts == [i \in DOMAIN n.ch |-> divided(n.ch[i], k)]
        i     == SelectInSeq(parts, LAMBDA p : p # nullptr)
    IN CASE n.type = "CONSTANT" -> IF low % k = 0 THEN newConstantNode(low \div k) ELSE nullptr
         [] n.type = "PRODUCT"  ->
                IF i = 0 THEN nullptr
                ELSE IF isConstant(parts[i], 1) THEN NodeOrOnly("PRODUCT", RemoveAt(n.ch, i))
                ELSE [n EXCEPT !.ch[i] = parts[i]]
         [] n.type = "SUM" -> IF nullptr \in ToSet(parts) THEN nullptr ELSE newNode("SUM", parts)
         [] OTHER -> nullptr

\* In ~x & 2x and its variants: c is one operand and o the other.
ArgDisjConj1(c, o) ==
    LET half == divided(o, 2)
        neg  == minus(half)
        Arg(m)         == IF m.type = "NEGATION" THEN m.ch[1] ELSE nullptr
        Halves(x)      == x # nullptr /\ (equals(x, half) \/ equals(x, neg))
        Is(x)          == x # nullptr /\ equals(x, c)
    IN IF half = nullptr THEN nullptr
       ELSE FirstWhere(<< <<Halves(Arg(c)), Arg(c)>>,
                          <<Is(Arg(half)), half>>, <<Is(Arg(neg)), neg>>,
                          <<Halves(getOptTransformedNegated(c)), getOptTransformedNegated(c)>>,
                          <<Is(getOptTransformedNegated(half)), half>>,
                          <<Is(getOptTransformedNegated(neg)), neg>> >>)
getOptArgDisjConjIdentity1(n) ==
    IF Has2(n, "CONJUNCTION")
    THEN OrElse(ArgDisjConj1(n.ch[1], n.ch[2]), ArgDisjConj1(n.ch[2], n.ch[1])) ELSE nullptr

ArgDisjConj2(c, o) ==
    LET arg == IF c.type = "NEGATION" THEN c.ch[1] ELSE getOptTransformedNegated(c)
    IN IF arg = nullptr THEN nullptr
       ELSE IF isDouble(arg, o) \/ isDouble(minus(arg), o) THEN o ELSE nullptr
getOptArgDisjConjIdentity2(n) ==
    IF n.type # "NEGATION" THEN nullptr
    ELSE IF ~Has2(n.ch[1], "INCL_DISJUNCTION") THEN nullptr
    ELSE OrElse(ArgDisjConj2(n.ch[1].ch[1], n.ch[1].ch[2]), ArgDisjConj2(n.ch[1].ch[2], n.ch[1].ch[1]))
checkDisjConjIdentityRule(n) ==
    EraseIfMinus(n, "INCL_DISJUNCTION",
                 LAMBDA c : OrElse(getOptArgDisjConjIdentity1(c), getOptArgDisjConjIdentity2(c)))

HalfOf(c, d) ==
    FirstWhere(<< <<isDouble(d, c), c>>, <<isDouble(c, d), d>>,
                  <<isDouble(d, minus(c)), c>>, <<isDouble(c, minus(d)), d>> >>)
MinusHalfOf(c) == LET h == HalfOf(c.ch[1], c.ch[2]) IN IF h = nullptr THEN nullptr ELSE minus(h)
getOptArgDisjConjIdentityRule2(n) ==
    IF ~Has2(n, "CONJUNCTION") THEN nullptr
    ELSE IF MinusHalfOf(n) = nullptr THEN nullptr ELSE negate(MinusHalfOf(n))
checkDisjConjIdentityRule2(n) ==
    EraseIfEqual(n, "INCL_DISJUNCTION", getOptArgDisjConjIdentityRule2)

getOptArgDisjNegDisjIdentityRule(n) ==
    IF ~IsMinus(n) THEN nullptr
    ELSE IF Has2(n.ch[2], "INCL_DISJUNCTION") THEN MinusHalfOf(n.ch[2]) ELSE nullptr
checkDisjNegDisjIdentityRule(n) ==
    EraseIfEqual(n, "INCL_DISJUNCTION", getOptArgDisjNegDisjIdentityRule)

\* These two ask for two operands, whatever the operation is.
getOptArgConjDisjIdentity1(n) ==
    LET c == negate(minus(n.ch[1]))
        d == negate(minus(n.ch[2]))
    IN FirstWhere(<< <<isDouble(c, d), d>>, <<isDouble(d, c), c>> >>)
getOptArgConjDisjIdentity2(n) ==
    LET Of(c, o) == << isDouble(negate(c), o) \/ isDouble(minus(negate(c)), o), negate(minus(o)) >>
    IN FirstWhere(<< Of(n.ch[1], n.ch[2]), Of(n.ch[2], n.ch[1]) >>)
checkConjDisjIdentityRule(n) ==
    EraseIfEqual(n, "CONJUNCTION",
                 LAMBDA c : IF Len(c.ch) # 2 THEN nullptr
                            ELSE OrElse(getOptArgConjDisjIdentity1(c), getOptArgConjDisjIdentity2(c)))

(***************************************************************************)
(* Sums among the operands.                                                *)
(***************************************************************************)
\* Of(c, o) for the two children of a sum, in both orders.
OfSum(n, Of(_, _)) ==
    IF Has2(n, "SUM") THEN OrElse(Of(n.ch[1], n.ch[2]), Of(n.ch[2], n.ch[1])) ELSE nullptr

ArgSubDisj(c, o) ==      \* (a | b) - a
    IF ~Has2(c, "INCL_DISJUNCTION") THEN nullptr
    ELSE FirstWhere(<< <<equals(minus(o), c.ch[1]), c.ch[2]>>, <<equals(minus(o), c.ch[2]), c.ch[1]>> >>)
checkDisjSubDisjIdentityRule(n) ==
    EraseIfEqual(n, "INCL_DISJUNCTION", LAMBDA c : OfSum(c, ArgSubDisj))

ArgSubConj(c, o) ==      \* a - (a & b)
    IF ~IsMinus(c) THEN nullptr
    ELSE IF c.ch[2].type = "CONJUNCTION" /\ hasChild(c.ch[2], o) THEN o ELSE nullptr
checkDisjSubConjIdentityRule(n) ==
    EraseIfEqual(n, "INCL_DISJUNCTION", LAMBDA c : OfSum(c, ArgSubConj))

ArgAddConj(c, o) ==      \* a + (~a & b)
    IF c.type = "CONJUNCTION" /\ hasChild(c, negate(o)) THEN o ELSE nullptr
checkConjAddConjIdentityRule(n) ==
    EraseIfEqual(n, "CONJUNCTION", LAMBDA c : OfSum(c, ArgAddConj))

(***************************************************************************)
(* Children that another child makes simpler.                              *)
(***************************************************************************)
\* For -((a & b) | -a), or with & and | exchanged: <<b, a>>.
getOptArgNestedBitwise(n, t) ==
    LET Of(c, o) == IF equals(c.ch[1], minus(o)) THEN <<c.ch[2], c.ch[1]>>
                    ELSE IF equals(c.ch[2], minus(o)) THEN <<c.ch[1], c.ch[2]>> ELSE <<>>
        a == n.ch[2].ch[1]
        b == n.ch[2].ch[2]
    IN IF ~IsMinus(n) THEN <<>>
       ELSE IF ~Has2(n.ch[2], t) THEN <<>>
       ELSE IF a.type = Dual(t) /\ Len(a.ch) # 2 THEN <<>>
       ELSE IF a.type = Dual(t) /\ Of(a, b) # <<>> THEN Of(a, b)
       ELSE IF Has2(b, Dual(t)) THEN Of(b, a) ELSE <<>>
checkNestedBitwiseRule(n, t) ==
    LET Step(ch, i) == LET p == getOptArgNestedBitwise(ch[i], t)
                       IN IF p = <<>> THEN ch
                          ELSE IF \E j \in DOMAIN ch \ {i} : equals(ch[j], p[1])
                          THEN [ch EXCEPT ![i] = p[2]] ELSE ch
    IN IF n.type # t THEN n
       ELSE NodeOrOnly(t, FoldLeft(Step, n.ch, [i \in DOMAIN n.ch |-> i]))

\* For -((a & ..) | -a): <<a, (a & ..)>>.
getOptPairDisjDisjConj2(n) ==
    LET Of(c, o) == c.type = "CONJUNCTION" /\ hasChild(c, minus(o))
        a == n.ch[2].ch[1]
        b == n.ch[2].ch[2]
    IN IF ~IsMinus(n) THEN <<>>
       ELSE IF ~Has2(n.ch[2], "INCL_DISJUNCTION") THEN <<>>
       ELSE IF Of(a, b) THEN <<minus(b), a>>
       ELSE IF Of(b, a) THEN <<minus(a), b>> ELSE <<>>
checkDisjDisjConjRule2(n) ==
    LET Wider(d, p) == /\ d.type = "CONJUNCTION" /\ hasChild(d, p[1])
                       /\ areAllChildrenContained(d.ch, p[2].ch)
        Step(acc, any) ==
            LET ch == acc[1]  i == acc[2]
                p  == getOptPairDisjDisjConj2(ch[i])
                j  == SelectInSeq([k \in DOMAIN ch |-> k],
                                  LAMBDA k : k # i /\ (equals(ch[k], p[1]) \/ Wider(ch[k], p)))
            IN IF p = <<>> THEN <<ch, i + 1>>
               ELSE IF j = 0 THEN <<ch, i + 1>>
               ELSE IF equals(ch[j], p[1]) THEN <<RemoveAt(ch, i), i>>
               ELSE <<RemoveAt([ch EXCEPT ![j] = p[1]], i), i>>
    IN IF n.type # "INCL_DISJUNCTION" THEN n
       ELSE NodeOrOnly(n.type, FoldLeft(Step, <<n.ch, 1>>, n.ch)[1])

=============================================================================
