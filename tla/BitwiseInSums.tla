---------------------------- MODULE BitwiseInSums ----------------------------
(***************************************************************************)
(* MBA/RefineD.cpp, the first two rules of refineAfterSubstitution: a      *)
(* conjunction or disjunction of two operands in a sum is replaced by      *)
(* another bitwise operation when the other terms of the sum cancel with   *)
(* its operands:                                                           *)
(*                                                                         *)
(*   a&b = a + b - a|b,  2*(a&b) = a + b - a^b,  2*(a|b) = a + b + a^b.    *)
(*                                                                         *)
(* A match is a record of the sum after it and the index of the new term.  *)
(***************************************************************************)
EXTENDS Refine, Expand

MAX_CHILDREN_SUMMED_UP         == 3
MAX_CHILDREN_TO_TRANSFORM_BITW == 5

NoMatch        == [node |-> nullptr, idx |-> 0]
UndefinedMatch == [node |-> undefined, idx |-> 0]
Simplified(n) == refine(expand(n, FALSE))

\* factor * (a & b), or factor * (a | b), as a pair.
IsBitwisePair(n) == n.type \in {"CONJUNCTION", "INCL_DISJUNCTION"} /\ Len(n.ch) = 2
BitwiseTerm(c) ==
    IF c.type # "PRODUCT" THEN [factor |-> 1, bitw |-> c]
    ELSE IF Len(c.ch) = 2 /\ IsConst(c.ch[1])
    THEN [factor |-> c.ch[1].constant, bitw |-> c.ch[2]]
    ELSE [factor |-> 1, bitw |-> nullptr]

getTransformedBitwiseType(t, toXor) == IF toXor THEN "EXCL_DISJUNCTION" ELSE Dual(t)
TransformedBitwise(bitw, toXor, factor) ==
    multiply([bitw EXCEPT !.type = getTransformedBitwiseType(bitw.type, toXor)],
             IF ~toXor \/ bitw.type = "CONJUNCTION" THEN -factor ELSE factor)

(***************************************************************************)
(* The subsets of the other children, numbered by their bits.              *)
(***************************************************************************)
RECURSIVE BitCount(_)
BitCount(k) == IF k = 0 THEN 0 ELSE (k % 2) + BitCount(k \div 2)

Combinations(n, most) ==
    SelectSeq([k \in 1 .. 2 ^ (Len(n.ch) - 1) - 1 |-> k], LAMBDA k : BitCount(k) <= most)
Combined(n, idx, comb) ==
    {j \in DOMAIN n.ch \ {idx} : BitOf(comb, IF j < idx THEN j - 1 ELSE j - 2) = 1}

\* The elements of a sequence that are not at these indices, or only they.
Only(s, indices)    == LET at == SelectSeq([i \in DOMAIN s |-> i], LAMBDA i : i \in indices)
                       IN [i \in DOMAIN at |-> s[at[i]]]
Without(s, indices) == Only(s, DOMAIN s \ indices)

\* node plus the children that a subset combines.
DifferenceOf(node, n, indices) == Simplified(FoldLeft(add, node, Only(n.ch, indices)))

\* The first match among the subsets.
FirstMatch(Try(_), combs) ==
    LET k == SelectInSeq(combs, LAMBDA c : Try(c) # NoMatch)
    IN IF k = 0 THEN NoMatch ELSE Try(combs[k])

\* The term at idx becomes new, the terms at indices go, and k is added.
Replaced(ch, idx, new, indices, k) ==
    LET at   == idx - Cardinality({j \in indices : j < idx})
        left == Without([ch EXCEPT ![idx] = new], indices)
        sum  == AddToFront(left, k)
        pos  == IF IsConst(left[1]) THEN at ELSE at + 1
    IN CASE k = 0 -> [node |-> newNode("SUM", left), idx |-> at]
         [] k # 0 /\ isConstant(sum[1], 0) -> [node |-> newNode("SUM", Tail(sum)), idx |-> pos - 1]
         [] OTHER -> [node |-> newNode("SUM", sum), idx |-> pos]

(***************************************************************************)
(* checkBitwiseInSumsCancelTerms.                                          *)
(***************************************************************************)
checkTransformBitwiseForDiffFull(n, idx, bitw, toXor, factor, diff, indices) ==
    IF ~IsConst(diff) THEN NoMatch
    ELSE Replaced(n.ch, idx, TransformedBitwise(bitw, toXor, factor), indices, diff.constant)

\* One of the terms is the difference up to its coefficient, and takes over
\* the difference's.
checkTransformBitwiseForDiffMerge(n, idx, bitw, toXor, factor, diff, indices) ==
    LET i     == SelectInSeq([j \in DOMAIN n.ch |-> j],
                     LAMBDA j : /\ j \in indices
                                /\ equalsNeglectingConstants(diff, n.ch[j], HasConstFactor(diff),
                                                             HasConstFactor(n.ch[j])))
        child == n.ch[i]
        took  == CASE HasConstFactor(child) /\ HasConstFactor(diff) ->
                          [child EXCEPT !.ch[1] = diff.ch[1]]
                   [] HasConstFactor(child) /\ ~HasConstFactor(diff) ->
                          NodeOrOnly("PRODUCT", Rest(child))
                   [] OTHER -> multiply(child, getOptConstFactor(diff))
    IN IF Cardinality(indices) <= 1 \/ i = 0 THEN NoMatch
       ELSE Replaced([n.ch EXCEPT ![i] = took], idx, TransformedBitwise(bitw, toXor, factor),
                     indices \ {i}, 0)

\* With half of the modulus times the operands added, the difference may
\* become constant; the factor is changed by as much.
checkTransformBitwiseForComb(n, idx, bitw, toXor, factor, opSum, comb) ==
    LET indices == Combined(n, idx, comb)
        diff    == DifferenceOf(opSum, n, indices)
        hmod    == 2 ^ (Width - 1)
        diff2   == Simplified(add(diff, multiply(newNode("SUM", bitw.ch), -hmod)))
        other   == ~IsConst(diff) /\ IsConst(diff2)
        d       == IF other THEN diff2 ELSE diff
        f       == IF other THEN factor + hmod ELSE factor
        full    == checkTransformBitwiseForDiffFull(n, idx, bitw, toXor, f, d, indices)
    IN IF diff = undefined THEN UndefinedMatch
       ELSE IF ~IsConst(diff) /\ diff2 = undefined THEN UndefinedMatch
       ELSE IF full # NoMatch THEN full
       ELSE checkTransformBitwiseForDiffMerge(n, idx, bitw, toXor, f, d, indices)

checkTransformBitwiseInSumCancelImpl(n, idx, bitw, toXor, factor) ==
    LET opSum   == Simplified(multiply(newNode("SUM", bitw.ch), factor))
        most    == IF Len(opSum.ch) < MAX_CHILDREN_SUMMED_UP THEN Len(opSum.ch)
                   ELSE MAX_CHILDREN_SUMMED_UP
        Try(k)  == checkTransformBitwiseForComb(n, idx, bitw, toXor, factor, opSum, k)
    IN IF opSum = undefined THEN UndefinedMatch ELSE FirstMatch(Try, Combinations(n, most))

\* Impl(toXor, factor) is tried as it is, and with half of an even factor.
FullOrHalf(Impl(_, _), factor) ==
    LET full == Impl(FALSE, factor)
    IN IF full # NoMatch THEN full
       ELSE IF factor % 2 = 0 THEN Impl(TRUE, factor \div 2) ELSE NoMatch

checkTransformBitwiseInSumCancel(n, idx, t) ==
    LET Impl(toXor, f) == checkTransformBitwiseInSumCancelImpl(n, idx, t.bitw, toXor, f)
    IN FullOrHalf(Impl, t.factor)

RECURSIVE CancelTerms(_, _)
CancelTerms(n, i) ==
    LET t == BitwiseTerm(n.ch[i])
        m == checkTransformBitwiseInSumCancel(n, i, t)
    IN IF i > Len(n.ch) THEN n
       ELSE IF ~IsBitwisePair(t.bitw) THEN CancelTerms(n, i + 1)
       ELSE IF m = NoMatch THEN CancelTerms(n, i + 1)
       ELSE IF m = UndefinedMatch THEN undefined
       ELSE IF Len(m.node.ch) = 1 THEN m.node.ch[1]
       ELSE CancelTerms(m.node, m.idx + 1)

SmallSum(n) == n.type = "SUM" /\ Len(n.ch) <= MAX_CHILDREN_TO_TRANSFORM_BITW

checkBitwiseInSumsCancelTerms(n) == IF SmallSum(n) THEN CancelTerms(n, 1) ELSE n

(***************************************************************************)
(* checkBitwiseInSumsReplaceTerms: the terms cancel with the more complex  *)
(* operand, and the other operand becomes a term.  Looking for the former  *)
(* marks the operands, which reorders them.                                *)
(***************************************************************************)
getIndexOfMoreComplexOperand(bitw) ==      \* 0 for none
    LET l == [i \in {1, 2} |-> isLinear(bitw.ch[i])]
        b == [i \in {1, 2} |-> state(bitw.ch[i]) = "BITWISE"]
    IN IF l[1] # l[2] THEN (IF l[2] THEN 1 ELSE 2)
       ELSE IF b[1] # b[2] THEN (IF b[2] THEN 1 ELSE 2) ELSE 0

checkTransformBitwiseReplaceForComb(n, idx, bitw, cIdx, toXor, factor, comb) ==
    LET indices == Combined(n, idx, comb)
        diff    == DifferenceOf(multiply(bitw.ch[cIdx], factor), n, indices)
        op      == multiply(bitw.ch[3 - cIdx], factor)
    IN IF diff = undefined THEN UndefinedMatch
       ELSE IF ~IsConst(diff) THEN NoMatch
       ELSE Replaced(Append(n.ch, op), idx, TransformedBitwise(bitw, toXor, factor),
                     indices, diff.constant)

checkTransformBitwiseInSumReplace(n, idx, t, cIdx) ==
    LET Impl(toXor, f) ==
            LET Try(k) == checkTransformBitwiseReplaceForComb(n, idx, t.bitw, cIdx, toXor, f, k)
            IN FirstMatch(Try, Combinations(n, MAX_CHILDREN_SUMMED_UP))
    IN IF cIdx = 0 THEN NoMatch ELSE FullOrHalf(Impl, t.factor)

MarkedOperands(c) ==
    IF c.type = "PRODUCT"
    THEN [c EXCEPT !.ch[2].ch = [i \in DOMAIN c.ch[2].ch |-> markLinear(c.ch[2].ch[i])]]
    ELSE [c EXCEPT !.ch = [i \in DOMAIN c.ch |-> markLinear(c.ch[i])]]

\* The result is a record: the node may be reordered, which is no change.
RECURSIVE ReplaceTerms(_, _, _)
ReplaceTerms(n, i, changed) ==
    LET marked == [n EXCEPT !.ch[i] = MarkedOperands(@)]
        t      == BitwiseTerm(marked.ch[i])
        m      == checkTransformBitwiseInSumReplace(marked, i, t, getIndexOfMoreComplexOperand(t.bitw))
    IN IF i > Len(n.ch) THEN [node |-> n, changed |-> changed]
       ELSE IF ~IsBitwisePair(BitwiseTerm(n.ch[i]).bitw) THEN ReplaceTerms(n, i + 1, changed)
       ELSE IF m = NoMatch THEN ReplaceTerms(marked, i + 1, changed)
       ELSE IF m = UndefinedMatch THEN [node |-> undefined, changed |-> TRUE]
       ELSE ReplaceTerms(m.node, m.idx + 1, TRUE)

checkBitwiseInSumsReplaceTerms(n) ==
    IF SmallSum(n) THEN ReplaceTerms(n, 1, FALSE) ELSE [node |-> n, changed |-> FALSE]

=============================================================================
