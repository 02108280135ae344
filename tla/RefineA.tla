------------------------------ MODULE RefineA ------------------------------
(***************************************************************************)
(* MBA/RefineA.cpp: the rules of refineStep1 at one node, whose children   *)
(* have been refined already, and the first rule of refineStep2.           *)
(***************************************************************************)
EXTENDS NodeTree

(***************************************************************************)
(* inspectConstants: one constant, in front, unless it is neutral.         *)
(***************************************************************************)
IsConst(c)  == c.type = "CONSTANT"
NotConst(c) == c.type # "CONSTANT"

\* The common part of the five operations with a neutral constant: the first
\* child is kept whatever it is, further neutral ones are not.
inspectConstantsOf(n, neutral, Op(_, _)) ==
    LET Counts(c)  == IsConst(c) /\ c.constant # neutral
        consts     == SelectSeq(<<n.ch[1]>>, IsConst) \o SelectSeq(Rest(n), Counts)
        merged     == FoldLeft(LAMBDA c, d : newConstantNode(Op(c.constant, d.constant)),
                               consts[1], Tail(consts))
        others     == SelectSeq(n.ch, NotConst)
    IN IF consts = <<>> THEN NodeOrOnly(n.type, others)
       ELSE IF isConstant(merged, neutral) /\ others # <<>> THEN NodeOrOnly(n.type, others)
       ELSE NodeOrOnly(n.type, <<merged>> \o others)

HasConstant(n, k) == \E i \in DOMAIN n.ch : isConstant(n.ch[i], k)

inspectConstantsInclDisjunction(n) ==
    IF HasConstant(n, -1) THEN newConstantNode(-1)
    ELSE inspectConstantsOf(n, 0, LAMBDA a, b : OrTable[toLow64(a), toLow64(b)])

inspectConstantsExclDisjunction(n) ==
    inspectConstantsOf(n, 0, LAMBDA a, b : XorTable[toLow64(a), toLow64(b)])

inspectConstantsConjunction(n) ==
    IF HasConstant(n, 0) THEN newConstantNode(0)
    ELSE inspectConstantsOf(n, -1, LAMBDA a, b : AndTable[toLow64(a), toLow64(b)])

inspectConstantsSum(n) == inspectConstantsOf(n, 0, LAMBDA a, b : a + b)

inspectConstantsProduct(n) ==
    IF HasConstant(n, 0) THEN newConstantNode(0)
    ELSE inspectConstantsOf(n, 1, LAMBDA a, b : a * b)

inspectConstantsNegation(n) ==
    CASE n.ch[1].type = "NEGATION" -> n.ch[1].ch[1]
      [] n.ch[1].type = "CONSTANT" -> newConstantNode(-n.ch[1].constant - 1)
      [] OTHER -> n

inspectConstantsPower(n) ==
    LET base == n.ch[1]  exp == n.ch[2]
    IN IF IsConst(base) /\ IsConst(exp)
       THEN newConstantNode(power(toLow64(base.constant), toLow64(exp.constant)))
       ELSE IF isConstant(exp, 0) THEN newConstantNode(1)
       ELSE IF isConstant(exp, 1) THEN base
       ELSE n

inspectConstants(n) ==
    CASE n.type = "INCL_DISJUNCTION" -> inspectConstantsInclDisjunction(n)
      [] n.type = "EXCL_DISJUNCTION" -> inspectConstantsExclDisjunction(n)
      [] n.type = "CONJUNCTION"      -> inspectConstantsConjunction(n)
      [] n.type = "SUM"              -> inspectConstantsSum(n)
      [] n.type = "PRODUCT"          -> inspectConstantsProduct(n)
      [] n.type = "NEGATION"         -> inspectConstantsNegation(n)
      [] n.type = "POWER"            -> inspectConstantsPower(n)
      [] n.type = "CONSTANT"         -> reduceConstant(n)
      [] OTHER -> n

(***************************************************************************)
(* flatten: the children of a child of the same type become children.      *)
(***************************************************************************)
flattenBinaryGeneric(n) ==
    LET Other(c) == c.type # n.type
        nested   == [i \in DOMAIN n.ch |-> IF Other(n.ch[i]) THEN <<>> ELSE n.ch[i].ch]
    IN IF \A i \in DOMAIN n.ch : Other(n.ch[i]) THEN n
       ELSE inspectConstants([n EXCEPT !.ch = SelectSeq(n.ch, Other)
                                                \o FlattenSeq(Reverse(nested))])

\* The loop of flattenProduct over the factors ch, from index i on.
RECURSIVE Factors(_, _)
Factors(ch, i) ==
    LET factor == ch[i]
        others == RemoveAt(ch, i)
        first  == factor.ch[1]
        merge  == i > 1 /\ IsConst(ch[1])
        front  == IF ~IsConst(first) THEN others
                  ELSE IF merge THEN [others EXCEPT
                                        ![1] = newConstantNode(@.constant * first.constant)]
                  ELSE <<first>> \o others
        inner  == IF IsConst(first) THEN Rest(factor) ELSE factor.ch
        at     == IF IsConst(first) /\ ~merge THEN i + 1 ELSE i
    IN IF i > Len(ch) THEN ch
       ELSE IF factor.type # "PRODUCT" THEN Factors(ch, i + 1)
       ELSE Factors(SubSeq(front, 1, at - 1) \o inner \o SubSeq(front, at, Len(front)),
                    at + Len(inner))

flattenProduct(n) ==
    LET ch == Factors(n.ch, 1)
    IN IF \A i \in DOMAIN n.ch : n.ch[i].type # "PRODUCT" THEN n
       ELSE IF Len(ch) > 1 /\ isConstant(ch[1], 1) THEN NodeOrOnly("PRODUCT", Tail(ch))
       ELSE NodeOrOnly("PRODUCT", ch)

flatten(n) ==
    CASE isBitwiseBinop(n) \/ n.type = "SUM" -> flattenBinaryGeneric(n)
      [] n.type = "PRODUCT" -> flattenProduct(n)
      [] OTHER -> n

(***************************************************************************)
(* Children that are equal, or multiples of the same.                      *)
(***************************************************************************)
RECURSIVE removeDuplicates(_)
removeDuplicates(ch) ==
    IF ch = <<>> THEN <<>>
    ELSE LET New(c) == ~equals(ch[1], c)
         IN <<ch[1]>> \o removeDuplicates(SelectSeq(Tail(ch), New))

RECURSIVE removePairs(_, _)
removePairs(ch, i) ==
    LET j == SelectLastInSubSeq(ch, i + 1, Len(ch), LAMBDA c : equals(ch[i], c))
    IN IF i > Len(ch) THEN ch
       ELSE IF j = 0 THEN removePairs(ch, i + 1)
       ELSE removePairs(RemoveAt(RemoveAt(ch, j), i), IF i > 1 THEN i - 1 ELSE 1)

removePairsOfChildren(n) ==
    LET ch == removePairs(n.ch, 1)
    IN [n EXCEPT !.ch = IF ch = <<>> THEN <<newConstantNode(0)>> ELSE ch]

HasConstFactor(n)    == n.type = "PRODUCT" /\ IsConst(n.ch[1])
getOptConstFactor(n) == IF HasConstFactor(n) THEN n.ch[1].constant ELSE 1
isZeroProduct(n)     == n.type = "PRODUCT" /\ isConstant(n.ch[1], 0)
hasFactorOne(n)      == n.type = "PRODUCT" /\ isConstant(n.ch[1], 1)

equalsNeglectingConstantsOtherConst(n, o) ==
    IF Len(o.ch) = 2 THEN equals(n, o.ch[2])
    ELSE n.type = "PRODUCT" /\ Len(n.ch) = Len(o.ch) - 1 /\ Contained(n.ch, Rest(o))

equalsNeglectingConstantsBothConst(n, o) ==
    /\ Len(n.ch) = Len(o.ch)
    /\ IF Len(n.ch) = 2 THEN equals(n.ch[2], o.ch[2]) ELSE Contained(Rest(n), Rest(o))

equalsNeglectingConstants(n, o, hasConst, hasConstOther) ==
    CASE hasConst /\ hasConstOther -> equalsNeglectingConstantsBothConst(n, o)
      [] ~hasConst /\ ~hasConstOther -> equals(n, o)
      [] OTHER -> equalsNeglectingConstantsOtherConst(n, o)

\* tryMergeSumChildren: child i of the sum n with the coefficient of child j
\* added, or nullptr.  It is the sum that is compared with child j, not child i.
tryMergeSumChildren(n, i, j) ==
    LET c1 == n.ch[i]
        c2 == n.ch[j]
        k  == newConstantNode(1 + getOptConstFactor(c2))
    IN IF ~equalsNeglectingConstants(n, c2, HasConstFactor(c1), HasConstFactor(c2)) THEN nullptr
       ELSE IF HasConstFactor(c1)
       THEN [c1 EXCEPT !.ch[1] = newConstantNode(@.constant + getOptConstFactor(c2))]
       ELSE IF c1.type = "PRODUCT" THEN [c1 EXCEPT !.ch = <<k>> \o @]
       ELSE newNode("PRODUCT", <<k, c1>>)

\* The sum with every child from j on merged into child i that can be; and with
\* that done for the children from i on.
RECURSIVE MergeInto(_, _, _), MergeFrom(_, _)
MergeInto(n, i, j) ==
    LET m == tryMergeSumChildren(n, i, j)
    IN IF j > Len(n.ch) THEN n
       ELSE IF m = nullptr THEN MergeInto(n, i, j + 1)
       ELSE MergeInto([n EXCEPT !.ch = RemoveAt([n.ch EXCEPT ![i] = m], j)], i, j)
MergeFrom(n, i) ==
    LET m == MergeInto(n, i, i + 1)
        c == m.ch[i]
    IN IF i >= Len(n.ch) THEN n
       ELSE IF isZeroProduct(c) THEN MergeFrom([m EXCEPT !.ch = RemoveAt(m.ch, i)], i)
       ELSE MergeFrom([m EXCEPT !.ch[i] = IF hasFactorOne(c) THEN NodeOrOnly("PRODUCT", Rest(c)) ELSE c],
                      i + 1)

mergeSimilarNodesSum(n) ==
    LET m == MergeFrom(n, 1)
    IN IF m.ch = <<>> THEN newConstantNode(0) ELSE NodeOrOnly(m.type, m.ch)

checkDuplicateChildren(n) ==
    CASE n.type \in {"INCL_DISJUNCTION", "CONJUNCTION"} -> [n EXCEPT !.ch = removeDuplicates(@)]
      [] n.type = "EXCL_DISJUNCTION" -> removePairsOfChildren(n)
      [] n.type = "SUM" -> mergeSimilarNodesSum(n)
      [] OTHER -> n

(***************************************************************************)
(* resolveInverseNodes: a and ~a among the operands of a bitwise operation.*)
(***************************************************************************)
Distributed(n) ==      \* a constant times a sum, as a sum
    IF n.type = "PRODUCT" /\ Len(n.ch) = 2 /\ IsConst(n.ch[1]) /\ n.ch[2].type = "SUM"
    THEN multiply(n.ch[2], toLow64(n.ch[1].constant))
    ELSE n

\* The complement of a sum: every child times -1, and 1 subtracted.
Complement(n) ==
    LET ch == [i \in DOMAIN n.ch |-> multiplyByMinusOne(n.ch[i])]
        k  == newConstantNode(ch[1].constant - 1)
    IN IF ~IsConst(ch[1]) THEN newNode("SUM", <<newConstantNode(-1)>> \o ch)
       ELSE newNode("SUM", IF isConstant(k, 0) THEN Tail(ch) ELSE <<k>> \o Tail(ch))

RECURSIVE isBitwiseInverse(_, _)
isBitwiseInverse(n, o) ==
    LET node  == Distributed(n)
        onode == Distributed(o)
        \* -1 + c is the complement of -c
        IsComplementOf(s, m) == /\ Len(s.ch) <= 2 /\ isConstant(s.ch[1], -1)
                         /\ equals(multiplyByMinusOne(s.ch[2]), m)
    IN CASE n.type = "NEGATION" /\ o.type = "NEGATION" -> isBitwiseInverse(n.ch[1], o.ch[1])
         [] n.type = "NEGATION" /\ o.type # "NEGATION" -> equals(n.ch[1], o)
         [] n.type # "NEGATION" /\ o.type = "NEGATION" -> equals(n, o.ch[1])
         [] OTHER -> IF node.type = "SUM"
                     THEN IF onode.type = "SUM" THEN equals(Complement(node), onode)
                          ELSE IsComplementOf(node, onode)
                     ELSE onode.type = "SUM" /\ IsComplementOf(onode, node)

\* The loop of resolveInverseNodesBitwise, from index i on.
RECURSIVE ResolveInverse(_, _)
ResolveInverse(n, i) ==
    LET j      == SelectInSubSeq(n.ch, i + 1, Len(n.ch),
                                 LAMBDA c : isBitwiseInverse(n.ch[i], c))
        others == RemoveAt(RemoveAt(n.ch, j), i)
        minus  == IsConst(others[1])
        ch     == IF minus
                  THEN <<newConstantNode(-others[1].constant - 1)>> \o Tail(others)
                  ELSE <<newConstantNode(-1)>> \o others
    IN IF i > Len(n.ch) THEN n
       ELSE IF j = 0 THEN ResolveInverse(n, i + 1)
       ELSE IF n.type = "CONJUNCTION" THEN newConstantNode(0)
       ELSE IF n.type = "INCL_DISJUNCTION" \/ Len(n.ch) = 2 THEN newConstantNode(-1)
       ELSE IF Len(ch) = 1 THEN ch[1]
       ELSE ResolveInverse(newNode(n.type, ch), IF minus /\ i > 1 THEN i ELSE i + 1)

resolveInverseNodes(n) == IF isBitwiseBinop(n) THEN ResolveInverse(n, 1) ELSE n

removeTrivialNodes(n) ==
    IF typeRank(n.type) >= typeRank("PRODUCT") /\ Len(n.ch) = 1 THEN n.ch[1] ELSE n

(***************************************************************************)
(* refineStep1 at one node.                                                *)
(***************************************************************************)
refineNodeStep1(n) ==
    removeTrivialNodes(resolveInverseNodes(checkDuplicateChildren(flatten(inspectConstants(n)))))

RECURSIVE refineStep1(_)
refineStep1(n) ==
    refineNodeStep1([n EXCEPT !.ch = [i \in DOMAIN n.ch |-> refineStep1(n.ch[i])]])

(***************************************************************************)
(* eliminateNestedNegationsAdvanced.  (Its third form, ~(-1 + a), is one of *)
(* those getOptTransformedNegated recognises.)                             *)
(***************************************************************************)
eliminateNestedNegationsAdvanced(n) ==
    LET arg   == IF n.type = "NEGATION" THEN n.ch[1] ELSE getOptTransformedNegated(n)
        twice == getOptTransformedNegated(arg)
    IN CASE arg.type = "NEGATION" -> arg.ch[1]
         [] arg.type # "NEGATION" /\ twice # nullptr -> twice
         [] OTHER -> n

=============================================================================
