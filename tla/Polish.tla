------------------------------- MODULE Polish -------------------------------
(***************************************************************************)
(* Node::polish (MBA/RefineD.cpp): the last pass over a result.  Negations *)
(* in sums are written with arithmetic or the other way round, and the     *)
(* children are put in order.                                              *)
(***************************************************************************)
EXTENDS RefineB

IsMinusProduct(c) == c.type = "PRODUCT" /\ isConstant(c.ch[1], -1)
countChildrenMultByMinusOne(n) == Len(SelectSeq(n.ch, IsMinusProduct))

\* ~a is -a - 1.
RewriteNegations(n) ==
    LET count == Len(SelectSeq(n.ch, LAMBDA c : c.type = "NEGATION"))
        ch    == [i \in DOMAIN n.ch |-> IF n.ch[i].type = "NEGATION"
                                        THEN multiplyByMinusOne(n.ch[i].ch[1]) ELSE n.ch[i]]
        k     == newConstantNode(ch[1].constant - count)
    IN CASE count = 0 -> n
         [] count # 0 /\ ~IsConst(ch[1]) -> [n EXCEPT !.ch = <<newConstantNode(-count)>> \o ch]
         [] OTHER -> [n EXCEPT !.ch = IF isConstant(k, 0) THEN Tail(ch) ELSE <<k>> \o Tail(ch)]

\* -a is ~a + 1: the first todo of the children with factor -1 become negations.
DistributeConstant(ch, todo) ==
    FoldLeft(LAMBDA acc, c :
                IF acc[2] = 0 \/ ~IsMinusProduct(c) THEN <<Append(acc[1], c), acc[2]>>
                ELSE <<Append(acc[1], newNode("NEGATION", <<NodeOrOnly("PRODUCT", Rest(c))>>)),
                       acc[2] - 1>>,
             <<<<>>, todo>>, ch)[1]

resolveBitwiseNegationsInSums(n) ==
    LET m        == RewriteNegations(n)
        negConst == toLow64(-m.ch[1].constant)
    IN IF n.type # "SUM" THEN n
       ELSE IF m.ch = <<>> \/ ~IsConst(m.ch[1]) THEN m
       ELSE IF Len(m.ch) < negConst \/ countChildrenMultByMinusOne(m) < negConst THEN m
       ELSE [m EXCEPT !.ch = Tail(DistributeConstant(@, negConst))]

(***************************************************************************)
(* k + k*a is -k times ~a.                                                 *)
(***************************************************************************)
\* Child c divided by the constant k, and nullptr if that is not possible.
DividedBy(c, k) ==
    LET q == newConstantNode(c.ch[1].constant \div k)
    IN CASE k = 1 -> c
         [] k = Full - 1 -> multiplyByMinusOne(c)
         [] OTHER -> IF ~HasConstFactor(c) \/ k = 0 THEN nullptr
                     ELSE IF c.ch[1].constant % k # 0 THEN nullptr
                     ELSE IF isConstant(q, 1) THEN NodeOrOnly("PRODUCT", Rest(c))
                     ELSE [c EXCEPT !.ch[1] = q]

getOptTransformedNegatedWithFactor(n) ==
    LET k  == toLow64(n.ch[1].constant)
        ch == [i \in 1 .. Len(n.ch) - 1 |-> DividedBy(n.ch[i + 1], k)]
    IN IF n.type # "SUM" \/ Len(n.ch) < 2 \/ NotConst(n.ch[1]) THEN [node |-> nullptr, factor |-> 0]
       ELSE IF nullptr \in {ch[i] : i \in DOMAIN ch} THEN [node |-> nullptr, factor |-> 0]
       ELSE [node |-> NodeOrOnly("SUM", ch), factor |-> -k]

\* The node, and the factor that the parent's product is to be multiplied by.
insertBitwiseNegations(n, parent) ==
    LET opt == getOptTransformedNegatedWithFactor(n)
        neg == newNode("NEGATION", <<opt.node>>)
    IN IF opt.node = nullptr THEN [node |-> n, factor |-> 1]
       ELSE IF parent = "PRODUCT" THEN [node |-> neg, factor |-> opt.factor]
       ELSE [node |-> multiply(neg, opt.factor), factor |-> 1]

RECURSIVE PolishBelow(_, _)
PolishBelow(n, parent) ==
    LET below == [i \in DOMAIN n.ch |-> PolishBelow(n.ch[i], n.type)]
        here  == FoldLeft(LAMBDA m, b : multiply(m, b.factor),
                          [n EXCEPT !.ch = [i \in DOMAIN n.ch |-> below[i].node]], below)
        neg   == insertBitwiseNegations(resolveBitwiseNegationsInSums(reorderVariables(here)), parent)
    IN [neg EXCEPT !.node = reorderVariables(@)]

polish(n) == PolishBelow(n, "none").node

=============================================================================
