----------------------------- MODULE Substitute -----------------------------
(***************************************************************************)
(* MBA/Substitute.cpp: which operands of bitwise operations can be         *)
(* replaced by variables, how one is replaced, and how it is put back.     *)
(*                                                                         *)
(* The names Y[0], Y[1], ... that stand for operands are negative numbers, *)
(* in order and before those of the expression's variables.                *)
(***************************************************************************)
EXTENDS RefineD

isContained(n, list) == \E i \in DOMAIN list : equals(n, list[i])
isArithmOp(n) == n.type \in {"SUM", "PRODUCT", "POWER"} \cup OpaqueOps

getVname(i) == i - 100

(***************************************************************************)
(* The nodes to substitute.                                                *)
(***************************************************************************)
RECURSIVE getNodeForSubstitution(_, _)
getNodeForSubstitution(n, ignoreList) ==
    LET Found(c) ==
            CASE ~isBitwiseOp(n) -> getNodeForSubstitution(c, ignoreList)
              [] isBitwiseOp(n) /\ (c.type = "CONSTANT" \/ isArithmOp(c)) ->
                     IF isContained(c, ignoreList) THEN nullptr ELSE c
              [] isBitwiseOp(n) /\ isBitwiseOp(c) -> getNodeForSubstitution(c, ignoreList)
              [] OTHER -> nullptr
        ch == IF n.type = "POWER" THEN <<n.ch[1]>> ELSE n.ch
        i  == SelectInSeq(ch, LAMBDA c : Found(c) # nullptr)
    IN IF isContained(n, ignoreList) \/ i = 0 THEN nullptr ELSE Found(ch[i])

(***************************************************************************)
(* One node replaced by v, which is the variable, or minus the variable    *)
(* when the node has been negated.  A step says whether it has changed its *)
(* node, and whether nothing is left to do there.                          *)
(***************************************************************************)
Step(n, changed, finished) == [node |-> n, changed |-> changed, finished |-> finished]

\* The children ch without those of a list: for each of the list, the first equal.
RECURSIVE WithoutAll(_, _)
WithoutAll(ch, list) ==
    IF list = <<>> THEN ch
    ELSE LET i == SelectInSeq(ch, LAMBDA c : equals(c, list[1]))
         IN WithoutAll(IF i = 0 THEN ch ELSE RemoveAt(ch, i), Tail(list))
removeChildrenOfNode(n, o) == [n EXCEPT !.ch = WithoutAll(@, o.ch)]

trySubstituteNode(n, node, v, onlyFull) ==
    CASE equals(n, node) -> Step(v, TRUE, TRUE)
      [] /\ ~equals(n, node) /\ ~onlyFull
         /\ node.type = n.type /\ Len(node.ch) > 1 /\ Len(n.ch) > Len(node.ch)
         /\ areAllChildrenContained(node.ch, n.ch) ->
            Step(newNode(n.type, Append(removeChildrenOfNode(n, node).ch, v)), TRUE, FALSE)
      [] OTHER -> Step(n, FALSE, FALSE)

Negatives(ch) == [i \in DOMAIN ch |-> multiplyByMinusOne(ch[i])]

\* The children of n that are among those of node, each matched with its own.
getCommonChildren(n, node) ==
    FoldLeft(LAMBDA a, c :
                 LET i == SelectInSeq(a.left, LAMBDA o : equals(c, o))
                 IN IF i = 0 THEN [a EXCEPT !.others = Append(@, c)]
                    ELSE [a EXCEPT !.left = RemoveAt(@, i), !.common = Append(@, c)],
             [left |-> node.ch, common |-> <<>>, others |-> <<>>], n.ch)

\* a + b becomes v + b - c when node is a + c.
trySubstitutePartOfSumInSum(n, node, v) ==
    LET split   == getCommonChildren(n, node)
    IN IF split.common = <<>> THEN Step(n, FALSE, FALSE)
       ELSE Step([n EXCEPT !.ch = Append(split.others, v) \o Negatives(split.left)], TRUE, TRUE)

\* a becomes v - c when node is a + c.
trySubstitutePartOfSumTerm(n, node, v) ==
    IF ~hasChild(node, n) THEN Step(n, FALSE, FALSE)
    ELSE Step(newNode("SUM", <<v>> \o Negatives(WithoutAll(node.ch, <<n>>))), TRUE, TRUE)

trySubstitutePartOfSum(n, node, v) ==
    IF node.type # "SUM" \/ Len(node.ch) <= 1 THEN Step(n, FALSE, FALSE)
    ELSE IF n.type = "SUM" THEN trySubstitutePartOfSumInSum(n, node, v)
    ELSE trySubstitutePartOfSumTerm(n, node, v)

\* The attempts on one child, until one of them finishes it.
Attempts(child, node, v, bitwise, onlyFullMatch) ==
    LET Then(s, try(_)) ==
            IF s.finished THEN s
            ELSE LET t == try(s.node) IN Step(t.node, s.changed \/ t.changed, t.finished)
        inv     == multiplyByMinusOne(node)
        negated == multiplyByMinusOne(v)
        whole   == trySubstituteNode(child, node, v, bitwise)
        inverse == Then(whole, LAMBDA c : trySubstituteNode(c, inv, negated, FALSE))
        partly  == Then(inverse, LAMBDA c : trySubstitutePartOfSum(c, node, v))
    IN IF bitwise \/ onlyFullMatch THEN whole
       ELSE Then(partly, LAMBDA c : trySubstitutePartOfSum(c, inv, negated))

RECURSIVE substituteAllOccurences(_, _, _, _)
substituteAllOccurences(n, node, v, onlyFullMatch) ==
    LET bitwise == isBitwiseOp(n)
        InChild(c) ==
            LET s     == Attempts(c, node, v, bitwise, onlyFullMatch)
                below == substituteAllOccurences(s.node, node, v, onlyFullMatch)
            IN IF s.finished \/ (bitwise /\ ~isBitwiseOp(s.node)) THEN s
               ELSE Step(below.node, s.changed \/ below.changed, TRUE)
        over  == IF n.type = "POWER" THEN {} ELSE DOMAIN n.ch
        steps == [i \in over |-> InChild(n.ch[i])]
        base  == substituteAllOccurences(n.ch[1], node, v, onlyFullMatch)
    IN IF n.type = "POWER" THEN Step([n EXCEPT !.ch[1] = base.node], base.changed, TRUE)
       ELSE Step([n EXCEPT !.ch = [i \in DOMAIN n.ch |-> steps[i].node]],
                 \E i \in over : steps[i].changed, TRUE)

RECURSIVE replaceVariable(_, _, _)
replaceVariable(n, vname, node) ==
    IF n.type = "VARIABLE" THEN (IF n.vname = vname THEN node ELSE n)
    ELSE [n EXCEPT !.ch = [i \in DOMAIN n.ch |-> replaceVariable(n.ch[i], vname, node)]]

=============================================================================
