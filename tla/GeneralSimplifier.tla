-------------------------- MODULE GeneralSimplifier --------------------------
(***************************************************************************)
(* MBA/GeneralSimplifier.cpp: the search of simplify and the single pass   *)
(* of simplifyDirect over a tree, with the deadline that ends the search.  *)
(*                                                                         *)
(* The deadline is a number of looks at the clock: left of them come       *)
(* before it, and a look with left = 0 finds it passed.  The budgets of    *)
(* the substitutions are left out; noChangeFingerprint and the memo of the *)
(* solver only spare work.  The state of a node is what markLinear would   *)
(* say of it where it is asked for.                                        *)
(***************************************************************************)
EXTENDS Substitute, Polish, Factorize, NonlinearPart

CONSTANTS maxIt,                \* most rounds of the loop at one node
          simplifyLinearMba(_)  \* the linear solver: from a linear tree to an equal one

\* The parts of the search that noRefactor and noSubst leave in.
Search == [refactor |-> TRUE, subst |-> TRUE]
Direct == [refactor |-> FALSE, subst |-> FALSE]

\* What work has come to: the tree, whether it has changed, and the looks left.
Work(n, changed, left) == [node |-> n, changed |-> changed, left |-> left]
Undefined(w) == Work(undefined, TRUE, w.left)

\* One piece of work after the other, as long as there is a tree.
Then(w, step(_)) == Made(w, LAMBDA v : IF v.node = undefined THEN v ELSE step(v))

Tidied(n) == Made(Made(n, refine), markLinear)

refactor(n) == LET Expanded(m)   == Made(expand(m, TRUE), markLinear)
                   Factorized(m) == Made(factorizeSums(m, TRUE), markLinear)
               IN Made(Made(n, Expanded), Factorized)

(***************************************************************************)
(* refine and markLinear, restricted to a node.  inserted says that        *)
(* checkRewritePowers has put a constant among the parent's children.      *)
(***************************************************************************)
RECURSIVE RefineTop(_, _, _, _)
RefineTop(n, iteration, inserted, parent) ==
    LET Round(m) == RefineNode([node |-> m, changed |-> FALSE, inserted |-> inserted], 1, parent)
        AfterRound(r) == IF ~r.changed \/ iteration = MAX_IT
                         THEN [node |-> markLinear(r.node), inserted |-> r.inserted]
                         ELSE RefineTop(r.node, iteration + 1, r.inserted, parent)
    IN Made(Made(refineNodeStep1(n), Round), AfterRound)

(***************************************************************************)
(* The linear solver.                                                      *)
(***************************************************************************)
simplifyLinearSubexpression(w) ==
    LET answer == simplifyLinearMba(w.node)
    IN Work(answer, w.changed \/ answer # w.node, w.left)

\* simplifyNonlinearSubexpressionLinearPart: the first children, up to end, are
\* replaced by the solver's answer for them.
LinearPart(n, end) ==
    LET answer      == simplifyLinearMba(NodeOrOnly(n.type, SubSeq(n.ch, 1, end)))
        rest        == SubSeq(n.ch, end + 1, Len(n.ch))
        Front_(ch)  == [node |-> [n EXCEPT !.ch = ch \o rest], end |-> Len(ch), changed |-> TRUE]
        Instead(m)  == [node |-> m, end |-> IF m.ch = <<>> THEN 0 ELSE linearEnd(m), changed |-> TRUE]
    IN CASE end = 0 -> [node |-> n, end |-> 0, changed |-> FALSE]
         [] end > 0 /\ answer = NodeOrOnly(n.type, SubSeq(n.ch, 1, end)) ->
                [node |-> n, end |-> end, changed |-> FALSE]
         [] end > 0 /\ answer.type = n.type -> Front_(answer.ch)
         [] end > 0 /\ isConstant(answer, 0) ->
                IF n.type \notin {"SUM", "INCL_DISJUNCTION", "EXCL_DISJUNCTION"} THEN Instead(answer)
                ELSE IF Len(rest) = 1 THEN Instead(rest[1])
                ELSE Front_(<<>>)
         [] OTHER -> Front_(<<answer>>)

(***************************************************************************)
(* Substitution.                                                           *)
(***************************************************************************)
RECURSIVE CollectedFrom(_, _)
CollectedFrom(root, nodes) ==
    LET n == getNodeForSubstitution(root, nodes)
    IN IF n = nullptr THEN nodes ELSE CollectedFrom(root, Append(nodes, n))
collectNodesForSubstitution(root) == CollectedFrom(root, <<>>)

\* The index of the first name Y[..] that is not used in n.
FirstIndex(n) == LET used == {v \in VariablesIn(n) : v < 0}
                 IN CHOOSE i \in 0 .. 100 : /\ \A v \in used : v < getVname(i)
                                            /\ i = 0 \/ getVname(i - 1) \in used

\* The tree with every node of the list replaced, nullptr if one is not found.
RECURSIVE NodesReplaced(_, _, _, _)
NodesReplaced(r, nodes, i, full) ==
    LET s == substituteAllOccurences(r, Head(nodes), newVariableNode(getVname(i)), full)
    IN IF nodes = <<>> THEN r
       ELSE IF ~s.changed THEN nullptr
       ELSE Made(s.node, LAMBDA m : NodesReplaced(m, Tail(nodes), i + 1, full))

RECURSIVE PutBack(_, _, _)
PutBack(r, nodes, i) ==
    IF nodes = <<>> THEN r
    ELSE PutBack(replaceVariable(r, getVname(i), Head(nodes)), Tail(nodes), i + 1)

computeBitwiseComplexity(n) == countNodes(n, {"VARIABLE", "NEGATION"})

isSecondMoreOrEquallyComplex(first, second) ==
    LET c1 == computeAlternation(first, "none")
        c2 == computeAlternation(second, "none")
    IN IF c1 # c2 THEN c1 < c2
       ELSE computeBitwiseComplexity(first) <= computeBitwiseComplexity(second)

\* What is done to a candidate that is accepted.
Accepted(n) ==
    LET r == refineAfterSubstitution(n)
    IN Made(IF r.changed THEN Made(r.node, refine) ELSE r.node, markLinear)

\* The selection of nodes that the bits of index stand for, and those not tried.
Selection(nodes, index) ==
    FoldLeft(LAMBDA sel, j : IF BitOf(index, j - 1) = 1 THEN Append(sel, nodes[j]) ELSE sel,
             <<>>, [j \in DOMAIN nodes |-> j])
IsSkipped(nodes, index) == \/ Len(nodes) > 5 /\ BitCount(index) > 3
                           \/ Len(nodes) > 9 /\ BitCount(index) > 2

RECURSIVE simplifySubexpression(_, _, _, _), Below(_, _, _, _), simplifyNonlinearSubexpression(_, _),
          Rounds(_, _, _, _, _), NonlinearStep(_, _, _), FromIndex(_, _, _)

\* The tree is nullptr if a node is not found in it.
getSimplViaSubstitutionOfNodes(w, nodes, full) ==
    LET start       == FirstIndex(w.node)
        Simplify(m) == IF m = nullptr THEN Work(m, FALSE, w.left)
                       ELSE Then(Work(Tidied(m), FALSE, w.left), 
                                 LAMBDA v : simplifySubexpression(v, NoParent, Direct, FALSE).work)
        Back(v)     == IF v.node = nullptr THEN v
                       ELSE [v EXCEPT !.node = Made(PutBack(v.node, nodes, start), refine)]
    IN Then(Made(NodesReplaced(w.node, nodes, start, full), Simplify), Back)

simplifyViaSubstitutionOfNodes(w, nodes, full) ==
    LET Judged(r) == IF r.node # nullptr /\ isSecondMoreOrEquallyComplex(r.node, w.node)
                     THEN Work(Accepted(r.node), TRUE, r.left)
                     ELSE Work(w.node, w.changed, r.left)
    IN Then(getSimplViaSubstitutionOfNodes(w, nodes, full), Judged)

simplifyViaSubstitutionForIndex(w, nodes, index) ==
    LET sel == Selection(nodes, index)
        OrFullMatch(v) == IF v.changed THEN v ELSE simplifyViaSubstitutionOfNodes(v, sel, TRUE)
    IN Then(simplifyViaSubstitutionOfNodes([w EXCEPT !.changed = FALSE], sel, FALSE), OrFullMatch)

\* The selections from index on, with the clock looked at before each.  The nodes
\* are collected once, before the first selection is tried.
FromIndex(w, nodes, index) ==
    LET looked  == [w EXCEPT !.left = @ - 1]
        Onward(v) == FromIndex([v EXCEPT !.changed = @ \/ w.changed], nodes, index + 1)
    IN IF w.left = 0 \/ index = 2 ^ Min({Len(nodes), 20}) THEN w
       ELSE IF IsSkipped(nodes, index) THEN Onward(looked)
       ELSE Then(simplifyViaSubstitutionForIndex(looked, nodes, index), Onward)
simplifyViaSubstitution(w) == FromIndex(w, collectNodesForSubstitution(w.node), 1)

(***************************************************************************)
(* The search.                                                             *)
(***************************************************************************)
\* The children of a node from the i-th on.  The loop is over the list of children
\* itself: when a child is refined and a constant is inserted into that list, what
\* follows is undefined.
Below(w, i, mode, fresh) ==
    LET NextChild(c) ==
            IF c.inserted \/ c.work.node = undefined THEN Undefined(c.work)
            ELSE Below(Work([w.node EXCEPT !.ch[i] = c.work.node], w.changed \/ c.work.changed, c.work.left),
                       i + 1, mode, fresh)
    IN IF i > Len(w.node.ch) THEN w
       ELSE Made(simplifySubexpression(Work(w.node.ch[i], FALSE, w.left), ParentOf(w.node, i), mode, fresh),
                 NextChild)

\* parent says where the node is, and fresh that the states of the nodes are not
\* known yet, as after parsing.  A linear tree is left to the linear solver.
simplifySubexpression(w, parent, mode, fresh) ==
    LET Judged(top, below) ==
            LET v == Work(top, below.changed \/ top # below.node, below.left)
            IN CASE top.type = "CONSTANT" -> v
                 [] top.type # "CONSTANT" /\ isLinear(top) ->
                        [simplifyLinearSubexpression(v) EXCEPT !.changed = TRUE]
                 [] OTHER -> simplifyNonlinearSubexpression(v, mode)
        Top(below) ==
            IF below.node = undefined THEN [work |-> below, inserted |-> FALSE]
            ELSE Made(RefineTop(below.node, 1, FALSE, parent),
                      LAMBDA t : [work |-> Judged(t.node, below), inserted |-> t.inserted])
    IN IF w.node.type \in OpaqueOps THEN [work |-> Below(w, 1, mode, fresh), inserted |-> FALSE]
       ELSE IF ~fresh /\ isLinear(w.node)
       THEN [work |-> simplifyLinearSubexpression(w), inserted |-> FALSE]
       ELSE Made(Below(w, 1, mode, fresh), Top)

\* The nonlinear products of a sum are combined first; then its children are
\* simplified with the whole search, whatever the mode.
simplifyNonlinearSubexpression(w, mode) ==
    LET Loop(v, end) == Rounds(v, end, {w.node}, 1, mode)
        Onward(v) ==
            IF isLinear(v.node) THEN [simplifyLinearSubexpression(v) EXCEPT !.changed = TRUE]
            ELSE Then(Below(v, 1, Search, FALSE),
                      LAMBDA b : Loop([b EXCEPT !.changed = TRUE], linearEnd(v.node)))
    IN IF w.node.type = "SUM" /\ canSimplifySumNonlinearPart(w.node)
       THEN Then(Work(Tidied(trySimplifySumNonlinearPart(w.node)), TRUE, w.left), Onward)
       ELSE Loop(w, linearEnd(w.node))

\* Until nothing changes, the tree is one of the former ones, maxIt rounds are made,
\* or the deadline has passed.  Without refactoring nothing in a round marks the
\* node, so that it stays nonlinear and end is what the linear part has left.
Rounds(w, end, prev, i, mode) ==
    LET Judged(s) ==
            LET r == [s.work EXCEPT !.changed = @ \/ w.changed]
            IN CASE r.node = undefined -> r
                 [] r.node # undefined /\ mode.refactor /\ isLinear(r.node) ->
                        [simplifyLinearSubexpression(r) EXCEPT !.changed = TRUE]
                 [] OTHER -> IF ~s.work.changed \/ r.node \in prev THEN r
                             ELSE Rounds(r, IF mode.refactor THEN linearEnd(r.node) ELSE s.end,
                                         prev \cup {r.node}, i + 1, mode)
    IN IF i > maxIt \/ w.left = 0 THEN w
       ELSE Made(NonlinearStep(Work(w.node, FALSE, w.left - 1), end, mode), Judged)

\* simplifyNonlinearSubexpressionStep.  What refactor does is not counted as a change.
NonlinearStep(w, end, mode) ==
    LET Refactored(v, m) ==
            IF m = v.node THEN v
            ELSE Then(Below([v EXCEPT !.node = m], 1, mode, FALSE),
                      LAMBDA b : Work(Tidied(b.node), v.changed, b.left))
        Substituted(v) == IF ~mode.subst \/ v.node.type = "NEGATION" THEN v
                          ELSE simplifyViaSubstitution(v)
        AfterLinear(part) ==
            LET v == Work(part.node, part.changed, w.left)
            IN [work |-> Then(IF mode.refactor THEN Made(refactor(v.node), LAMBDA m : Refactored(v, m)) ELSE v,
                              Substituted),
                end  |-> part.end]
    IN Made(LinearPart(w.node, end), AfterLinear)

\* simplify and simplifyDirect of a parsed tree, with so many looks at the clock.
SimplifiedTree(n, looks, mode) ==
    Then(simplifySubexpression(Work(n, FALSE, looks), NoParent, mode, TRUE).work,
         LAMBDA s : Work(polish(s.node), s.changed, s.left)).node

=============================================================================
