----------------------------- MODULE Factorize -----------------------------
(***************************************************************************)
(* MBA/Expand.cpp, second part, and MBA/Batch.cpp: common factors are      *)
(* taken out of the terms of a sum.                                        *)
(*                                                                         *)
(* A "set" of IndexWithMultitude is a sequence of pairs <<idx, multitude>>.*)
(* nodesToTerms is a sequence of pairs <<node, terms it is a factor of>>.  *)
(* Nodes and terms are numbered from 1.                                    *)
(***************************************************************************)
EXTENDS Expand

Idx(p)       == p[1]
Multitude(p) == p[2]
Indices(s)   == {Idx(s[i]) : i \in DOMAIN s}
Position(s, idx) == SelectInSeq(s, LAMBDA p : Idx(p) = idx)
Positive(s)  == SelectSeq(s, LAMBDA p : Multitude(p) > 0)

(***************************************************************************)
(* The factors of the terms.                                               *)
(***************************************************************************)
\* The factors of a node to the power m, with their multitudes, in order.
RECURSIVE collectFactors(_, _)
collectFactorsOfPower(n, m) ==
    LET exp   == n.ch[2]
        Of(k) == collectFactors(n.ch[1], (toLow64(k) * m) % Full)
    IN CASE IsConst(exp) -> Of(exp.constant)
         [] exp.type = "SUM" /\ IsConst(exp.ch[1]) ->
                Append(Of(exp.ch[1].constant),
                       <<[n EXCEPT !.ch[2] = NodeOrOnly("SUM", Rest(exp))], m>>)
         [] OTHER -> << <<n, m>> >>
collectFactors(n, m) ==
    CASE n.type = "PRODUCT"  -> FlattenSeq([i \in DOMAIN n.ch |-> collectFactors(n.ch[i], m)])
      [] n.type = "POWER"    -> collectFactorsOfPower(n, m)
      [] n.type = "CONSTANT" -> <<>>
      [] OTHER -> << <<n, m>> >>

AddPair(s, idx, m) ==
    IF Position(s, idx) = 0 THEN Append(s, <<idx, m>>)
    ELSE [s EXCEPT ![Position(s, idx)] = <<idx, Multitude(@) + m>>]

\* all is a record of nodes, nodesToTerms and termsToNodes.
checkStoreFactor(all, i, n, m) ==
    LET found == SelectInSeq(all.nodes, LAMBDA o : equals(o, n))
        idx   == IF found = 0 THEN Len(all.nodes) + 1 ELSE found
    IN [nodes |-> IF found = 0 THEN Append(all.nodes, n) ELSE all.nodes,
        nodesToTerms |-> IF found = 0 THEN Append(all.nodesToTerms, <<idx, << <<i, m>> >> >>)
                         ELSE [all.nodesToTerms EXCEPT ![idx][2] = AddPair(@, i, m)],
        termsToNodes |-> [all.termsToNodes EXCEPT ![i] = AddPair(@, idx, m)]]

collectAllFactorsOfSum(n) ==
    LET OfTerm(all, i) == FoldLeft(LAMBDA a, f : checkStoreFactor(a, i, f[1], f[2]),
                                   all, collectFactors(n.ch[i], 1))
    IN FoldLeft(OfTerm,
                [nodes |-> <<>>, nodesToTerms |-> <<>>, termsToNodes |-> [i \in DOMAIN n.ch |-> <<>>]],
                [i \in DOMAIN n.ch |-> i])

isTrivialInFactorization(n) == ~isBitwiseBinop(n)

\* The indices of the nodes, sorted by operator<.
determineNodesOrder(nodes) ==
    LET Put(s, i) == LET k == SelectLastInSeq(s, LAMBDA j : ~lessThan(nodes[i], nodes[j]))
                     IN IF s # <<>> /\ lessThan(nodes[i], nodes[s[1]]) THEN <<i>> \o s
                        ELSE InsertAt(s, k + 1, i)
    IN FoldLeft(Put, <<>>, [i \in DOMAIN nodes |-> i])

(***************************************************************************)
(* Batch.                                                                  *)
(***************************************************************************)
\* Mistake: the largest multitude.
getLowestMultitude_Largest(s) == Max({Multitude(s[i]) : i \in DOMAIN s})
getLowestMultitude(s) == Min({Multitude(s[i]) : i \in DOMAIN s})
reduceMultitudes(s, delta) == Positive([i \in DOMAIN s |-> <<Idx(s[i]), Multitude(s[i]) - delta>>])
reduceMultitudesCorrespondingToList(s, reductions) ==
    LET Reduce(t, r) == IF Position(t, Idx(r)) = 0 THEN t
                        ELSE [t EXCEPT ![Position(t, Idx(r))] = <<Idx(@), Multitude(@) - Multitude(r)>>]
    IN Positive(FoldLeft(Reduce, s, reductions))

\* A bitwise factor is left in some term of the node.  pulled is what was
\* taken out already.
checkForNontrivial(entry, all, pulled) ==
    \E i \in DOMAIN entry[2] :
        LET t == reduceMultitudesCorrespondingToList(all.termsToNodes[Idx(entry[2][i])], pulled)
        IN \E j \in DOMAIN t : /\ Idx(t[j]) # entry[1]
                               /\ ~isTrivialInFactorization(all.nodes[Idx(t[j])])

getLargestTermsetIndices(entries, Eligible(_)) ==
    LET may == SelectSeq([i \in DOMAIN entries |-> i],
                         LAMBDA i : Len(entries[i][2]) >= 2 /\ Eligible(entries[i]))
    IN SelectSeq(may, LAMBDA i : \A k \in ToSet(may) : Len(entries[k][2]) <= Len(entries[i][2]))

\* collectLargestBatches compares entries of different nodes and finds none
\* equal, so that all positions are largest; the first of them in nodesOrder is
\* taken, although nodesOrder lists nodes.
getNextBatch(entries, all, pulled) ==
    LET Every(e) == TRUE
        nontrivial == getLargestTermsetIndices(entries, LAMBDA e : checkForNontrivial(e, all, pulled))
        indices == IF nontrivial # <<>> THEN nontrivial ELSE getLargestTermsetIndices(entries, Every)
        order   == determineNodesOrder(all.nodes)
        o       == SelectInSeq(order, LAMBDA k : k <= Len(indices))
    IN IF indices = <<>> THEN 0 ELSE indices[order[o]]

\* The entries left when the node of entry k is taken out of its terms: those
\* of the terms (inner) and of the others (outer), with all factors taken out.
Split(entries, k) ==
    LET entry == entries[k]
        m     == getLowestMultitude(entry[2])
        terms == Indices(entry[2])
        NonEmpty(e) == IF e[2] = <<>> THEN <<>> ELSE <<e>>
        Step(acc, e) ==
            LET part == SelectSeq(e[2], LAMBDA p : Idx(p) \in terms)
                rest == SelectSeq(e[2], LAMBDA p : Idx(p) \notin terms)
                m2   == getLowestMultitude(part)
                all_ == Len(part) > 1 /\ Len(part) = Cardinality(terms)
            IN [factors |-> IF all_ THEN Append(acc.factors, <<e[1], m2>>) ELSE acc.factors,
                inner |-> acc.inner \o (IF all_ THEN NonEmpty(<<e[1], reduceMultitudes(part, m2)>>)
                                        ELSE IF Len(part) > 1 THEN << <<e[1], part>> >> ELSE <<>>),
                outer |-> IF part # <<>> /\ Len(rest) <= 1 THEN acc.outer
                          ELSE << <<e[1], rest>> >> \o acc.outer]
    IN FoldLeft(Step,
                [factors |-> << <<entry[1], m>> >>,
                 inner |-> NonEmpty(<<entry[1], reduceMultitudes(entry[2], m)>>),
                 outer |-> <<>>],
                Reverse(RemoveAt(entries, k)))

RECURSIVE Batch(_, _, _, _, _), partition(_, _, _, _, _)
Batch(prev, factors, terms, entries, all) ==
    LET p == partition(factors \o prev, terms, entries, all, <<>>)
    IN [prevFactorIndices |-> prev, factorIndices |-> factors,
        atoms |-> p.atoms, children |-> p.children]
partition(pulled, todo, entries, all, batches) ==
    LET k == getNextBatch(entries, all, pulled)
        s == Split(entries, k)
        terms == Indices(entries[k][2])
    IN IF k = 0 THEN [atoms |-> todo, children |-> batches]
       ELSE partition(pulled, todo \ terms, s.outer, all,
                      Append(batches, Batch(pulled, s.factors, terms, s.inner, all)))

(***************************************************************************)
(* The sum of a batch.                                                     *)
(***************************************************************************)
\* The factors left of a term, those taken out of it removed.
reduceNodeSet(s, pulled) ==
    LET Reduce(t, r) ==
            LET i == Position(t, Idx(r))
            IN IF Multitude(t[i]) = Multitude(r) THEN RemoveAt(t, i)
               ELSE [t EXCEPT ![i] = <<Idx(@), Multitude(@) - Multitude(r)>>]
    IN FoldLeft(Reduce, s, pulled)

RECURSIVE getConstFactorRespectingPowers(_)
getConstFactorRespectingPowers(n) ==
    LET k   == toLow64(n.ch[1].ch[1].constant)
        exp == n.ch[2]
    IN CASE IsConst(n) -> toLow64(n.constant)
         [] n.type = "PRODUCT" -> FoldLeft(LAMBDA f, c : (f * getConstFactorRespectingPowers(c)) % Full,
                                           1, n.ch)
         [] n.type = "POWER" ->
                IF ~HasConstFactor(n.ch[1]) THEN 1
                ELSE IF IsConst(exp) THEN power(k, toLow64(exp.constant))
                ELSE IF exp.type = "SUM" /\ IsConst(exp.ch[1]) THEN power(k, toLow64(exp.ch[1].constant))
                ELSE 1
         [] OTHER -> 1

createNodeForFactor(nodes, p) ==
    IF Multitude(p) = 1 THEN nodes[Idx(p)]
    ELSE newNode("POWER", <<nodes[Idx(p)], newConstantNode(Multitude(p))>>)

RECURSIVE nodeFromBatch(_, _, _)
nodeFromBatch(batch, n, all) ==
    LET Factor(p)  == createNodeForFactor(all.nodes, p)
        WithAtom(node, a) ==
            LET left == reduceNodeSet(all.termsToNodes[a], batch.factorIndices \o batch.prevFactorIndices)
                k    == getConstFactorRespectingPowers(n.ch[a])
                ch   == (IF k = 1 THEN <<>> ELSE <<newConstantNode(k)>>)
                            \o [i \in DOMAIN left |-> Factor(left[i])]
            IN IF left = <<>> THEN addConstant(node, k)
               ELSE [node EXCEPT !.ch = Append(@,
                        IF Len(ch) = 1 THEN ch[1]
                        ELSE checkResolveProductOfPowers(newNode("PRODUCT", ch)))]
        inner   == newNode("SUM", [i \in DOMAIN batch.children |->
                                       nodeFromBatch(batch.children[i], n, all)])
        sum     == FoldLeft(WithAtom, inner, SetToSortSeq(batch.atoms, LAMBDA i, j : i < j))
        node    == OnlyChild(sum)
        factors == [i \in DOMAIN batch.factorIndices |-> Factor(batch.factorIndices[i])]
    IN IF batch.factorIndices = <<>> THEN node
       ELSE checkResolveProductOfPowers(newNode("PRODUCT",
                IF Len(node.ch) = 1 /\ IsConst(node.ch[1]) THEN Append(factors, node)
                ELSE <<node>> \o factors))

checkFactorizeSum(n) ==
    LET all   == collectAllFactorsOfSum(n)
        batch == Batch(<<>>, <<>>, DOMAIN n.ch, all.nodesToTerms, all)
    IN IF ~IsSum(n) \/ Len(n.ch) <= 1 \/ isLinear(n) THEN n
       ELSE IF batch.children = <<>> THEN n
       ELSE nodeFromBatch(batch, n, all)

RECURSIVE factorizeSums(_, _)
factorizeSums(n, restricted) ==
    checkFactorizeSum(IF restricted THEN n
                      ELSE [n EXCEPT !.ch = [i \in DOMAIN n.ch |-> factorizeSums(n.ch[i], FALSE)]])

=============================================================================
