------------------------------ MODULE RefineD ------------------------------
(***************************************************************************)
(* MBA/RefineD.cpp: refineAfterSubstitution, the rules that look for       *)
(* bitwise operations in sums which belong together.                       *)
(***************************************************************************)
EXTENDS BitwiseInSums

(***************************************************************************)
(* checkDisjInvolvingXorInSums: a | (a^b) is (a&b) + (a^b), and so is      *)
(* (a&c) | (a^b) with a&b&c.                                               *)
(***************************************************************************)
\* The conjunction that is left of the disjunction of o and an xor.
DisjWithXor(o, x) ==
    LET Has(i)   == hasChild(o, x.ch[i])
        Plus(i)  == inspectConstants([o EXCEPT !.ch = Append(@, x.ch[i])])
        With_(i) == inspectConstants(newNode("CONJUNCTION", <<o, x.ch[i]>>))
    IN CASE equals(o, x.ch[1]) -> With_(2)
         [] ~equals(o, x.ch[1]) /\ equals(o, x.ch[2]) -> With_(1)
         [] OTHER -> IF o.type # "CONJUNCTION" THEN nullptr
                     ELSE IF Has(1) /\ Has(2) THEN inspectConstants(o)
                     ELSE IF Has(1) THEN Plus(2)
                     ELSE IF Has(2) THEN Plus(1) ELSE nullptr

\* The index of the only xor of a disjunction, or 0.
XorIndex(n) ==
    LET at == {i \in DOMAIN n.ch : n.ch[i].type = "EXCL_DISJUNCTION"}
    IN IF n.type = "INCL_DISJUNCTION" /\ Len(n.ch) = 2 /\ Cardinality(at) = 1
       THEN CHOOSE i \in at : TRUE ELSE 0

\* (The terms are appended to the vector that the loop is walking over: it is
\* taken to go on with the terms it began with.)
checkDisjInvolvingXorInSums(n) ==
    LET Step(ch, i) ==
            LET c == n.ch[i]
                t == BitwiseTerm(c)
                k == XorIndex(t.bitw)
                x == t.bitw.ch[k]
                o == DisjWithXor(t.bitw.ch[3 - k], x)
            IN IF k = 0 THEN ch
               ELSE IF Len(x.ch) # 2 \/ o = nullptr THEN ch
               ELSE Append([ch EXCEPT ![i] = IF c.type = "PRODUCT" THEN [c EXCEPT !.ch[2] = o] ELSE o],
                           IF t.factor = 1 THEN x
                           ELSE newNode("PRODUCT", <<newConstantNode(t.factor), x>>))
    IN IF n.type # "SUM" THEN n
       ELSE [n EXCEPT !.ch = FoldLeft(Step, @, [i \in DOMAIN @ |-> i])]

\* a ^ (a|b) is ~a & b.
checkXorInvolvingDisj(n) ==
    LET Idx_(d) == IF n.ch[d].type = "INCL_DISJUNCTION" THEN getIndexOfChild(n.ch[d], n.ch[3 - d]) ELSE 0
        d       == IF Idx_(1) # 0 THEN 1 ELSE 2
        disj    == n.ch[d]
    IN IF ~Has2(n, "EXCL_DISJUNCTION") THEN n
       ELSE IF Idx_(d) = 0 THEN n
       ELSE newNode("CONJUNCTION",
                [n.ch EXCEPT ![d] = NodeOrOnly(disj.type, RemoveAt(disj.ch, Idx_(d))),
                             ![3 - d] = negate(@)])

\* -(a & -a) is a | -a, and the other way round.
checkNegativeBitwInverse(n) ==
    LET node == n.ch[2]
    IN IF ~IsMinus(n) THEN n
       ELSE IF ~IsBitwisePair(node) THEN n
       ELSE IF IsConst(node.ch[1]) \/ ~equals(minus(node.ch[1]), node.ch[2]) THEN n
       ELSE [node EXCEPT !.type = Dual(node.type)]

(***************************************************************************)
(* The bitwise terms of a sum: the coefficient, the operation and the      *)
(* index.  withConst: those with a constant operand, or those without.     *)
(***************************************************************************)
Coefficients(n, Wanted(_), withConst) ==
    LET Term(i) == BitwiseTerm(n.ch[i])
        Is(i)   == IF ~isBitwiseBinop(Term(i).bitw) THEN FALSE
                   ELSE Wanted(Term(i).bitw.type) /\ (IsConst(Term(i).bitw.ch[1]) <=> withConst)
        at      == SelectSeq([i \in DOMAIN n.ch |-> i], Is)
    IN [k \in DOMAIN at |-> [factor |-> Term(at[k]).factor, idx |-> at[k], bitw |-> Term(at[k]).bitw]]

\* Terms in lists: a term joins the first list whose first term it is like.
Grouped(terms, Like(_, _)) ==
    FoldLeft(LAMBDA l, t :
                LET g == SelectInSeq(l, LAMBDA sublist : Like(t, sublist[1]))
                IN IF g = 0 THEN Append(l, <<t>>) ELSE [l EXCEPT ![g] = Append(@, t)],
             <<>>, terms)

collectIndicesOfBitwWithConstantsInSum(n, t) ==
    Grouped(Coefficients(n, LAMBDA u : u = t, TRUE),
            LAMBDA a, b : a.factor = b.factor /\ doChildrenMatch(Rest(a.bitw), Rest(b.bitw)))

\* The operands besides the constant, whatever the operations are.
SameOperands(n, first) ==
    CASE Len(n.ch) = 2 /\ Len(first.ch) = 2 -> equals(n.ch[2], first.ch[2])
      [] Len(n.ch) = 2 /\ Len(first.ch) # 2 ->
             n.ch[2].type = first.type /\ doChildrenMatch(n.ch[2].ch, Rest(first))
      [] Len(n.ch) # 2 /\ Len(first.ch) = 2 ->
             first.ch[2].type = n.type /\ doChildrenMatch(first.ch[2].ch, Rest(n))
      [] OTHER -> doChildrenMatch(Rest(first), Rest(n))
collectAllIndicesOfBitwWithConstants(n) ==
    Grouped(Coefficients(n, LAMBDA u : TRUE, TRUE), LAMBDA a, b : SameOperands(a.bitw, b.bitw))

collectIndicesOfBitwWithoutConstantsInSum(n, t) ==
    Grouped(Coefficients(n, LAMBDA u : u = t, FALSE),
            LAMBDA a, b : a.factor = b.factor /\ Len(a.bitw.ch) = Len(b.bitw.ch))
collectAllIndicesOfBitwWithoutConstants(n) == Coefficients(n, LAMBDA u : TRUE, FALSE)

(***************************************************************************)
(* Merging two terms c1 op1 a and c2 op2 a whose constants have no bit in  *)
(* common.                                                                 *)
(***************************************************************************)
Disjoint(c, d) == AndTable[toLow64(c), toLow64(d)] = 0
IsMod(k)       == toLow64(k) = 0

\* The coefficient both terms agree on, as a set of at most one.
getFactorForMergingBitwise(f1, f2, t1, t2) ==
    LET If(fits, f) == IF fits THEN {f} ELSE {}
    IN CASE t1 = t2 -> If(IsMod(f1 - f2), f1)
         [] t1 = "EXCL_DISJUNCTION" /\ t2 = "CONJUNCTION"      -> If(IsMod(2 * f1 + f2), f1)
         [] t1 = "EXCL_DISJUNCTION" /\ t2 = "INCL_DISJUNCTION" -> If(IsMod(2 * f1 - f2), f1)
         [] t1 = "CONJUNCTION"      /\ t2 = "EXCL_DISJUNCTION" -> If(IsMod(f1 + 2 * f2), f2)
         [] t1 = "CONJUNCTION"      /\ t2 = "INCL_DISJUNCTION" -> If(IsMod(f1 + f2), f2)
         [] t1 = "INCL_DISJUNCTION" /\ t2 = "EXCL_DISJUNCTION" -> If(IsMod(2 * f2 - f1), f2)
         [] t1 = "INCL_DISJUNCTION" /\ t2 = "CONJUNCTION"      -> If(IsMod(f1 + f2), f1)

getConstOperandForMergingBitwise(sum, t1, t2) ==
    IF t1 = t2 /\ t1 # "EXCL_DISJUNCTION" THEN sum ELSE -sum - 1

getBitwiseFactorForMergingBitwise(f, t1, t2) ==
    IF "EXCL_DISJUNCTION" \in {t1, t2} THEN 2 * f ELSE f

\* The coefficient of the common operand, and the constant that is added.
getOperandFactorAndConstantForMergingBitwise(f, t1, t2, c1, c2) ==
    CASE t1 = "CONJUNCTION" /\ t2 = t1      -> <<0, 0>>
      [] t1 = "INCL_DISJUNCTION" /\ t2 = t1 -> <<f, 0>>
      [] t1 = "EXCL_DISJUNCTION" /\ t2 = t1 -> <<0, (c1 + c2) * f>>
      [] t1 = "EXCL_DISJUNCTION" /\ t2 = "CONJUNCTION"      -> <<-f, c1 * f>>
      [] t1 = "EXCL_DISJUNCTION" /\ t2 = "INCL_DISJUNCTION" -> <<f, (c1 + 2 * c2) * f>>
      [] t1 = "CONJUNCTION"      /\ t2 = "EXCL_DISJUNCTION" -> <<-f, c2 * f>>
      [] t1 = "CONJUNCTION"      /\ t2 = "INCL_DISJUNCTION" -> <<0, c2 * f>>
      [] t1 = "INCL_DISJUNCTION" /\ t2 = "EXCL_DISJUNCTION" -> <<f, (2 * c1 + c2) * f>>
      [] t1 = "INCL_DISJUNCTION" /\ t2 = "CONJUNCTION"      -> <<0, c1 * f>>

Inner(c)  == IF c.type = "PRODUCT" THEN c.ch[2] ELSE c
ConstOf(c) == toLow64(Inner(c).ch[1].constant)

\* Term c with its bitwise operation replaced by node and the coefficient f.
WithFactor(c, node, f) ==
    IF c.type # "PRODUCT"
    THEN IF f = 1 THEN node ELSE newNode("PRODUCT", <<newConstantNode(f), node>>)
    ELSE IF f = 1 THEN node ELSE [c EXCEPT !.ch = <<newConstantNode(f), node>>]

\* The first term after a merge with the bitwise operation second.
MergedFirst(c, second, f) ==
    LET first == Inner(c)
        sum   == toLow64(first.ch[1].constant) + toLow64(second.ch[1].constant)
        const == newConstantNode(getConstOperandForMergingBitwise(sum, first.type, second.type))
        rest  == IF first.type # "CONJUNCTION" /\ Len(first.ch) > 2
                 THEN <<newNode(first.type, Rest(first))>> ELSE Rest(first)
        node  == IF first.type = second.type /\ first.type = "INCL_DISJUNCTION"
                 THEN [first EXCEPT !.ch[1] = const]
                 ELSE newNode("CONJUNCTION", <<const>> \o rest)
    IN WithFactor(c, node, getBitwiseFactorForMergingBitwise(f, first.type, second.type))

\* A run of merges over the lists of terms: the children, the indices to remove
\* and the constant to add; the list at work and its positions done with.
NoMerge(ch) == [ch |-> ch, toRemove |-> {}, const |-> 0, list |-> <<>>, done |-> {}, changed |-> FALSE]
Restart(acc, list) == [acc EXCEPT !.list = list, !.done = {}]
BitwAt(acc, k) == Inner(acc.ch[acc.list[k].idx])

mergeBitwiseTerms(acc, i1, i2, f) ==
    LET second == Inner(acc.ch[i2])
        op     == getOperandFactorAndConstantForMergingBitwise(
                      f, Inner(acc.ch[i1]).type, second.type, ConstOf(acc.ch[i1]), ConstOf(acc.ch[i2]))
        left   == multiply(NodeOrOnly(second.type, Rest(second)), op[1])
        ch     == [acc.ch EXCEPT ![i1] = MergedFirst(@, second, f)]
    IN [acc EXCEPT !.ch       = IF op[1] = 0 THEN ch ELSE [ch EXCEPT ![i2] = left],
                   !.toRemove = IF op[1] = 0 THEN @ \union {i2} ELSE @,
                   !.const    = @ + op[2],
                   !.changed  = TRUE]

\* The constant of a sum with k added; and the sum after a run of merges.
AdaptConstant(ch, k) ==
    LET sum == AddToFront(ch, k)
    IN IF Len(sum) > 1 /\ isConstant(sum[1], 0) THEN Tail(sum) ELSE sum
AfterMerges(n, acc) ==
    LET left == Without(acc.ch, acc.toRemove)
    IN IF ~acc.changed THEN n
       ELSE IF left = <<>> THEN newConstantNode(acc.const)
       ELSE NodeOrOnly("SUM", AdaptConstant(left, acc.const))

\* The pairs <<i, j>> of positions, i from the last down, and j from the first
\* up to i - 1; and a run over them in every list.
PairsDown(k) ==
    FlattenSeq([a \in 1 .. k |-> [b \in 1 .. k - a |-> <<k + 1 - a, b>>]])
MergePairs(n, lists, Step(_, _, _)) ==
    FoldLeft(LAMBDA acc, list :
                FoldLeft(LAMBDA a, p : IF p[1] \in a.done \/ p[2] \in a.done THEN a
                                       ELSE Step(a, p[1], p[2]),
                         Restart(acc, list), PairsDown(Len(list))),
             NoMerge(n.ch), lists)

(***************************************************************************)
(* Pairs with constants.                                                   *)
(***************************************************************************)
DisjointAt(acc, i, j) == Disjoint(ConstOf(acc.ch[acc.list[i].idx]), ConstOf(acc.ch[acc.list[j].idx]))

\* A term that has been merged into stays for the next one, although it is no
\* xor any more.
checkXorPairsWithConstants(n) ==
    LET Step(acc, i, j) ==
            IF ~DisjointAt(acc, i, j) THEN acc
            ELSE [mergeBitwiseTerms(acc, acc.list[i].idx, acc.list[j].idx, acc.list[i].factor)
                    EXCEPT !.done = @ \union {j}]
        acc == MergePairs(n, collectIndicesOfBitwWithConstantsInSum(n, "EXCL_DISJUNCTION"), Step)
    IN IF n.type # "SUM" THEN n
       ELSE IF ~acc.changed THEN n
       ELSE newNode("SUM", AdaptConstant(Without(acc.ch, acc.toRemove), acc.const))

\* One rule for several types, one after the other while the node is a sum.
ForTypes(n, types, Rule(_, _)) ==
    FoldLeft(LAMBDA m, t : IF m.type = "SUM" THEN Rule(m, t) ELSE m, n, types)

checkBitwPairsWithConstants(n) ==
    LET Step(acc, i, j) ==
            IF ~DisjointAt(acc, i, j) THEN acc
            ELSE [mergeBitwiseTerms(acc, acc.list[j].idx, acc.list[i].idx, acc.list[i].factor)
                    EXCEPT !.done = @ \union {i}]
        Impl(m, t) ==
            AfterMerges(m, MergePairs(m, collectIndicesOfBitwWithConstantsInSum(m, t), Step))
    IN ForTypes(n, <<"CONJUNCTION", "INCL_DISJUNCTION">>, Impl)

checkDiffBitwPairsWithConstants(n) ==
    LET Step(acc, i, j) ==
            LET first  == BitwAt(acc, j)
                second == BitwAt(acc, i)
                f      == getFactorForMergingBitwise(acc.list[j].factor, acc.list[i].factor,
                                                     first.type, second.type)
            IN IF first.type = second.type \/ ~DisjointAt(acc, i, j) \/ f = {} THEN acc
               ELSE [mergeBitwiseTerms(acc, acc.list[j].idx, acc.list[i].idx, CHOOSE k \in f : TRUE)
                       EXCEPT !.list[j].factor = getBitwiseFactorForMergingBitwise(
                                  CHOOSE k \in f : TRUE, first.type, second.type),
                              !.done = @ \union {i}]
    IN IF n.type # "SUM" THEN n
       ELSE AfterMerges(n, MergePairs(n, collectAllIndicesOfBitwWithConstants(n), Step))

(***************************************************************************)
(* Triples with constants: one term, split between two others.             *)
(***************************************************************************)
\* The coefficient of an operation of type t0 that fits one of type t1 with f.
getPossibleFactorForMergingBitwise(f, t1, t0) ==
    LET half == IF f % 2 = 0 THEN {f \div 2} ELSE {}
    IN CASE t1 = "EXCL_DISJUNCTION" ->
                {CASE t0 = "CONJUNCTION" -> -2 * f [] t0 = "INCL_DISJUNCTION" -> 2 * f [] OTHER -> f}
         [] t1 # "EXCL_DISJUNCTION" /\ t0 = "EXCL_DISJUNCTION" ->
                IF t1 = "CONJUNCTION" THEN {-h : h \in half} ELSE half
         [] OTHER -> {IF t1 = t0 THEN f ELSE -f}

\* The coefficients the two merges are made with.
getFactorsForMergingTriple(acc, main, i1, i2) ==
    LET t(k) == BitwAt(acc, k).type
        f(k) == acc.list[k].factor
        Possible(k) == getPossibleFactorForMergingBitwise(f(k), t(k), t(main))
        For(k, p)   == getFactorForMergingBitwise(f(k), p, t(k), t(main))
    IN IF ~DisjointAt(acc, i1, main) \/ ~DisjointAt(acc, i2, main) THEN {}
       ELSE UNION {For(i1, p) \X For(i2, q) :
                       p \in Possible(i1), q \in {r \in Possible(i2) :
                                                    \A o \in Possible(i1) : IsMod(o + r - f(main))}}

\* p[1] is split between p[2] and p[3].  Of the operands of the one that
\* vanishes, the first after the constant stays.
MergeTriple(acc, p) ==
    LET f      == CHOOSE fs \in getFactorsForMergingTriple(acc, p[1], p[2], p[3]) : TRUE
        idx(k) == acc.list[p[k]].idx
        main   == BitwAt(acc, p[1])
        new(k) == getBitwiseFactorForMergingBitwise(f[k - 1], BitwAt(acc, p[k]).type, main.type)
        op(k)  == getOperandFactorAndConstantForMergingBitwise(
                      f[k - 1], BitwAt(acc, p[k]).type, main.type, ConstOf(acc.ch[idx(k)]), ConstOf(acc.ch[idx(1)]))
        opfac  == toLow64(op(2)[1] + op(3)[1])
        ch     == [acc.ch EXCEPT ![idx(2)] = MergedFirst(@, main, f[1]),
                                 ![idx(3)] = MergedFirst(@, main, f[2])]
        list   == [acc.list EXCEPT ![p[2]].factor = new(2), ![p[3]].factor = new(3)]
    IN [acc EXCEPT !.ch       = IF opfac = 0 THEN ch ELSE [ch EXCEPT ![idx(1)] = multiply(main.ch[2], opfac)],
                   !.toRemove = IF opfac = 0 THEN @ \union {idx(1)} ELSE @,
                   !.const    = @ + op(2)[2] + op(3)[2],
                   !.changed  = TRUE,
                   !.list     = IF p[1] > p[2] THEN list
                                ELSE [list EXCEPT ![p[1]] = list[p[2]], ![p[2]] = list[p[1]]]]

\* The first triple with position i, in the order they are tried.
Triples(i) ==
    FlattenSeq(FlattenSeq(
        [j \in 1 .. i - 2 |-> [k \in 1 .. j |-> <<<<i, j + 1, k>>, <<j + 1, i, k>>, <<k, i, j + 1>>>>]]))
tryMergeBitwiseWithConstantsWith2Others(acc, i) ==
    LET Fits(p) == getFactorsForMergingTriple(acc, p[1], p[2], p[3]) # {}
        k       == SelectInSeq(Triples(i), Fits)
    IN IF k = 0 THEN acc ELSE MergeTriple(acc, Triples(i)[k])

checkBitwTuplesWithConstants(n) ==
    LET Run(acc, list) ==
            FoldLeft(tryMergeBitwiseWithConstantsWith2Others, Restart(acc, list),
                     SelectSeq([a \in DOMAIN list |-> Len(list) + 1 - a], LAMBDA i : i > 2))
    IN IF n.type # "SUM" THEN n
       ELSE AfterMerges(n, FoldLeft(Run, NoMerge(n.ch), collectAllIndicesOfBitwWithConstants(n)))

(***************************************************************************)
(* Pairs with inverses: two operations that differ in one operand only,    *)
(* which one has and the other has negated.                                *)
(***************************************************************************)
\* The indices of the only operands that differ, as a set of at most one pair.
\* (With an operand of n equal to several of o there may be none left in o,
\* where the code reads past the end; equal operands have been merged.)
getOnlyDifferingChildIndicesSameLen(n, o) ==
    LET Step(acc, i) ==
            LET left == SelectSeq(acc.left, LAMBDA j : ~equals(n.ch[i], o.ch[j]))
            IN [left |-> left, missing |-> IF left = acc.left THEN Append(acc.missing, i) ELSE acc.missing]
        end == FoldLeft(Step, [left |-> [j \in DOMAIN o.ch |-> j], missing |-> <<>>],
                        [i \in DOMAIN n.ch |-> i])
    IN IF Len(end.missing) # 1 \/ end.left = <<>> THEN {} ELSE {<<end.missing[1], end.left[1]>>}

getOnlyDifferingChildIndicesDiffLen(n, o) ==
    LET Idx_(i) == getIndexOfChildNegated(o, n.ch[i])
        Fits(i) == IF Idx_(i) = 0 \/ n.ch[3 - i].type # o.type THEN FALSE
                   ELSE doChildrenMatch(n.ch[3 - i].ch, RemoveAt(o.ch, Idx_(i)))
        i       == SelectInSeq(<<1, 2>>, Fits)
    IN IF i = 0 THEN {} ELSE {<<i, Idx_(i)>>}

getOnlyDifferingChildIndices(n, o) ==
    CASE Len(n.ch) = Len(o.ch) ->
             IF n.type = o.type \/ Len(n.ch) = 2 THEN getOnlyDifferingChildIndicesSameLen(n, o) ELSE {}
      [] Len(n.ch) # Len(o.ch) /\ n.type = o.type -> {}
      [] Len(n.ch) = 2 /\ Len(o.ch) > 2 /\ n.type # o.type -> getOnlyDifferingChildIndicesDiffLen(n, o)
      [] OTHER -> IF Len(o.ch) # 2 THEN {}
                  ELSE {<<p[2], p[1]>> : p \in getOnlyDifferingChildIndicesDiffLen(o, n)}

\* The coefficients of the inverse operand and of the others, and the constant.
getOperandFactorsAndConstantForMergingInverseBitwise(f, t1, t2) ==
    CASE t1 = t2 -> CASE t1 = "CONJUNCTION"      -> <<0, f, 0>>
                      [] t1 = "INCL_DISJUNCTION" -> <<0, f, -f>>
                      [] OTHER                   -> <<0, 0, -f>>
      [] t1 # t2 /\ "EXCL_DISJUNCTION" \in {t1, t2} ->
             IF "CONJUNCTION" \in {t1, t2} THEN <<f, -f, 0>> ELSE <<-f, f, -2 * f>>
      [] OTHER -> <<f, 0, 0>>

mustInvertAtMergingInverseBitwise(t1, t2) ==
    t1 = "EXCL_DISJUNCTION" \/ (t2 # "EXCL_DISJUNCTION" /\ t1 = "INCL_DISJUNCTION")

mergeInverseBitwiseTerms(acc, i1, i2, f, p) ==
    LET first  == Inner(acc.ch[i1])
        second == Inner(acc.ch[i2])
        fs     == getOperandFactorsAndConstantForMergingInverseBitwise(f, first.type, second.type)
        same   == NodeOrOnly(first.type, RemoveAt(first.ch, p[1]))
        inv    == IF mustInvertAtMergingInverseBitwise(first.type, second.type)
                  THEN negate(second.ch[p[2]]) ELSE second.ch[p[2]]
    IN [acc EXCEPT
           !.ch = [@ EXCEPT ![i1] = IF fs[2] = 0 THEN @ ELSE flatten(WithFactor(@, same, fs[2])),
                            ![i2] = IF fs[1] = 0 THEN @ ELSE flatten(WithFactor(@, inv, fs[1]))],
           !.toRemove = @ \union (IF fs[2] = 0 THEN {i1} ELSE {}) \union (IF fs[1] = 0 THEN {i2} ELSE {}),
           !.const    = @ + fs[3],
           !.changed  = TRUE]

\* Positions j and i of the list, if they agree on the coefficient f.
InversePair(acc, i, j, f) ==
    LET first  == BitwAt(acc, j)
        second == BitwAt(acc, i)
        pairs  == {p \in getOnlyDifferingChildIndices(first, second) :
                       equalsNegated(first.ch[p[1]], second.ch[p[2]])}
    IN IF pairs = {} THEN acc
       ELSE [mergeInverseBitwiseTerms(acc, acc.list[j].idx, acc.list[i].idx, f, CHOOSE p \in pairs : TRUE)
               EXCEPT !.done = @ \union {i, j}]

checkBitwPairsWithInverses(n) ==
    LET Step(acc, i, j) == InversePair(acc, i, j, acc.list[i].factor)
        Impl(m, t) ==
            AfterMerges(m, MergePairs(m, collectIndicesOfBitwWithoutConstantsInSum(m, t), Step))
    IN ForTypes(n, <<"CONJUNCTION", "EXCL_DISJUNCTION", "INCL_DISJUNCTION">>, Impl)

checkDiffBitwPairsWithInverses(n) ==
    LET Step(acc, i, j) ==
            LET t1 == BitwAt(acc, j).type
                t2 == BitwAt(acc, i).type
                f  == getFactorForMergingBitwise(acc.list[j].factor, acc.list[i].factor, t1, t2)
            IN IF t1 = t2 \/ f = {} THEN acc ELSE InversePair(acc, i, j, CHOOSE k \in f : TRUE)
    IN IF n.type # "SUM" THEN n
       ELSE AfterMerges(n, MergePairs(n, <<collectAllIndicesOfBitwWithoutConstants(n)>>, Step))

(***************************************************************************)
(* checkBitwAndOpInSum: a - (a&b) is a & ~b, and (a|b) - a is ~(a | ~b).   *)
(***************************************************************************)
\* Child i of a sum as such an operation, and the index of the operand that is
\* the rest of the sum.
BitwOfSum(n, i) ==
    LET c    == n.ch[i]
        disj == c.type = "INCL_DISJUNCTION"
        bitw == IF disj THEN c
                ELSE IF ~IsMinus(c) THEN nullptr
                ELSE IF c.ch[2].type = "CONJUNCTION" THEN c.ch[2] ELSE nullptr
        rest == NodeOrOnly("SUM", RemoveAt(n.ch, i))
    IN [bitw |-> bitw, idx |-> IF bitw = nullptr THEN 0
                               ELSE getIndexOfChild(bitw, IF disj THEN minus(rest) ELSE rest)]

checkBitwAndOpInSum(n) ==
    LET i    == SelectInSeq([k \in DOMAIN n.ch |-> k], LAMBDA k : BitwOfSum(n, k).idx # 0)
        bitw == BitwOfSum(n, i).bitw
        idx  == BitwOfSum(n, i).idx
        node == IF Len(bitw.ch) > 2
                THEN newNode(bitw.type, <<bitw.ch[idx],
                         newNode("NEGATION", <<newNode(bitw.type, RemoveAt(bitw.ch, idx))>>)>>)
                ELSE [bitw EXCEPT !.ch[3 - idx] = negate(@)]
    IN IF n.type # "SUM" THEN n
       ELSE IF i = 0 THEN n
       ELSE IF bitw.type = "INCL_DISJUNCTION" THEN newNode("NEGATION", <<node>>) ELSE node

(***************************************************************************)
(* checkInsertXorInSum: (a|b) - (a&b) is a ^ b, with common factors or     *)
(* without.                                                                *)
(***************************************************************************)
ConjAndDisj(conj, disj) ==
    conj.type = "CONJUNCTION" /\ disj.type = "INCL_DISJUNCTION" /\ doChildrenMatch(conj.ch, disj.ch)

\* The term d with its disjunction turned into an xor, where `first' is the
\* conjunction with the same factors, and nullptr if there is none.
XorOf(first, d) ==
    LET pairs == {p \in getOnlyDifferingChildIndices(first, d) : ConjAndDisj(first.ch[p[1]], d.ch[p[2]])}
        k     == (CHOOSE p \in pairs : TRUE)[2]
    IN IF first.type = "PRODUCT"
       THEN IF d.type # "PRODUCT" THEN nullptr
            ELSE IF pairs = {} THEN nullptr ELSE [d EXCEPT !.ch[k].type = "EXCL_DISJUNCTION"]
       ELSE IF Len(first.ch) = 2 /\ ConjAndDisj(first, d) THEN [d EXCEPT !.type = "EXCL_DISJUNCTION"]
       ELSE nullptr

RECURSIVE InsertXor(_, _)
InsertXor(ch, i) ==
    LET first == multiplyByMinusOne(ch[i])
        j     == SelectInSeq([k \in DOMAIN ch |-> k],
                             LAMBDA k : k # i /\ XorOf(first, ch[k]) # nullptr)
    IN IF i > Len(ch) THEN ch
       ELSE IF j = 0 THEN InsertXor(ch, i + 1)
       ELSE InsertXor(RemoveAt([ch EXCEPT ![j] = XorOf(first, @)], i), i)

checkInsertXorInSum(n) ==
    LET ch == InsertXor(n.ch, 1)
    IN IF n.type # "SUM" THEN n ELSE IF ch = n.ch THEN n ELSE NodeOrOnly("SUM", ch)

(***************************************************************************)
(* refineAfterSubstitution.  (A subtree found unchanged in an earlier call *)
(* is skipped, by a hash of its types and constants; this is a first call.)*)
(***************************************************************************)
SubstitutionRules ==
    <<"CancelTerms", "ReplaceTerms", "DisjInvolvingXor", "XorInvolvingDisj", "NegativeBitwInverse",
      "XorPairsWithConstants", "BitwPairsWithConstants", "DiffBitwPairsWithConstants",
      "BitwTuplesWithConstants", "BitwPairsWithInverses", "DiffBitwPairsWithInverses",
      "BitwAndOpInSum", "InsertXorInSum">>

AfterSubstitution(r, n) ==
    CASE r = "CancelTerms"                -> checkBitwiseInSumsCancelTerms(n)
      [] r = "ReplaceTerms"               -> checkBitwiseInSumsReplaceTerms(n).node
      [] r = "DisjInvolvingXor"           -> checkDisjInvolvingXorInSums(n)
      [] r = "XorInvolvingDisj"           -> checkXorInvolvingDisj(n)
      [] r = "NegativeBitwInverse"        -> checkNegativeBitwInverse(n)
      [] r = "XorPairsWithConstants"      -> checkXorPairsWithConstants(n)
      [] r = "BitwPairsWithConstants"     -> checkBitwPairsWithConstants(n)
      [] r = "DiffBitwPairsWithConstants" -> checkDiffBitwPairsWithConstants(n)
      [] r = "BitwTuplesWithConstants"    -> checkBitwTuplesWithConstants(n)
      [] r = "BitwPairsWithInverses"      -> checkBitwPairsWithInverses(n)
      [] r = "DiffBitwPairsWithInverses"  -> checkDiffBitwPairsWithInverses(n)
      [] r = "BitwAndOpInSum"             -> checkBitwAndOpInSum(n)
      [] r = "InsertXorInSum"             -> checkInsertXorInSum(n)

\* Whether a rule that has changed the node reports it.
Reports(r, n) == r # "ReplaceTerms" \/ checkBitwiseInSumsReplaceTerms(n).changed

\* The children first, then the rules in order.
RECURSIVE SubstituteNode(_, _), refineAfterSubstitution(_)
SubstituteNode(acc, r) ==
    LET k == SelectInSubSeq(SubstitutionRules, r, Len(SubstitutionRules),
                            LAMBDA name : AfterSubstitution(name, acc.node) # acc.node)
    IN IF acc.node = undefined THEN acc
       ELSE IF k = 0 THEN acc
       ELSE SubstituteNode([node    |-> AfterSubstitution(SubstitutionRules[k], acc.node),
                            changed |-> acc.changed \/ Reports(SubstitutionRules[k], acc.node)], k + 1)
refineAfterSubstitution(n) ==
    LET children == [i \in DOMAIN n.ch |-> refineAfterSubstitution(n.ch[i])]
    IN IF \E i \in DOMAIN n.ch : children[i].node = undefined THEN [node |-> undefined, changed |-> TRUE]
       ELSE SubstituteNode([node    |-> [n EXCEPT !.ch = [i \in DOMAIN n.ch |-> children[i].node]],
                       changed |-> \E i \in DOMAIN n.ch : children[i].changed], 1)

=============================================================================
