------------------------------- MODULE Expand -------------------------------
(***************************************************************************)
(* MBA/Expand.cpp, first part: products of sums are multiplied out.        *)
(***************************************************************************)
EXTENDS RefineB

MAX_EXPONENT_TO_EXPAND == 2

IsSum(c) == c.type = "SUM"
Square(n) == newNode("POWER", <<n, newConstantNode(2)>>)
\* (a product of no factors is 1)
ProductOf(ch) == IF ch = <<>> THEN newConstantNode(1) ELSE NodeOrOnly("PRODUCT", ch)
\* A sum of one term is that term.
OnlyChild(n)  == IF Len(n.ch) = 1 THEN n.ch[1] ELSE n
IsPowerOf(c, base) == c.type = "POWER" /\ equals(c.ch[1], base)

\* Factor i with its exponent changed to e, and without the factor if e is 0.
WithExponent(ch, i, e) ==
    IF isConstant(e, 0) THEN RemoveAt(ch, i) ELSE [ch EXCEPT ![i].ch[2] = e]

(***************************************************************************)
(* The product of two nodes that are no sums.  multiplyWithNodeNoSum and   *)
(* getProductWithNode differ in two places only: inPlace tells which.      *)
(***************************************************************************)
mergePowerIntoProduct(ch, power_) ==
    LET base == power_.ch[1]
        i    == SelectInSeq(ch, LAMBDA c : equals(c, base) \/ IsPowerOf(c, base))
    IN IF i = 0 THEN Append(ch, power_)
       ELSE IF equals(ch[i], base)
       THEN WithExponent([ch EXCEPT ![i] = power_], i, addConstant(power_.ch[2], 1))
       ELSE WithExponent(ch, i, add(ch[i].ch[2], power_.ch[2]))

\* One factor of the other product goes into the product ch.
MergeFactor(ch, c) ==
    LET i == SelectInSeq(ch, LAMBDA d : equals(d, c))
    IN CASE ch # <<>> /\ isConstant(ch[1], 0) -> ch
         [] IsConst(c) /\ ch # <<>> /\ ~isConstant(ch[1], 0) -> TimesFront(ch, c.constant)
         [] c.type = "POWER" /\ ~(ch # <<>> /\ isConstant(ch[1], 0)) -> mergePowerIntoProduct(ch, c)
         [] OTHER -> IF IsConst(c) THEN <<c>>
                     ELSE IF i = 0 THEN Append(ch, c) ELSE [ch EXCEPT ![i] = Square(@)]

productOfProducts(n, o, inPlace) ==
    LET ch == FoldLeft(MergeFactor, n.ch, o.ch)
    IN IF ch # <<>> /\ isConstant(ch[1], 0) THEN ch[1]
       ELSE IF ~inPlace /\ ch # <<>> /\ isConstant(ch[1], 1) THEN ProductOf(Tail(ch))
       ELSE ProductOf(ch)

productOfProductAndPower(n, o) == ProductOf(mergePowerIntoProduct(n.ch, o))

\* When the exponent becomes 0, getProductOfProductAndOther may return the
\* first child of the node it was called on.
productOfProductAndOther(n, o, inPlace) ==
    LET i  == SelectInSeq(n.ch, LAMBDA c : equals(c, o) \/ IsPowerOf(c, o))
        ch == WithExponent(n.ch, i, addConstant(n.ch[i].ch[2], 1))
    IN IF i = 0 THEN [n EXCEPT !.ch = Append(@, o)]
       ELSE IF equals(n.ch[i], o) THEN [n EXCEPT !.ch[i] = Square(@)]
       ELSE IF Len(ch) = 1 /\ Len(n.ch) = 2 THEN (IF inPlace THEN ch[1] ELSE n.ch[1])
       ELSE [n EXCEPT !.ch = ch]

productOfPowers(n, o) ==
    LET e == add(n.ch[2], o.ch[2])
    IN IF ~equals(n.ch[1], o.ch[1]) THEN newNode("PRODUCT", <<n, o>>)
       ELSE IF isConstant(e, 0) THEN newConstantNode(1)
       ELSE IF isConstant(e, 1) THEN n.ch[1]
       ELSE [n EXCEPT !.ch[2] = e]

productOfPowerAndOther(n, o) ==
    LET e == addConstant(n.ch[2], 1)
    IN IF ~equals(n.ch[1], o) THEN newNode("PRODUCT", <<n, o>>)
       ELSE IF isConstant(e, 0) THEN newConstantNode(1) ELSE [n EXCEPT !.ch[2] = e]

productGeneric(n, o) == IF equals(n, o) THEN Square(n) ELSE newNode("PRODUCT", <<n, o>>)

ProductWithNode(n, o, inPlace) ==
    LET t == n.type  u == o.type
    IN CASE t = "CONSTANT" -> multiply(o, toLow64(n.constant))
         [] t # "CONSTANT" /\ u = "CONSTANT" -> multiply(n, toLow64(o.constant))
         [] t = "PRODUCT" /\ u = "PRODUCT" -> productOfProducts(n, o, inPlace)
         [] t = "PRODUCT" /\ u = "POWER"   -> productOfProductAndPower(n, o)
         [] t = "POWER"   /\ u = "PRODUCT" -> productOfProductAndPower(o, n)
         [] t = "PRODUCT" /\ u \notin {"CONSTANT", "PRODUCT", "POWER"} ->
                productOfProductAndOther(n, o, inPlace)
         [] t \notin {"CONSTANT", "PRODUCT", "POWER"} /\ u = "PRODUCT" ->
                productOfProductAndOther(o, n, FALSE)
         [] t = "POWER" /\ u = "POWER" -> productOfPowers(n, o)
         [] t = "POWER" /\ u \notin {"CONSTANT", "PRODUCT", "POWER"} -> productOfPowerAndOther(n, o)
         [] t \notin {"CONSTANT", "PRODUCT", "POWER"} /\ u = "POWER" -> productOfPowerAndOther(o, n)
         [] OTHER -> productGeneric(n, o)

multiplyWithNodeNoSum(n, o) == ProductWithNode(n, o, TRUE)
getProductWithNode(n, o)    == ProductWithNode(n, o, FALSE)

(***************************************************************************)
(* A sum times a node.                                                     *)
(***************************************************************************)
\* A sum that merges to one term without children becomes 0, whatever the
\* term is.
multiplySumWithSum(n, o, keepSum) ==
    LET products == FlattenSeq([i \in DOMAIN n.ch |->
                        [j \in DOMAIN o.ch |-> getProductWithNode(n.ch[i], o.ch[j])]])
        Add(ch, p) == IF isConstant(p, 0) THEN ch
                      ELSE IF ~IsConst(p) THEN Append(ch, p)
                      ELSE IF ch # <<>> /\ IsConst(ch[1])
                      THEN [ch EXCEPT ![1] = newConstantNode(@.constant + p.constant)]
                      ELSE <<p>> \o ch
        sum == mergeSimilarNodesSum(newNode("SUM", FoldLeft(Add, <<>>, products)))
    IN IF sum.ch = <<>> THEN newConstantNode(0)
       ELSE IF Len(sum.ch) = 1 /\ ~keepSum THEN sum.ch[1] ELSE sum

multiplySum(n, o) ==
    LET ch     == [i \in DOMAIN n.ch |-> multiplyWithNodeNoSum(n.ch[i], o)]
        others == SelectSeq(Tail(ch), NotConst)
        k      == FoldLeft(LAMBDA s, c : IF IsConst(c) THEN s + toLow64(c.constant) ELSE s, 0, ch)
        front  == IF k = 0 THEN <<>> ELSE <<newConstantNode(k)>>
    IN IF IsSum(o) THEN multiplySumWithSum(n, o, TRUE)
       ELSE mergeSimilarNodesSum(newNode("SUM",
                front \o (IF IsConst(ch[1]) THEN <<>> ELSE <<ch[1]>>) \o others))

\* The sum s times the factors ch, as long as it stays a sum: the product, and
\* the factors that are left.
RECURSIVE Multiplied(_, _)
Multiplied(s, ch) ==
    IF ch = <<>> \/ ~IsSum(s) THEN [node |-> s, rest |-> ch]
    ELSE Multiplied(multiplySum(s, ch[1]), Tail(ch))

\* Without a sum among them, the factors that are left are forgotten.
RECURSIVE expandProduct(_)
expandProduct(n) ==
    LET k    == SelectInSeq(n.ch, IsSum)
        m    == Multiplied(n.ch[k], RemoveAt(n.ch, k))
        used == Len(n.ch) - 1 - Len(m.rest)
        left == InsertAt(m.rest, IF used < k THEN k - used ELSE 1, m.node)
    IN IF IsSum(m.node) \/ isConstant(m.node, 0) \/ SelectInSeq(left, IsSum) = 0
       THEN OnlyChild(m.node)
       ELSE expandProduct(newNode("PRODUCT", left))

expandPower(n, exp) ==
    OnlyChild(IF exp = 2 THEN multiplySumWithSum(n.ch[1], n.ch[1], TRUE) ELSE n.ch[1])

checkExpandProduct(n) ==
    IF Len(n.ch) > 1 /\ SelectInSeq(n.ch, IsSum) # 0 THEN expandProduct(n) ELSE n
checkExpandPower(n) ==
    IF ~IsSum(n.ch[1]) \/ ~IsConst(n.ch[2]) THEN n
    ELSE IF toLow64(n.ch[2].constant) > MAX_EXPONENT_TO_EXPAND THEN n
    ELSE expandPower(n, toLow64(n.ch[2].constant))

checkExpand(n) ==
    CASE n.type = "PRODUCT" -> checkExpandProduct(n)
      [] n.type = "POWER"   -> checkExpandPower(n)
      [] OTHER -> n

RECURSIVE expand(_, _)
expand(n, restricted) ==
    LET below  == [n EXCEPT !.ch = [i \in DOMAIN n.ch |->
                      IF restricted /\ n.type = "POWER" /\ i # 1 THEN n.ch[i] ELSE expand(n.ch[i], restricted)]]
        tidy   == inspectConstants(below)
        flat   == IF below = n THEN n ELSE IF IsSum(tidy) THEN flattenBinaryGeneric(tidy) ELSE tidy
        result == checkExpand(flat)
    IN IF restricted /\ n.type \notin {"SUM", "PRODUCT", "POWER"} THEN n
       ELSE IF result # n /\ IsSum(result) THEN mergeSimilarNodesSum(result)
       ELSE result

=============================================================================
