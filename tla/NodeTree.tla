------------------------------ MODULE NodeTree ------------------------------
(***************************************************************************)
(* The expression trees of the GAMBA port (MBA/Node.cpp): what they denote *)
(* and the operations that every rewrite rule is built from.               *)
(*                                                                         *)
(* A Node is a value here: a record of its type, its children, its         *)
(* constant and its variable.  Changing a node in place becomes returning  *)
(* the changed node; `copy' becomes the node that is copied.  Variables    *)
(* are numbers, in the order of their names.                               *)
(***************************************************************************)
EXTENDS Integers, Sequences, SequencesExt

CONSTANTS Width,     \* bitCount
          NumVars    \* the variables are 1 .. NumVars

ASSUME WidthAssumption == Width \in Nat /\ Width >= 2
ASSUME NumVarsAssumption == NumVars \in Nat

Full  == 2 ^ Width
Words == 0 .. Full - 1

(***************************************************************************)
(* MBAValue.h.  An MBAValue has twice the bits of a word and is read as a  *)
(* signed number.                                                          *)
(***************************************************************************)
Wide == 2 ^ (2 * Width)
MBAValue(k) == ((k + Wide \div 2) % Wide) - Wide \div 2

\* toLow64, reduceSigned (which leaves half of the range positive), and
\* getReducedConstant without modRed.
toLow64(k) == k % Full
reduceSigned(k) == IF toLow64(k) > Full \div 2 THEN toLow64(k) - Full ELSE toLow64(k)
lshr(k, e) == MBAValue((k % Wide) \div 2 ^ e)

\* The bits of a word, and the bitwise operations on words as tables.
BitOf(x, i) == (x \div 2 ^ i) % 2
Bitwise2(Op(_, _)) ==
    [x \in Words, y \in Words |->
        FoldLeft(LAMBDA sum, i : sum + 2 ^ i * Op(BitOf(x, i), BitOf(y, i)),
                 0, [i \in 1 .. Width |-> i - 1])]
AndTable == Bitwise2(LAMBDA a, b : a * b)
OrTable  == Bitwise2(LAMBDA a, b : a + b - a * b)
XorTable == Bitwise2(LAMBDA a, b : (a + b) % 2)

trailingZeros(x) ==      \* of a word; 64 for 0
    IF x = 0 THEN 64 ELSE CHOOSE e \in 0 .. Width - 1 : x % 2 ^ e = 0 /\ BitOf(x, e) = 1

RECURSIVE power(_, _)
power(b, e) == IF e = 0 THEN 1 ELSE (b * power(b, e - 1)) % Full

(***************************************************************************)
(* Nodes.                                                                  *)
(***************************************************************************)
BitwiseBinops == {"CONJUNCTION", "EXCL_DISJUNCTION", "INCL_DISJUNCTION"}
OpaqueOps     == {"RSHIFT", "UDIV", "UREM"}
NodeTypes     == <<"CONSTANT", "VARIABLE", "POWER", "NEGATION", "PRODUCT", "SUM",
                   "CONJUNCTION", "EXCL_DISJUNCTION", "INCL_DISJUNCTION",
                   "RSHIFT", "UDIV", "UREM">>
typeRank(t) == CHOOSE i \in DOMAIN NodeTypes : NodeTypes[i] = t

RawConstant(k) == [type |-> "CONSTANT", ch |-> <<>>, constant |-> MBAValue(k), vname |-> 0]
newConstantNode(k) == RawConstant(reduceSigned(k))
newVariableNode(x) == [type |-> "VARIABLE", ch |-> <<>>, constant |-> 0, vname |-> x]
newNode(t, ch)     == [type |-> t, ch |-> ch, constant |-> 0, vname |-> 0]
nullptr            == [type |-> "nullptr", ch |-> <<>>, constant |-> 0, vname |-> 0]

\* What a loop leaves behind when the list it runs over has changed under it.
undefined == [type |-> "undefined", ch |-> <<>>, constant |-> 0, vname |-> 0]

\* What rewrite makes of n; of an undefined tree it makes nothing.  (The sets make
\* TLC evaluate n before it is used.)
Made(n, rewrite(_)) == CHOOSE r \in {IF m = undefined THEN m ELSE rewrite(m) : m \in {n}} : TRUE

reduceConstant(n) == [n EXCEPT !.constant = reduceSigned(n.constant)]
isConstant(n, k)  == n.type = "CONSTANT" /\ n.constant = k
isBitwiseBinop(n) == n.type \in BitwiseBinops
isBitwiseOp(n)    == n.type = "NEGATION" \/ isBitwiseBinop(n)
Child(n, i)       == n.ch[i]
Rest(n)           == Tail(n.ch)

\* A node of type t with these children, or the only one (`if (children.size()
\* == 1) copy(*children[0])').
NodeOrOnly(t, ch) == IF Len(ch) = 1 THEN ch[1] ELSE newNode(t, ch)

(***************************************************************************)
(* What a node denotes: eval at a valuation X of the variables.            *)
(***************************************************************************)
applyBinop(t, x, y) ==
    CASE t = "POWER"            -> power(x, y)
      [] t = "PRODUCT"          -> (x * y) % Full
      [] t = "SUM"              -> (x + y) % Full
      [] t = "CONJUNCTION"      -> AndTable[x, y]
      [] t = "EXCL_DISJUNCTION" -> XorTable[x, y]
      [] t = "INCL_DISJUNCTION" -> OrTable[x, y]
      [] t = "RSHIFT"           -> IF y >= Width THEN 0 ELSE x \div 2 ^ y
      [] t = "UDIV"             -> IF y = 0 THEN 0 ELSE x \div y
      [] t = "UREM"             -> IF y = 0 THEN 0 ELSE x % y

RECURSIVE eval(_, _), evalFrom(_, _, _, _)
eval(n, X) ==
    CASE n.type = "CONSTANT" -> toLow64(n.constant)
      [] n.type = "VARIABLE" -> X[n.vname]
      [] n.type = "NEGATION" -> Full - 1 - eval(n.ch[1], X)
      [] OTHER               -> evalFrom(n, X, 2, eval(n.ch[1], X))
evalFrom(n, X, i, val) ==
    IF i > Len(n.ch) THEN val
    ELSE evalFrom(n, X, i + 1, applyBinop(n.type, val, eval(n.ch[i], X)))

Valuations == [1 .. NumVars -> Words]
Values(n)  == [X \in Valuations |-> eval(n, X)]

(***************************************************************************)
(* multiply.                                                               *)
(***************************************************************************)
RECURSIVE multiply(_, _)
multiply(n, factor) ==
    LET flat == IF n.type = "PRODUCT" /\ n.ch[1].type = "PRODUCT"
                THEN n.ch[1].ch \o Rest(n) ELSE n.ch
        first == multiply(flat[1], factor)
    IN CASE toLow64(factor - 1) = 0 -> n
         [] toLow64(factor - 1) # 0 /\ n.type = "CONSTANT" ->
                newConstantNode(n.constant * factor)
         [] toLow64(factor - 1) # 0 /\ n.type = "SUM" ->
                newNode("SUM", [i \in DOMAIN n.ch |-> multiply(n.ch[i], factor)])
         [] toLow64(factor - 1) # 0 /\ n.type = "PRODUCT" ->
                IF flat[1].type # "CONSTANT"
                THEN newNode("PRODUCT", <<newConstantNode(factor)>> \o flat)
                ELSE IF isConstant(first, 1) THEN NodeOrOnly("PRODUCT", Tail(flat))
                ELSE IF isConstant(first, 0) THEN first
                ELSE newNode("PRODUCT", <<first>> \o Tail(flat))
         [] OTHER -> newNode("PRODUCT", <<newConstantNode(factor), n>>)

multiplyByMinusOne(n) == multiply(n, -1)

(***************************************************************************)
(* A node that is the negation of the result, written with arithmetic:     *)
(* -1 - a is ~a, and so is -(1 + a); nullptr if n has neither form.        *)
(***************************************************************************)
getOptTransformedNegatedSum(n) ==
    LET Term(c) == IF c.type = "PRODUCT" /\ isConstant(c.ch[1], -1)
                   THEN NodeOrOnly("PRODUCT", Rest(c))
                   ELSE multiplyByMinusOne(c)
    IN IF Len(n.ch) < 2 \/ ~isConstant(n.ch[1], -1) THEN nullptr
       ELSE NodeOrOnly("SUM", [i \in 1 .. Len(n.ch) - 1 |-> Term(n.ch[i + 1])])

getOptTransformedNegatedProduct(n) ==
    IF /\ Len(n.ch) = 2 /\ isConstant(n.ch[1], -1) /\ n.ch[2].type = "SUM"
       /\ isConstant(n.ch[2].ch[1], 1) /\ Len(n.ch[2].ch) >= 2
    THEN NodeOrOnly("SUM", Rest(n.ch[2]))
    ELSE nullptr

getOptTransformedNegated(n) ==
    CASE n.type = "SUM"     -> getOptTransformedNegatedSum(n)
      [] n.type = "PRODUCT" -> getOptTransformedNegatedProduct(n)
      [] OTHER              -> nullptr

getOptNegativeTransformedNegated(n) ==
    IF n.type # "SUM" \/ Len(n.ch) < 2 THEN nullptr
    ELSE IF ~isConstant(n.ch[1], 1) THEN nullptr
    ELSE NodeOrOnly("SUM", Rest(n))

(***************************************************************************)
(* Equality up to the order of children and those rewritings.              *)
(***************************************************************************)
RECURSIVE equals(_, _), equalsRewritingBitwiseAsymm(_, _), Contained(_, _)

\* Every node of l1 is matched with its own node of l2, the first left that is
\* equal: the loops over oIndices.
Contained(l1, l2) ==
    \/ l1 = <<>>
    \/ LET j == SelectInSeq(l2, LAMBDA o : equals(l1[1], o))
       IN j # 0 /\ Contained(Tail(l1), RemoveAt(l2, j))

areAllChildrenContained(l1, l2) == Contained(l1, l2)

equals(n, o) ==
    IF n.type # o.type
    THEN equalsRewritingBitwiseAsymm(n, o) \/ equalsRewritingBitwiseAsymm(o, n)
    ELSE \/ n = o
         \/ /\ n.type \notin {"CONSTANT", "VARIABLE"}
            /\ Len(n.ch) = Len(o.ch)
            /\ areAllChildrenContained(n.ch, o.ch)

equalsRewritingBitwiseAsymm(n, o) ==
    LET neg == IF n.type = "NEGATION" THEN getOptTransformedNegated(o)
               ELSE getOptNegativeTransformedNegated(o)
        arg == IF n.type = "NEGATION" THEN n.ch[1] ELSE n.ch[2].ch[1]
    IN /\ \/ n.type = "NEGATION"
          \/ /\ n.type = "PRODUCT" /\ Len(n.ch) = 2 /\ isConstant(n.ch[1], -1)
             /\ n.ch[2].type = "NEGATION"
       /\ neg # nullptr
       /\ equals(neg, arg)

equalsNegated(n, o) ==
    \/ n.type = "NEGATION" /\ equals(n.ch[1], o)
    \/ o.type = "NEGATION" /\ equals(o.ch[1], n)

\* doChildrenMatch: as many, and every node of l1 is somewhere in l2.
doChildrenMatch(l1, l2) ==
    /\ Len(l1) = Len(l2)
    /\ \A i \in DOMAIN l1 : \E j \in DOMAIN l2 : equals(l1[i], l2[j])

hasChild(n, o) == \E i \in DOMAIN n.ch : equals(n.ch[i], o)
getIndexOfChild(n, o) == SelectInSeq(n.ch, LAMBDA c : equals(c, o))
getIndexOfChildNegated(n, o) == SelectInSeq(n.ch, LAMBDA c : equalsNegated(c, o))

(***************************************************************************)
(* markLinear: the state of a node, and the order it puts children into.   *)
(***************************************************************************)
RECURSIVE state(_)
state(n) ==
    LET states == {state(n.ch[i]) : i \in DOMAIN n.ch}
        Linear(c) == state(c) \in {"BITWISE", "LINEAR"}
    IN CASE n.type = "VARIABLE" -> "BITWISE"
         [] n.type = "CONSTANT" -> IF n.constant \in {0, -1} THEN "BITWISE" ELSE "LINEAR"
         [] isBitwiseOp(n)      -> IF states \subseteq {"BITWISE"} THEN "BITWISE" ELSE "MIXED"
         [] n.type \in OpaqueOps -> "NONLINEAR"
         [] n.type = "PRODUCT" /\ Len(n.ch) = 1 -> state(n.ch[1])
         [] n.type \in {"SUM", "PRODUCT", "POWER"} /\ "MIXED" \in states -> "MIXED"
         [] n.type = "SUM"      -> IF "NONLINEAR" \in states THEN "NONLINEAR" ELSE "LINEAR"
         [] n.type = "POWER"    -> "NONLINEAR"
         [] OTHER -> IF /\ Len(n.ch) = 2
                        /\ \/ n.ch[1].type = "CONSTANT" /\ Linear(n.ch[2])
                           \/ n.ch[2].type = "CONSTANT" /\ Linear(n.ch[1])
                     THEN "LINEAR" ELSE "NONLINEAR"

isLinear(n) == state(n) \in {"BITWISE", "LINEAR"}

\* reorderAndDetermineLinearEnd, for a node whose children are ordered: the new
\* order and linearEnd.
LinearInFront(n) ==
    LET Front_(c) == \/ state(c) = "BITWISE"
                     \/ ~isBitwiseOp(n) /\ state(c) = "LINEAR"
        Not(c)    == ~Front_(c)
        firstLin  == SelectInSubSeq(n.ch, 2, Len(n.ch),
                                    LAMBDA c : state(c) \notin {"NONLINEAR", "MIXED"})
    IN CASE n.type = "POWER" -> [node |-> n, linearEnd |-> 0]
         [] n.type # "POWER" /\ state(n) \notin {"NONLINEAR", "MIXED"} ->
                [node |-> n, linearEnd |-> Len(n.ch)]
         [] n.type = "PRODUCT" /\ state(n) \in {"NONLINEAR", "MIXED"} ->
                IF n.ch[1].type # "CONSTANT" THEN [node |-> n, linearEnd |-> 0]
                ELSE IF firstLin = 0 THEN [node |-> n, linearEnd |-> 1]
                ELSE [node |-> newNode("PRODUCT",
                                       <<n.ch[1], n.ch[firstLin]>> \o Tail(RemoveAt(n.ch, firstLin))),
                      linearEnd |-> 2]
         [] OTHER -> [node |-> [n EXCEPT !.ch = SelectSeq(n.ch, Front_) \o SelectSeq(n.ch, Not)],
                      linearEnd |-> Len(SelectSeq(n.ch, Front_))]

linearEnd(n) == LinearInFront(n).linearEnd

RECURSIVE markLinear(_)
markLinear(n) ==
    LinearInFront([n EXCEPT !.ch = [i \in DOMAIN n.ch |-> markLinear(n.ch[i])]]).node

(***************************************************************************)
(* Counting.                                                               *)
(***************************************************************************)
RECURSIVE SumOver(_, _, _)
SumOver(f, i, last) == IF i > last THEN 0 ELSE f[i] + SumOver(f, i + 1, last)

RECURSIVE countNodes(_, _)
countNodes(n, types) ==
    LET below == [i \in DOMAIN n.ch |-> countNodes(n.ch[i], types)]
    IN SumOver(below, 1, Len(n.ch)) + (IF n.type \in types THEN 1 ELSE 0)

\* parent is "none", "bitwise" or "arithmetic".
RECURSIVE computeAlternation(_, _)
computeAlternation(n, parent) ==
    LET kind  == IF isBitwiseOp(n) THEN "bitwise" ELSE "arithmetic"
        below == [i \in DOMAIN n.ch |-> computeAlternation(n.ch[i], kind)]
    IN CASE n.type = "VARIABLE" -> 0
         [] n.type = "CONSTANT" -> IF parent = "bitwise" THEN 1 ELSE 0
         [] OTHER -> (IF parent \notin {"none", kind} THEN 1 ELSE 0)
                         + SumOver(below, 1, Len(n.ch))

RECURSIVE computeAlternationLinear(_, _)
computeAlternationLinear(n, hasParent) ==
    LET below == [i \in DOMAIN n.ch |-> computeAlternationLinear(n.ch[i], TRUE)]
    IN IF n.type \in {"SUM", "PRODUCT"} THEN SumOver(below, 1, Len(n.ch))
       ELSE IF hasParent /\ n.type \notin {"VARIABLE", "CONSTANT"} THEN 1 ELSE 0

RECURSIVE countTermsLinear(_)
countTermsLinear(n) ==
    LET below == [i \in DOMAIN n.ch |-> countTermsLinear(n.ch[i])]
    IN CASE n.type = "SUM" -> SumOver(below, 1, Len(n.ch))
         [] n.type = "PRODUCT" -> IF n.ch[1].type = "CONSTANT" THEN below[2] ELSE below[1]
         [] OTHER -> 1

(***************************************************************************)
(* Order.  operator< is no strict order (a constant is less than a         *)
(* constant), so what std::sort does with it is spelled out.               *)
(***************************************************************************)
getExtendedVariable(n) ==      \* 0 for none
    CASE n.type = "VARIABLE" -> n.vname
      [] n.type = "NEGATION" /\ n.ch[1].type = "VARIABLE" -> n.ch[1].vname
      [] n.type = "PRODUCT" /\ Len(n.ch) = 2 /\ n.ch[1].type = "CONSTANT"
             /\ n.ch[2].type = "VARIABLE" -> n.ch[2].vname
      [] OTHER -> 0

lessThan(n, o) ==
    LET v == getExtendedVariable(n)
        w == getExtendedVariable(o)
    IN CASE n.type = "CONSTANT" -> TRUE
         [] n.type # "CONSTANT" /\ o.type = "CONSTANT" -> FALSE
         [] v = 0 /\ w = 0 -> IF n.type # o.type THEN typeRank(n.type) < typeRank(o.type)
                              ELSE Len(n.ch) < Len(o.ch)
         [] v # 0 /\ v = w -> n.type = "VARIABLE"
         [] OTHER -> v # 0 /\ (w = 0 \/ v < w)

Insert(s, c) ==      \* one step of the insertion sort that std::sort is up to 16 elements
    LET k == SelectLastInSeq(s, LAMBDA o : ~lessThan(c, o))
    IN IF s # <<>> /\ lessThan(c, s[1]) THEN <<c>> \o s
       ELSE SubSeq(s, 1, k) \o <<c>> \o SubSeq(s, k + 1, Len(s))

RECURSIVE Sorted(_)
Sorted(s) == IF s = <<>> THEN <<>> ELSE Insert(Sorted(Front(s)), Last(s))

reorderVariables(n) ==
    IF typeRank(n.type) < typeRank("PRODUCT") \/ n.type \in OpaqueOps \/ Len(n.ch) <= 1 THEN n
    ELSE [n EXCEPT !.ch = Sorted(n.ch)]

RECURSIVE sort(_)
sort(n) == reorderVariables([n EXCEPT !.ch = [i \in DOMAIN n.ch |-> sort(n.ch[i])]])

=============================================================================
