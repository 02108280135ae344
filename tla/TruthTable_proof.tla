-------------------------- MODULE TruthTable_proof --------------------------
(***************************************************************************)
(* Indices, their bits and ascending lists of variables, for every number  *)
(* of variables: what the loops of the linear simplifier rely on.          *)
(***************************************************************************)
EXTENDS TruthTable, FiniteSetTheorems, TLAPS

----------------------------------------------------------------------------
\* Induction over the natural numbers, for sets.

\* A set of natural numbers has a least element: the intervals from 0 to its members
\* are finite sets, and those are well-founded by inclusion.
LEMMA LeastElement ==
  ASSUME NEW T \in SUBSET Nat, NEW m \in T
  PROVE  \E n \in T : \A k \in T : n <= k
<1> DEFINE F == {0 .. k : k \in T}
<1>1. F \subseteq FiniteSubsetsOf(Nat)
  <2>1. \A k \in T : IsFiniteSet(0 .. k) /\ 0 .. k \in SUBSET Nat
    BY FS_Interval
  <2> QED
    BY <2>1 DEF FiniteSubsetsOf
<1>2. 0 .. m \in F
  OBVIOUS
<1>3. PICK x \in F : \A y \in F : ~ (<<y, x>> \in StrictSubsetOrdering(Nat))
  <2> HIDE DEF F
  <2>1. F # {}
    BY <1>2
  <2> QED
    BY <1>1, <2>1, FS_StrictSubsetOrderingWellFounded, WFMin
<1>4. PICK n \in T : x = 0 .. n
  BY <1>3
<1>5. ASSUME NEW k \in T, k < n
      PROVE  FALSE
  <2>1. 0 .. k \subseteq 0 .. n /\ 0 .. k # 0 .. n /\ 0 .. k \in SUBSET Nat /\ 0 .. n \in SUBSET Nat
    <3>1. n \in 0 .. n /\ n \notin 0 .. k
      BY <1>5
    <3>2. 0 .. k \subseteq 0 .. n /\ 0 .. k \in SUBSET Nat /\ 0 .. n \in SUBSET Nat
      BY <1>5
    <3> QED
      BY <3>1, <3>2
  <2>2. <<0 .. k, 0 .. n>> \in StrictSubsetOrdering(Nat)
    BY <2>1 DEF StrictSubsetOrdering
  <2>3. 0 .. k \in F
    OBVIOUS
  <2> QED
    BY <1>3, <1>4, <2>2, <2>3
<1> QED
  BY <1>5

\* Induction, for a set of natural numbers: one left out would have a least one.
LEMMA Induction ==
  ASSUME NEW T, 0 \in T, \A n \in Nat : n \in T => n + 1 \in T
  PROVE  \A n \in Nat : n \in T
<1> SUFFICES ASSUME NEW m \in Nat, m \notin T PROVE FALSE
  OBVIOUS
<1> DEFINE Out == {n \in Nat : n \notin T}
<1>1. PICK n \in Out : \A k \in Out : n <= k
  <2>1. Out \in SUBSET Nat /\ m \in Out
    OBVIOUS
  <2> QED
    BY <2>1, LeastElement
<1>2. n # 0 /\ n - 1 \in Nat
  OBVIOUS
<1>3. n - 1 \in T
  BY <1>1, <1>2
<1> QED
  BY <1>2, <1>3

\* A loop of n steps, each of which is a function on W, has a trace.
LEMMA Trace ==
  ASSUME NEW W, NEW first \in W, NEW n \in Nat, NEW step \in [1 .. n -> [W -> W]]
  PROVE  \E f \in [0 .. n -> W] :
           f[0] = first /\ \A k \in 1 .. n : f[k] = step[k][f[k - 1]]
<1> DEFINE Good(m) == \E f \in [0 .. m -> W] :
             f[0] = first /\ \A k \in 1 .. m : f[k] = step[k][f[k - 1]]
           T == {m \in Nat : m <= n => Good(m)}
<1>1. 0 \in T
  <2> DEFINE f == [k \in 0 .. 0 |-> first]
  <2>1. f \in [0 .. 0 -> W] /\ f[0] = first /\ \A k \in 1 .. 0 : f[k] = step[k][f[k - 1]]
    OBVIOUS
  <2> HIDE DEF f
  <2>2. Good(0)
    BY <2>1
  <2> QED
    BY <2>2
<1>2. ASSUME NEW m \in Nat, m \in T, m + 1 <= n
      PROVE  Good(m + 1)
  <2>1. PICK f \in [0 .. m -> W] : f[0] = first /\ \A k \in 1 .. m : f[k] = step[k][f[k - 1]]
    BY <1>2
  <2> DEFINE g == [k \in 0 .. m + 1 |-> IF k = m + 1 THEN step[m + 1][f[m]] ELSE f[k]]
  <2>2. step[m + 1] \in [W -> W] /\ f[m] \in W
    BY <1>2
  <2>3. step[m + 1][f[m]] \in W
    BY <2>2
  <2>4. g \in [0 .. m + 1 -> W]
    BY <2>3
  <2>5. g[0] = first /\ \A k \in 1 .. m + 1 : g[k] = step[k][g[k - 1]]
    BY <2>1
  <2> QED
    BY <2>4, <2>5
<1> HIDE DEF Good
<1>3. \A m \in Nat : m \in T
  <2>1. \A m \in Nat : m \in T => m + 1 \in T
    BY <1>2
  <2> HIDE DEF T
  <2> QED
    BY <1>1, <2>1, Induction
<1>4. Good(n)
  BY <1>3
<1> QED
  BY <1>4 DEF Good

----------------------------------------------------------------------------
\* Group sizes.

\* init_groupsizes starts from 1 and doubles.
LEMMA GroupSizes ==
  /\ groupsizes \in [0 .. vnumber -> Nat \ {0}]
  /\ groupsizes[0] = 1
  /\ \A v \in 0 .. vnumber - 1 : groupsizes[v + 1] = 2 * groupsizes[v]
<1> DEFINE Body(g) == [v \in 0 .. vnumber |-> IF v = 0 THEN 1 ELSE 2 * g[v - 1]]
           double == [v \in 1 .. vnumber |-> [w \in Nat \ {0} |-> 2 * w]]
<1>1. vnumber \in Nat
  BY SizeAssumption
<1>2a. double \in [1 .. vnumber -> [Nat \ {0} -> Nat \ {0}]]
  <2>1. [w \in Nat \ {0} |-> 2 * w] \in [Nat \ {0} -> Nat \ {0}]
    OBVIOUS
  <2> QED
    BY <2>1
<1>2. PICK f \in [0 .. vnumber -> Nat \ {0}] :
        f[0] = 1 /\ \A k \in 1 .. vnumber : f[k] = double[k][f[k - 1]]
  <2> DEFINE W == Nat \ {0}
  <2>1. 1 \in W /\ double \in [1 .. vnumber -> [W -> W]]
    BY <1>2a
  <2>2. \E f \in [0 .. vnumber -> W] :
           f[0] = 1 /\ \A k \in 1 .. vnumber : f[k] = double[k][f[k - 1]]
    <3> HIDE DEF double, W
    <3> QED
      BY <1>1, <2>1, Trace
  <2> QED
    BY <2>2
<1>3. f = Body(f)
  <2>1. ASSUME NEW k \in 1 .. vnumber
        PROVE  f[k - 1] \in Nat \ {0} /\ f[k] = 2 * f[k - 1]
    <3>1. k - 1 \in 0 .. vnumber
      BY <1>1
    <3>2. f[k - 1] \in Nat \ {0}
      BY <3>1
    <3>3. double[k] = [w \in Nat \ {0} |-> 2 * w]
      OBVIOUS
    <3>4. double[k][f[k - 1]] = 2 * f[k - 1]
      BY <3>2, <3>3
    <3> QED
      BY <1>2, <3>2, <3>4
  <2> QED
    BY <1>1, <1>2, <2>1
<1>4. groupsizes = CHOOSE g : g = Body(g)
  BY DEF groupsizes
<1>5. groupsizes = Body(groupsizes)
  <2> HIDE DEF Body
  <2> QED
    BY <1>3, <1>4
<1> DEFINE T == {v \in Nat : v <= vnumber => groupsizes[v] \in Nat \ {0}}
<1>6. groupsizes[0] = 1 /\ \A v \in 0 .. vnumber - 1 : groupsizes[v + 1] = 2 * groupsizes[v]
  BY <1>1, <1>5
<1>7. 0 \in T
  BY <1>6
<1>8. ASSUME NEW v \in Nat, v \in T PROVE v + 1 \in T
  BY <1>1, <1>6, <1>8
<1>9. \A v \in Nat : v \in T
  <2> HIDE DEF T
  <2> QED
    BY <1>7, <1>8, Induction
<1>10. groupsizes \in [0 .. vnumber -> Nat \ {0}]
  <2>1. \A v \in 0 .. vnumber : groupsizes[v] \in Nat \ {0}
    BY <1>1, <1>9
  <2> QED
    BY <1>5, <2>1
<1> QED
  BY <1>6, <1>10

\* A size is a multiple of twice any smaller one.
LEMMA SizesDivide ==
  ASSUME NEW v \in 0 .. vnumber, NEW w \in 0 .. vnumber, v < w
  PROVE  \E m \in Nat \ {0} : groupsizes[w] = m * (2 * groupsizes[v])
<1> DEFINE Good(d) == v + 1 + d <= vnumber =>
             \E m \in Nat \ {0} : groupsizes[v + 1 + d] = m * (2 * groupsizes[v])
           T == {d \in Nat : Good(d)}
<1>1. vnumber \in Nat
  BY SizeAssumption
<1>2. 0 \in T
  <2>1. v < vnumber /\ v + 1 + 0 = v + 1
    BY <1>1
  <2>2. groupsizes[v + 1] = 1 * (2 * groupsizes[v])
    <3>1. v \in 0 .. vnumber - 1 /\ groupsizes[v] \in Nat
      BY <1>1, <2>1, GroupSizes
    <3> QED
      BY <3>1, GroupSizes
  <2> QED
    BY <2>1, <2>2
<1>3. ASSUME NEW d \in Nat, d \in T, v + 1 + (d + 1) <= vnumber
      PROVE  Good(d + 1)
  <2>1. PICK m \in Nat \ {0} : groupsizes[v + 1 + d] = m * (2 * groupsizes[v])
    BY <1>1, <1>3
  <2>2. groupsizes[v + 1 + d + 1] = 2 * groupsizes[v + 1 + d]
    BY <1>1, <1>3, GroupSizes
  <2>3. groupsizes[v] \in Nat \ {0}
    BY GroupSizes
  <2>4. 2 * (m * (2 * groupsizes[v])) = (2 * m) * (2 * groupsizes[v])
    BY <2>3
  <2>5. 2 * m \in Nat \ {0} /\ v + 1 + d + 1 = v + 1 + (d + 1)
    OBVIOUS
  <2> QED
    BY <2>1, <2>2, <2>4, <2>5
<1>4. \A d \in Nat : d \in T
  <2>1. \A d \in Nat : d \in T => d + 1 \in T
    BY <1>3
  <2> HIDE DEF T
  <2> QED
    BY <1>2, <2>1, Induction
<1>5. Good(w - v - 1)
  <2>1. w - v - 1 \in Nat
    BY <1>1
  <2> QED
    BY <1>4, <2>1
<1>6. v + 1 + (w - v - 1) = w
  BY <1>1
<1> QED
  BY <1>1, <1>5, <1>6

\* The group sizes grow with the variable, by a factor of two at least.
LEMMA SizesGrow ==
  ASSUME NEW v \in 0 .. vnumber, NEW w \in 0 .. vnumber, v <= w
  PROVE  groupsizes[v] <= groupsizes[w] /\ (v < w => 2 * groupsizes[v] <= groupsizes[w])
<1>1. CASE v < w
  <2>1. PICK m \in Nat \ {0} : groupsizes[w] = m * (2 * groupsizes[v])
    BY <1>1, SizesDivide
  <2>2. groupsizes[v] \in Nat \ {0}
    BY GroupSizes
  <2>3. m * (2 * groupsizes[v]) >= 2 * groupsizes[v]
    BY <2>2
  <2> QED
    BY <2>1, <2>2, <2>3
<1>2. CASE v = w
  BY <1>2, GroupSizes, SizeAssumption
<1> QED
  BY <1>1, <1>2, SizeAssumption

----------------------------------------------------------------------------
\* Quotients.

\* Division with remainder, as the loops over bits and strides use it.
LEMMA Quotient ==
  ASSUME NEW p \in Nat \ {0}, NEW n \in Nat
  PROVE  \E q \in Nat, r \in 0 .. p - 1 : n = q * p + r /\ n \div p = q /\ n % p = r
<1>1. n \div p \in Nat /\ n % p \in 0 .. p - 1 /\ n = (n \div p) * p + (n % p)
  OBVIOUS
<1> QED
  BY <1>1

\* A number has one quotient and one remainder.
LEMMA QuotientUnique ==
  ASSUME NEW p \in Nat \ {0}, NEW q \in Nat, NEW r \in 0 .. p - 1
  PROVE  (q * p + r) \div p = q /\ (q * p + r) % p = r
OBVIOUS

----------------------------------------------------------------------------
\* The bits of an index.

\* Adding a multiple of a larger size leaves a bit alone.
LEMMA BitKept ==
  ASSUME NEW v \in 0 .. vnumber, NEW w \in 0 .. vnumber, v < w,
         NEW n \in Nat, NEW b \in Nat
  PROVE  Bit(n + b * groupsizes[w], v) <=> Bit(n, v)
<1> DEFINE p == groupsizes[v]
<1>1. p \in Nat \ {0}
  BY GroupSizes
<1>2. PICK m \in Nat \ {0} : groupsizes[w] = m * (2 * p)
  BY SizesDivide
<1> HIDE DEF p
<1>3. PICK q \in Nat, r \in 0 .. p - 1 : n = q * p + r /\ n \div p = q
  BY <1>1, Quotient
<1> DEFINE q2 == q + 2 * (b * m)
<1>4. q2 \in Nat
  OBVIOUS
<1>5. n + b * groupsizes[w] = q2 * p + r
  BY <1>1, <1>2, <1>3
<1>6. (n + b * groupsizes[w]) \div p = q2
  <2> HIDE DEF q2
  <2> QED
    BY <1>1, <1>4, <1>5, QuotientUnique
<1>7. q2 % 2 = q % 2
  <2> DEFINE c == b * m
  <2>1. c \in Nat
    OBVIOUS
  <2>2. q2 = q + 2 * c
    OBVIOUS
  <2> HIDE DEF c, q2
  <2> QED
    BY <2>1, <2>2
<1> QED
  BY <1>3, <1>6, <1>7 DEF Bit, p

\* An index below the size of a variable has a 0 there, and a 1 after that size is
\* added.
LEMMA BitOfSmall ==
  ASSUME NEW v \in 0 .. vnumber, NEW n \in 0 .. groupsizes[v] - 1
  PROVE  ~ Bit(n, v) /\ Bit(n + groupsizes[v], v)
<1> DEFINE p == groupsizes[v]
<1>1. p \in Nat \ {0}
  BY GroupSizes
<1>2. n \in 0 .. p - 1
  OBVIOUS
<1> HIDE DEF p
<1>3. n = 0 * p + n /\ n + p = 1 * p + n
  BY <1>1, <1>2
<1>4. n \div p = 0 /\ (n + p) \div p = 1
  BY <1>1, <1>2, <1>3, QuotientUnique
<1> QED
  BY <1>4 DEF Bit, p

\* The indices below a size have bits below it only, and one more size adds
\* the bit of its variable.
LEMMA AddBit ==
  ASSUME NEW w \in 0 .. vnumber - 1, NEW n \in 0 .. groupsizes[w] - 1
  PROVE  /\ n \in Entries /\ n + groupsizes[w] \in Entries
         /\ n + groupsizes[w] < groupsizes[w + 1]
         /\ AsSet(n) \subseteq 0 .. w - 1
         /\ AsSet(n + groupsizes[w]) = AsSet(n) \cup {w}
<1>1. /\ vnumber \in Nat /\ w + 1 \in 0 .. vnumber /\ w \in 0 .. vnumber
      /\ groupsizes[w] \in Nat \ {0} /\ groupsizes[vnumber] \in Nat
      /\ groupsizes[w + 1] = 2 * groupsizes[w]
  BY SizeAssumption, GroupSizes
<1>2. groupsizes[w + 1] <= groupsizes[vnumber]
  BY <1>1, SizesGrow
<1>3. n + groupsizes[w] < groupsizes[w + 1]
  BY <1>1
<1>4. n \in Entries /\ n + groupsizes[w] \in Entries
  BY <1>1, <1>2, <1>3 DEF Entries
<1>5. ~ Bit(n, w) /\ Bit(n + groupsizes[w], w)
  BY <1>1, BitOfSmall
<1>6. ASSUME NEW v \in 0 .. vnumber - 1, v > w
      PROVE  ~ Bit(n, v) /\ ~ Bit(n + groupsizes[w], v)
  <2>1. v \in 0 .. vnumber /\ groupsizes[v] \in Nat \ {0}
    BY <1>1, GroupSizes
  <2>2. 2 * groupsizes[w] <= groupsizes[v]
    BY <1>1, <1>6, <2>1, SizesGrow
  <2>3. n \in 0 .. groupsizes[v] - 1 /\ n + groupsizes[w] \in 0 .. groupsizes[v] - 1
    BY <1>1, <2>1, <2>2
  <2> QED
    BY <2>1, <2>3, BitOfSmall
<1>7. ASSUME NEW v \in 0 .. vnumber - 1, v < w
      PROVE  Bit(n + groupsizes[w], v) <=> Bit(n, v)
  <2>1. n + groupsizes[w] = n + 1 * groupsizes[w] /\ n \in Nat /\ 1 \in Nat /\ v \in 0 .. vnumber
    BY <1>1
  <2> QED
    BY <1>1, <1>7, <2>1, BitKept
<1>8. AsSet(n) \subseteq 0 .. w - 1
  <2> SUFFICES ASSUME NEW v \in 0 .. vnumber - 1, Bit(n, v) PROVE v \in 0 .. w - 1
    BY DEF AsSet
  <2> QED
    BY <1>1, <1>5, <1>6
<1>9. AsSet(n + groupsizes[w]) = AsSet(n) \cup {w}
  <2>1. ASSUME NEW v \in 0 .. vnumber - 1
        PROVE  Bit(n + groupsizes[w], v) <=> Bit(n, v) \/ v = w
    BY <1>1, <1>5, <1>6, <1>7
  <2> QED
    BY <1>1, <2>1 DEF AsSet
<1> QED
  BY <1>3, <1>4, <1>8, <1>9

\* An index below the next size is below this one, or a size above such a one.
LEMMA TopBit ==
  ASSUME NEW w \in 0 .. vnumber - 1, NEW n \in 0 .. groupsizes[w + 1] - 1
  PROVE  \/ n \in 0 .. groupsizes[w] - 1
         \/ \E r \in 0 .. groupsizes[w] - 1 : n = r + groupsizes[w]
<1>1. groupsizes[w] \in Nat \ {0} /\ groupsizes[w + 1] = 2 * groupsizes[w]
  BY SizeAssumption, GroupSizes
<1>2. CASE n >= groupsizes[w]
  <2>1. n - groupsizes[w] \in 0 .. groupsizes[w] - 1 /\ n = (n - groupsizes[w]) + groupsizes[w]
    BY <1>1, <1>2
  <2> QED
    BY <2>1
<1> QED
  BY <1>1, <1>2

\* Fewer variables that are 1 make a smaller index.  In particular, an index is
\* determined by the variables that are 1.
LEMMA Monotone ==
  ASSUME NEW a \in Entries, NEW b \in Entries, AsSet(a) \subseteq AsSet(b)
  PROVE  a <= b
<1> DEFINE T == {w \in Nat : w <= vnumber =>
             \A x, y \in 0 .. groupsizes[w] - 1 : AsSet(x) \subseteq AsSet(y) => x <= y}
<1>1. vnumber \in Nat
  BY SizeAssumption
<1>2. 0 \in T
  BY GroupSizes
<1>3. ASSUME NEW w \in Nat, w \in T, w + 1 <= vnumber,
             NEW x \in 0 .. groupsizes[w + 1] - 1, NEW y \in 0 .. groupsizes[w + 1] - 1,
             AsSet(x) \subseteq AsSet(y)
      PROVE  x <= y
  <2>1. w \in 0 .. vnumber - 1 /\ groupsizes[w] \in Nat
    BY <1>1, <1>3, GroupSizes
  <2>2. CASE x \in 0 .. groupsizes[w] - 1
    <3>1. CASE y \in 0 .. groupsizes[w] - 1
      BY <1>1, <1>3, <2>2, <3>1
    <3>2. CASE \E r \in 0 .. groupsizes[w] - 1 : y = r + groupsizes[w]
      BY <2>1, <2>2, <3>2
    <3> QED
      BY <2>1, <3>1, <3>2, TopBit
  <2>3. ASSUME NEW r \in 0 .. groupsizes[w] - 1, x = r + groupsizes[w]
        PROVE  x <= y
    <3>1. AsSet(x) = AsSet(r) \cup {w} /\ AsSet(r) \subseteq 0 .. w - 1
      BY <2>1, <2>3, AddBit
    <3>2. CASE y \in 0 .. groupsizes[w] - 1
      <4>1. AsSet(y) \subseteq 0 .. w - 1
        BY <2>1, <3>2, AddBit
      <4>2. w \in AsSet(y)
        BY <1>3, <3>1
      <4> QED
        BY <4>1, <4>2
    <3>3. ASSUME NEW q \in 0 .. groupsizes[w] - 1, y = q + groupsizes[w]
          PROVE  x <= y
      <4>1. AsSet(y) = AsSet(q) \cup {w}
        BY <2>1, <3>3, AddBit
      <4>2. AsSet(r) \subseteq AsSet(q)
        <5>1. w \notin AsSet(r)
          BY <3>1
        <5> QED
          BY <1>3, <3>1, <4>1, <5>1
      <4>3. r <= q
        BY <1>1, <1>3, <4>2
      <4> QED
        BY <2>1, <2>3, <3>3, <4>3
    <3> QED
      BY <2>1, <3>2, <3>3, TopBit
  <2> QED
    BY <2>1, <2>2, <2>3, TopBit
<1>4. \A w \in Nat : w \in T
  <2>1. ASSUME NEW w \in Nat, w \in T PROVE w + 1 \in T
    <3> SUFFICES ASSUME w + 1 <= vnumber,
                        NEW x \in 0 .. groupsizes[w + 1] - 1,
                        NEW y \in 0 .. groupsizes[w + 1] - 1, AsSet(x) \subseteq AsSet(y)
                 PROVE  x <= y
      OBVIOUS
    <3> QED
      BY <1>3, <2>1
  <2> HIDE DEF T
  <2> QED
    BY <1>2, <2>1, Induction
<1> QED
  BY <1>1, <1>4 DEF Entries

\* Every truth assignment has an index.
LEMMA EveryAssignment ==
  ASSUME NEW S \in SUBSET (0 .. vnumber - 1)
  PROVE  \E n \in Entries : AsSet(n) = S
<1> DEFINE T == {w \in Nat : w <= vnumber =>
             \A R \in SUBSET (0 .. w - 1) :
               \E n \in 0 .. groupsizes[w] - 1 : n \in Entries /\ AsSet(n) = R}
<1>1. vnumber \in Nat \ {0}
  BY SizeAssumption
<1>2. 0 \in T
  <2>1. 0 \in 0 .. vnumber - 1 /\ groupsizes[0] = 1
    BY <1>1, GroupSizes
  <2>2. 0 \in Entries /\ AsSet(0) \subseteq 0 .. 0 - 1
    BY <2>1, AddBit
  <2>3. \A R \in SUBSET (0 .. 0 - 1) : AsSet(0) = R
    <3>1. 0 .. 0 - 1 = {}
      OBVIOUS
    <3> QED
      BY <2>2, <3>1
  <2>4. 0 \in 0 .. groupsizes[0] - 1
    BY <2>1
  <2> QED
    BY <2>2, <2>3, <2>4
<1>3. ASSUME NEW w \in Nat, w \in T, w + 1 <= vnumber, NEW R \in SUBSET (0 .. w + 1 - 1)
      PROVE  \E n \in 0 .. groupsizes[w + 1] - 1 : n \in Entries /\ AsSet(n) = R
  <2>1. w \in 0 .. vnumber - 1 /\ groupsizes[w] \in Nat /\ groupsizes[w + 1] = 2 * groupsizes[w]
    BY <1>1, <1>3, GroupSizes
  <2>2. R \ {w} \in SUBSET (0 .. w - 1)
    BY <1>3
  <2>3. PICK n \in 0 .. groupsizes[w] - 1 : n \in Entries /\ AsSet(n) = R \ {w}
    <3>1. \A Q \in SUBSET (0 .. w - 1) :
            \E n \in 0 .. groupsizes[w] - 1 : n \in Entries /\ AsSet(n) = Q
      BY <1>1, <1>3
    <3> QED
      BY <2>2, <3>1
  <2>4. /\ n + groupsizes[w] \in Entries /\ AsSet(n + groupsizes[w]) = AsSet(n) \cup {w}
        /\ n + groupsizes[w] \in 0 .. groupsizes[w + 1] - 1
        /\ n \in 0 .. groupsizes[w + 1] - 1
    BY <2>1, AddBit
  <2>5. CASE w \in R
    <3>1. AsSet(n + groupsizes[w]) = R
      BY <2>3, <2>4, <2>5
    <3> QED
      BY <2>4, <3>1
  <2>6. CASE w \notin R
    <3>1. AsSet(n) = R
      BY <2>3, <2>6
    <3> QED
      BY <2>3, <2>4, <3>1
  <2> QED
    BY <2>5, <2>6
<1>4. \A w \in Nat : w \in T
  <2>1. \A w \in Nat : w \in T => w + 1 \in T
    BY <1>3
  <2> HIDE DEF T
  <2> QED
    BY <1>2, <2>1, Induction
<1> QED
  BY <1>1, <1>4

=============================================================================
