------------------------ MODULE SimplifyGeneric_proof ------------------------
(***************************************************************************)
(* simplify_generic, for every number of variables, every width and every  *)
(* result vector: the lists, indices and strides of its loops implement    *)
(* the elimination of LinearDecomposition.                                 *)
(***************************************************************************)
EXTENDS SimplifyGeneric, TruthTable_proof

\* Lists of variables, as get_variable_combinations keeps them.
Combs == Seq(0 .. vnumber - 1)

\* What a list of variables gives to the loops: places, variables and group sizes.
LEMMA CombType ==
  ASSUME NEW comb \in Combs
  PROVE  /\ Len(comb) \in Nat /\ DOMAIN comb = 1 .. Len(comb)
         /\ \A k \in 1 .. Len(comb) :
              /\ comb[k] \in 0 .. vnumber - 1
              /\ groupsizes[comb[k]] \in Nat \ {0}
              /\ groupsizes[comb[k] + 1] \in Nat \ {0}
<1>1. vnumber \in Nat
  BY SizeAssumption
<1>2. Len(comb) \in Nat /\ DOMAIN comb = 1 .. Len(comb)
  BY DEF Combs
<1>3. \A k \in 1 .. Len(comb) : comb[k] \in 0 .. vnumber - 1
  <2> DEFINE S == 0 .. vnumber - 1
  <2>1. comb \in Seq(S)
    BY DEF Combs
  <2> HIDE DEF S
  <2>2. \A k \in 1 .. Len(comb) : comb[k] \in S
    BY <2>1
  <2> QED
    BY <2>2 DEF S
<1>4. ASSUME NEW v \in 0 .. vnumber - 1
      PROVE  groupsizes[v] \in Nat \ {0} /\ groupsizes[v + 1] \in Nat \ {0}
  <2>1. v \in 0 .. vnumber /\ v + 1 \in 0 .. vnumber
    BY <1>1
  <2>2. groupsizes[v] \in Nat \ {0} 
    BY <2>1, GroupSizes
  <2>3. groupsizes[v + 1] \in Nat \ {0}
    BY <2>1, GroupSizes
  <2> QED
    BY <2>2, <2>3
<1> QED
  BY <1>2, <1>3, <1>4

----------------------------------------------------------------------------
\* The index of a conjunction.

\* The loop that adds up the group sizes.
LEMMA IndexLoop ==
  ASSUME NEW comb \in Combs
  PROVE  \E f \in [0 .. Len(comb) -> Nat] :
           /\ f[0] = 0
           /\ \A k \in 1 .. Len(comb) : f[k] = f[k - 1] + groupsizes[comb[k]]
           /\ IndexOf(comb) = f[Len(comb)]
<1> DEFINE n == Len(comb)
           Body(h) == [k \in 0 .. n |-> IF k = 0 THEN 0 ELSE h[k - 1] + groupsizes[comb[k]]]
           step == [k \in 1 .. n |-> [x \in Nat |-> x + groupsizes[comb[k]]]]
<1>1. n \in Nat /\ \A k \in 1 .. n : groupsizes[comb[k]] \in Nat
  BY CombType
<1>2. step \in [1 .. n -> [Nat -> Nat]]
  BY <1>1
<1>3. PICK f \in [0 .. n -> Nat] : f[0] = 0 /\ \A k \in 1 .. n : f[k] = step[k][f[k - 1]]
  <2> DEFINE W == Nat
  <2>1. 0 \in W /\ n \in Nat /\ step \in [1 .. n -> [W -> W]]
    BY <1>1, <1>2
  <2>2. \E f \in [0 .. n -> W] : f[0] = 0 /\ \A k \in 1 .. n : f[k] = step[k][f[k - 1]]
    <3> HIDE DEF step, n, W
    <3> QED
      BY <2>1, Trace
  <2> QED
    BY <2>2
<1>4. ASSUME NEW k \in 1 .. n
      PROVE  f[k] = f[k - 1] + groupsizes[comb[k]]
  <2>1. f[k - 1] \in Nat
    BY <1>1
  <2>2. step[k] = [x \in Nat |-> x + groupsizes[comb[k]]]
    OBVIOUS
  <2> QED
    BY <1>3, <2>1, <2>2
<1>5. f = Body(f)
  <2> HIDE DEF n, step
  <2> QED
    BY <1>1, <1>3, <1>4
<1> DEFINE g == CHOOSE h : h = Body(h)
<1>6. IndexOf(comb) = g[n]
  BY DEF IndexOf
<1>7. g = Body(g)
  <2> HIDE DEF Body
  <2> QED
    BY <1>5
<1> HIDE DEF g
<1> DEFINE T == {k \in Nat : k <= n => g[k] = f[k]}
<1>8. 0 \in T
  BY <1>1, <1>3, <1>7
<1>9. \A k \in Nat : k \in T => k + 1 \in T
  <2> SUFFICES ASSUME NEW k \in Nat, k \in T, k + 1 <= n PROVE g[k + 1] = f[k + 1]
    OBVIOUS
  <2>1. k + 1 \in 1 .. n /\ k + 1 - 1 = k /\ g[k] = f[k]
    BY <1>1
  <2> QED
    BY <1>4, <1>7, <2>1
<1>10. \A k \in Nat : k \in T
  <2> HIDE DEF T
  <2> QED
    BY <1>8, <1>9, Induction
<1>11. g[n] = f[n]
  BY <1>1, <1>10
<1> QED
  BY <1>3, <1>4, <1>6, <1>11

\* The index simplify_generic adds up is that of the assignment in which exactly
\* the variables of the conjunction are 1.
LEMMA IndexCorrect ==
  ASSUME NEW comb \in Combs, Ascends(comb)
  PROVE  IndexOf(comb) \in Entries /\ AsSet(IndexOf(comb)) = ToSet(comb)
<1>1. PICK f \in [0 .. Len(comb) -> Nat] :
           /\ f[0] = 0
           /\ \A k \in 1 .. Len(comb) : f[k] = f[k - 1] + groupsizes[comb[k]]
           /\ IndexOf(comb) = f[Len(comb)]
  BY IndexLoop
<1>2. /\ Len(comb) \in Nat /\ DOMAIN comb = 1 .. Len(comb) /\ vnumber \in Nat \ {0}
      /\ \A k \in 1 .. Len(comb) : comb[k] \in 0 .. vnumber - 1
  BY CombType, SizeAssumption
<1> DEFINE Below(k) == {comb[j] : j \in 1 .. k}
           Good(k) == /\ f[k] \in Entries
                      /\ AsSet(f[k]) = Below(k)
                      /\ k >= 1 => f[k] < groupsizes[comb[k] + 1]
           T == {k \in Nat : k <= Len(comb) => Good(k)}
<1>3. 0 \in T
  <2>1. 0 \in 0 .. vnumber - 1 /\ groupsizes[0] = 1
    BY <1>2, GroupSizes
  <2>2. 0 \in Entries /\ AsSet(0) \subseteq 0 .. 0 - 1
    BY <2>1, AddBit
  <2> QED
    BY <1>1, <2>2
<1>4. ASSUME NEW k \in Nat, k \in T, k + 1 <= Len(comb)
      PROVE  Good(k + 1)
  <2>1. Good(k) /\ k \in 0 .. Len(comb) /\ k + 1 \in 1 .. Len(comb) /\ f[k] \in Nat
    BY <1>2, <1>4
  <2> DEFINE w == comb[k + 1]
  <2>2. /\ w \in 0 .. vnumber - 1 /\ groupsizes[w] \in Nat \ {0}
        /\ f[k + 1] = f[k] + groupsizes[w]
    BY <1>1, <2>1, CombType
  <2>3. f[k] \in 0 .. groupsizes[w] - 1
    <3>2. CASE k = 0
      BY <1>1, <2>2, <3>2
    <3>3. CASE k >= 1
      <4>1. comb[k] \in 0 .. vnumber - 1 /\ comb[k] < w
        <5>1. k \in DOMAIN comb /\ k + 1 \in DOMAIN comb /\ k < k + 1
          BY <1>2, <2>1, <3>3
        <5> QED
          BY <1>2, <5>1 DEF Ascends
      <4>2. comb[k] + 1 \in 0 .. vnumber /\ w \in 0 .. vnumber /\ comb[k] + 1 <= w
        <5> HIDE DEF w
        <5> QED
          BY <1>2, <2>2, <4>1
      <4>3. groupsizes[comb[k] + 1] <= groupsizes[w] /\ groupsizes[comb[k] + 1] \in Nat
        BY <4>2, SizesGrow, GroupSizes
      <4>4. f[k] < groupsizes[comb[k] + 1]
        BY <2>1, <3>3
      <4> QED
        BY <2>1, <2>2, <4>3, <4>4
    <3> QED
      BY <2>1, <3>2, <3>3
  <2>4. /\ f[k + 1] \in Entries /\ AsSet(f[k + 1]) = AsSet(f[k]) \cup {w}
        /\ f[k + 1] < groupsizes[w + 1]
    <3> HIDE DEF w
    <3> QED
      BY <2>2, <2>3, AddBit
  <2>5. Below(k + 1) = Below(k) \cup {w}
    OBVIOUS
  <2>6. AsSet(f[k + 1]) = Below(k + 1)
    <3> HIDE DEF Below, w
    <3> QED
      BY <2>1, <2>4, <2>5
  <2> QED
    BY <2>4, <2>6
<1>5. \A k \in Nat : k \in T
  <2>1. \A k \in Nat : k \in T => k + 1 \in T
    <3> HIDE DEF Good
    <3> QED
      BY <1>4
  <2> HIDE DEF T
  <2> QED
    BY <1>3, <2>1, Induction
<1>6. Good(Len(comb))
  <2> HIDE DEF Good
  <2> QED
    BY <1>2, <1>5
<1>7. ToSet(comb) = Below(Len(comb))
  BY <1>2 DEF ToSet
<1> QED
  BY <1>1, <1>6, <1>7

----------------------------------------------------------------------------
\* The strides of subtract_coefficient.

\* A bit is read off the remainder by its period.
LEMMA BitOfRemainder ==
  ASSUME NEW v \in 0 .. vnumber, NEW n \in Nat
  PROVE  Bit(n, v) <=> n % (2 * groupsizes[v]) >= groupsizes[v]
<1> DEFINE p == groupsizes[v]
<1>1. p \in Nat \ {0} /\ 2 * p \in Nat \ {0}
  BY GroupSizes
<1> HIDE DEF p
<1>2. PICK q \in Nat, r \in 0 .. 2 * p - 1 : n = q * (2 * p) + r /\ n % (2 * p) = r
  BY <1>1, Quotient
<1>3. CASE r < p
  <2>1. n = (2 * q) * p + r /\ 2 * q \in Nat /\ r \in 0 .. p - 1
    BY <1>1, <1>2, <1>3
  <2>2. n \div p = 2 * q
    BY <1>1, <2>1, QuotientUnique
  <2>3. (2 * q) % 2 = 0
    OBVIOUS
  <2>4. ~ Bit(n, v)
    BY <2>2, <2>3 DEF Bit, p
  <2>5. ~ (n % (2 * p) >= p)
    BY <1>1, <1>2, <1>3
  <2> QED
    BY <2>4, <2>5 DEF p
<1>4. CASE r >= p
  <2>1. n = (2 * q + 1) * p + (r - p) /\ 2 * q + 1 \in Nat /\ r - p \in 0 .. p - 1
    BY <1>1, <1>2, <1>4
  <2>2. n \div p = 2 * q + 1
    BY <1>1, <2>1, QuotientUnique
  <2>3. (2 * q + 1) % 2 = 1
    OBVIOUS
  <2>4. Bit(n, v)
    BY <2>2, <2>3 DEF Bit, p
  <2>5. n % (2 * p) >= p
    BY <1>1, <1>2, <1>4
  <2> QED
    BY <2>4, <2>5 DEF p
<1> QED
  BY <1>1, <1>3, <1>4

\* The index of a conjunction leaves the remainder of its first variable alone.
LEMMA FirstStart ==
  ASSUME NEW comb \in Combs, Ascends(comb), Len(comb) >= 1
  PROVE  \E q \in Nat : IndexOf(comb) = q * (2 * groupsizes[comb[1]]) + groupsizes[comb[1]]
<1> DEFINE w == comb[1]
           f == IndexOf(comb)
           p == groupsizes[w + 1]
<1>1. /\ vnumber \in Nat \ {0} /\ w \in 0 .. vnumber - 1
      /\ w \in 0 .. vnumber /\ w + 1 \in 0 .. vnumber
      /\ groupsizes[w] \in Nat \ {0} /\ p = 2 * groupsizes[w] /\ p \in Nat \ {0}
  BY SizeAssumption, CombType, GroupSizes
<1>2. f \in Entries /\ AsSet(f) = ToSet(comb) /\ f \in Nat
  BY IndexCorrect, GroupSizes DEF Entries
<1> HIDE DEF f, p
<1>3. PICK q \in Nat, r \in 0 .. p - 1 : f = q * p + r /\ f % p = r
  <2>1. p \in Nat \ {0} /\ f \in Nat
    BY <1>1, <1>2
  <2> QED
    BY <2>1, Quotient
<1>4. r \in Entries
  <2>1. p <= groupsizes[vnumber] /\ groupsizes[vnumber] \in Nat
    <3>1. vnumber \in 0 .. vnumber /\ w + 1 <= vnumber /\ w + 1 \in 0 .. vnumber
      BY <1>1
    <3> QED
      BY <3>1, SizesGrow, GroupSizes DEF p
  <2> QED
    BY <1>1, <2>1 DEF Entries
<1>5. ASSUME NEW v \in 0 .. vnumber - 1
      PROVE  Bit(r, v) <=> v = w
  <2>1. CASE v < w + 1
    <3>1. r + q * groupsizes[w + 1] = f
      BY <1>1, <1>3 DEF p
    <3>2. v \in 0 .. vnumber /\ r \in Nat
      BY <1>1
    <3>3. Bit(r, v) <=> Bit(f, v)
      BY <1>1, <2>1, <3>1, <3>2, BitKept
    <3>4. Bit(f, v) <=> v \in ToSet(comb)
      BY <1>2 DEF AsSet
    <3>5. v \in ToSet(comb) <=> v = w
      <4>1. ASSUME NEW k \in 1 .. Len(comb), comb[k] = v, k # 1
            PROVE  FALSE
        <5>1. 1 \in DOMAIN comb /\ k \in DOMAIN comb /\ 1 < k
          BY <4>1, CombType
        <5>2. w < v
          BY <4>1, <5>1 DEF Ascends
        <5> QED
          BY <1>1, <2>1, <5>2
      <4> QED
        BY <4>1, CombType DEF ToSet
    <3> QED
      BY <3>3, <3>4, <3>5
  <2>2. CASE v > w
    <3>1. v \in 0 .. vnumber /\ groupsizes[w + 1] <= groupsizes[v] /\ groupsizes[v] \in Nat
      <4>1. v \in 0 .. vnumber /\ w + 1 \in 0 .. vnumber /\ w + 1 <= v
        BY <1>1, <2>2
      <4> QED
        BY <4>1, SizesGrow, GroupSizes
    <3>2. r \in 0 .. groupsizes[v] - 1
      BY <1>1, <3>1 DEF p
    <3> QED
      BY <2>2, <3>1, <3>2, BitOfSmall
  <2> QED
    BY <1>1, <2>1, <2>2
<1>6. AsSet(r) = {w}
  BY <1>1, <1>5 DEF AsSet
<1>7. groupsizes[w] \in Entries /\ AsSet(groupsizes[w]) = {w}
  <2>1. 0 \in 0 .. groupsizes[w] - 1 /\ 0 + groupsizes[w] = groupsizes[w]
    BY <1>1
  <2>2. groupsizes[w] \in Entries /\ AsSet(groupsizes[w]) = AsSet(0) \cup {w}
    <3>1. 0 + groupsizes[w] \in Entries /\ AsSet(0 + groupsizes[w]) = AsSet(0) \cup {w}
      <4> HIDE DEF w
      <4> QED
        BY <1>1, <2>1, AddBit
    <3> QED
      BY <2>1, <3>1
  <2>3. AsSet(0) \subseteq 0 .. 0 - 1
    <3>1. 0 \in 0 .. groupsizes[0] - 1 /\ 0 \in 0 .. vnumber - 1
      BY <1>1, GroupSizes
    <3> QED
      BY <3>1, AddBit
  <2> QED
    BY <2>2, <2>3
<1>8. r = groupsizes[w]
  <2>1. r <= groupsizes[w] /\ groupsizes[w] <= r
    BY <1>4, <1>6, <1>7, Monotone
  <2> QED
    BY <1>1, <2>1
<1> QED
  BY <1>1, <1>3, <1>8 DEF f

\* The windows of subtract_coefficient hold the entries in which all variables of
\* the conjunction are 1, its own entry excepted, and none beyond the vector.
LEMMA TargetsCorrect ==
  ASSUME NEW comb \in Combs, Ascends(comb), Len(comb) >= 1
  PROVE  Targets(IndexOf(comb), comb) =
           {i \in Entries : ToSet(comb) \subseteq AsSet(i) /\ i # IndexOf(comb)}
<1> DEFINE w == comb[1]
           f == IndexOf(comb)
           g == groupsizes[w]
           period1 == 2 * g
           starts == {s \in Entries : s >= f /\ (s - f) % period1 = 0}
<1>1. /\ vnumber \in Nat \ {0} /\ w \in 0 .. vnumber - 1 /\ w \in 0 .. vnumber
      /\ g \in Nat \ {0} /\ period1 \in Nat \ {0} /\ period1 = 2 * g
  BY SizeAssumption, CombType
<1>2. f \in Entries /\ AsSet(f) = ToSet(comb)
  BY IndexCorrect
<1>3. Entries \subseteq Nat /\ \A i \in Nat, j \in Entries : i <= j => i \in Entries
  <2>1. vnumber \in 0 .. vnumber /\ groupsizes[vnumber] \in Nat
    BY <1>1, GroupSizes
  <2> QED
    BY <2>1 DEF Entries
<1>4. PICK q \in Nat : f = q * period1 + g
  BY FirstStart
<1>5. PICK m \in Nat \ {0} : groupsizes[vnumber] = m * period1
  <2>1. vnumber \in 0 .. vnumber /\ w < vnumber
    BY <1>1
  <2> QED
    BY <1>1, <2>1, SizesDivide
<1>6. ASSUME NEW i \in Nat
      PROVE  ToSet(comb) \subseteq AsSet(i) <=>
               Bit(i, w) /\ (Len(comb) = 1 \/ are_variables_true(i, comb, 2))
  <2>1. ToSet(comb) \subseteq AsSet(i) <=> \A k \in 1 .. Len(comb) : Bit(i, comb[k])
    BY CombType DEF ToSet, AsSet
  <2>2. (\A k \in 1 .. Len(comb) : Bit(i, comb[k])) <=>
          Bit(i, comb[1]) /\ \A k \in 2 .. Len(comb) : Bit(i, comb[k])
    BY CombType
  <2> QED
    BY <2>1, <2>2, CombType DEF are_variables_true
<1> HIDE DEF w, f, g, period1
<1>7. ASSUME NEW s \in starts, NEW i \in s .. s + g - 1
      PROVE  i \in Entries /\ Bit(i, w)
  <2>1. s \in Nat /\ s >= f /\ f \in Nat /\ s - f \in Nat /\ i \in Nat
    BY <1>1, <1>2, <1>3
  <2>2. PICK c \in Nat : s - f = c * period1
    <3>1. \E c \in Nat, r \in 0 .. period1 - 1 : s - f = c * period1 + r /\ (s - f) % period1 = r
      <4> DEFINE d == s - f
      <4>1. d \in Nat /\ period1 \in Nat \ {0}
        BY <1>1, <2>1
      <4> HIDE DEF d
      <4>2. \E c \in Nat, r \in 0 .. period1 - 1 : d = c * period1 + r /\ d % period1 = r
        BY <4>1, Quotient
      <4> QED
        BY <4>2 DEF d
    <3>2. (s - f) % period1 = 0
      OBVIOUS
    <3> QED
      <4>1. PICK c \in Nat, r \in 0 .. period1 - 1 :
              s - f = c * period1 + r /\ (s - f) % period1 = r
        BY <3>1
      <4>2. s - f = c * period1
        BY <1>1, <3>2, <4>1
      <4> QED
        BY <4>2
  <2> DEFINE z == q + c
             r == g + (i - s)
  <2>3. z \in Nat /\ r \in 0 .. period1 - 1 /\ r >= g
    BY <1>1, <2>1
  <2>4. s = z * period1 + g /\ i = z * period1 + r
    BY <1>1, <1>4, <2>1, <2>2
  <2> HIDE DEF z, r
  <2>5. i % period1 = r
    BY <1>1, <2>3, <2>4, QuotientUnique
  <2>6. Bit(i, w)
    BY <1>1, <2>1, <2>3, <2>5, BitOfRemainder DEF g, period1
  <2>7. z < m
    <3>1. s < m * period1
      BY <1>1, <1>5 DEF Entries
    <3>2. CASE z >= m
      <4>1. z * period1 >= m * period1
        BY <1>1, <2>3, <3>2
      <4> QED
        BY <1>1, <2>1, <2>3, <2>4, <3>1, <4>1
    <3> QED
      BY <2>3, <3>2
  <2>8. z * period1 + period1 <= m * period1
    <3>1. (z + 1) * period1 <= m * period1
      BY <1>1, <2>3, <2>7
    <3>2. (z + 1) * period1 = z * period1 + period1
      BY <1>1, <2>3
    <3> QED
      BY <3>1, <3>2
  <2>9. i \in Entries
    BY <1>1, <1>5, <2>1, <2>3, <2>4, <2>8 DEF Entries
  <2> QED
    BY <2>6, <2>9
<1>8. ASSUME NEW i \in Entries, ToSet(comb) \subseteq AsSet(i)
      PROVE  \E s \in starts : i \in s .. s + g - 1
  <2>1. i \in Nat /\ f \in Nat /\ f <= i
    BY <1>2, <1>3, <1>8, Monotone
  <2>2. PICK z \in Nat, r \in 0 .. period1 - 1 : i = z * period1 + r /\ i % period1 = r
    BY <1>1, <2>1, Quotient
  <2>3. r >= g
    BY <1>1, <1>6, <1>8, <2>1, <2>2, BitOfRemainder DEF g, period1
  <2> DEFINE s == z * period1 + g
  <2>4. s \in Nat /\ s <= i /\ i <= s + g - 1
    BY <1>1, <2>2, <2>3
  <2>5. z >= q
    <3>1. CASE z + 1 <= q
      <4>1. (z + 1) * period1 <= q * period1
        BY <1>1, <3>1
      <4>2. (z + 1) * period1 = z * period1 + period1
        BY <1>1
      <4> QED
        BY <1>1, <1>4, <2>1, <2>2, <4>1, <4>2
    <3> QED
      BY <3>1
  <2>6. s - f = (z - q) * period1 + 0 /\ z - q \in Nat
    BY <1>1, <1>4, <2>5
  <2>7. (s - f) % period1 = 0
    <3>1. 0 \in 0 .. period1 - 1
      BY <1>1
    <3> DEFINE d == z - q
    <3>2. d \in Nat /\ s - f = d * period1 + 0
      BY <2>6
    <3>3. (d * period1 + 0) % period1 = 0
      <4> HIDE DEF d
      <4> QED
        BY <1>1, <3>1, <3>2, QuotientUnique
    <3> QED
      BY <3>2, <3>3
  <2>8. s >= f
    <3>1. (z - q) * period1 >= 0
      BY <1>1, <2>6
    <3> QED
      BY <1>1, <2>1, <2>4, <2>6, <3>1
  <2>9. s \in Entries
    BY <1>3, <2>4
  <2>10. s \in starts
    BY <2>7, <2>8, <2>9
  <2> QED
    BY <2>1, <2>4, <2>10
<1>9. Targets(f, comb) =
        {i \in UNION {s .. s + g - 1 : s \in starts} :
           i # f /\ (Len(comb) = 1 \/ are_variables_true(i, comb, 2))}
  BY DEF Targets, g, w, period1
<1> HIDE DEF starts
<1>10. Targets(f, comb) = {i \in Entries : ToSet(comb) \subseteq AsSet(i) /\ i # f}
  BY <1>3, <1>6, <1>7, <1>8, <1>9
<1> QED
  BY <1>10 DEF f

----------------------------------------------------------------------------
\* Lists of variables in ascending order.

\* get_variable_combinations keeps a list ascending by adding a later variable.
LEMMA AppendComb ==
  ASSUME NEW b \in Combs, Ascends(b), NEW v \in 0 .. vnumber - 1,
         Len(b) >= 1 => Last(b) < v
  PROVE  /\ Append(b, v) \in Combs /\ Ascends(Append(b, v))
         /\ Len(Append(b, v)) = Len(b) + 1
         /\ ToSet(Append(b, v)) = ToSet(b) \cup {v}
<1> DEFINE c == Append(b, v)
<1>1. /\ Len(b) \in Nat /\ DOMAIN b = 1 .. Len(b) /\ vnumber \in Nat
      /\ \A k \in 1 .. Len(b) : b[k] \in 0 .. vnumber - 1
  BY CombType, SizeAssumption
<1>2. c \in Combs /\ Len(c) = Len(b) + 1 /\ c[Len(b) + 1] = v
      /\ \A k \in 1 .. Len(b) : c[k] = b[k]
  <2> DEFINE S == 0 .. vnumber - 1
  <2>1. b \in Seq(S) /\ v \in S
    BY DEF Combs
  <2> HIDE DEF S
  <2>2. Append(b, v) \in Seq(S) /\ Len(Append(b, v)) = Len(b) + 1
    BY <2>1
  <2>3. Append(b, v)[Len(b) + 1] = v /\ \A k \in 1 .. Len(b) : Append(b, v)[k] = b[k]
    BY <2>1
  <2> QED
    BY <2>2, <2>3 DEF S, Combs
<1>3. DOMAIN c = 1 .. Len(b) + 1
  BY <1>2, CombType
<1> HIDE DEF c
<1>4. Ascends(c)
  <2> SUFFICES ASSUME NEW j \in DOMAIN c, NEW k \in DOMAIN c, j < k
               PROVE  c[j] < c[k]
    BY DEF Ascends
  <2>1. j \in 1 .. Len(b) /\ c[j] = b[j]
    BY <1>1, <1>2, <1>3
  <2>2. CASE k \in 1 .. Len(b)
    BY <1>1, <1>2, <2>1, <2>2 DEF Ascends
  <2>3. CASE k = Len(b) + 1
    <3>1. b[j] <= Last(b)
      <4>1. CASE j = Len(b)
        BY <1>1, <2>1, <4>1 DEF Last
      <4>2. CASE j < Len(b)
        BY <1>1, <2>1, <4>2 DEF Last, Ascends
      <4> QED
        BY <1>1, <2>1, <4>1, <4>2
    <3>2. Len(b) >= 1 /\ Last(b) \in Nat
      BY <1>1, <2>1 DEF Last
    <3> QED
      BY <1>1, <1>2, <2>1, <2>3, <3>1, <3>2
  <2> QED
    BY <1>1, <1>3, <2>2, <2>3
<1>5. ToSet(c) = ToSet(b) \cup {v}
  <2>1. ToSet(c) = {c[k] : k \in 1 .. Len(b) + 1} /\ ToSet(b) = {b[k] : k \in 1 .. Len(b)}
    BY <1>1, <1>3 DEF ToSet
  <2> QED
    BY <1>1, <1>2, <2>1
<1> QED
  BY <1>2, <1>4, <1>5 DEF c

\* A list of two or more is one to which a variable was added.
LEMMA CombSplit ==
  ASSUME NEW c \in Combs, Ascends(c), Len(c) >= 2
  PROVE  \E b \in Combs, v \in 0 .. vnumber - 1 :
           c = Append(b, v) /\ Ascends(b) /\ Len(b) = Len(c) - 1 /\ Last(b) < v
<1> DEFINE n == Len(c) - 1
           b == [k \in 1 .. n |-> c[k]]
           v == c[n + 1]
           S == 0 .. vnumber - 1
<1>1. n \in Nat /\ n >= 1 /\ DOMAIN c = 1 .. n + 1 /\ \A k \in 1 .. n + 1 : c[k] \in S
  BY CombType
<1>2. c \in Seq(S) /\ Len(c) = n + 1
  BY <1>1 DEF Combs
<1> HIDE DEF S, n
<1>3. b \in Seq(S) /\ Len(b) = n
  BY <1>1
<1>4. c = Append(b, v)
  BY <1>1, <1>2, <1>3
<1>5. Ascends(b)
  BY <1>1 DEF Ascends
<1>6. Last(b) < v
  <2>1. Last(b) = c[n]
    BY <1>1, <1>3 DEF Last
  <2> QED
    BY <1>1, <2>1 DEF Ascends
<1>7. b \in Combs /\ v \in 0 .. vnumber - 1 /\ Len(b) = Len(c) - 1
  <2>1. b \in Combs
    BY <1>3 DEF Combs, S
  <2>2. v \in 0 .. vnumber - 1
    <3>1. n + 1 \in 1 .. n + 1
      BY <1>1
    <3>2. v \in S
      BY <1>1, <3>1
    <3> QED
      BY <3>2 DEF S
  <2>3. Len(b) = Len(c) - 1
    BY <1>1, <1>2, <1>3
  <2> QED
    BY <2>1, <2>2, <2>3
<1> HIDE DEF b, v
<1> QED
  BY <1>4, <1>5, <1>6, <1>7

\* Every set of variables can be listed in ascending order.
LEMMA CombExists ==
  ASSUME NEW S \in SUBSET (0 .. vnumber - 1)
  PROVE  \E c \in Combs : Ascends(c) /\ ToSet(c) = S
<1> DEFINE Good(w) == \A R \in SUBSET (0 .. w - 1) : \E c \in Combs : Ascends(c) /\ ToSet(c) = R
           T == {w \in Nat : w <= vnumber => Good(w)}
<1>1. vnumber \in Nat
  BY SizeAssumption
<1>2. Good(0)
  <2>1. <<>> \in Combs /\ Ascends(<<>>) /\ ToSet(<<>>) = {}
    BY DEF Combs, Ascends, ToSet
  <2>2. \A R \in SUBSET (0 .. 0 - 1) : R = {}
    OBVIOUS
  <2> QED
    BY <2>1, <2>2
<1>3. ASSUME NEW w \in Nat, Good(w), w + 1 <= vnumber, NEW R \in SUBSET (0 .. w + 1 - 1)
      PROVE  \E c \in Combs : Ascends(c) /\ ToSet(c) = R
  <2>1. R \ {w} \in SUBSET (0 .. w - 1) /\ w \in 0 .. vnumber - 1
    BY <1>1, <1>3
  <2>2. PICK b \in Combs : Ascends(b) /\ ToSet(b) = R \ {w}
    BY <1>3, <2>1
  <2>3. CASE w \notin R
    BY <2>2, <2>3
  <2>4. CASE w \in R
    <3>1. Len(b) >= 1 => Last(b) < w
      <4>1. Len(b) >= 1 => Last(b) \in ToSet(b)
        BY CombType DEF Last, ToSet
      <4>2. \A x \in R \ {w} : x < w
        BY <1>3
      <4> QED
        BY <2>2, <4>1, <4>2
    <3>2. Append(b, w) \in Combs /\ Ascends(Append(b, w)) /\ ToSet(Append(b, w)) = ToSet(b) \cup {w}
      BY <2>1, <2>2, <3>1, AppendComb
    <3>3. ToSet(Append(b, w)) = R
      BY <2>2, <2>4, <3>2
    <3> QED
      BY <3>2, <3>3
  <2> QED
    BY <2>3, <2>4
<1>4. \A w \in Nat : w \in T
  <2>1. 0 \in T
    BY <1>2
  <2>2. ASSUME NEW w \in Nat, w \in T PROVE w + 1 \in T
    <3>1. w + 1 <= vnumber => Good(w)
      <4> HIDE DEF Good
      <4> QED
        BY <1>1, <2>2
    <3>2. w + 1 <= vnumber => Good(w + 1)
      BY <1>3, <3>1
    <3> HIDE DEF Good
    <3> QED
      BY <3>2
  <2> HIDE DEF T
  <2> QED
    BY <2>1, <2>2, Induction
<1>5. Good(vnumber)
  <2> HIDE DEF Good
  <2> QED
    BY <1>1, <1>4
<1> QED
  BY <1>5

\* Two ascending lists of the same variables agree at every place of the first.
LEMMA CombPrefix ==
  ASSUME NEW c \in Combs, NEW d \in Combs, Ascends(c), Ascends(d), ToSet(c) = ToSet(d)
  PROVE  \A k \in 1 .. Len(c) : k <= Len(d) /\ c[k] = d[k]
<1> DEFINE Bad == {k \in 1 .. Len(c) : ~ (k <= Len(d) /\ c[k] = d[k])}
<1>1. /\ Len(c) \in Nat /\ DOMAIN c = 1 .. Len(c) /\ \A k \in 1 .. Len(c) : c[k] \in Nat
      /\ Len(d) \in Nat /\ DOMAIN d = 1 .. Len(d) /\ \A k \in 1 .. Len(d) : d[k] \in Nat
  BY CombType, SizeAssumption
<1>2. (\A k \in 1 .. Len(c) : \E j \in 1 .. Len(d) : c[k] = d[j])
      /\ \A k \in 1 .. Len(d) : \E j \in 1 .. Len(c) : d[k] = c[j]
  BY <1>1 DEF ToSet
<1>3. /\ \A j, k \in 1 .. Len(c) : j < k => c[j] < c[k]
      /\ \A j, k \in 1 .. Len(d) : j < k => d[j] < d[k]
  BY <1>1 DEF Ascends
<1> SUFFICES ASSUME NEW m \in Bad PROVE FALSE
  OBVIOUS
<1>4. PICK k \in Bad : \A j \in Bad : k <= j
  <2>1. Bad \in SUBSET Nat
    OBVIOUS
  <2> HIDE DEF Bad
  <2> QED
    BY <2>1, LeastElement
<1>5. k \in 1 .. Len(c) /\ k \in Nat /\ \A j \in 1 .. k - 1 : j \in 1 .. Len(d) /\ c[j] = d[j]
  BY <1>1, <1>4
<1>6. PICK j \in 1 .. Len(d) : c[k] = d[j]
  BY <1>2, <1>5
<1>7. j > k
  <2>1. CASE j < k
    <3>1. c[j] = d[j] /\ c[j] < c[k] /\ c[j] \in Nat
      BY <1>1, <1>3, <1>5, <2>1
    <3> QED
      BY <1>1, <1>6, <3>1
  <2>2. CASE j = k
    BY <1>1, <1>4, <1>6, <2>2
  <2> QED
    BY <1>1, <1>5, <2>1, <2>2
<1>8. k \in 1 .. Len(d) /\ d[k] < c[k]
  BY <1>1, <1>3, <1>5, <1>6, <1>7
<1>9. PICK i \in 1 .. Len(c) : d[k] = c[i]
  BY <1>2, <1>8
<1>10. i < k
  <2>1. CASE i > k
    <3>1. c[k] < c[i] /\ c[k] \in Nat /\ c[i] \in Nat
      BY <1>1, <1>3, <1>5, <2>1
    <3> QED
      BY <1>8, <1>9, <3>1
  <2>2. CASE i = k
    BY <1>1, <1>5, <1>8, <1>9, <2>2
  <2> QED
    BY <1>1, <1>5, <2>1, <2>2
<1>11. d[i] = d[k] /\ d[i] < d[k] /\ d[k] \in Nat
  BY <1>1, <1>3, <1>5, <1>8, <1>9, <1>10
<1> QED
  BY <1>11

\* ... and in one way only.
LEMMA CombUnique ==
  ASSUME NEW c \in Combs, NEW d \in Combs, Ascends(c), Ascends(d), ToSet(c) = ToSet(d)
  PROVE  c = d
<1>1. (\A k \in 1 .. Len(c) : k <= Len(d) /\ c[k] = d[k]) /\ \A k \in 1 .. Len(d) : k <= Len(c)
  BY CombPrefix
<1>2. Len(c) \in Nat /\ Len(d) \in Nat
  BY CombType
<1>3. Len(c) = Len(d)
  BY <1>1, <1>2
<1> DEFINE S == 0 .. vnumber - 1
<1>4. c \in Seq(S) /\ d \in Seq(S)
  BY DEF Combs
<1> HIDE DEF S
<1> QED
  BY <1>1, <1>3, <1>4

\* The length of the list is the number of variables in it.
LEMMA CombSize ==
  ASSUME NEW c \in Combs, Ascends(c)
  PROVE  IsFiniteSet(ToSet(c)) /\ Cardinality(ToSet(c)) = Len(c) /\ Len(c) <= vnumber
<1>1. /\ Len(c) \in Nat /\ DOMAIN c = 1 .. Len(c) /\ vnumber \in Nat
      /\ \A k \in 1 .. Len(c) : c[k] \in 0 .. vnumber - 1 /\ c[k] \in Nat
  BY CombType, SizeAssumption
<1>2. IsFiniteSet(0 .. vnumber - 1) /\ Cardinality(0 .. vnumber - 1) = vnumber
  <2>1. 0 \in Int /\ vnumber - 1 \in Int
    BY <1>1
  <2> DEFINE b == vnumber - 1
  <2>2. /\ IsFiniteSet(0 .. b)
        /\ Cardinality(0 .. b) = IF 0 > b THEN 0 ELSE b - 0 + 1
    <3>1. 0 \in Int /\ b \in Int
      BY <2>1
    <3> HIDE DEF b
    <3> QED
      BY <3>1, FS_Interval
  <2>3. (IF 0 > b THEN 0 ELSE b - 0 + 1) = vnumber
    BY <1>1
  <2> QED
    BY <2>2, <2>3
<1>3. ToSet(c) \in SUBSET (0 .. vnumber - 1)
  BY <1>1 DEF ToSet
<1>4. IsFiniteSet(ToSet(c)) /\ Cardinality(ToSet(c)) <= vnumber
  BY <1>2, <1>3, FS_Subset
<1>5. ExistsBijection(1 .. Len(c), ToSet(c))
  <2>1. c \in [1 .. Len(c) -> ToSet(c)]
    <3>1. \A k \in 1 .. Len(c) : c[k] \in ToSet(c)
      BY <1>1 DEF ToSet
    <3>2. c = [k \in 1 .. Len(c) |-> c[k]]
      <4> DEFINE S == 0 .. vnumber - 1
      <4>1. c \in Seq(S)
        BY DEF Combs
      <4> HIDE DEF S
      <4> QED
        BY <4>1
    <3> QED
      BY <3>1, <3>2
  <2>2. \A j, k \in 1 .. Len(c) : c[j] = c[k] => j = k
    <3> SUFFICES ASSUME NEW j \in 1 .. Len(c), NEW k \in 1 .. Len(c), j < k
                 PROVE  c[j] # c[k]
      BY <1>1
    <3> QED
      BY <1>1 DEF Ascends
  <2>3. \A x \in ToSet(c) : \E k \in 1 .. Len(c) : c[k] = x
    BY <1>1 DEF ToSet
  <2>4. c \in Bijection(1 .. Len(c), ToSet(c))
    BY <2>1, <2>2, <2>3 DEF Bijection, Injection, Surjection, IsInjective
  <2> QED
    BY <2>4 DEF ExistsBijection
<1>6. Cardinality(ToSet(c)) = Len(c)
  BY <1>1, <1>5, FS_CountingElements
<1> QED
  BY <1>4, <1>6

\* A list that is not shorter has no subset of the other's variables.
LEMMA NotBelow ==
  ASSUME NEW c \in Combs, NEW d \in Combs, Ascends(c), Ascends(d), Len(c) <= Len(d), c # d
  PROVE  ~ (ToSet(d) \subseteq ToSet(c))
<1> SUFFICES ASSUME ToSet(d) \in SUBSET ToSet(c) PROVE FALSE
  OBVIOUS
<1>1. /\ IsFiniteSet(ToSet(c)) /\ Cardinality(ToSet(c)) = Len(c)
      /\ Cardinality(ToSet(d)) = Len(d) /\ Len(c) \in Nat /\ Len(d) \in Nat
  BY CombSize, CombType
<1>2. Cardinality(ToSet(d)) <= Cardinality(ToSet(c))
  BY <1>1, FS_Subset
<1>3. ToSet(d) = ToSet(c)
  <2>1. Cardinality(ToSet(c)) = Cardinality(ToSet(d))
    BY <1>1, <1>2
  <2> QED
    BY <1>1, <2>1, FS_Subset
<1> QED
  BY <1>3, CombUnique

----------------------------------------------------------------------------
\* The inductive invariant.  CombinationsExact speaks of the finished list; what
\* makes it true is what each round knows of the list it is extending: how long
\* the conjunctions in each part of it are, that a longer one came from one that
\* is already enlarged, and that those are enlarged in every way.

\* The list holds conjunctions in ascending order, each once, shorter ones first.
ListOK ==
  /\ \A k \in DOMAIN combinations :
       Ascends(combinations[k]) /\ Len(combinations[k]) >= 1
  /\ \A j, k \in DOMAIN combinations : combinations[j] = combinations[k] => j = k
  /\ \A j, k \in DOMAIN combinations :
       j <= k => Len(combinations[j]) <= Len(combinations[k])

\* New counts the conjunctions that round count has added, once it is over.
CountsOK ==
  \/ count = 0 /\ e = 1 /\ size = 0 /\ nnew = 0 /\ New = Len(combinations)
  \/ /\ count >= 1
     /\ Len(combinations) = size + nnew
     /\ New = nnew \/ (nnew = 0 /\ e + New = size + 1)

\* The round turns conjunctions of count variables into ones of count + 1.
LengthsOK ==
  \A k \in DOMAIN combinations :
    /\ k > size => Len(combinations[k]) = count + 1
    /\ e <= k /\ k <= size => Len(combinations[k]) = count
    /\ k < e => Len(combinations[k]) <= count

\* A conjunction of several variables is one that was enlarged ...
ParentsOK ==
  \A k \in DOMAIN combinations : Len(combinations[k]) >= 2 =>
    \E j \in 1 .. e - 1, v \in 0 .. vnumber - 1 :
      combinations[k] = Append(combinations[j], v)

\* ... and one that was enlarged has been by every later variable.
ChildrenOK ==
  \A j \in 1 .. e - 1, v \in 0 .. vnumber - 1 : Last(combinations[j]) < v =>
    \E k \in DOMAIN combinations : combinations[k] = Append(combinations[j], v)

SingletonsOK ==
  \A v \in 0 .. vnumber - 1 : \E k \in DOMAIN combinations : combinations[k] = <<v>>

\* All conjunctions of at most n variables are in the list.
CompleteUpTo(n) ==
  \A comb \in Combs : Ascends(comb) /\ 1 <= Len(comb) /\ Len(comb) <= n =>
    \E k \in DOMAIN combinations : combinations[k] = comb

RoundOK ==
  CountsOK /\ LengthsOK /\ ParentsOK /\ ChildrenOK /\ SingletonsOK /\ CompleteUpTo(count)

\* The terms belong to conjunctions already handled, each to one of its own.
TermsOK ==
  /\ \A j \in DOMAIN expr : \E k \in 1 .. position - 1 :
       expr[j].variables = combinations[k]
  /\ \A j, k \in DOMAIN expr : j # k => expr[j].variables # expr[k].variables

PhaseOK ==
  /\ pc = "constant" => constant = 0
  /\ pc \in {"constant", "singletons"} =>
       combinations = <<>> /\ New = 0 /\ count = 0 /\ size = 0 /\ e = 1 /\ nnew = 0
  /\ pc \in {"constant", "singletons", "rounds"} => position = 1 /\ expr = <<>>
  /\ pc = "rounds" => RoundOK
  /\ pc \in {"terms", "done"} => CompleteUpTo(vnumber)
  /\ pc = "done" => position > Len(combinations)

IInv == TypeOK /\ ListOK /\ TermsOK /\ PhaseOK

----------------------------------------------------------------------------
\* The list get_variable_combinations fills.

\* The variable behind a conjunction can be told from the conjunction.
LEMMA LastAddedUnique ==
  ASSUME NEW b \in Combs, NEW c \in Combs, NEW v \in 0 .. vnumber - 1,
         NEW w \in 0 .. vnumber - 1, Append(b, v) = Append(c, w)
  PROVE  b = c /\ v = w
<1> DEFINE S == 0 .. vnumber - 1
<1>1. b \in Seq(S) /\ c \in Seq(S) /\ v \in S /\ w \in S
  BY DEF Combs
<1> HIDE DEF S
<1>2. /\ Len(Append(b, v)) = Len(b) + 1
      /\ \A k \in 1 .. Len(b) : Append(b, v)[k] = b[k]
  BY <1>1
<1>3. /\ Len(Append(c, w)) = Len(c) + 1
      /\ \A k \in 1 .. Len(c) : Append(c, w)[k] = c[k]
  BY <1>1
<1>5. Len(b) = Len(c)
  BY <1>1, <1>2, <1>3
<1>6. \A k \in 1 .. Len(b) : b[k] = c[k]
  BY <1>2, <1>3, <1>5
<1>7. b = c
  BY <1>1, <1>5, <1>6
<1> QED
  BY <1>7

\* The last variable of a conjunction, behind which its enlargements begin, is one.
LEMMA LastComb ==
  ASSUME NEW b \in Combs, Len(b) >= 1
  PROVE  Last(b) \in 0 .. vnumber - 1 /\ Last(b) \in Nat
BY CombType DEF Last

\* What one conjunction is enlarged to.
LEMMA EnlargedCorrect ==
  ASSUME NEW b \in Combs, Ascends(b), Len(b) >= 1
  PROVE  /\ Enlarged(b) \in Seq(Combs)
         /\ Len(Enlarged(b)) = vnumber - 1 - Last(b)
         /\ Len(Enlarged(b)) \in Nat
         /\ \A k \in 1 .. Len(Enlarged(b)) :
              /\ Last(b) + k \in 0 .. vnumber - 1
              /\ Enlarged(b)[k] = Append(b, Last(b) + k)
              /\ Ascends(Enlarged(b)[k])
              /\ Len(Enlarged(b)[k]) = Len(b) + 1
<1> DEFINE n == vnumber - 1 - Last(b)
<1>1. n \in Nat /\ Last(b) \in Nat /\ vnumber \in Nat
  BY LastComb, SizeAssumption
<1>2. ASSUME NEW k \in 1 .. n
      PROVE  /\ Last(b) + k \in 0 .. vnumber - 1
             /\ Append(b, Last(b) + k) \in Combs
             /\ Ascends(Append(b, Last(b) + k))
             /\ Len(Append(b, Last(b) + k)) = Len(b) + 1
  <2> DEFINE v == Last(b) + k
  <2>1. v \in 0 .. vnumber - 1 /\ Last(b) < v
    BY <1>1
  <2> HIDE DEF v
  <2>2. /\ Append(b, v) \in Combs /\ Ascends(Append(b, v))
        /\ Len(Append(b, v)) = Len(b) + 1
    BY <2>1, AppendComb
  <2> QED
    BY <2>1, <2>2 DEF v
<1>3. Enlarged(b) = [k \in 1 .. n |-> Append(b, Last(b) + k)]
  BY DEF Enlarged
<1> HIDE DEF n
<1>4. Enlarged(b) \in Seq(Combs) /\ Len(Enlarged(b)) = n
  <2> DEFINE W == Combs
  <2>1. \A k \in 1 .. n : Append(b, Last(b) + k) \in W
    BY <1>2
  <2> HIDE DEF W
  <2>2. Enlarged(b) \in Seq(W) /\ Len(Enlarged(b)) = n
    BY <1>1, <1>3, <2>1
  <2> QED
    BY <2>2 DEF W
<1>5. n = vnumber - 1 - Last(b)
  BY DEF n
<1> QED
  BY <1>1, <1>2, <1>3, <1>4, <1>5

\* The places of a list to which another was added, as the rounds add to the list of
\* conjunctions.
LEMMA Concatenation ==
  ASSUME NEW W, NEW s \in Seq(W), NEW t \in Seq(W)
  PROVE  /\ s \o t \in Seq(W)
         /\ Len(s) \in Nat /\ Len(t) \in Nat
         /\ Len(s \o t) = Len(s) + Len(t)
         /\ DOMAIN (s \o t) = 1 .. Len(s) + Len(t)
         /\ \A k \in 1 .. Len(s) : (s \o t)[k] = s[k]
         /\ \A k \in Len(s) + 1 .. Len(s) + Len(t) : (s \o t)[k] = t[k - Len(s)]
<1>1. s \o t \in Seq(W) /\ Len(s) \in Nat /\ Len(t) \in Nat /\ Len(s \o t) = Len(s) + Len(t)
  OBVIOUS
<1>2. DOMAIN (s \o t) = 1 .. Len(s) + Len(t)
  BY <1>1
<1>3. \A k \in 1 .. Len(s) : (s \o t)[k] = s[k]
  BY <1>1
<1>4. \A k \in Len(s) + 1 .. Len(s) + Len(t) : (s \o t)[k] = t[k - Len(s)]
  BY <1>1
<1> QED
  BY <1>1, <1>2, <1>3, <1>4

\* The facts of the typing invariant that concern the list.
LEMMA ListType ==
  ASSUME TypeOK
  PROVE  /\ combinations \in Seq(Combs) /\ Len(combinations) \in Nat
         /\ DOMAIN combinations = 1 .. Len(combinations)
         /\ \A k \in 1 .. Len(combinations) : combinations[k] \in Combs
         /\ size \in Nat /\ New \in Nat /\ nnew \in Nat /\ count \in Nat
         /\ e \in Nat \ {0} /\ position \in Nat \ {0} /\ vnumber \in Nat \ {0}
         /\ e <= size + 1 /\ size <= Len(combinations) /\ New <= Len(combinations)
         /\ nnew <= Len(combinations) /\ position <= Len(combinations) + 1
<1> DEFINE W == Combs
<1>1. combinations \in Seq(W)
  BY DEF TypeOK, Combs
<1>2. vnumber \in Nat \ {0}
  BY SizeAssumption
<1> HIDE DEF W
<1>3. /\ Len(combinations) \in Nat /\ DOMAIN combinations = 1 .. Len(combinations)
      /\ \A k \in 1 .. Len(combinations) : combinations[k] \in W
  BY <1>1
<1>4. /\ size \in Nat /\ New \in Nat /\ nnew \in Nat /\ count \in Nat
      /\ e \in Nat \ {0} /\ position \in Nat \ {0}
      /\ e <= size + 1 /\ size <= Len(combinations) /\ New <= Len(combinations)
      /\ nnew <= Len(combinations) /\ position <= Len(combinations) + 1
  BY <1>2, <1>3 DEF TypeOK
<1> QED
  BY <1>1, <1>2, <1>3, <1>4 DEF W

\* simplify_generic starts with the constant, before there is a list.
LEMMA InitIInv == Init => IInv
<1> SUFFICES ASSUME Init PROVE IInv
  OBVIOUS
<1>1. vnumber \in Nat \ {0} /\ Modulus \in Nat \ {0}
  BY SizeAssumption
<1>2. TypeOK
  BY <1>1 DEF Init, TypeOK, Word
<1>3. DOMAIN combinations = {} /\ DOMAIN expr = {}
  BY DEF Init
<1>4. ListOK /\ TermsOK
  BY <1>3 DEF ListOK, TermsOK
<1>5. PhaseOK
  BY DEF Init, PhaseOK
<1> QED
  BY <1>2, <1>4, <1>5 DEF IInv

\* Once the conjunctions of count variables are all enlarged, the list is complete
\* up to count + 1.
LEMMA RoundCompletes ==
  ASSUME IInv, pc = "rounds", e > size
  PROVE  CompleteUpTo(count + 1)
<1>1. /\ ListOK /\ TypeOK /\ CountsOK /\ LengthsOK /\ ChildrenOK /\ SingletonsOK
      /\ CompleteUpTo(count)
  BY DEF IInv, PhaseOK, RoundOK
<1>2. /\ combinations \in Seq(Combs) /\ Len(combinations) \in Nat
      /\ DOMAIN combinations = 1 .. Len(combinations)
      /\ \A k \in 1 .. Len(combinations) : combinations[k] \in Combs
      /\ size \in Nat /\ count \in Nat /\ e \in Nat \ {0}
      /\ e <= size + 1 /\ size <= Len(combinations) /\ vnumber \in Nat \ {0}
  BY <1>1, ListType
<1> SUFFICES ASSUME NEW comb \in Combs, Ascends(comb), 1 <= Len(comb), Len(comb) <= count + 1
             PROVE  \E k \in DOMAIN combinations : combinations[k] = comb
  BY DEF CompleteUpTo
<1>3. Len(comb) \in Nat /\ \A k \in 1 .. Len(comb) : comb[k] \in 0 .. vnumber - 1
  BY CombType
<1>4. CASE Len(comb) <= count
  BY <1>1, <1>4 DEF CompleteUpTo
<1>5. CASE Len(comb) = 1
  <2>1. comb = <<comb[1]>>
    <3> DEFINE S == 0 .. vnumber - 1
    <3>1. comb \in Seq(S)
      BY DEF Combs
    <3> HIDE DEF S
    <3> QED
      BY <1>5, <3>1
  <2>2. comb[1] \in 0 .. vnumber - 1
    BY <1>3, <1>5
  <2> QED
    BY <1>1, <2>1, <2>2 DEF SingletonsOK
<1>6. CASE Len(comb) = count + 1 /\ Len(comb) >= 2
  <2>1. PICK b \in Combs, v \in 0 .. vnumber - 1 :
          comb = Append(b, v) /\ Ascends(b) /\ Len(b) = Len(comb) - 1 /\ Last(b) < v
    BY <1>6, CombSplit
  <2>2. Len(b) = count /\ 1 <= Len(b)
    BY <1>2, <1>3, <1>6, <2>1
  <2>3. PICK j \in 1 .. Len(combinations) : combinations[j] = b
    BY <1>1, <1>2, <2>1, <2>2 DEF CompleteUpTo
  <2>4. j \in 1 .. e - 1
    BY <1>1, <1>2, <2>2, <2>3 DEF LengthsOK
  <2> QED
    BY <1>1, <2>1, <2>3, <2>4 DEF ChildrenOK
<1>7. Len(comb) <= count \/ Len(comb) = 1 \/ (Len(comb) = count + 1 /\ Len(comb) >= 2)
  <2> DEFINE n == Len(comb)
  <2>1. count \in Nat /\ n \in Nat /\ 1 <= n /\ n <= count + 1
    BY <1>2, <1>3
  <2> HIDE DEF n
  <2>2. n <= count \/ n = 1 \/ (n = count + 1 /\ n >= 2)
    BY <2>1
  <2> QED
    BY <2>2 DEF n
<1> QED
  BY <1>4, <1>5, <1>6, <1>7

\* Enlarging one conjunction adds each of its enlargements once, at the end of the
\* list, with more variables than the round works on.
LEMMA EnlargeIInv ==
  ASSUME IInv, EnlargeCombination
  PROVE  IInv'
<1> DEFINE b == combinations[e]
           n == Len(combinations)
           m == Len(Enlarged(b))
<1>1. /\ TypeOK /\ ListOK /\ PhaseOK /\ CountsOK /\ LengthsOK /\ ParentsOK /\ ChildrenOK
      /\ SingletonsOK /\ CompleteUpTo(count)
      /\ position = 1 /\ expr = <<>>
  BY DEF IInv, PhaseOK, RoundOK, EnlargeCombination
<1>2. /\ combinations \in Seq(Combs) /\ n \in Nat
      /\ DOMAIN combinations = 1 .. n
      /\ \A k \in 1 .. n : combinations[k] \in Combs
      /\ size \in Nat /\ count \in Nat /\ e \in Nat \ {0} /\ nnew \in Nat
      /\ e <= size + 1 /\ size <= n /\ nnew <= n /\ vnumber \in Nat \ {0}
  BY <1>1, ListType
<1>3. e <= size /\ e \in 1 .. n
  BY <1>2 DEF EnlargeCombination
<1>4. b \in Combs /\ Ascends(b) /\ Len(b) >= 1 /\ Len(b) = count
  BY <1>1, <1>2, <1>3 DEF ListOK, LengthsOK
<1>5. /\ Enlarged(b) \in Seq(Combs) /\ m = vnumber - 1 - Last(b) /\ m \in Nat
      /\ \A k \in 1 .. m :
           /\ Last(b) + k \in 0 .. vnumber - 1
           /\ Enlarged(b)[k] = Append(b, Last(b) + k)
           /\ Ascends(Enlarged(b)[k])
           /\ Len(Enlarged(b)[k]) = Len(b) + 1
  BY <1>4, EnlargedCorrect
<1>6. /\ combinations' = combinations \o Enlarged(b) /\ nnew' = nnew + m /\ New' = nnew + m
      /\ e' = e + 1 /\ pc' = "rounds" /\ pc = "rounds" /\ count' = count /\ size' = size
      /\ initialResultVector' = initialResultVector /\ resultVector' = resultVector
      /\ constant' = constant /\ expr' = expr /\ position' = position
  BY DEF EnlargeCombination, termVars
<1>7. /\ combinations' \in Seq(Combs) /\ Len(combinations') = n + m
      /\ DOMAIN combinations' = 1 .. n + m
      /\ \A k \in 1 .. n : combinations'[k] = combinations[k]
      /\ \A k \in n + 1 .. n + m : combinations'[k] = Enlarged(b)[k - n]
  <2> DEFINE W == Combs
             t == Enlarged(b)
             s == combinations
  <2>1. s \in Seq(W) /\ t \in Seq(W) /\ n = Len(s) /\ m = Len(t)
    BY <1>2, <1>5
  <2> HIDE DEF W, s, t, n, m
  <2>2. /\ s \o t \in Seq(W) /\ Len(s \o t) = n + m
        /\ DOMAIN (s \o t) = 1 .. n + m
        /\ \A k \in 1 .. n : (s \o t)[k] = s[k]
        /\ \A k \in n + 1 .. n + m : (s \o t)[k] = t[k - n]
    BY <2>1, Concatenation
  <2>3. combinations' = s \o t
    BY <1>6 DEF s, t
  <2> QED
    BY <2>2, <2>3 DEF W, s, t
<1>8. Last(b) \in Nat
  BY <1>4, LastComb
<1> HIDE DEF b, n, m
<1>9. ASSUME NEW k \in n + 1 .. n + m
      PROVE  /\ Last(b) + (k - n) \in 0 .. vnumber - 1
             /\ combinations'[k] = Append(b, Last(b) + (k - n))
             /\ Ascends(combinations'[k])
             /\ Len(combinations'[k]) = count + 1
  <2>1. k - n \in 1 .. m
    BY <1>2, <1>5
  <2> QED
    BY <1>4, <1>5, <1>7, <2>1
<1>10. \A k \in DOMAIN combinations' : k \in 1 .. n \/ k \in n + 1 .. n + m
  BY <1>2, <1>5, <1>7
<1>11. TypeOK'
  <2>1. combinations' \in Seq(Seq(0 .. vnumber - 1))
    BY <1>7 DEF Combs
  <2>2. /\ size' \in 0 .. Len(combinations') /\ New' \in 0 .. Len(combinations')
        /\ nnew' \in 0 .. Len(combinations') /\ e' \in 1 .. size' + 1
        /\ position' \in 1 .. Len(combinations') + 1
    BY <1>1, <1>2, <1>3, <1>5, <1>6, <1>7
  <2> QED
    BY <1>1, <1>6, <2>1, <2>2 DEF TypeOK
<1>12. ListOK'
  <2>1. ASSUME NEW k \in DOMAIN combinations'
        PROVE  Ascends(combinations'[k]) /\ Len(combinations'[k]) >= 1
    BY <1>1, <1>2, <1>7, <1>9, <1>10 DEF ListOK
  <2>2. ASSUME NEW j \in DOMAIN combinations', NEW k \in DOMAIN combinations', j < k,
               combinations'[j] = combinations'[k]
        PROVE  FALSE
    <3>1. CASE k \in 1 .. n
      <4>1. j \in 1 .. n
        BY <1>2, <1>5, <1>7, <2>2, <3>1
      <4> QED
        BY <1>1, <1>2, <1>7, <2>2, <3>1, <4>1 DEF ListOK
    <3>2. CASE j \in 1 .. n /\ k \in n + 1 .. n + m
      <4>1. /\ combinations[j] = Append(b, Last(b) + (k - n))
            /\ Last(b) + (k - n) \in 0 .. vnumber - 1
            /\ Len(combinations[j]) = count + 1
        BY <1>7, <1>9, <2>2, <3>2
      <4>2. Len(combinations[j]) >= 2
        BY <1>2, <1>4, <4>1
      <4>3. PICK i \in 1 .. e - 1, v \in 0 .. vnumber - 1 :
              combinations[j] = Append(combinations[i], v)
        BY <1>1, <1>2, <3>2, <4>2 DEF ParentsOK
      <4>4. i \in 1 .. n /\ combinations[i] \in Combs
        BY <1>2, <1>3
      <4>5. combinations[i] = b
        BY <1>4, <4>1, <4>3, <4>4, LastAddedUnique
      <4>6. i = e
        BY <1>1, <1>2, <1>3, <4>4, <4>5 DEF ListOK, b
      <4> QED
        BY <1>2, <4>6
    <3>3. CASE j \in n + 1 .. n + m /\ k \in n + 1 .. n + m
      <4>1. /\ Append(b, Last(b) + (j - n)) = Append(b, Last(b) + (k - n))
            /\ Last(b) + (j - n) \in 0 .. vnumber - 1
            /\ Last(b) + (k - n) \in 0 .. vnumber - 1
        BY <1>9, <2>2, <3>3
      <4>2. Last(b) + (j - n) = Last(b) + (k - n)
        BY <1>4, <4>1, LastAddedUnique
      <4> QED
        BY <1>2, <1>5, <1>8, <2>2, <3>3, <4>2
    <3> QED
      BY <1>2, <1>5, <1>7, <2>2, <3>1, <3>2, <3>3
  <2>3. ASSUME NEW j \in DOMAIN combinations', NEW k \in DOMAIN combinations', j <= k
        PROVE  Len(combinations'[j]) <= Len(combinations'[k])
    <3>1. ASSUME NEW i \in 1 .. n PROVE Len(combinations[i]) <= count + 1
      BY <1>1, <1>2, <1>3 DEF LengthsOK
    <3>2. CASE k \in 1 .. n
      <4>1. j \in 1 .. n
        BY <1>2, <1>5, <1>7, <2>3, <3>2
      <4> QED
        BY <1>1, <1>2, <1>7, <2>3, <3>2, <4>1 DEF ListOK
    <3>3. CASE j \in 1 .. n /\ k \in n + 1 .. n + m
      BY <1>7, <1>9, <3>1, <3>3
    <3>4. CASE j \in n + 1 .. n + m /\ k \in n + 1 .. n + m
      BY <1>2, <1>9, <3>4
    <3> QED
      BY <1>2, <1>5, <1>7, <2>3, <3>2, <3>3, <3>4
  <2>4. \A j, k \in DOMAIN combinations' : combinations'[j] = combinations'[k] => j = k
    <3>1. \A j \in DOMAIN combinations' : j \in Nat
      BY <1>2, <1>5, <1>7
    <3>2. \A j, k \in DOMAIN combinations' : j < k => combinations'[j] # combinations'[k]
      BY <2>2
    <3>3. \A j, k \in Nat : j < k \/ k < j \/ j = k
      OBVIOUS
    <3> QED
      BY <3>1, <3>2, <3>3
  <2>5. ListOK' <=>
          /\ \A k \in DOMAIN combinations' :
               Ascends(combinations'[k]) /\ Len(combinations'[k]) >= 1
          /\ \A j, k \in DOMAIN combinations' :
               combinations'[j] = combinations'[k] => j = k
          /\ \A j, k \in DOMAIN combinations' :
               j <= k => Len(combinations'[j]) <= Len(combinations'[k])
    BY DEF ListOK, Ascends
  <2> QED
    BY <2>1, <2>3, <2>4, <2>5
<1>13. TermsOK'
  BY <1>1, <1>6 DEF TermsOK
<1>14. CountsOK'
  <2>1. count >= 1 /\ n = size + nnew
    <3>1. CountsOK /\ size # 0
      BY <1>1, <1>2, <1>3
    <3> QED
      BY <3>1 DEF CountsOK, n
  <2>2. count' >= 1 /\ Len(combinations') = size' + nnew' /\ New' = nnew'
    BY <1>2, <1>5, <1>6, <1>7, <2>1
  <2> QED
    BY <2>2 DEF CountsOK
<1>15. LengthsOK'
  <2> SUFFICES ASSUME NEW k \in DOMAIN combinations'
               PROVE  /\ k > size => Len(combinations'[k]) = count + 1
                      /\ e + 1 <= k /\ k <= size => Len(combinations'[k]) = count
                      /\ k < e + 1 => Len(combinations'[k]) <= count
    BY <1>6 DEF LengthsOK
  <2>1. CASE k \in 1 .. n
    <3>1. /\ k > size => Len(combinations[k]) = count + 1
          /\ e <= k /\ k <= size => Len(combinations[k]) = count
          /\ k < e => Len(combinations[k]) <= count
      BY <1>1, <1>2, <2>1 DEF LengthsOK
    <3>2. k \in Nat /\ combinations'[k] = combinations[k]
      BY <1>7, <2>1
    <3>3. k = e => Len(combinations[k]) <= count
      BY <1>2, <1>3, <3>1
    <3> QED
      BY <1>2, <3>1, <3>2, <3>3
  <2>2. CASE k \in n + 1 .. n + m
    BY <1>2, <1>3, <1>9, <2>2
  <2> QED
    BY <1>10, <2>1, <2>2
<1>16. ParentsOK'
  <2> SUFFICES ASSUME NEW k \in DOMAIN combinations', Len(combinations'[k]) >= 2
               PROVE  \E j \in 1 .. e, v \in 0 .. vnumber - 1 :
                        combinations'[k] = Append(combinations'[j], v)
    <3>1. e' - 1 = e
      BY <1>2, <1>6
    <3> QED
      BY <3>1 DEF ParentsOK
  <2>1. CASE k \in 1 .. n
    <3>1. PICK j \in 1 .. e - 1, v \in 0 .. vnumber - 1 :
            combinations[k] = Append(combinations[j], v)
      BY <1>1, <1>2, <1>7, <2>1 DEF ParentsOK
    <3>2. j \in 1 .. n /\ j \in 1 .. e
      BY <1>2, <1>3
    <3> QED
      BY <1>7, <2>1, <3>1, <3>2
  <2>2. CASE k \in n + 1 .. n + m
    <3>1. e \in 1 .. n /\ e \in 1 .. e /\ combinations'[e] = b
      BY <1>2, <1>3, <1>7 DEF b
    <3> QED
      BY <1>9, <2>2, <3>1
  <2> QED
    BY <1>10, <2>1, <2>2
<1>17. ChildrenOK'
  <2> SUFFICES ASSUME NEW j \in 1 .. e, NEW v \in 0 .. vnumber - 1, Last(combinations'[j]) < v
               PROVE  \E k \in DOMAIN combinations' :
                        combinations'[k] = Append(combinations'[j], v)
    <3>1. e' - 1 = e
      BY <1>2, <1>6
    <3> QED
      BY <3>1 DEF ChildrenOK, Last
  <2>1. j \in 1 .. n /\ combinations'[j] = combinations[j] /\ j \in Nat
    BY <1>2, <1>3, <1>7
  <2>2. CASE j = e
    <3> DEFINE k == n + (v - Last(b))
    <3>1. Last(b) < v /\ combinations'[j] = b
      BY <2>1, <2>2 DEF b
    <3>2. k \in n + 1 .. n + m /\ k \in DOMAIN combinations' /\ Last(b) + (k - n) = v
      BY <1>2, <1>5, <1>7, <1>8, <3>1
    <3> HIDE DEF k
    <3> QED
      BY <1>9, <3>1, <3>2
  <2>3. CASE j # e
    <3>1. j \in 1 .. e - 1 /\ Last(combinations[j]) < v
      BY <1>2, <2>1, <2>3
    <3>2. PICK k \in 1 .. n : combinations[k] = Append(combinations[j], v)
      BY <1>1, <1>2, <3>1 DEF ChildrenOK
    <3>3. k \in DOMAIN combinations' /\ combinations'[k] = combinations[k]
      BY <1>2, <1>5, <1>7
    <3> QED
      BY <2>1, <3>2, <3>3
  <2> QED
    BY <2>2, <2>3
<1>18. \A k \in DOMAIN combinations : k \in DOMAIN combinations' /\ combinations'[k] = combinations[k]
  BY <1>2, <1>5, <1>7
<1>19. SingletonsOK'
  BY <1>1, <1>18 DEF SingletonsOK
<1>20. CompleteUpTo(count)'
  BY <1>1, <1>6, <1>18 DEF CompleteUpTo, Combs, Ascends
<1>21. PhaseOK'
  BY <1>1, <1>6, <1>14, <1>15, <1>16, <1>17, <1>19, <1>20 DEF PhaseOK, RoundOK
<1> QED
  BY <1>11, <1>12, <1>13, <1>21 DEF IInv

\* Words are closed under the reduced difference and sum.
LEMMA Reduced ==
  ASSUME NEW a \in Int
  PROVE  a % Modulus \in Word
BY SizeAssumption DEF Word

\* The list starts with the conjunctions of one variable each.
LEMMA ListSingletonsIInv ==
  ASSUME IInv, ListSingletons
  PROVE  IInv'
<1>1. /\ TypeOK /\ PhaseOK /\ count = 0 /\ size = 0 /\ e = 1 /\ nnew = 0
      /\ position = 1 /\ expr = <<>> /\ pc' = "rounds"
      /\ combinations' = [v \in 1 .. vnumber |-> <<v - 1>>] /\ New' = vnumber
      /\ count' = 0 /\ size' = 0 /\ e' = 1 /\ nnew' = 0
      /\ constant' = constant /\ expr' = expr /\ position' = position
      /\ initialResultVector' = initialResultVector /\ resultVector' = resultVector
  BY DEF IInv, PhaseOK, ListSingletons, roundVars, termVars
<1>2. vnumber \in Nat \ {0}
  BY SizeAssumption
<1>3. ASSUME NEW v \in 0 .. vnumber - 1
      PROVE  <<v>> \in Combs /\ Ascends(<<v>>) /\ Len(<<v>>) = 1
  <2>1. <<v>> \in Combs /\ Len(<<v>>) = 1
    BY DEF Combs
  <2>2. DOMAIN <<v>> = {1}
    OBVIOUS
  <2> QED
    BY <2>1, <2>2 DEF Ascends
<1>4. /\ DOMAIN combinations' = 1 .. vnumber
      /\ \A k \in 1 .. vnumber : combinations'[k] = <<k - 1>> /\ k - 1 \in 0 .. vnumber - 1
  BY <1>1, <1>2
<1>5. combinations' \in Seq(Combs) /\ Len(combinations') = vnumber
  <2> DEFINE W == Combs
  <2>1. \A k \in 1 .. vnumber : <<k - 1>> \in W
    BY <1>3, <1>4
  <2> HIDE DEF W
  <2>2. combinations' \in Seq(W) /\ Len(combinations') = vnumber
    BY <1>1, <1>2, <2>1
  <2> QED
    BY <2>2 DEF W
<1>6. TypeOK'
  <2>1. combinations' \in Seq(Seq(0 .. vnumber - 1))
    BY <1>5 DEF Combs
  <2>2. /\ size' \in 0 .. Len(combinations') /\ New' \in 0 .. Len(combinations')
        /\ nnew' \in 0 .. Len(combinations') /\ e' \in 1 .. size' + 1
        /\ position' \in 1 .. Len(combinations') + 1 /\ count' \in 0 .. vnumber - 1
    BY <1>1, <1>2, <1>5
  <2> QED
    BY <1>1, <2>1, <2>2 DEF TypeOK
<1>7. \A k \in 1 .. vnumber : Ascends(combinations'[k]) /\ Len(combinations'[k]) = 1
  BY <1>3, <1>4
<1>8. \A j, k \in 1 .. vnumber : combinations'[j] = combinations'[k] => j = k
  <2> SUFFICES ASSUME NEW j \in 1 .. vnumber, NEW k \in 1 .. vnumber,
                      combinations'[j] = combinations'[k]
               PROVE  j = k
    OBVIOUS
  <2>1. <<j - 1>> = <<k - 1>>
    BY <1>4
  <2>2. j - 1 = k - 1
    BY <2>1
  <2> QED
    BY <1>2, <2>2
<1>9. ListOK'
  <2>1. ListOK' <=>
          /\ \A k \in DOMAIN combinations' :
               Ascends(combinations'[k]) /\ Len(combinations'[k]) >= 1
          /\ \A j, k \in DOMAIN combinations' :
               combinations'[j] = combinations'[k] => j = k
          /\ \A j, k \in DOMAIN combinations' :
               j <= k => Len(combinations'[j]) <= Len(combinations'[k])
    BY DEF ListOK, Ascends
  <2> QED
    BY <1>4, <1>7, <1>8, <2>1
<1>10. TermsOK'
  BY <1>1 DEF TermsOK
<1>11. CountsOK'
  BY <1>1, <1>5 DEF CountsOK
<1>12. LengthsOK'
  BY <1>1, <1>4, <1>7 DEF LengthsOK
<1>13. ParentsOK' /\ ChildrenOK'
  <2>1. 1 .. e' - 1 = {}
    BY <1>1
  <2>2. \A k \in DOMAIN combinations' : Len(combinations'[k]) = 1 /\ ~ (1 >= 2)
    BY <1>4, <1>7
  <2>3. ChildrenOK'
    BY <2>1 DEF ChildrenOK
  <2>4. ParentsOK'
    BY <2>2 DEF ParentsOK
  <2> QED
    BY <2>3, <2>4
<1>14. SingletonsOK'
  <2> SUFFICES ASSUME NEW v \in 0 .. vnumber - 1
               PROVE  \E k \in DOMAIN combinations' : combinations'[k] = <<v>>
    BY DEF SingletonsOK
  <2>1. v + 1 \in 1 .. vnumber /\ v + 1 - 1 = v
    BY <1>2
  <2> QED
    BY <1>4, <2>1
<1>15. CompleteUpTo(count)'
  BY <1>1, CombType DEF CompleteUpTo, Combs
<1>16. PhaseOK'
  BY <1>1, <1>11, <1>12, <1>13, <1>14, <1>15 DEF PhaseOK, RoundOK
<1> QED
  BY <1>6, <1>9, <1>10, <1>16 DEF IInv

\* A round begins with the conjunctions the last one has added, and they are all of
\* that length.
LEMMA NextRoundIInv ==
  ASSUME IInv, NextRound
  PROVE  IInv'
<1>1. /\ TypeOK /\ ListOK /\ TermsOK /\ PhaseOK /\ CountsOK /\ LengthsOK
      /\ ParentsOK /\ ChildrenOK /\ SingletonsOK
      /\ pc = "rounds" /\ e > size /\ count + 1 < vnumber
      /\ count' = count + 1 /\ size' = Len(combinations)
      /\ e' = Len(combinations) - New + 1 /\ nnew' = 0 /\ pc' = pc /\ New' = New
      /\ combinations' = combinations /\ initialResultVector' = initialResultVector
      /\ resultVector' = resultVector
      /\ constant' = constant /\ expr' = expr /\ position' = position
  BY DEF IInv, PhaseOK, RoundOK, NextRound, termVars
<1>2. /\ Len(combinations) \in Nat /\ DOMAIN combinations = 1 .. Len(combinations)
      /\ \A k \in 1 .. Len(combinations) : Len(combinations[k]) \in Nat
      /\ size \in Nat /\ count \in Nat /\ e \in Nat \ {0} /\ nnew \in Nat /\ New \in Nat
      /\ e <= size + 1 /\ size <= Len(combinations) /\ New <= Len(combinations)
      /\ vnumber \in Nat \ {0}
  BY <1>1, ListType, CombType
<1> DEFINE n == Len(combinations)
<1>3. e = size + 1 /\ n - New = size
  <2> HIDE DEF n
  <2>1. e = size + 1
    BY <1>1, <1>2
  <2>2. \/ count = 0 /\ e = 1 /\ size = 0 /\ nnew = 0 /\ New = n
        \/ count >= 1 /\ n = size + nnew /\ (New = nnew \/ (nnew = 0 /\ e + New = size + 1))
    BY <1>1 DEF CountsOK, n
  <2>3. n \in Nat
    BY <1>2 DEF n
  <2> QED
    BY <1>2, <2>1, <2>2, <2>3
<1>4. e' = e
  BY <1>1, <1>2, <1>3
<1>5. TypeOK'
  <2>1. /\ size' \in 0 .. Len(combinations') /\ New' \in 0 .. Len(combinations')
        /\ nnew' \in 0 .. Len(combinations') /\ e' \in 1 .. size' + 1
        /\ count' \in 0 .. vnumber - 1
    BY <1>1, <1>2
  <2> QED
    BY <1>1, <2>1 DEF TypeOK
<1>6. ListOK' /\ TermsOK'
  BY <1>1 DEF ListOK, TermsOK, Ascends
<1>7. CountsOK'
  <2>1. count' >= 1 /\ Len(combinations') = size' + nnew' /\ e' + New' = size' + 1
    BY <1>1, <1>2
  <2> QED
    BY <1>1, <2>1 DEF CountsOK
<1>8. LengthsOK'
  <2> SUFFICES ASSUME NEW k \in 1 .. Len(combinations)
               PROVE  /\ ~ (k > Len(combinations))
                      /\ e <= k => Len(combinations[k]) = count + 1
                      /\ k < e => Len(combinations[k]) <= count + 1
    BY <1>1, <1>2, <1>4 DEF LengthsOK
  <2>1. /\ k > size => Len(combinations[k]) = count + 1
        /\ k < e => Len(combinations[k]) <= count
    BY <1>1, <1>2 DEF LengthsOK
  <2> QED
    BY <1>2, <1>3, <2>1
<1>9. ParentsOK' /\ ChildrenOK' /\ SingletonsOK'
  <2>1. ParentsOK'
    BY <1>1, <1>4 DEF ParentsOK
  <2>2. ChildrenOK'
    BY <1>1, <1>4 DEF ChildrenOK, Last
  <2>3. SingletonsOK'
    BY <1>1 DEF SingletonsOK
  <2> QED
    BY <2>1, <2>2, <2>3
<1>10. CompleteUpTo(count)'
  BY <1>1, RoundCompletes DEF CompleteUpTo, Combs, Ascends
<1>11. PhaseOK'
  BY <1>1, <1>7, <1>8, <1>9, <1>10 DEF PhaseOK, RoundOK
<1> QED
  BY <1>5, <1>6, <1>11 DEF IInv

\* The rounds end with every conjunction of the variables in the list.
LEMMA CombinationsListedIInv ==
  ASSUME IInv, CombinationsListed
  PROVE  IInv'
<1>1. /\ TypeOK /\ ListOK /\ TermsOK /\ pc = "rounds" /\ e > size
      /\ count + 1 >= vnumber /\ pc' = "terms"
      /\ UNCHANGED <<initialResultVector, resultVector, combinations, New, count, size,
                     e, nnew, constant, expr, position>>
  BY DEF IInv, CombinationsListed, roundVars, termVars
<1>2. CompleteUpTo(vnumber)
  <2>1. CompleteUpTo(count + 1) /\ count \in Nat /\ vnumber \in Nat
    BY <1>1, RoundCompletes, ListType
  <2>2. \A c \in Combs : Len(c) <= vnumber => Len(c) <= count + 1
    BY <1>1, <2>1, CombType
  <2> QED
    BY <2>1, <2>2 DEF CompleteUpTo
<1>3. TypeOK' /\ ListOK' /\ TermsOK'
  BY <1>1 DEF TypeOK, ListOK, TermsOK, Ascends
<1>4. CompleteUpTo(vnumber)'
  BY <1>1, <1>2 DEF CompleteUpTo, Combs, Ascends
<1>5. PhaseOK'
  BY <1>1, <1>4 DEF PhaseOK
<1> QED
  BY <1>3, <1>5 DEF IInv

\* The constant is the first entry, and leaves a residual of words.
LEMMA SubtractConstantIInv ==
  ASSUME IInv, SubtractConstant
  PROVE  IInv'
<1>1. /\ TypeOK /\ ListOK /\ PhaseOK /\ pc = "constant" /\ pc' = "singletons"
      /\ constant' = resultVector[0]
      /\ resultVector' = [i \in Entries |->
           IF i = 0 THEN resultVector[0] ELSE (resultVector[i] - resultVector[0]) % Modulus]
      /\ UNCHANGED <<initialResultVector, combinations, New, count, size, e, nnew,
                     expr, position>>
  BY DEF IInv, SubtractConstant, roundVars
<1>2. 0 \in Entries
  <2>1. vnumber \in 0 .. vnumber
    BY SizeAssumption
  <2>2. groupsizes[vnumber] \in Nat \ {0}
    BY <2>1, GroupSizes
  <2> QED
    BY <2>2 DEF Entries
<1>3. \A i \in Entries : resultVector[i] \in Word /\ resultVector[i] \in Int
  <2>1. \A x \in Word : x \in Int
    BY SizeAssumption DEF Word
  <2> QED
    BY <1>1, <2>1 DEF TypeOK
<1>4. resultVector' \in [Entries -> Word]
  <2>1. \A i \in Entries : (resultVector[i] - resultVector[0]) % Modulus \in Word
    BY <1>2, <1>3, Reduced
  <2> QED
    BY <1>1, <1>2, <1>3, <2>1
<1>5. TypeOK'
  BY <1>1, <1>2, <1>3, <1>4 DEF TypeOK
<1>6. ListOK'
  BY <1>1 DEF ListOK, Ascends
<1>7. TermsOK'
  BY <1>1 DEF TermsOK, PhaseOK
<1>8. PhaseOK'
  BY <1>1 DEF PhaseOK
<1> QED
  BY <1>5, <1>6, <1>7, <1>8 DEF IInv

\* What one iteration of the loop over the conjunctions works with.
LEMMA TermFacts ==
  ASSUME IInv, AppendTerm
  PROVE  /\ position \in 1 .. Len(combinations)
         /\ combinations[position] \in Combs
         /\ Ascends(combinations[position])
         /\ Len(combinations[position]) >= 1
         /\ IndexOf(combinations[position]) \in Entries
         /\ AsSet(IndexOf(combinations[position])) = ToSet(combinations[position])
         /\ resultVector[IndexOf(combinations[position])] \in Word
<1> DEFINE comb == combinations[position]
<1>1. TypeOK /\ ListOK /\ position <= Len(combinations)
  BY DEF IInv, AppendTerm
<1>2. position \in 1 .. Len(combinations) /\ comb \in Combs
  BY <1>1, ListType
<1>3. Ascends(comb) /\ Len(comb) >= 1
  BY <1>1, <1>2, ListType DEF ListOK
<1> HIDE DEF comb
<1>4. IndexOf(comb) \in Entries /\ AsSet(IndexOf(comb)) = ToSet(comb)
  BY <1>2, <1>3, IndexCorrect
<1>5. resultVector[IndexOf(comb)] \in Word
  BY <1>1, <1>4 DEF TypeOK
<1> QED
  BY <1>2, <1>3, <1>4, <1>5 DEF comb

\* The places of a list to which one element was added.
LEMMA Appended ==
  ASSUME NEW W, NEW s \in Seq(W), NEW x \in W
  PROVE  /\ Append(s, x) \in Seq(W) /\ Len(s) \in Nat
         /\ DOMAIN s = 1 .. Len(s) /\ DOMAIN Append(s, x) = 1 .. Len(s) + 1
         /\ Len(Append(s, x)) = Len(s) + 1
         /\ \A k \in 1 .. Len(s) : Append(s, x)[k] = s[k]
         /\ Append(s, x)[Len(s) + 1] = x
<1>1. Append(s, x) \in Seq(W) /\ Len(s) \in Nat /\ Len(Append(s, x)) = Len(s) + 1
  OBVIOUS
<1>2. DOMAIN s = 1 .. Len(s) /\ DOMAIN Append(s, x) = 1 .. Len(s) + 1
  BY <1>1
<1>3. \A k \in 1 .. Len(s) : Append(s, x)[k] = s[k]
  OBVIOUS
<1>4. Append(s, x)[Len(s) + 1] = x
  OBVIOUS
<1> QED
  BY <1>1, <1>2, <1>3, <1>4

\* A conjunction that is passed leaves a residual of words, and a term at most.
LEMMA AppendTermIInv ==
  ASSUME IInv, AppendTerm
  PROVE  IInv'
<1> DEFINE comb == combinations[position]
           index == IndexOf(comb)
           c == resultVector[index]
           term == [coeff |-> c, variables |-> comb]
           Terms == [coeff : Word \ {0}, variables : Combs]
<1>1. /\ TypeOK /\ ListOK /\ TermsOK /\ PhaseOK /\ pc = "terms"
      /\ resultVector' = IF c = 0 THEN resultVector ELSE subtract_coefficient(c, index, comb)
      /\ expr' = IF c = 0 THEN expr ELSE Append(expr, term)
      /\ position' = position + 1
      /\ UNCHANGED <<pc, initialResultVector, combinations, New, count, size, e, nnew,
                     constant>>
  BY DEF IInv, AppendTerm, append_conjunction, roundVars
<1>2. /\ position \in 1 .. Len(combinations) /\ comb \in Combs /\ c \in Word
  BY TermFacts
<1>3. /\ Len(combinations) \in Nat /\ DOMAIN combinations = 1 .. Len(combinations)
      /\ position \in Nat \ {0}
  BY <1>1, ListType
<1> HIDE DEF comb, index, c
<1>4. resultVector' \in [Entries -> Word]
  <2>1. \A x \in Word : x \in Int
    BY SizeAssumption DEF Word
  <2>2. \A i \in Entries : resultVector[i] \in Word /\ resultVector[i] - c \in Int
    BY <1>1, <1>2, <2>1 DEF TypeOK
  <2>3. \A i \in Entries : (resultVector[i] - c) % Modulus \in Word
    BY <2>2, Reduced
  <2>4. subtract_coefficient(c, index, comb) \in [Entries -> Word]
    BY <2>2, <2>3 DEF subtract_coefficient
  <2> QED
    BY <1>1, <2>4 DEF TypeOK
<1>5. expr \in Seq(Terms) /\ (c # 0 => term \in Terms)
  BY <1>1, <1>2 DEF TypeOK, Combs
<1>6. /\ c # 0 => expr' \in Seq(Terms) /\ DOMAIN expr' = 1 .. Len(expr) + 1
                  /\ expr'[Len(expr) + 1] = term
                  /\ \A k \in 1 .. Len(expr) : expr'[k] = expr[k]
      /\ DOMAIN expr = 1 .. Len(expr) /\ Len(expr) \in Nat
  <2> HIDE DEF Terms, term
  <2>1. DOMAIN expr = 1 .. Len(expr) /\ Len(expr) \in Nat
    BY <1>5
  <2> SUFFICES ASSUME c # 0
               PROVE  /\ expr' \in Seq(Terms) /\ DOMAIN expr' = 1 .. Len(expr) + 1
                      /\ expr'[Len(expr) + 1] = term
                      /\ \A k \in 1 .. Len(expr) : expr'[k] = expr[k]
    BY <2>1
  <2>2. expr' = Append(expr, term)
    BY <1>1
  <2> QED
    BY <1>5, <2>2, Appended
<1>7. term.variables = comb
  OBVIOUS
<1>8. expr' \in Seq(Terms)
  BY <1>1, <1>5, <1>6
<1> HIDE DEF Terms, term
<1>9. TypeOK'
  <2>1. position' \in 1 .. Len(combinations') + 1
    BY <1>1, <1>2, <1>3
  <2>2. expr' \in Seq([coeff : Word \ {0}, variables : Seq(0 .. vnumber - 1)])
    BY <1>8 DEF Terms, Combs
  <2> QED
    BY <1>1, <1>4, <2>1, <2>2 DEF TypeOK
<1>10. ListOK'
  BY <1>1 DEF ListOK, Ascends
<1>11. TermsOK'
  <2>1. ASSUME NEW j \in DOMAIN expr
        PROVE  \E k \in 1 .. position - 1 : expr[j].variables = combinations[k]
    BY <1>1 DEF TermsOK
  <2>2. ASSUME NEW j \in DOMAIN expr
        PROVE  expr[j].variables # comb
    <3>1. PICK k \in 1 .. position - 1 : expr[j].variables = combinations[k]
      BY <2>1
    <3>2. k \in DOMAIN combinations /\ position \in DOMAIN combinations /\ k # position
      BY <1>2, <1>3
    <3> QED
      BY <1>1, <3>1, <3>2 DEF ListOK, comb
  <2>3. 1 .. position' - 1 = 1 .. position /\ 1 .. position - 1 \subseteq 1 .. position
        /\ position \in 1 .. position
    BY <1>1, <1>3
  <2>4. CASE c = 0
    <3>1. expr' = expr
      BY <1>1, <2>4
    <3> QED
      BY <1>1, <2>1, <2>3, <3>1 DEF TermsOK
  <2>5. CASE c # 0
    <3>1. /\ DOMAIN expr' = 1 .. Len(expr) + 1
          /\ expr'[Len(expr) + 1] = term
          /\ \A k \in 1 .. Len(expr) : expr'[k] = expr[k]
          /\ \A k \in 1 .. Len(expr) + 1 : k \in 1 .. Len(expr) \/ k = Len(expr) + 1
      BY <1>6, <2>5
    <3>2. ASSUME NEW j \in DOMAIN expr'
          PROVE  \E k \in 1 .. position : expr'[j].variables = combinations[k]
      <4>1. CASE j \in 1 .. Len(expr)
        BY <1>6, <2>1, <2>3, <3>1, <4>1
      <4>2. CASE j = Len(expr) + 1
        BY <1>7, <2>3, <3>1, <4>2 DEF comb
      <4> QED
        BY <3>1, <4>1, <4>2
    <3>3. ASSUME NEW j \in DOMAIN expr', NEW k \in DOMAIN expr', j # k
          PROVE  expr'[j].variables # expr'[k].variables
      <4>1. CASE j \in 1 .. Len(expr) /\ k \in 1 .. Len(expr)
        BY <1>1, <1>6, <3>1, <3>3, <4>1 DEF TermsOK
      <4>2. CASE j \in 1 .. Len(expr) /\ k = Len(expr) + 1
        BY <1>6, <1>7, <2>2, <3>1, <4>2
      <4>3. CASE j = Len(expr) + 1 /\ k \in 1 .. Len(expr)
        BY <1>6, <1>7, <2>2, <3>1, <4>3
      <4> QED
        BY <3>1, <3>3, <4>1, <4>2, <4>3
    <3> QED
      BY <1>1, <2>3, <3>2, <3>3 DEF TermsOK
  <2> QED
    BY <2>4, <2>5
<1>12. PhaseOK'
  BY <1>1 DEF PhaseOK, CompleteUpTo, Combs, Ascends
<1> QED
  BY <1>9, <1>10, <1>11, <1>12 DEF IInv

\* Returning changes nothing but the phase.
LEMMA ReturnIInv ==
  ASSUME IInv, Return
  PROVE  IInv'
<1>1. /\ TypeOK /\ ListOK /\ TermsOK /\ PhaseOK /\ pc = "terms" /\ pc' = "done"
      /\ position > Len(combinations)
      /\ UNCHANGED <<initialResultVector, resultVector, combinations, New, count, size,
                     e, nnew, constant, expr, position>>
  BY DEF IInv, Return, roundVars, termVars
<1>2. TypeOK' /\ ListOK' /\ TermsOK'
  BY <1>1 DEF TypeOK, ListOK, TermsOK, Ascends
<1>3. PhaseOK'
  BY <1>1 DEF PhaseOK, CompleteUpTo, Combs, Ascends
<1> QED
  BY <1>2, <1>3 DEF IInv

\* Every step keeps the invariant.
LEMMA StepIInv == IInv /\ [Next]_vars => IInv'
<1> SUFFICES ASSUME IInv, [Next]_vars
             PROVE  IInv'
  OBVIOUS
<1>1. CASE SubtractConstant
  BY <1>1, SubtractConstantIInv
<1>2. CASE ListSingletons
  BY <1>2, ListSingletonsIInv
<1>3. CASE NextRound
  BY <1>3, NextRoundIInv
<1>4. CASE EnlargeCombination
  BY <1>4, EnlargeIInv
<1>5. CASE CombinationsListed
  BY <1>5, CombinationsListedIInv
<1>6. CASE AppendTerm
  BY <1>6, AppendTermIInv
<1>7. CASE Return
  BY <1>7, ReturnIInv
<1>8. CASE UNCHANGED vars
  <2>1. UNCHANGED <<pc, initialResultVector, resultVector, combinations, New, count,
                    size, e, nnew, constant, expr, position>>
    BY <1>8 DEF vars, roundVars, termVars
  <2>2. TypeOK'
    BY <2>1 DEF IInv, TypeOK
  <2>3. ListOK' /\ TermsOK'
    BY <2>1 DEF IInv, ListOK, TermsOK, Ascends
  <2>4. (RoundOK => RoundOK') /\ (CompleteUpTo(vnumber) => CompleteUpTo(vnumber)')
    BY <2>1 DEF RoundOK, CountsOK, LengthsOK, ParentsOK, ChildrenOK, SingletonsOK,
                CompleteUpTo, Combs, Ascends, Last
  <2>5. PhaseOK'
    BY <2>1, <2>4 DEF IInv, PhaseOK
  <2> QED
    BY <2>2, <2>3, <2>5 DEF IInv
<1> QED
  BY <1>1, <1>2, <1>3, <1>4, <1>5, <1>6, <1>7, <1>8 DEF Next

\* The lists and counters of simplify_generic are what its loops take them for.
THEOREM Invariance == Spec => []IInv
BY InitIInv, StepIInv, PTL DEF Spec

\* Every variable keeps its type: no index leaves the result vector, no counter
\* its list, and the residual and the coefficients stay words.
THEOREM TypeCorrect == Spec => []TypeOK
<1>1. IInv => TypeOK
  BY DEF IInv
<1> QED
  BY Invariance, <1>1, PTL

\* Once the conjunctions are listed, CombinationsExact says no more than the invariant.
LEMMA CombinationsExactFromIInv == IInv => CombinationsExact
<1> SUFFICES ASSUME IInv, pc \in {"terms", "done"}
             PROVE  /\ \A k \in DOMAIN combinations : Ascends(combinations[k])
                    /\ \A S \in (SUBSET (0 .. vnumber - 1)) \ {{}} :
                         \E k \in DOMAIN combinations : ToSet(combinations[k]) = S
                    /\ \A j, k \in DOMAIN combinations :
                         j < k => ~ ToSet(combinations[k]) \subseteq ToSet(combinations[j])
  BY DEF CombinationsExact
<1>1. /\ ListOK /\ TypeOK /\ CompleteUpTo(vnumber)
  BY DEF IInv, PhaseOK
<1>2. /\ Len(combinations) \in Nat /\ DOMAIN combinations = 1 .. Len(combinations)
      /\ \A k \in 1 .. Len(combinations) : combinations[k] \in Combs
  BY <1>1, ListType
<1>3. ASSUME NEW S \in (SUBSET (0 .. vnumber - 1)) \ {{}}
      PROVE  \E k \in DOMAIN combinations : ToSet(combinations[k]) = S
  <2>1. PICK comb \in Combs : Ascends(comb) /\ ToSet(comb) = S
    BY CombExists
  <2>2. Len(comb) <= vnumber /\ Len(comb) \in Nat
    BY <2>1, CombSize, CombType
  <2>3. Len(comb) # 0
    <3> SUFFICES ASSUME Len(comb) = 0 PROVE FALSE
      OBVIOUS
    <3>1. DOMAIN comb = 1 .. 0
      BY CombType
    <3>2. ToSet(comb) = {}
      BY <3>1 DEF ToSet
    <3> QED
      BY <2>1, <3>2
  <2>4. 1 <= Len(comb)
    BY <2>2, <2>3
  <2> QED
    BY <1>1, <2>1, <2>2, <2>4 DEF CompleteUpTo
<1>4. ASSUME NEW j \in DOMAIN combinations, NEW k \in DOMAIN combinations, j < k
      PROVE  ~ ToSet(combinations[k]) \subseteq ToSet(combinations[j])
  <2>1. /\ combinations[j] \in Combs /\ combinations[k] \in Combs
        /\ Ascends(combinations[j]) /\ Ascends(combinations[k])
        /\ Len(combinations[j]) <= Len(combinations[k])
        /\ combinations[j] # combinations[k]
    BY <1>1, <1>2, <1>4 DEF ListOK
  <2> QED
    BY <2>1, NotBelow
<1> QED
  BY <1>1, <1>3, <1>4 DEF ListOK

\* get_variable_combinations lists every conjunction once and none before one of
\* its parts, for any number of variables.
THEOREM CombinationsAreExact == Spec => []CombinationsExact
BY Invariance, CombinationsExactFromIInv, PTL

----------------------------------------------------------------------------
\* Assignments and indices.

Sets == SUBSET (0 .. vnumber - 1)

\* AsIndex and AsSet are inverse to each other.
LEMMA IndexOfSet ==
  /\ \A S \in Sets : AsIndex(S) \in Entries /\ AsSet(AsIndex(S)) = S
  /\ \A i \in Entries : AsSet(i) \in Sets /\ AsIndex(AsSet(i)) = i
<1>1. \A S \in Sets : AsIndex(S) \in Entries /\ AsSet(AsIndex(S)) = S
  BY EveryAssignment DEF AsIndex, Sets
<1>2. ASSUME NEW i \in Entries
      PROVE  AsSet(i) \in Sets /\ AsIndex(AsSet(i)) = i
  <2>1. AsSet(i) \in Sets
    BY DEF AsSet, Sets
  <2> DEFINE j == AsIndex(AsSet(i))
  <2>2. j \in Entries /\ AsSet(j) = AsSet(i)
    BY <1>1, <2>1
  <2> HIDE DEF j
  <2>3. i <= j /\ j <= i
    BY <2>2, Monotone
  <2>4. i \in Int /\ j \in Int
    BY <2>2 DEF Entries
  <2>5. j = i
    BY <2>3, <2>4
  <2> QED
    BY <2>1, <2>5 DEF j
<1> QED
  BY <1>1, <1>2

\* The entry of the assignment in which all variables are 0.
LEMMA IndexOfEmpty == 0 \in Entries /\ AsSet(0) = {} /\ AsIndex({}) = 0
<1>1. 0 \in 0 .. vnumber - 1 /\ 0 \in 0 .. groupsizes[0] - 1
  BY SizeAssumption, GroupSizes
<1>2. 0 \in Entries /\ AsSet(0) \subseteq 0 .. 0 - 1
  BY <1>1, AddBit
<1>3. AsSet(0) = {}
  BY <1>2
<1> QED
  BY <1>2, <1>3, IndexOfSet

----------------------------------------------------------------------------
\* The value of the terms.

\* The difference and the sum the code reduces are those of words.
LEMMA ReducedMinus ==
  ASSUME NEW a \in Word, NEW b \in Word
  PROVE  (a - b) % Modulus = Abstract!Minus(a, b)
<1>1. Modulus \in Nat \ {0} /\ a \in 0 .. Modulus - 1 /\ b \in 0 .. Modulus - 1
  BY SizeAssumption DEF Word
<1> QED
  BY <1>1 DEF Abstract!Minus

\* Reducing a sum modulo 2^bitCount is the sum of the decomposition.
LEMMA ReducedPlus ==
  ASSUME NEW a \in Word, NEW b \in Word
  PROVE  (a + b) % Modulus = Abstract!Plus(a, b)
<1>1. Modulus \in Nat \ {0} /\ a \in 0 .. Modulus - 1 /\ b \in 0 .. Modulus - 1
  BY SizeAssumption DEF Word
<1> QED
  BY <1>1 DEF Abstract!Plus

Terms == [coeff : Word \ {0}, variables : Combs]
TermLists == Seq(Terms)

\* ValueOf, with the constant and the terms as arguments.
Value(c, terms, S) ==
  LET value[k \in 0 .. Len(terms)] ==
        IF k = 0 THEN c
        ELSE IF ToSet(terms[k].variables) \subseteq S
             THEN (value[k - 1] + terms[k].coeff) % Modulus ELSE value[k - 1]
  IN  value[Len(terms)]

IsTrace(f, c, terms, S) ==
  /\ f \in [0 .. Len(terms) -> Word]
  /\ f[0] = c
  /\ \A k \in 1 .. Len(terms) :
       f[k] = IF ToSet(terms[k].variables) \subseteq S
                THEN Abstract!Plus(f[k - 1], terms[k].coeff) ELSE f[k - 1]

\* The sum of two words is a word.
LEMMA WordPlus ==
  ASSUME NEW a \in Word, NEW b \in Word
  PROVE  Abstract!Plus(a, b) \in Word
BY SizeAssumption DEF Word, Abstract!Plus

\* The terms of an expression have coefficients that are words.
LEMMA TermType ==
  ASSUME NEW terms \in TermLists
  PROVE  /\ Len(terms) \in Nat
         /\ \A k \in 1 .. Len(terms) : terms[k] \in Terms /\ terms[k].coeff \in Word
<1> DEFINE W == Terms
<1>1. terms \in Seq(W) /\ \A t \in W : t.coeff \in Word
  BY DEF Terms, TermLists
<1> HIDE DEF W
<1>2. Len(terms) \in Nat /\ \A k \in 1 .. Len(terms) : terms[k] \in W
  BY <1>1
<1> QED
  BY <1>1, <1>2 DEF W

\* The terms of an expression can be added up one after the other.
LEMMA TraceExists ==
  ASSUME NEW c \in Word, NEW terms \in TermLists, NEW S
  PROVE  \E f : IsTrace(f, c, terms, S)
<1> DEFINE n == Len(terms)
           step == [k \in 1 .. n |->
                      [x \in Word |-> IF ToSet(terms[k].variables) \subseteq S
                                        THEN Abstract!Plus(x, terms[k].coeff) ELSE x]]
           W == Word
<1>1. n \in Nat /\ \A k \in 1 .. n : terms[k].coeff \in Word
  BY TermType
<1>2. step \in [1 .. n -> [W -> W]] /\ c \in W
  BY <1>1, WordPlus
<1>3. \E f \in [0 .. n -> W] : f[0] = c /\ \A k \in 1 .. n : f[k] = step[k][f[k - 1]]
  <2> DEFINE Steps(V, m) == [1 .. m -> [V -> V]]
             Run(V, m, x, h) ==
               \E f \in [0 .. m -> V] : f[0] = x /\ \A k \in 1 .. m : f[k] = h[k][f[k - 1]]
  <2>1. c \in W /\ n \in Nat /\ step \in Steps(W, n)
    BY <1>1, <1>2
  <2>2. ASSUME NEW V, NEW x \in V, NEW m \in Nat, NEW h \in Steps(V, m)
        PROVE  Run(V, m, x, h)
    BY Trace
  <2>3. Run(W, n, c, step)
    <3> HIDE DEF Steps, Run, step, n, W
    <3> QED
      BY <2>1, <2>2
  <2> QED
    BY <2>3
<1>4. PICK f \in [0 .. n -> W] : f[0] = c /\ \A k \in 1 .. n : f[k] = step[k][f[k - 1]]
  BY <1>3
<1>5. \A k \in 1 .. n : f[k - 1] \in W
  BY <1>1
<1>6. \A k \in 1 .. n :
        f[k] = IF ToSet(terms[k].variables) \subseteq S
                 THEN Abstract!Plus(f[k - 1], terms[k].coeff) ELSE f[k - 1]
  BY <1>4, <1>5
<1> QED
  BY <1>4, <1>6 DEF IsTrace

\* The recursive function has one value.
LEMMA TraceUnique ==
  ASSUME NEW c \in Word, NEW terms \in TermLists, NEW S, NEW f, IsTrace(f, c, terms, S)
  PROVE  Value(c, terms, S) = f[Len(terms)]
<1> DEFINE n == Len(terms)
           Body(h) == [k \in 0 .. n |->
             IF k = 0 THEN c
             ELSE IF ToSet(terms[k].variables) \subseteq S
                  THEN (h[k - 1] + terms[k].coeff) % Modulus ELSE h[k - 1]]
           g == CHOOSE h : h = Body(h)
<1>1. n \in Nat /\ \A k \in 1 .. n : terms[k].coeff \in Word
  BY TermType
<1>2. /\ f \in [0 .. n -> Word] /\ f[0] = c
      /\ \A k \in 1 .. n :
           f[k] = IF ToSet(terms[k].variables) \subseteq S
                    THEN Abstract!Plus(f[k - 1], terms[k].coeff) ELSE f[k - 1]
  BY DEF IsTrace
<1> HIDE DEF n
<1>3. ASSUME NEW k \in 1 .. n
      PROVE  f[k] = IF ToSet(terms[k].variables) \subseteq S
                      THEN (f[k - 1] + terms[k].coeff) % Modulus ELSE f[k - 1]
  <2>1. f[k - 1] \in Word
    BY <1>1, <1>2
  <2>2. (f[k - 1] + terms[k].coeff) % Modulus = Abstract!Plus(f[k - 1], terms[k].coeff)
    BY <1>1, <2>1, ReducedPlus
  <2> QED
    BY <1>2, <2>2
<1>4. f = Body(f)
  BY <1>1, <1>2, <1>3
<1>5. g = Body(g)
  <2> HIDE DEF Body
  <2> QED
    BY <1>4
<1>6. Value(c, terms, S) = g[n]
  BY DEF Value, n
<1> HIDE DEF g
<1> DEFINE T == {k \in Nat : k <= n => g[k] = f[k]}
<1>7. 0 \in T
  BY <1>1, <1>2, <1>5
<1>8. \A k \in Nat : k \in T => k + 1 \in T
  <2> SUFFICES ASSUME NEW k \in Nat, k \in T, k + 1 <= n PROVE g[k + 1] = f[k + 1]
    OBVIOUS
  <2>1. k + 1 \in 1 .. n /\ k + 1 \in 0 .. n /\ k + 1 # 0 /\ k + 1 - 1 = k /\ g[k] = f[k]
    BY <1>1
  <2>2. g[k + 1] = IF ToSet(terms[k + 1].variables) \subseteq S
                     THEN (g[k] + terms[k + 1].coeff) % Modulus ELSE g[k]
    <3> DEFINE m == k + 1
    <3>1. g[m] = IF ToSet(terms[m].variables) \subseteq S
                   THEN (g[m - 1] + terms[m].coeff) % Modulus ELSE g[m - 1]
      <4>1. m \in 0 .. n /\ m # 0
        BY <2>1
      <4> HIDE DEF m
      <4> QED
        BY <1>5, <4>1
    <3> QED
      BY <2>1, <3>1
  <2>3. f[k + 1] = IF ToSet(terms[k + 1].variables) \subseteq S
                     THEN (f[k] + terms[k + 1].coeff) % Modulus ELSE f[k]
    BY <1>3, <2>1
  <2> QED
    BY <2>1, <2>2, <2>3
<1>9. \A k \in Nat : k \in T
  <2> HIDE DEF T
  <2> QED
    BY <1>7, <1>8, Induction
<1>10. g[n] = f[n]
  BY <1>1, <1>9
<1> QED
  BY <1>6, <1>10 DEF n

\* The value of an expression is a word.
LEMMA ValueWord ==
  ASSUME NEW c \in Word, NEW terms \in TermLists, NEW S
  PROVE  Value(c, terms, S) \in Word
<1>1. PICK f : IsTrace(f, c, terms, S)
  BY TraceExists
<1>2. Len(terms) \in 0 .. Len(terms)
  BY TermType
<1> QED
  BY <1>1, <1>2, TraceUnique DEF IsTrace

\* Without terms, the value of an expression is its constant.
LEMMA ValueEmpty ==
  ASSUME NEW c \in Word, NEW S
  PROVE  Value(c, <<>>, S) = c
<1>1. <<>> \in TermLists /\ Len(<<>>) = 0
  BY DEF TermLists
<1>2. PICK f : IsTrace(f, c, <<>>, S)
  BY <1>1, TraceExists
<1>3. Value(c, <<>>, S) = f[Len(<<>>)]
  BY <1>1, <1>2, TraceUnique
<1>4. f[0] = c
  BY <1>2 DEF IsTrace
<1> QED
  BY <1>1, <1>3, <1>4

\* A term appended adds its coefficient where its variables are 1.
LEMMA ValueAppend ==
  ASSUME NEW c \in Word, NEW terms \in TermLists, NEW t \in Terms, NEW S
  PROVE  Value(c, Append(terms, t), S) =
           IF ToSet(t.variables) \subseteq S
             THEN Abstract!Plus(Value(c, terms, S), t.coeff) ELSE Value(c, terms, S)
<1> DEFINE n == Len(terms)
           more == Append(terms, t)
<1>1. /\ more \in TermLists /\ n \in Nat /\ Len(more) = n + 1
      /\ \A k \in 1 .. n : more[k] = terms[k]
      /\ more[n + 1] = t
  <2> DEFINE W == Terms
  <2> HIDE DEF W
  <2>1. ASSUME terms \in Seq(W), t \in W
        PROVE  /\ more \in Seq(W) /\ n \in Nat /\ Len(more) = n + 1
               /\ \A k \in 1 .. n : more[k] = terms[k]
               /\ more[n + 1] = t
    BY <2>1, Appended
  <2> QED
    BY <2>1 DEF W, TermLists
<1> HIDE DEF more, n
<1>2. PICK f : IsTrace(f, c, more, S)
  BY <1>1, TraceExists
<1> DEFINE g == [k \in 0 .. n |-> f[k]]
<1>3. /\ f \in [0 .. n + 1 -> Word] /\ f[0] = c
      /\ \A k \in 1 .. n + 1 :
           f[k] = IF ToSet(more[k].variables) \subseteq S
                    THEN Abstract!Plus(f[k - 1], more[k].coeff) ELSE f[k - 1]
  BY <1>1, <1>2 DEF IsTrace
<1>4. IsTrace(g, c, terms, S)
  <2>1. g \in [0 .. n -> Word] /\ g[0] = c
    BY <1>1, <1>3
  <2>2. ASSUME NEW k \in 1 .. n
        PROVE  g[k] = IF ToSet(terms[k].variables) \subseteq S
                        THEN Abstract!Plus(g[k - 1], terms[k].coeff) ELSE g[k - 1]
    <3>1. k \in 1 .. n + 1 /\ k \in 0 .. n /\ k - 1 \in 0 .. n /\ more[k] = terms[k]
      BY <1>1
    <3>2. g[k] = f[k] /\ g[k - 1] = f[k - 1]
      BY <3>1
    <3> HIDE DEF g
    <3> QED
      BY <1>3, <3>1, <3>2
  <2> HIDE DEF g
  <2> QED
    BY <2>1, <2>2 DEF IsTrace, n
<1>5. Value(c, terms, S) = f[n]
  <2>1. g[n] = f[n]
    BY <1>1
  <2>2. Value(c, terms, S) = g[n]
    <3> HIDE DEF g
    <3> QED
      BY <1>4, TraceUnique DEF n
  <2> QED
    BY <2>1, <2>2
<1>6. Value(c, more, S) = f[n + 1]
  BY <1>1, <1>2, TraceUnique
<1>7. n + 1 \in 1 .. n + 1 /\ n + 1 - 1 = n
  BY <1>1
<1>8. f[n + 1] = IF ToSet(t.variables) \subseteq S
                   THEN Abstract!Plus(f[n], t.coeff) ELSE f[n]
  BY <1>1, <1>3, <1>7
<1> QED
  BY <1>5, <1>6, <1>8 DEF more

----------------------------------------------------------------------------
\* The loops implement the elimination of LinearDecomposition.

\* The decomposition has the same words and the same assignments.
LEMMA ConstantFacts == Modulus \in Nat \ {0} /\ Abstract!Word = Word /\ Abstract!Assignments = Sets
BY SizeAssumption DEF Abstract!Word, Word, Abstract!Assignments, Sets

\* The variables of the abstract specification, before and after a step.
LEMMA Mapped ==
  /\ \A S \in Sets : /\ AsFunction(resultVector)[S] = resultVector[AsIndex(S)]
                     /\ AsFunction(resultVector')[S] = resultVector'[AsIndex(S)]
                     /\ AsFunction(initialResultVector)[S] = initialResultVector[AsIndex(S)]
  /\ \A S : ValueOf(S) = Value(constant, expr, S)
  /\ \A S : ValueOf(S)' = Value(constant', expr', S)
<1>1. \A S \in Sets : /\ AsFunction(resultVector)[S] = resultVector[AsIndex(S)]
                      /\ AsFunction(resultVector')[S] = resultVector'[AsIndex(S)]
                      /\ AsFunction(initialResultVector)[S] = initialResultVector[AsIndex(S)]
  BY DEF AsFunction, Sets
<1>2. \A S : ValueOf(S) = Value(constant, expr, S)
  BY DEF ValueOf, Value
<1>3. \A S : ValueOf(S)' = Value(constant', expr', S)
  BY DEF ValueOf, Value
<1> QED
  BY <1>1, <1>2, <1>3

\* The expression and its constant are of the types the lemmas on values ask for.
LEMMA TermListType == TypeOK => expr \in TermLists /\ constant \in Word
BY DEF TypeOK, TermLists, Terms, Combs

\* The loops start where the decomposition does: no term, and the given vector.
LEMMA InitRefines == Init => Abstract!Init
<1> SUFFICES ASSUME Init PROVE Abstract!Init
  OBVIOUS
<1>1. AsFunction(initialResultVector) \in [Sets -> Word]
  BY IndexOfSet DEF Init, AsFunction, Sets
<1>2. [S \in Sets |-> ValueOf(S)] = [S \in Sets |-> 0]
  <2>1. 0 \in Word
    BY SizeAssumption DEF Word
  <2>2. \A S : Value(0, <<>>, S) = 0
    BY <2>1, ValueEmpty
  <2>3. \A S : ValueOf(S) = 0
    BY <2>2, Mapped DEF Init
  <2> QED
    BY <2>3
<1>3. Todo = Sets
  BY DEF Init, Todo, Sets
<1> QED
  BY <1>1, <1>2, <1>3, ConstantFacts DEF Init, Abstract!Init, Sets

\* The steps that only list conjunctions change none of the values.
LEMMA ListingStutters ==
  ASSUME IInv,
         ListSingletons \/ NextRound \/ EnlargeCombination \/ CombinationsListed \/ Return
  PROVE  UNCHANGED Abstract!vars
<1>1. UNCHANGED <<initialResultVector, resultVector, constant, expr, position>>
  BY DEF ListSingletons, NextRound, EnlargeCombination, CombinationsListed, Return, termVars
<1>2. pc # "constant" /\ pc' # "constant"
  BY DEF ListSingletons, NextRound, EnlargeCombination, CombinationsListed, Return
<1>3. {ToSet(combinations[k]) : k \in 1 .. position - 1}' =
        {ToSet(combinations[k]) : k \in 1 .. position - 1}
  <2>1. CASE ListSingletons \/ NextRound \/ EnlargeCombination
    <3>1. 1 .. position - 1 = {} /\ 1 .. position' - 1 = {}
      BY <1>1, <2>1 DEF IInv, PhaseOK, ListSingletons, NextRound, EnlargeCombination
    <3> QED
      BY <3>1
  <2>2. CASE CombinationsListed \/ Return
    BY <1>1, <2>2 DEF CombinationsListed, Return, ToSet
  <2> QED
    BY <2>1, <2>2
<1>4. Todo' = Todo
  BY <1>2, <1>3 DEF Todo
<1>5. [S \in Sets |-> ValueOf(S)]' = [S \in Sets |-> ValueOf(S)]
  <2>1. \A S : ValueOf(S)' = ValueOf(S)
    BY <1>1, Mapped
  <2> QED
    BY <2>1 DEF Sets
<1>6. /\ AsFunction(initialResultVector)' = AsFunction(initialResultVector)
      /\ AsFunction(resultVector)' = AsFunction(resultVector)
  BY <1>1 DEF AsFunction, AsIndex
<1> QED
  BY <1>4, <1>5, <1>6 DEF Abstract!vars, Sets

\* Subtracting the constant is the elimination of the empty conjunction.
LEMMA SubtractConstantRefines ==
  ASSUME IInv, SubtractConstant
  PROVE  Abstract!Eliminate({})
<1>1. /\ TypeOK /\ pc = "constant" /\ pc' = "singletons" /\ constant = 0
      /\ position = 1 /\ expr = <<>> /\ constant' = resultVector[0]
      /\ resultVector' = [i \in Entries |->
           IF i = 0 THEN resultVector[0] ELSE (resultVector[i] - resultVector[0]) % Modulus]
      /\ UNCHANGED <<initialResultVector, expr, position>>
  BY DEF IInv, PhaseOK, SubtractConstant
<1>2. {} \in Sets /\ 0 \in Entries /\ AsIndex({}) = 0
  BY IndexOfEmpty DEF Sets
<1>3. \A i \in Entries : resultVector[i] \in Word
  BY <1>1 DEF TypeOK
<1> DEFINE c == AsFunction(resultVector)[{}]
<1>4. c = resultVector[0] /\ c \in Word
  BY <1>2, <1>3, Mapped
<1> HIDE DEF c
<1>5. {} \in Todo /\ Abstract!Lowest({})
  BY <1>1, <1>2 DEF Todo, Sets, Abstract!Lowest
<1>6. AsFunction(resultVector)' = Abstract!Residual({}, c)
  <2>1. ASSUME NEW S \in Sets
        PROVE  AsFunction(resultVector')[S] =
                 IF {} \subseteq S /\ {} # S
                   THEN Abstract!Minus(AsFunction(resultVector)[S], c)
                   ELSE AsFunction(resultVector)[S]
    <3>1. AsIndex(S) \in Entries /\ (AsIndex(S) = 0 <=> S = {})
      BY <1>2, IndexOfSet, IndexOfEmpty
    <3>2. (resultVector[AsIndex(S)] - c) % Modulus = Abstract!Minus(resultVector[AsIndex(S)], c)
      BY <1>3, <1>4, <3>1, ReducedMinus
    <3> QED
      BY <1>1, <1>4, <3>1, <3>2, Mapped
  <2>2. AsFunction(resultVector)' = [S \in Sets |-> AsFunction(resultVector')[S]]
    BY DEF AsFunction, Sets, AsIndex
  <2> QED
    BY <2>1, <2>2, ConstantFacts DEF Abstract!Residual
<1>7. [S \in Sets |-> ValueOf(S)]' = Abstract!WithTerm({}, c)
  <2>1. ASSUME NEW S \in Sets
        PROVE  ValueOf(S)' = Abstract!Plus(ValueOf(S), c)
    <3>1. 0 \in Word
      BY SizeAssumption DEF Word
    <3>2. ValueOf(S) = 0 /\ ValueOf(S)' = c
      BY <1>1, <1>4, <3>1, Mapped, ValueEmpty
    <3>3. Abstract!Plus(0, c) = c
      <4>1. c \in 0 .. Modulus - 1 /\ Modulus \in Nat
        BY <1>4, SizeAssumption DEF Word
      <4> QED
        BY <4>1 DEF Abstract!Plus
    <3> QED
      BY <3>2, <3>3
  <2>2. [S \in Sets |-> ValueOf(S)]' = [S \in Sets |-> Abstract!Plus(ValueOf(S), c)]
    BY <2>1 DEF Sets
  <2> QED
    BY <2>2, ConstantFacts DEF Abstract!WithTerm, Sets
<1>8. Todo' = Todo \ {{}}
  <2>1. 1 .. position' - 1 = {}
    BY <1>1
  <2> QED
    BY <1>1, <2>1 DEF Todo
<1>9. AsFunction(initialResultVector)' = AsFunction(initialResultVector)
  BY <1>1 DEF AsFunction, AsIndex
<1> QED
  BY <1>5, <1>6, <1>7, <1>8, <1>9 DEF Abstract!Eliminate, c, Sets

\* An iteration of the loop over the conjunctions is the elimination of its own.
LEMMA AppendTermRefines ==
  ASSUME IInv, AppendTerm
  PROVE  Abstract!Eliminate(ToSet(combinations[position]))
<1> DEFINE comb == combinations[position]
           index == IndexOf(comb)
           coeff == resultVector[index]
           own == ToSet(comb)
           c == AsFunction(resultVector)[own]
           term == [coeff |-> coeff, variables |-> comb]
<1>1. /\ TypeOK /\ ListOK /\ pc = "terms" /\ CombinationsExact
      /\ resultVector' = IF coeff = 0 THEN resultVector
                                      ELSE subtract_coefficient(coeff, index, comb)
      /\ expr' = IF coeff = 0 THEN expr ELSE Append(expr, term)
      /\ position' = position + 1
      /\ UNCHANGED <<pc, initialResultVector, combinations, constant>>
  BY CombinationsExactFromIInv DEF IInv, AppendTerm, append_conjunction
<1>2. /\ position \in 1 .. Len(combinations) /\ comb \in Combs /\ Ascends(comb)
      /\ Len(comb) >= 1 /\ index \in Entries /\ AsSet(index) = own /\ coeff \in Word
  BY TermFacts
<1>3. /\ Len(combinations) \in Nat /\ DOMAIN combinations = 1 .. Len(combinations)
      /\ position \in Nat \ {0}
  BY <1>1, ListType
<1>4. /\ own \in Sets /\ AsIndex(own) = index /\ c = coeff
  BY <1>2, IndexOfSet, Mapped
<1>5. Targets(index, comb) = {i \in Entries : own \subseteq AsSet(i) /\ i # index}
  BY <1>2, TargetsCorrect
<1>6. expr \in TermLists /\ constant \in Word /\ (coeff # 0 => term \in Terms)
      /\ term.coeff = coeff /\ term.variables = comb
  BY <1>1, <1>2, TermListType DEF Terms
<1>7. own = ToSet(combinations[position])
  OBVIOUS
<1>8. own # {}
  <2>1. comb[1] \in own
    <3>1. 1 \in DOMAIN comb
      BY <1>2, CombType
    <3> QED
      BY <3>1 DEF ToSet
  <2> QED
    BY <2>1
<1>9. own = ToSet(comb)
  OBVIOUS
<1> HIDE DEF comb, index, coeff, own, c, term
<1>10. \A j, k \in 1 .. Len(combinations) :
         j < k => ~ ToSet(combinations[k]) \subseteq ToSet(combinations[j])
  BY <1>1, <1>3 DEF CombinationsExact
<1>11. own \in Todo
  <2>1. \A k \in 1 .. position - 1 : own # ToSet(combinations[k])
    <3> SUFFICES ASSUME NEW k \in 1 .. position - 1
                 PROVE  own # ToSet(combinations[k])
      OBVIOUS
    <3>1. k \in 1 .. Len(combinations) /\ k < position
      BY <1>2, <1>3
    <3>2. ~ own \subseteq ToSet(combinations[k])
      BY <1>2, <1>7, <1>10, <3>1
    <3> QED
      BY <3>2
  <2> QED
    BY <1>4, <1>8, <2>1 DEF Todo, Sets
<1>12. Abstract!Lowest(own)
  <2> SUFFICES ASSUME NEW S \in Todo, S \subseteq own, S # own
               PROVE  FALSE
    BY DEF Abstract!Lowest
  <2>1. /\ S \in (SUBSET (0 .. vnumber - 1)) \ {{}}
        /\ \A k \in 1 .. position - 1 : S # ToSet(combinations[k])
    BY <1>1 DEF Todo
  <2>2. PICK k \in 1 .. Len(combinations) : ToSet(combinations[k]) = S
    BY <1>1, <1>3, <2>1 DEF CombinationsExact
  <2>3. k >= position
    BY <1>3, <2>1, <2>2
  <2>4. k # position
    BY <1>7, <2>2
  <2>5. ~ S \subseteq own
    BY <1>2, <1>3, <1>7, <1>10, <2>2, <2>3, <2>4
  <2> QED
    BY <2>5
<1>13. \A i \in Entries : resultVector[i] \in Word
  BY <1>1 DEF TypeOK
<1>14. ASSUME NEW x \in Word PROVE Abstract!Minus(x, 0) = x /\ Abstract!Plus(x, 0) = x
  <2>1. Modulus \in Nat /\ x \in 0 .. Modulus - 1
    BY SizeAssumption DEF Word
  <2> QED
    BY <2>1 DEF Abstract!Minus, Abstract!Plus
<1>15. AsFunction(resultVector)' = Abstract!Residual(own, c)
  <2>1. ASSUME NEW S \in Sets
        PROVE  AsFunction(resultVector')[S] =
                 IF own \subseteq S /\ own # S
                   THEN Abstract!Minus(AsFunction(resultVector)[S], c)
                   ELSE AsFunction(resultVector)[S]
    <3> DEFINE i == AsIndex(S)
    <3>1. /\ i \in Entries /\ AsSet(i) = S
          /\ AsFunction(resultVector')[S] = resultVector'[i]
          /\ AsFunction(resultVector)[S] = resultVector[i]
      BY IndexOfSet, Mapped
    <3>2. i # index <=> own # S
      BY <1>2, <1>4, <3>1
    <3> HIDE DEF i
    <3>3. CASE coeff = 0
      BY <1>1, <1>4, <1>13, <1>14, <3>1, <3>3
    <3>4. CASE coeff # 0
      <4>1. resultVector'[i] = IF i \in Targets(index, comb)
                                 THEN (resultVector[i] - coeff) % Modulus ELSE resultVector[i]
        BY <1>1, <3>1, <3>4 DEF subtract_coefficient
      <4>2. i \in Targets(index, comb) <=> own \subseteq S /\ own # S
        BY <1>5, <3>1, <3>2
      <4>3. (resultVector[i] - coeff) % Modulus = Abstract!Minus(resultVector[i], coeff)
        BY <1>2, <1>13, <3>1, ReducedMinus
      <4> QED
        BY <1>4, <3>1, <4>1, <4>2, <4>3
    <3> QED
      BY <3>3, <3>4
  <2>2. AsFunction(resultVector)' = [S \in Sets |-> AsFunction(resultVector')[S]]
    BY DEF AsFunction, Sets, AsIndex
  <2> QED
    BY <2>1, <2>2, ConstantFacts DEF Abstract!Residual
<1>16. [S \in Sets |-> ValueOf(S)]' = Abstract!WithTerm(own, c)
  <2>1. ASSUME NEW S \in Sets
        PROVE  ValueOf(S)' = IF own \subseteq S THEN Abstract!Plus(ValueOf(S), c) ELSE ValueOf(S)
    <3>1. ValueOf(S) = Value(constant, expr, S) /\ ValueOf(S)' = Value(constant, expr', S)
      BY <1>1, Mapped
    <3>2. ValueOf(S) \in Word
      BY <1>6, <3>1, ValueWord
    <3>3. CASE coeff = 0
      <4>1. expr' = expr /\ c = 0
        BY <1>1, <1>4, <3>3
      <4>2. Abstract!Plus(ValueOf(S), 0) = ValueOf(S)
        BY <1>14, <3>2
      <4>3. ValueOf(S)' = ValueOf(S)
        BY <3>1, <4>1
      <4> QED
        BY <4>1, <4>2, <4>3
    <3>4. CASE coeff # 0
      <4>1. expr' = Append(expr, term) /\ term \in Terms
        BY <1>1, <1>6, <3>4
      <4>2. Value(constant, Append(expr, term), S) =
              IF own \subseteq S
                THEN Abstract!Plus(Value(constant, expr, S), c) ELSE Value(constant, expr, S)
        BY <1>4, <1>6, <1>9, <4>1, ValueAppend
      <4> QED
        BY <3>1, <4>1, <4>2
    <3> QED
      BY <3>3, <3>4
  <2>2. [S \in Sets |-> ValueOf(S)]' =
          [S \in Sets |-> IF own \subseteq S THEN Abstract!Plus(ValueOf(S), c) ELSE ValueOf(S)]
    BY <2>1 DEF Sets
  <2> QED
    BY <2>2, ConstantFacts DEF Abstract!WithTerm, Sets
<1>17. Todo' = Todo \ {own}
  <2>1. \A k : k \in 1 .. position' - 1 <=> k \in 1 .. position - 1 \/ k = position
    BY <1>1, <1>3
  <2>2. {ToSet(combinations'[k]) : k \in 1 .. position' - 1} =
          {ToSet(combinations[k]) : k \in 1 .. position - 1} \cup {own}
    BY <1>1, <1>7, <2>1
  <2>3. Todo' = (SUBSET (0 .. vnumber - 1)) \
                  ({{}} \cup {ToSet(combinations'[k]) : k \in 1 .. position' - 1})
    BY <1>1 DEF Todo, ToSet
  <2>4. Todo = (SUBSET (0 .. vnumber - 1)) \
                 ({{}} \cup {ToSet(combinations[k]) : k \in 1 .. position - 1})
    BY <1>1 DEF Todo
  <2> QED
    BY <2>2, <2>3, <2>4
<1>18. AsFunction(initialResultVector)' = AsFunction(initialResultVector)
  BY <1>1 DEF AsFunction, AsIndex
<1>19. Abstract!Eliminate(own)
  BY <1>11, <1>12, <1>15, <1>16, <1>17, <1>18 DEF Abstract!Eliminate, c, Sets
<1> QED
  BY <1>7, <1>19

\* Every step of the loops is a step of the decomposition, or changes nothing of it:
\* listing the conjunctions, and passing one whose coefficient is 0 after all.
LEMMA StepRefines == IInv /\ [Next]_vars => [Abstract!Next]_Abstract!vars
<1> SUFFICES ASSUME IInv, [Next]_vars
             PROVE  Abstract!Next \/ UNCHANGED Abstract!vars
  OBVIOUS
<1>1. CASE SubtractConstant
  <2>1. {} \in Abstract!Assignments
    BY DEF Abstract!Assignments
  <2> QED
    BY <1>1, <2>1, SubtractConstantRefines DEF Abstract!Next
<1>2. CASE AppendTerm
  <2>1. ToSet(combinations[position]) \in Abstract!Assignments
    <3>1. combinations[position] \in Combs
      BY <1>2, TermFacts
    <3>2. ToSet(combinations[position]) \in SUBSET (0 .. vnumber - 1)
      BY <3>1, CombType DEF ToSet
    <3> QED
      BY <3>2 DEF Abstract!Assignments
  <2> QED
    BY <1>2, <2>1, AppendTermRefines DEF Abstract!Next
<1>3. CASE ListSingletons \/ NextRound \/ EnlargeCombination \/ CombinationsListed \/ Return
  BY <1>3, ListingStutters
<1>4. CASE UNCHANGED vars
  <2>1. UNCHANGED <<pc, initialResultVector, resultVector, combinations, constant, expr,
                    position>>
    BY <1>4 DEF vars, termVars
  <2>2. Todo' = Todo
    BY <2>1 DEF Todo, ToSet
  <2>3. [S \in Sets |-> ValueOf(S)]' = [S \in Sets |-> ValueOf(S)]
    <3>1. \A S : ValueOf(S)' = ValueOf(S)
      BY <2>1, Mapped
    <3> QED
      BY <3>1 DEF Sets
  <2>4. /\ AsFunction(initialResultVector)' = AsFunction(initialResultVector)
        /\ AsFunction(resultVector)' = AsFunction(resultVector)
    BY <2>1 DEF AsFunction, AsIndex
  <2> QED
    BY <2>2, <2>3, <2>4 DEF Abstract!vars, Sets
<1> QED
  BY <1>1, <1>2, <1>3, <1>4 DEF Next

\* simplify_generic implements the elimination: whatever it does with lists,
\* indices and strides, its values change as LinearDecomposition says.
THEOREM RefinesDecomposition == Spec => ImplementsDecomposition
BY InitRefines, StepRefines, Invariance, PTL
   DEF Spec, ImplementsDecomposition, Abstract!Spec

----------------------------------------------------------------------------

\* The theorems about LinearDecomposition, read in terms of this module.
Theory == INSTANCE LinearDecomposition_proof WITH
  Variables    <- 0 .. vnumber - 1,
  original     <- AsFunction(initialResultVector),
  resultVector <- AsFunction(resultVector),
  expr         <- [S \in SUBSET (0 .. vnumber - 1) |-> ValueOf(S)],
  todo         <- Todo

\* What is proved of every decomposition holds of the one the loops make: the theorem
\* of LinearDecomposition_proof, for the constants and the mapping of this module.
LEMMA AccountedHere == Spec => []Theory!Accounted
<1>1. Modulus \in Nat \ {0}
  BY SizeAssumption
<1>2. Theory!Spec => []Theory!Accounted
  BY <1>1, Theory!AlwaysAccounted
<1>3. Init => Theory!Init
  <2>1. Abstract!Init => Theory!Init
    BY DEF Abstract!Init, Theory!Init, Abstract!Assignments, Theory!Assignments,
           Abstract!Word, Theory!Word
  <2> QED
    BY <2>1, InitRefines
<1>4. IInv /\ [Next]_vars => [Theory!Next]_Theory!vars
  <2>1. [Abstract!Next]_Abstract!vars => [Theory!Next]_Theory!vars
    BY DEF Abstract!Next, Theory!Next, Abstract!vars, Theory!vars,
           Abstract!Eliminate, Theory!Eliminate, Abstract!Assignments, Theory!Assignments,
           Abstract!Lowest, Theory!Lowest, Abstract!Residual, Theory!Residual,
           Abstract!WithTerm, Theory!WithTerm, Abstract!Plus, Theory!Plus,
           Abstract!Minus, Theory!Minus
  <2> QED
    BY <2>1, StepRefines
<1> QED
  BY <1>2, <1>3, <1>4, Invariance, PTL DEF Spec, Theory!Spec

\* The terms simplify_generic returns have the value of the input under every truth
\* assignment, and no two are of the same variables: for any number of variables,
\* any width and any result vector.
THEOREM ResultIsExact == Spec => []ReturnedExact
<1>1. IInv /\ Theory!Accounted => ReturnedExact
  <2> SUFFICES ASSUME IInv, Theory!Accounted, pc = "done"
               PROVE  /\ \A i \in Entries : ValueOf(AsSet(i)) = initialResultVector[i]
                      /\ \A j, k \in DOMAIN expr :
                           j # k => expr[j].variables # expr[k].variables
    BY DEF ReturnedExact
  <2>1. /\ TypeOK /\ TermsOK /\ position > Len(combinations) /\ CombinationsExact
    BY CombinationsExactFromIInv DEF IInv, PhaseOK
  <2>2. /\ Len(combinations) \in Nat /\ DOMAIN combinations = 1 .. Len(combinations)
        /\ position \in Nat
    BY <2>1, ListType
  <2>3. Todo = {}
    <3>1. ASSUME NEW S \in (SUBSET (0 .. vnumber - 1)) \ {{}}
          PROVE  \E k \in 1 .. position - 1 : ToSet(combinations[k]) = S
      <4>1. PICK k \in DOMAIN combinations : ToSet(combinations[k]) = S
        BY <2>1 DEF CombinationsExact
      <4>2. k \in 1 .. position - 1
        BY <2>1, <2>2
      <4> QED
        BY <4>1, <4>2
    <3> QED
      BY <3>1 DEF Todo
  <2>4. \A S \in Sets : AsFunction(initialResultVector)[S] = ValueOf(S)
    BY <2>3 DEF Theory!Accounted, Theory!Assignments, Sets
  <2>5. ASSUME NEW i \in Entries
        PROVE  ValueOf(AsSet(i)) = initialResultVector[i]
    BY <2>4, IndexOfSet, Mapped
  <2> QED
    BY <2>1, <2>5 DEF TermsOK
<1> QED
  BY <1>1, AccountedHere, Invariance, PTL

=============================================================================
