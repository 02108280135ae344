-------------------------- MODULE TryRefine_proof --------------------------
(***************************************************************************)
(* The rules of try_refine, for every width and every result vector: what  *)
(* each of them returns has the values of the input, but for the case that *)
(* FaithfulUnlessApart excepts, and is not longer while there are at most  *)
(* three nonzero values.                                                   *)
(***************************************************************************)
EXTENDS TryRefine, TruthTable_proof, SequenceTheorems

\* Induction up to a bound: what holds at 0 and is kept by every step.
LEMMA UpTo ==
  ASSUME NEW n \in Nat, NEW T, 0 \in T, \A k \in 1 .. n : k - 1 \in T => k \in T
  PROVE  \A k \in 0 .. n : k \in T
<1> DEFINE U == {k \in Nat : k <= n => k \in T}
<1>1. 0 \in U
  OBVIOUS
<1>2. ASSUME NEW k \in Nat, k \in U
      PROVE  k + 1 \in U
  <2>1. k + 1 <= n => k \in T /\ k + 1 \in 1 .. n /\ (k + 1) - 1 = k
    BY <1>2
  <2> QED
    BY <2>1
<1>3. \A k \in Nat : k \in U
  <2> HIDE DEF U
  <2> QED
    BY <1>1, <1>2, Induction
<1> QED
  BY <1>3

\* A loop of n steps on W, and what it goes through from x on.
Steps(W, n) == [1 .. n -> [W -> W]]
Runs(f, W, n, x, step) ==
  /\ f \in [0 .. n -> W]
  /\ f[0] = x
  /\ \A k \in 1 .. n : f[k] = step[k][f[k - 1]]

\* A loop runs from wherever it starts.
LEMMA LoopRuns ==
  ASSUME NEW W, NEW x \in W, NEW n \in Nat, NEW step \in Steps(W, n)
  PROVE  \E f : Runs(f, W, n, x, step)
<1>1. step \in [1 .. n -> [W -> W]]
  BY DEF Steps
<1>2. \E f \in [0 .. n -> W] : f[0] = x /\ \A k \in 1 .. n : f[k] = step[k][f[k - 1]]
  BY <1>1, Trace
<1> QED
  BY <1>2 DEF Runs

----------------------------------------------------------------------------
\* Words.

\* Reducing gives a word.
LEMMA Reduced ==
  ASSUME NEW a \in Int
  PROVE  a % Modulus \in Word
BY SizeAssumption DEF Word

\* What differs from a word by the modulus, once or twice, reduces to it.
LEMMA Wraps ==
  ASSUME NEW r \in Word, NEW x \in Int,
         x \in {r - 2 * Modulus, r - Modulus, r, r + Modulus, r + 2 * Modulus}
  PROVE  x % Modulus = r
BY SizeAssumption DEF Word

----------------------------------------------------------------------------
\* The value of a sum of terms.

\* The terms of an expression, one by one.
LEMMA TermType ==
  ASSUME NEW terms \in Seq(Terms)
  PROVE  /\ Len(terms) \in Nat /\ DOMAIN terms = 1 .. Len(terms)
         /\ \A k \in 1 .. Len(terms) :
              terms[k] \in Terms /\ terms[k].coeff \in Word \ {0} /\ terms[k].coeff \in Int
<1> DEFINE W == Terms
<1>1. terms \in Seq(W) /\ \A t \in W : t.coeff \in Word \ {0} /\ t.coeff \in Int
  BY SizeAssumption DEF Terms, Word
<1> HIDE DEF W
<1>2. /\ Len(terms) \in Nat /\ DOMAIN terms = 1 .. Len(terms)
      /\ \A k \in 1 .. Len(terms) : terms[k] \in W
  BY <1>1
<1> QED
  BY <1>1, <1>2 DEF W

\* A bitwise expression is one of four words.
LEMMA WordAtType ==
  ASSUME NEW t, NEW i
  PROVE  WordAt(t, i) \in {-2, -1, 0, 1} /\ WordAt(t, i) \in Int
BY DEF WordAt

IsTrace(f, c, terms, i) ==
  /\ f \in [0 .. Len(terms) -> Word]
  /\ f[0] = c
  /\ \A k \in 1 .. Len(terms) :
       f[k] = (f[k - 1] + terms[k].coeff * WordAt(terms[k], i)) % Modulus

\* The terms of an expression can be added up one after the other.
LEMMA TraceExists ==
  ASSUME NEW c \in Word, NEW terms \in Seq(Terms), NEW i
  PROVE  \E f : IsTrace(f, c, terms, i)
<1> DEFINE n == Len(terms)
           W == Word
           step == [k \in 1 .. n |->
                      [x \in W |-> (x + terms[k].coeff * WordAt(terms[k], i)) % Modulus]]
<1>1. n \in Nat /\ \A k \in 1 .. n : terms[k].coeff \in Int
  BY TermType
<1>2. step \in [1 .. n -> [W -> W]]
  <2>1. ASSUME NEW k \in 1 .. n, NEW x \in W
        PROVE  (x + terms[k].coeff * WordAt(terms[k], i)) % Modulus \in W
    <3> DEFINE y == terms[k].coeff * WordAt(terms[k], i)
    <3>1. y \in Int /\ x \in Int
      BY <1>1, WordAtType, SizeAssumption DEF Word
    <3> HIDE DEF y
    <3>2. (x + y) % Modulus \in W
      BY <3>1, Reduced
    <3> QED
      BY <3>2 DEF y
  <2> HIDE DEF W, n
  <2> QED
    BY <2>1
<1>3. PICK f \in [0 .. n -> W] : f[0] = c /\ \A k \in 1 .. n : f[k] = step[k][f[k - 1]]
  <2>1. c \in W /\ n \in Nat /\ step \in Steps(W, n)
    BY <1>1, <1>2 DEF Steps
  <2>2. \E f : Runs(f, W, n, c, step)
    <3> HIDE DEF step, n, W
    <3> QED
      BY <2>1, LoopRuns
  <2> QED
    BY <2>2 DEF Runs
<1>4. ASSUME NEW k \in 1 .. n
      PROVE  f[k] = (f[k - 1] + terms[k].coeff * WordAt(terms[k], i)) % Modulus
  <2>1. f[k - 1] \in W
    BY <1>1
  <2>2. step[k] = [x \in W |-> (x + terms[k].coeff * WordAt(terms[k], i)) % Modulus]
    OBVIOUS
  <2> HIDE DEF W, step, n
  <2> QED
    BY <1>3, <2>1, <2>2
<1> QED
  BY <1>3, <1>4 DEF IsTrace

\* There is one way to add them up, and it gives the value of the expression.
LEMMA TraceUnique ==
  ASSUME NEW c \in Word, NEW terms \in Seq(Terms), NEW i, NEW f, IsTrace(f, c, terms, i)
  PROVE  ValueAt(Sum(c, terms), i) = f[Len(terms)]
<1> DEFINE n == Len(terms)
           Body(h) == [k \in 0 .. n |->
             IF k = 0 THEN c
             ELSE (h[k - 1] + terms[k].coeff * WordAt(terms[k], i)) % Modulus]
           g == CHOOSE h : h = Body(h)
           T == {k \in 0 .. n : g[k] = f[k]}
<1>1. n \in Nat
  BY TermType
<1>2. f = Body(f)
  BY DEF IsTrace
<1>3. g = Body(g)
  <2> HIDE DEF Body
  <2> QED
    BY <1>2
<1>4. ValueAt(Sum(c, terms), i) = g[n]
  BY DEF ValueAt, Sum
<1> HIDE DEF g
<1>5. 0 \in T
  BY <1>1, <1>2, <1>3
<1>6. ASSUME NEW k \in 1 .. n, k - 1 \in T
      PROVE  k \in T
  <2>1. k \in 0 .. n /\ k # 0
    BY <1>1
  <2>2. g[k] = (g[k - 1] + terms[k].coeff * WordAt(terms[k], i)) % Modulus
    BY <1>3, <2>1
  <2>3. f[k] = (f[k - 1] + terms[k].coeff * WordAt(terms[k], i)) % Modulus
    BY <1>2, <2>1
  <2> QED
    BY <1>6, <2>1, <2>2, <2>3
<1>7. \A k \in 0 .. n : k \in T
  <2> HIDE DEF T, n
  <2> QED
    BY <1>1, <1>5, <1>6, UpTo
<1> QED
  BY <1>1, <1>4, <1>7

\* The value of an expression is a word; without terms it is the constant.
LEMMA ValueWord ==
  ASSUME NEW c \in Word, NEW terms \in Seq(Terms), NEW i
  PROVE  ValueAt(Sum(c, terms), i) \in Word /\ ValueAt(Sum(c, <<>>), i) = c
<1>1. PICK f : IsTrace(f, c, terms, i)
  BY TraceExists
<1>2. Len(terms) \in 0 .. Len(terms)
  BY TermType
<1>3. <<>> \in Seq(Terms) /\ Len(<<>>) = 0
  OBVIOUS
<1>4. PICK h : IsTrace(h, c, <<>>, i)
  BY <1>3, TraceExists
<1>5. ValueAt(Sum(c, <<>>), i) = h[0]
  BY <1>3, <1>4, TraceUnique
<1>6. ValueAt(Sum(c, terms), i) = f[Len(terms)]
  BY <1>1, TraceUnique
<1>7. f[Len(terms)] \in Word /\ h[0] = c
  BY <1>1, <1>2, <1>4 DEF IsTrace
<1> QED
  BY <1>5, <1>6, <1>7

\* A sequence with one element more.
LEMMA Appended ==
  ASSUME NEW W, NEW s \in Seq(W), NEW x \in W
  PROVE  /\ Append(s, x) \in Seq(W) /\ Len(s) \in Nat /\ Len(Append(s, x)) = Len(s) + 1
         /\ DOMAIN s = 1 .. Len(s) /\ DOMAIN Append(s, x) = 1 .. Len(s) + 1
         /\ \A k \in 1 .. Len(s) : Append(s, x)[k] = s[k]
         /\ Append(s, x)[Len(s) + 1] = x
BY AppendProperties

\* A term that is appended adds its coefficient times its word.
LEMMA ValueAppend ==
  ASSUME NEW c \in Word, NEW terms \in Seq(Terms), NEW t \in Terms, NEW i
  PROVE  /\ Append(terms, t) \in Seq(Terms)
         /\ ValueAt(Sum(c, Append(terms, t)), i) =
              (ValueAt(Sum(c, terms), i) + t.coeff * WordAt(t, i)) % Modulus
<1> DEFINE n == Len(terms)
           more == Append(terms, t)
           W == Terms
<1>1. /\ more \in Seq(W) /\ n \in Nat /\ Len(more) = n + 1
      /\ \A k \in 1 .. n : more[k] = terms[k]
      /\ more[n + 1] = t
  <2>1. terms \in Seq(W) /\ t \in W
    OBVIOUS
  <2> HIDE DEF W
  <2> QED
    BY <2>1, Appended
<1> HIDE DEF more, n
<1>2. PICK f : IsTrace(f, c, more, i)
  BY <1>1, TraceExists
<1> DEFINE g == [k \in 0 .. n |-> f[k]]
<1>3. /\ f \in [0 .. n + 1 -> Word] /\ f[0] = c
      /\ \A k \in 1 .. n + 1 :
           f[k] = (f[k - 1] + more[k].coeff * WordAt(more[k], i)) % Modulus
  BY <1>1, <1>2 DEF IsTrace
<1>4. IsTrace(g, c, terms, i)
  <2>1. g \in [0 .. n -> Word] /\ g[0] = c
    BY <1>1, <1>3
  <2>2. ASSUME NEW k \in 1 .. n
        PROVE  g[k] = (g[k - 1] + terms[k].coeff * WordAt(terms[k], i)) % Modulus
    <3>1. k \in 1 .. n + 1 /\ k \in 0 .. n /\ k - 1 \in 0 .. n /\ more[k] = terms[k]
      BY <1>1
    <3>2. g[k] = f[k] /\ g[k - 1] = f[k - 1]
      BY <3>1
    <3> HIDE DEF g
    <3> QED
      BY <1>3, <3>1, <3>2
  <2> HIDE DEF g
  <2> QED
    BY <2>1, <2>2 DEF IsTrace, n
<1>5. ValueAt(Sum(c, terms), i) = f[n]
  <2>1. g[n] = f[n]
    BY <1>1
  <2>2. ValueAt(Sum(c, terms), i) = g[n]
    <3> HIDE DEF g
    <3> QED
      BY <1>4, TraceUnique DEF n
  <2> QED
    BY <2>1, <2>2
<1>6. ValueAt(Sum(c, more), i) = f[n + 1]
  BY <1>1, <1>2, TraceUnique
<1>7. n + 1 \in 1 .. n + 1 /\ n + 1 - 1 = n
  BY <1>1
<1>8. f[n + 1] = (f[n] + t.coeff * WordAt(t, i)) % Modulus
  BY <1>1, <1>3, <1>7
<1> QED
  BY <1>1, <1>5, <1>6, <1>8 DEF more

----------------------------------------------------------------------------
\* The terms for the values of a vector.

\* A term for a nonzero value is 1 where the value, or its alternative, occurs.
LEMMA TermForType ==
  ASSUME NEW r \in Word \ {0}, NEW a
  PROVE  /\ TermFor(r, a) \in Terms
         /\ TermFor(r, a).coeff = r
         /\ \A i \in Entries :
              WordAt(TermFor(r, a), i) = IF i # 0 /\ resultVector[i] \in {r, a} THEN 1 ELSE 0
BY DEF TermFor, Term, Terms, On, WordAt

\* The distinct values of a sequence are words, and those not left out are not 0.
Listing(vals, out) ==
  /\ vals \in Seq(Word)
  /\ \A j, k \in DOMAIN vals : vals[j] = vals[k] => j = k
  /\ \A k \in DOMAIN vals : vals[k] \in out \/ vals[k] # 0

\* What the loop of AppendTerms goes through.
Simpler(s, terms, vals, out) ==
  /\ s \in [0 .. Len(vals) -> Seq(Terms)]
  /\ s[0] = terms
  /\ \A k \in 1 .. Len(vals) :
       s[k] = IF vals[k] \in out THEN s[k - 1]
              ELSE Append(s[k - 1], TermFor(vals[k], vals[k]))

\* The members of a listing, one by one.
LEMMA ListingType ==
  ASSUME NEW vals, NEW out, Listing(vals, out)
  PROVE  /\ Len(vals) \in Nat /\ DOMAIN vals = 1 .. Len(vals)
         /\ \A k \in 1 .. Len(vals) : vals[k] \in Word /\ (vals[k] \in out \/ vals[k] # 0)
         /\ \A j, k \in 1 .. Len(vals) : vals[j] = vals[k] => j = k
<1>1. /\ vals \in Seq(Word)
      /\ \A j, k \in DOMAIN vals : vals[j] = vals[k] => j = k
      /\ \A k \in DOMAIN vals : vals[k] \in out \/ vals[k] # 0
  BY DEF Listing
<1>2. /\ Len(vals) \in Nat /\ DOMAIN vals = 1 .. Len(vals)
      /\ \A k \in 1 .. Len(vals) : vals[k] \in Word
  <2> DEFINE W == Word
  <2> HIDE DEF W
  <2>1. vals \in Seq(W) => /\ Len(vals) \in Nat /\ DOMAIN vals = 1 .. Len(vals)
                           /\ \A k \in 1 .. Len(vals) : vals[k] \in W
    OBVIOUS
  <2> QED
    BY <1>1, <2>1 DEF W
<1> QED
  BY <1>1, <1>2

\* The loop of AppendTerms ends, with a sequence of terms.
LEMMA SimplerExists ==
  ASSUME NEW terms \in Seq(Terms), NEW vals, NEW out, Listing(vals, out)
  PROVE  \E s : Simpler(s, terms, vals, out) /\ AppendTerms(terms, vals, out) = s[Len(vals)]
<1> DEFINE n == Len(vals)
           W == Seq(Terms)
           term(k) == TermFor(vals[k], vals[k])
           step == [k \in 1 .. n |->
                      [x \in W |-> IF vals[k] \in out THEN x ELSE Append(x, term(k))]]
           Body(h) == [k \in 0 .. n |->
             IF k = 0 THEN terms
             ELSE IF vals[k] \in out THEN h[k - 1] ELSE Append(h[k - 1], term(k))]
           g == CHOOSE h : h = Body(h)
<1>1. n \in Nat /\ \A k \in 1 .. n : vals[k] \notin out => term(k) \in Terms
  BY ListingType, TermForType
<1>2. step \in Steps(W, n)
  <2>1. ASSUME NEW k \in 1 .. n, NEW x \in W
        PROVE  (IF vals[k] \in out THEN x ELSE Append(x, term(k))) \in W
    <3> DEFINE V == Terms
    <3>1. vals[k] \notin out => term(k) \in V
      BY <1>1
    <3>2. x \in Seq(V)
      OBVIOUS
    <3> HIDE DEF V, term
    <3>3. (IF vals[k] \in out THEN x ELSE Append(x, term(k))) \in Seq(V)
      BY <3>1, <3>2, Appended
    <3> QED
      BY <3>3 DEF V
  <2> HIDE DEF W, n, term
  <2> QED
    BY <2>1 DEF Steps
<1>3. PICK f : Runs(f, W, n, terms, step)
  <2> HIDE DEF step, n, W
  <2>1. terms \in W
    BY DEF W
  <2> QED
    BY <1>1, <1>2, <2>1, LoopRuns
<1>4. /\ f \in [0 .. n -> W] /\ f[0] = terms
      /\ \A k \in 1 .. n : f[k] = IF vals[k] \in out THEN f[k - 1] ELSE Append(f[k - 1], term(k))
  <2>1. f \in [0 .. n -> W] /\ f[0] = terms /\ \A k \in 1 .. n : f[k] = step[k][f[k - 1]]
    BY <1>3 DEF Runs
  <2>2. ASSUME NEW k \in 1 .. n
        PROVE  f[k] = IF vals[k] \in out THEN f[k - 1] ELSE Append(f[k - 1], term(k))
    <3>1. f[k - 1] \in W
      BY <1>1, <2>1
    <3>2. step[k] = [x \in W |-> IF vals[k] \in out THEN x ELSE Append(x, term(k))]
      OBVIOUS
    <3> HIDE DEF W, step, n, term
    <3> QED
      BY <2>1, <3>1, <3>2
  <2> QED
    BY <2>1, <2>2
<1>5. f = Body(f)
  <2>1. \A k \in 0 .. n : k = 0 \/ k \in 1 .. n
    BY <1>1
  <2> HIDE DEF term, W, n, step, g
  <2>2. ASSUME NEW k \in 0 .. n
        PROVE  f[k] = IF k = 0 THEN terms
                      ELSE IF vals[k] \in out THEN f[k - 1] ELSE Append(f[k - 1], term(k))
    BY <1>1, <1>4, <2>1
  <2> QED
    BY <1>4, <2>2
<1>6. g = Body(g)
  <2> HIDE DEF Body
  <2> QED
    BY <1>5
<1>7. AppendTerms(terms, vals, out) = g[n]
  BY DEF AppendTerms
<1> HIDE DEF g
<1> DEFINE T == {k \in 0 .. n : g[k] = f[k]}
<1>8. \A k \in 0 .. n : k \in T
  <2>1. 0 \in T
    BY <1>1, <1>5, <1>6
  <2>2. ASSUME NEW k \in 1 .. n, k - 1 \in T
        PROVE  k \in T
    <3>1. k \in 0 .. n /\ k # 0
      BY <1>1
    <3>2. g[k] = IF vals[k] \in out THEN g[k - 1] ELSE Append(g[k - 1], term(k))
      BY <1>6, <3>1
    <3> HIDE DEF term, n
    <3> QED
      BY <1>4, <2>2, <3>1, <3>2
  <2> HIDE DEF T, n
  <2> QED
    BY <1>1, <2>1, <2>2, UpTo
<1>9. Simpler(f, terms, vals, out)
  BY <1>4 DEF Simpler
<1> QED
  BY <1>1, <1>7, <1>8, <1>9

\* The terms appended give every entry its value, once, if that is not left out.
LEMMA AppendTermsValue ==
  ASSUME NEW terms \in Seq(Terms), NEW vals, NEW out, Listing(vals, out),
         resultVector \in [Entries -> Word], NEW c \in Word, NEW i \in Entries
  PROVE  /\ AppendTerms(terms, vals, out) \in Seq(Terms)
         /\ ValueAt(Sum(c, AppendTerms(terms, vals, out)), i) =
              IF i # 0 /\ resultVector[i] \in ToSet(vals) \ out
                THEN (ValueAt(Sum(c, terms), i) + resultVector[i]) % Modulus
                ELSE ValueAt(Sum(c, terms), i)
<1> DEFINE n == Len(vals)
           r == resultVector[i]
           v == ValueAt(Sum(c, terms), i)
           Taken(k) == i # 0 /\ \E j \in 1 .. k : vals[j] = r /\ r \notin out
           Goal(s, k) == ValueAt(Sum(c, s[k]), i) = IF Taken(k) THEN (v + r) % Modulus ELSE v
<1>1. PICK s : Simpler(s, terms, vals, out) /\ AppendTerms(terms, vals, out) = s[n]
  BY SimplerExists
<1>2. /\ n \in Nat /\ DOMAIN vals = 1 .. n
      /\ \A k \in 1 .. n : vals[k] \in Word /\ (vals[k] \in out \/ vals[k] # 0)
      /\ \A j, k \in 1 .. n : vals[j] = vals[k] => j = k
  BY ListingType
<1>3. /\ s \in [0 .. n -> Seq(Terms)] /\ s[0] = terms
      /\ \A k \in 1 .. n : s[k] = IF vals[k] \in out THEN s[k - 1]
                                  ELSE Append(s[k - 1], TermFor(vals[k], vals[k]))
  BY <1>1 DEF Simpler
<1>4. r \in Word /\ v \in Word
  BY ValueWord
<1> DEFINE T == {k \in 0 .. n : Goal(s, k)}
<1> HIDE DEF n, r, v
<1>5. 0 \in T
  BY <1>2, <1>3 DEF v
<1>6. ASSUME NEW k \in 1 .. n, k - 1 \in T
      PROVE  k \in T
  <2>1. k \in 0 .. n /\ k - 1 \in 0 .. n /\ (k - 1) \in Nat /\ Goal(s, k - 1)
    BY <1>2, <1>6
  <2>2. s[k - 1] \in Seq(Terms)
    BY <1>3, <2>1
  <2>3. CASE vals[k] \in out
    <3>1. Taken(k) <=> Taken(k - 1)
      BY <1>2, <2>1, <2>3
    <3> QED
      BY <1>3, <2>1, <2>3, <3>1
  <2>4. CASE vals[k] \notin out
    <3> DEFINE t == TermFor(vals[k], vals[k])
    <3>1. /\ t \in Terms /\ t.coeff = vals[k]
          /\ WordAt(t, i) = IF i # 0 /\ r = vals[k] THEN 1 ELSE 0
      BY <1>2, <2>4, TermForType DEF r
    <3>2. s[k] = Append(s[k - 1], t)
      BY <1>3, <2>4
    <3> HIDE DEF t
    <3>3. ValueAt(Sum(c, s[k]), i) =
            (ValueAt(Sum(c, s[k - 1]), i) + t.coeff * WordAt(t, i)) % Modulus
      BY <2>2, <3>1, <3>2, ValueAppend
    <3>4. ValueAt(Sum(c, s[k - 1]), i) \in Word
      BY <2>2, ValueWord
    <3>5. CASE i # 0 /\ r = vals[k]
      <4>1. ~ Taken(k - 1)
        BY <1>2, <2>1, <3>5
      <4>2. Taken(k)
        BY <1>2, <2>1, <2>4, <3>5
      <4>3. t.coeff * WordAt(t, i) = r
        BY <1>4, <3>1, <3>5, SizeAssumption DEF Word
      <4> QED
        BY <2>1, <3>3, <4>1, <4>2, <4>3
    <3>6. CASE ~ (i # 0 /\ r = vals[k])
      <4>1. Taken(k) <=> Taken(k - 1)
        BY <1>2, <2>1, <3>6
      <4>2. t.coeff * WordAt(t, i) = 0
        BY <1>2, <3>1, <3>6, SizeAssumption DEF Word
      <4> DEFINE x == ValueAt(Sum(c, s[k - 1]), i)
      <4>3. (x + 0) % Modulus = x
        <5> HIDE DEF x
        <5>1. x \in Word
          BY <3>4 DEF x
        <5> QED
          BY <5>1, SizeAssumption DEF Word
      <4>4. ValueAt(Sum(c, s[k]), i) = x
        BY <3>3, <4>2, <4>3
      <4> QED
        BY <2>1, <4>1, <4>4
    <3> QED
      BY <3>5, <3>6
  <2> QED
    BY <2>3, <2>4
<1>7. \A k \in 0 .. n : k \in T
  <2> HIDE DEF T
  <2> QED
    BY <1>2, <1>5, <1>6, UpTo
<1>8. Goal(s, n)
  BY <1>2, <1>7
<1>9. Taken(n) <=> i # 0 /\ r \in ToSet(vals) \ out
  BY <1>2 DEF ToSet, n
<1>10. s[n] \in Seq(Terms)
  BY <1>2, <1>3
<1> HIDE DEF Taken
<1> QED
  BY <1>1, <1>8, <1>9, <1>10 DEF r, v

\* How many terms are appended.
LEMMA AppendTermsLength ==
  ASSUME NEW terms \in Seq(Terms), NEW vals, NEW out, Listing(vals, out)
  PROVE  /\ IsFiniteSet(ToSet(vals) \ out)
         /\ Len(AppendTerms(terms, vals, out)) = Len(terms) + Cardinality(ToSet(vals) \ out)
<1> DEFINE n == Len(vals)
           Taken(k) == {vals[j] : j \in 1 .. k} \ out
           Goal(s, k) == /\ IsFiniteSet(Taken(k))
                         /\ Len(s[k]) = Len(terms) + Cardinality(Taken(k))
<1>1. PICK s : Simpler(s, terms, vals, out) /\ AppendTerms(terms, vals, out) = s[n]
  BY SimplerExists
<1>2. /\ n \in Nat /\ DOMAIN vals = 1 .. n
      /\ \A k \in 1 .. n : vals[k] \in Word /\ (vals[k] \in out \/ vals[k] # 0)
      /\ \A j, k \in 1 .. n : vals[j] = vals[k] => j = k
  BY ListingType
<1>3. /\ s \in [0 .. n -> Seq(Terms)] /\ s[0] = terms
      /\ \A k \in 1 .. n : s[k] = IF vals[k] \in out THEN s[k - 1]
                                  ELSE Append(s[k - 1], TermFor(vals[k], vals[k]))
  BY <1>1 DEF Simpler
<1>4. Len(terms) \in Nat
  BY TermType
<1> DEFINE T == {k \in 0 .. n : Goal(s, k)}
<1> HIDE DEF n
<1>5. 0 \in T
  <2>1. Taken(0) = {}
    OBVIOUS
  <2> QED
    BY <1>2, <1>3, <1>4, <2>1, FS_EmptySet
<1>6. ASSUME NEW k \in 1 .. n, k - 1 \in T
      PROVE  k \in T
  <2>1. k \in 0 .. n /\ k - 1 \in 0 .. n /\ (k - 1) \in Nat /\ Goal(s, k - 1)
    BY <1>2, <1>6
  <2>2. \A j : j \in 1 .. k <=> j \in 1 .. k - 1 \/ j = k
    BY <1>2
  <2>3. CASE vals[k] \in out
    <3>1. Taken(k) = Taken(k - 1)
      BY <2>2, <2>3
    <3> QED
      BY <1>3, <2>1, <2>3, <3>1
  <2>4. CASE vals[k] \notin out
    <3> DEFINE t == TermFor(vals[k], vals[k])
    <3>1. t \in Terms /\ s[k - 1] \in Seq(Terms)
      BY <1>2, <1>3, <2>1, <2>4, TermForType
    <3>2. s[k] = Append(s[k - 1], t)
      BY <1>3, <2>4
    <3>3. Len(s[k]) = Len(s[k - 1]) + 1 /\ Len(s[k - 1]) \in Nat
      <4> DEFINE W == Terms
      <4>1. t \in W /\ s[k - 1] \in Seq(W)
        BY <3>1
      <4> HIDE DEF W, t
      <4> QED
        BY <3>2, <4>1, Appended
    <3>4. Taken(k) = Taken(k - 1) \cup {vals[k]} /\ vals[k] \notin Taken(k - 1)
      <4>1. \A j \in 1 .. k - 1 : j \in 1 .. n /\ j # k
        BY <1>2
      <4> QED
        BY <1>2, <2>2, <2>4, <4>1
    <3> DEFINE S == Taken(k - 1)
    <3>5. IsFiniteSet(S) /\ Len(s[k - 1]) = Len(terms) + Cardinality(S)
      BY <2>1
    <3> HIDE DEF S
    <3>6. /\ IsFiniteSet(S \cup {vals[k]}) /\ Cardinality(S) \in Nat
          /\ Cardinality(S \cup {vals[k]}) = Cardinality(S) + 1
      BY <3>4, <3>5, FS_AddElement, FS_CardinalityType DEF S
    <3>7. Taken(k) = S \cup {vals[k]}
      BY <3>4 DEF S
    <3> HIDE DEF Taken
    <3>8. Len(s[k]) = Len(terms) + Cardinality(Taken(k)) /\ IsFiniteSet(Taken(k))
      BY <1>4, <3>3, <3>5, <3>6, <3>7
    <3>9. Goal(s, k)
      BY <3>8
    <3> HIDE DEF Goal
    <3> QED
      BY <2>1, <3>9
  <2> QED
    BY <2>3, <2>4
<1>7. \A k \in 0 .. n : k \in T
  <2> HIDE DEF T
  <2> QED
    BY <1>2, <1>5, <1>6, UpTo
<1>8. Goal(s, n)
  <2> HIDE DEF Goal
  <2> QED
    BY <1>2, <1>7
<1>9. Taken(n) = ToSet(vals) \ out
  BY <1>2 DEF ToSet
<1> HIDE DEF Taken
<1> QED
  BY <1>1, <1>8, <1>9 DEF n

----------------------------------------------------------------------------
\* The distinct values of a vector.

\* The elements of a sequence with one more.
LEMMA AppendedSet ==
  ASSUME NEW W, NEW s \in Seq(W), NEW x \in W
  PROVE  ToSet(Append(s, x)) = ToSet(s) \cup {x} /\ ToSet(s) \in SUBSET W
<1>1. /\ Len(s) \in Nat /\ DOMAIN s = 1 .. Len(s) /\ DOMAIN Append(s, x) = 1 .. Len(s) + 1
      /\ \A k \in 1 .. Len(s) : Append(s, x)[k] = s[k] /\ s[k] \in W
      /\ Append(s, x)[Len(s) + 1] = x
  BY Appended
<1>2. \A k : k \in 1 .. Len(s) + 1 <=> k \in 1 .. Len(s) \/ k = Len(s) + 1
  BY <1>1
<1> QED
  BY <1>1, <1>2 DEF ToSet

Distinct(s) == \A j, k \in DOMAIN s : s[j] = s[k] => j = k

\* What fillResultSet has seen of a vector after k entries.
Seen(s, vector, k) ==
  /\ s \in Seq(Word)
  /\ Distinct(s)
  /\ ToSet(s) = {vector[i] : i \in 0 .. k - 1}
  /\ k > 0 => Len(s) > 0 /\ s[1] = vector[0]

\* One entry more.
LEMMA SeenMore ==
  ASSUME NEW vector \in [Entries -> Word], NEW k \in Nat, k \in Entries,
         NEW s, Seen(s, vector, k)
  PROVE  Seen(IF vector[k] \in ToSet(s) THEN s ELSE Append(s, vector[k]), vector, k + 1)
<1> DEFINE x == vector[k]
<1>1. x \in Word /\ s \in Seq(Word) /\ Distinct(s) /\ Len(s) \in Nat
  BY DEF Seen
<1>2. \A i : i \in 0 .. (k + 1) - 1 <=> i \in 0 .. k - 1 \/ i = k
  OBVIOUS
<1>3. {vector[i] : i \in 0 .. (k + 1) - 1} = ToSet(s) \cup {x}
  BY <1>2 DEF Seen
<1>4. k = 0 => ToSet(s) = {}
  BY DEF Seen
<1>5. CASE x \in ToSet(s)
  <2>1. k # 0
    BY <1>4, <1>5
  <2> QED
    BY <1>1, <1>3, <1>5, <2>1 DEF Seen
<1>6. CASE x \notin ToSet(s)
  <2> DEFINE more == Append(s, x)
  <2>1. /\ more \in Seq(Word) /\ DOMAIN s = 1 .. Len(s) /\ DOMAIN more = 1 .. Len(s) + 1
        /\ Len(more) = Len(s) + 1
        /\ \A j \in 1 .. Len(s) : more[j] = s[j]
        /\ more[Len(s) + 1] = x /\ ToSet(more) = ToSet(s) \cup {x}
    BY <1>1, Appended, AppendedSet
  <2> HIDE DEF more
  <2>2. \A j \in 1 .. Len(s) : s[j] # x
    BY <1>6, <2>1 DEF ToSet
  <2>3. Distinct(more)
    <3>1. \A j \in 1 .. Len(s) + 1 : j \in 1 .. Len(s) \/ j = Len(s) + 1
      BY <1>1
    <3> QED
      BY <1>1, <2>1, <2>2, <3>1 DEF Distinct
  <2>4. more[1] = vector[0]
    <3>1. CASE k = 0
      <4>1. Len(s) = 0
        BY <1>1, <1>4, <2>1, <3>1 DEF ToSet
      <4> QED
        BY <2>1, <3>1, <4>1
    <3>2. CASE k > 0
      <4>1. Len(s) > 0 /\ s[1] = vector[0]
        BY <3>2 DEF Seen
      <4> QED
        BY <1>1, <2>1, <4>1
    <3> QED
      BY <3>1, <3>2
  <2>5. Seen(more, vector, k + 1)
    BY <1>1, <1>3, <2>1, <2>3, <2>4 DEF Seen
  <2> QED
    BY <1>6, <2>5 DEF more
<1> QED
  BY <1>5, <1>6

\* fillResultSet lists every value of the vector once, that of entry 0 first.
LEMMA ValuesListed ==
  ASSUME NEW vector \in [Entries -> Word]
  PROVE  LET vals == fillResultSet(vector)
         IN  /\ vals \in Seq(Word)
             /\ Distinct(vals)
             /\ ToSet(vals) = {vector[i] : i \in Entries}
             /\ Len(vals) \in Nat \ {0}
             /\ vals[1] = vector[0]
<1> DEFINE n == groupsizes[vnumber]
           W == Seq(Word)
           Next1(x, k) == IF vector[k - 1] \in ToSet(x) THEN x ELSE Append(x, vector[k - 1])
           step == [k \in 1 .. n |-> [x \in W |-> Next1(x, k)]]
           Body(h) == [k \in 0 .. n |-> IF k = 0 THEN <<>> ELSE Next1(h[k - 1], k)]
           g == CHOOSE h : h = Body(h)
<1>1. n \in Nat \ {0} /\ Entries = 0 .. n - 1 /\ \A k \in 1 .. n : k - 1 \in Entries /\ vector[k - 1] \in Word
  <2>1. vnumber \in 0 .. vnumber
    BY SizeAssumption
  <2>2. n \in Nat \ {0}
    BY <2>1, GroupSizes
  <2> HIDE DEF n
  <2>3. Entries = 0 .. n - 1
    BY DEF Entries, n
  <2> QED
    BY <2>2, <2>3
<1> HIDE DEF n
<1>2. step \in Steps(W, n)
  <2>1. ASSUME NEW k \in 1 .. n, NEW x \in W
        PROVE  Next1(x, k) \in W
    <3> DEFINE V == Word
    <3>1. vector[k - 1] \in V /\ x \in Seq(V)
      BY <1>1
    <3> HIDE DEF V
    <3>2. Next1(x, k) \in Seq(V)
      BY <3>1, Appended
    <3> QED
      BY <3>2 DEF V
  <2> HIDE DEF W, Next1
  <2> QED
    BY <2>1 DEF Steps
<1>3. PICK f : Runs(f, W, n, <<>>, step)
  <2>1. <<>> \in W
    OBVIOUS
  <2> HIDE DEF step, W
  <2> QED
    BY <1>1, <1>2, <2>1, LoopRuns
<1>4. /\ f \in [0 .. n -> W] /\ f[0] = <<>>
      /\ \A k \in 1 .. n : f[k] = Next1(f[k - 1], k)
  <2>1. f \in [0 .. n -> W] /\ f[0] = <<>> /\ \A k \in 1 .. n : f[k] = step[k][f[k - 1]]
    BY <1>3 DEF Runs
  <2>2. ASSUME NEW k \in 1 .. n
        PROVE  f[k] = Next1(f[k - 1], k)
    <3>1. f[k - 1] \in W
      BY <1>1, <2>1
    <3>2. step[k] = [x \in W |-> Next1(x, k)]
      OBVIOUS
    <3> HIDE DEF W, step, Next1
    <3> QED
      BY <2>1, <3>1, <3>2
  <2> QED
    BY <2>1, <2>2
<1>5. f = Body(f)
  <2>1. \A k \in 0 .. n : k = 0 \/ k \in 1 .. n
    BY <1>1
  <2> HIDE DEF Next1, W, step, g
  <2>2. ASSUME NEW k \in 0 .. n
        PROVE  f[k] = IF k = 0 THEN <<>> ELSE Next1(f[k - 1], k)
    BY <1>1, <1>4, <2>1
  <2> QED
    BY <1>4, <2>2
<1>6. g = Body(g)
  <2> HIDE DEF Body
  <2> QED
    BY <1>5
<1>7. fillResultSet(vector) = g[n]
  BY DEF fillResultSet, n
<1> HIDE DEF g
<1> DEFINE T == {k \in 0 .. n : Seen(g[k], vector, k)}
<1>8. 0 \in T
  <2>1. g[0] = <<>>
    BY <1>1, <1>6
  <2>2. <<>> \in Seq(Word) /\ DOMAIN <<>> = {} /\ Len(<<>>) = 0
    OBVIOUS
  <2>3. Seen(<<>>, vector, 0)
    BY <2>2 DEF Seen, Distinct, ToSet
  <2> QED
    BY <1>1, <2>1, <2>3
<1>9. ASSUME NEW k \in 1 .. n, k - 1 \in T
      PROVE  k \in T
  <2>1. k \in 0 .. n /\ k # 0 /\ k - 1 \in Nat /\ k - 1 \in Entries /\ (k - 1) + 1 = k
    BY <1>1
  <2>2. g[k] = Next1(g[k - 1], k)
    BY <1>6, <2>1
  <2>3. Seen(g[k - 1], vector, k - 1)
    BY <1>9
  <2>4. Seen(Next1(g[k - 1], k), vector, (k - 1) + 1)
    BY <2>1, <2>3, SeenMore
  <2> QED
    BY <2>1, <2>2, <2>4
<1>10. \A k \in 0 .. n : k \in T
  <2> HIDE DEF T
  <2> QED
    BY <1>1, <1>8, <1>9, UpTo
<1>11. Seen(g[n], vector, n)
  BY <1>1, <1>10
<1> QED
  BY <1>1, <1>7, <1>11 DEF Seen

Ascends(s) == \A j, k \in DOMAIN s : j < k => s[j] < s[k]

\* What the nonzero values up to a bound are, in ascending order.
Sorted(s, occurs, k) ==
  /\ s \in Seq(Word)
  /\ Ascends(s)
  /\ ToSet(s) = {w \in occurs : w # 0 /\ w <= k}

\* One word more.
LEMMA SortedMore ==
  ASSUME NEW occurs \in SUBSET Word, NEW k \in 1 .. Modulus - 1, NEW s, Sorted(s, occurs, k - 1)
  PROVE  Sorted(IF k \in occurs THEN Append(s, k) ELSE s, occurs, k)
<1> DEFINE x == k
<1>1. x \in Word /\ s \in Seq(Word) /\ Ascends(s) /\ Modulus \in Nat /\ Len(s) \in Nat
  BY SizeAssumption DEF Sorted, Word
<1>2. \A w \in occurs : /\ w # 0 /\ w <= k - 1 <=> w # 0 /\ w < x
                        /\ w # 0 /\ w <= x <=> (w # 0 /\ w < x) \/ w = x
  <2>1. \A w \in occurs : w \in Int
    BY DEF Word
  <2> QED
    BY <1>1, <2>1
<1>3. ToSet(s) = {w \in occurs : w # 0 /\ w <= k - 1}
  BY DEF Sorted
<1>4. \A w : w \in ToSet(s) <=> w \in occurs /\ w # 0 /\ w < x
  <2> HIDE DEF x
  <2> QED
    BY <1>2, <1>3
<1> HIDE DEF x
<1>5. CASE x \notin occurs
  <2>1. ToSet(s) = {w \in occurs : w # 0 /\ w <= x}
    BY <1>2, <1>4, <1>5
  <2> QED
    BY <1>1, <1>5, <2>1 DEF Sorted, x
<1>6. CASE x \in occurs
  <2> DEFINE more == Append(s, x)
  <2>1. /\ more \in Seq(Word) /\ DOMAIN s = 1 .. Len(s) /\ DOMAIN more = 1 .. Len(s) + 1
        /\ \A j \in 1 .. Len(s) : more[j] = s[j]
        /\ more[Len(s) + 1] = x /\ ToSet(more) = ToSet(s) \cup {x}
    BY <1>1, Appended, AppendedSet
  <2> HIDE DEF more
  <2>2. \A j \in 1 .. Len(s) : s[j] < x
    BY <1>4, <2>1 DEF ToSet
  <2>3. Ascends(more)
    <3>1. \A j \in 1 .. Len(s) + 1 : j \in 1 .. Len(s) \/ j = Len(s) + 1
      BY <1>1
    <3> QED
      BY <1>1, <2>1, <2>2, <3>1 DEF Ascends
  <2>4. ToSet(more) = {w \in occurs : w # 0 /\ w <= x}
    <3>1. \A w : w \in ToSet(more) <=> w \in occurs /\ w # 0 /\ w <= x
      BY <1>2, <1>4, <1>6, <2>1
    <3> QED
      BY <3>1
  <2>5. Sorted(more, occurs, k)
    BY <2>1, <2>3, <2>4 DEF Sorted, x
  <2> QED
    BY <1>6, <2>5 DEF more, x
<1> QED
  BY <1>5, <1>6 DEF x

\* The nonzero values in ascending order, each once.
LEMMA UniqueListed ==
  ASSUME resultVector \in [Entries -> Word]
  PROVE  /\ UniqueValues \in Seq(Word)
         /\ Ascends(UniqueValues)
         /\ ToSet(UniqueValues) = {resultVector[i] : i \in Entries} \ {0}
<1> DEFINE n == Modulus - 1
           occurs == ToSet(Values)
           W == Seq(Word)
           Next1(x, k) == IF k \in occurs THEN Append(x, k) ELSE x
           step == [k \in 1 .. n |-> [x \in W |-> Next1(x, k)]]
           Body(h) == [k \in 0 .. n |-> IF k = 0 THEN <<>> ELSE Next1(h[k - 1], k)]
           g == CHOOSE h : h = Body(h)
<1>1. n \in Nat /\ \A k \in 1 .. n : k \in Word
  BY SizeAssumption DEF Word
<1>2. occurs = {resultVector[i] : i \in Entries} /\ occurs \in SUBSET Word
  <2>1. occurs = {resultVector[i] : i \in Entries}
    BY ValuesListed DEF Values
  <2> HIDE DEF occurs
  <2> QED
    BY <2>1
<1> HIDE DEF n, occurs
<1>3. step \in Steps(W, n)
  <2>1. ASSUME NEW k \in 1 .. n, NEW x \in W
        PROVE  Next1(x, k) \in W
    <3> DEFINE V == Word
    <3>1. k \in V /\ x \in Seq(V)
      BY <1>1
    <3> HIDE DEF V
    <3>2. Next1(x, k) \in Seq(V)
      BY <3>1, Appended
    <3> QED
      BY <3>2 DEF V
  <2> HIDE DEF W, Next1
  <2> QED
    BY <2>1 DEF Steps
<1>4. PICK f : Runs(f, W, n, <<>>, step)
  <2>1. <<>> \in W
    OBVIOUS
  <2> HIDE DEF step, W
  <2> QED
    BY <1>1, <1>3, <2>1, LoopRuns
<1>5. f = Body(f)
  <2>1. f \in [0 .. n -> W] /\ f[0] = <<>> /\ \A k \in 1 .. n : f[k] = step[k][f[k - 1]]
    BY <1>4 DEF Runs
  <2>2. \A k \in 0 .. n : k = 0 \/ k \in 1 .. n
    BY <1>1
  <2>3. ASSUME NEW k \in 1 .. n
        PROVE  f[k] = Next1(f[k - 1], k)
    <3>1. f[k - 1] \in W
      BY <1>1, <2>1
    <3>2. step[k] = [x \in W |-> Next1(x, k)]
      OBVIOUS
    <3> HIDE DEF W, step, Next1
    <3> QED
      BY <2>1, <3>1, <3>2
  <2> HIDE DEF Next1, W, step, g
  <2>4. ASSUME NEW k \in 0 .. n
        PROVE  f[k] = IF k = 0 THEN <<>> ELSE Next1(f[k - 1], k)
    BY <2>1, <2>2, <2>3
  <2> QED
    BY <2>1, <2>4
<1>6. g = Body(g)
  <2> HIDE DEF Body
  <2> QED
    BY <1>5
<1>7. UniqueValues = g[n]
  BY DEF UniqueValues, n, occurs
<1> HIDE DEF g
<1> DEFINE T == {k \in 0 .. n : Sorted(g[k], occurs, k)}
<1>8. 0 \in T
  <2>1. g[0] = <<>>
    BY <1>1, <1>6
  <2>2. <<>> \in Seq(Word) /\ DOMAIN <<>> = {}
    OBVIOUS
  <2>3. {w \in occurs : w # 0 /\ w <= 0} = {}
    BY <1>2, SizeAssumption DEF Word
  <2>4. Sorted(<<>>, occurs, 0)
    BY <2>2, <2>3 DEF Sorted, Ascends, ToSet
  <2> QED
    BY <1>1, <2>1, <2>4
<1>9. ASSUME NEW k \in 1 .. n, k - 1 \in T
      PROVE  k \in T
  <2>1. k \in 0 .. n /\ k # 0 /\ k \in 1 .. Modulus - 1
    BY <1>1 DEF n
  <2>2. g[k] = Next1(g[k - 1], k)
    BY <1>6, <2>1
  <2>3. Sorted(g[k - 1], occurs, k - 1)
    BY <1>9
  <2>4. Sorted(Next1(g[k - 1], k), occurs, k)
    BY <1>2, <2>1, <2>3, SortedMore
  <2> QED
    BY <2>1, <2>2, <2>4
<1>10. \A k \in 0 .. n : k \in T
  <2> HIDE DEF T
  <2> QED
    BY <1>1, <1>8, <1>9, UpTo
<1>11. Sorted(g[n], occurs, n)
  BY <1>1, <1>10
<1>12. {w \in occurs : w # 0 /\ w <= n} = occurs \ {0}
  BY <1>2, SizeAssumption DEF Word, n
<1> QED
  BY <1>2, <1>7, <1>11, <1>12 DEF Sorted

----------------------------------------------------------------------------
\* The sum of conjunctions.

\* An expression is its constant and its terms.
LEMMA ExpressionForm ==
  /\ \A c \in Word, terms \in Seq(Terms) :
       Sum(c, terms) \in Expressions /\ Sum(c, terms).constant = c /\ Sum(c, terms).terms = terms
  /\ \A e \in Expressions :
       e.constant \in Word /\ e.terms \in Seq(Terms) /\ e = Sum(e.constant, e.terms)
BY DEF Sum, Expressions

\* What is left of a word, added to what there is, makes the word.
LEMMA Restores ==
  ASSUME NEW v \in Word, NEW x \in Word, NEW left, left = (x - v) % Modulus
  PROVE  left \in Word /\ (v + left) % Modulus = x /\ (left = 0 => v = x)
<1>1. left = IF x >= v THEN x - v ELSE x - v + Modulus
  BY SizeAssumption DEF Word
<1> QED
  BY <1>1, SizeAssumption DEF Word

\* What simplify_generic has after entry k: the entries up to there have their values.
Settled(e, vector, k) ==
  /\ e \in Expressions /\ e.constant = vector[0]
  /\ \A j \in 0 .. k : ValueAt(e, j) = vector[j]

\* The conjunction of an entry is true there and on larger entries only.
LEMMA SettleMore ==
  ASSUME NEW vector \in [Entries -> Word], NEW k \in Entries \ {0},
         NEW e, Settled(e, vector, k - 1),
         NEW left, left = (vector[k] - ValueAt(e, k)) % Modulus,
         NEW on, on = {j \in Entries : AsSet(k) \subseteq AsSet(j)}
  PROVE  Settled(IF left = 0 THEN e
                 ELSE Sum(vector[0], Append(e.terms, Term(left, on))), vector, k)
<1> DEFINE c == vector[0]
           t == Term(left, on)
           x == vector[k]
           v == ValueAt(e, k)
<1>1. /\ groupsizes[vnumber] \in Nat /\ k \in Nat /\ 0 \in Entries
      /\ \A j \in 0 .. k : j \in Entries /\ (j = k \/ j \in 0 .. k - 1)
  <2>1. vnumber \in 0 .. vnumber
    BY SizeAssumption
  <2>2. groupsizes[vnumber] \in Nat
    BY <2>1, GroupSizes
  <2> QED
    BY <2>2 DEF Entries
<1>2. c \in Word /\ x \in Word /\ e \in Expressions /\ e.terms \in Seq(Terms)
      /\ e = Sum(c, e.terms)
  BY <1>1, ExpressionForm DEF Settled
<1>3. \A j : ValueAt(e, j) \in Word
  BY <1>2, ValueWord
<1>4. left \in Word /\ (v + left) % Modulus = x /\ (left = 0 => v = x)
  <2>1. ValueAt(e, k) \in Word /\ vector[k] \in Word
    BY <1>2, <1>3
  <2> QED
    BY <2>1, Restores
<1>5. \A j \in 0 .. k - 1 : ValueAt(e, j) = vector[j]
  BY DEF Settled
<1>6. CASE left = 0
  <2>1. \A j \in 0 .. k : ValueAt(e, j) = vector[j]
    BY <1>1, <1>4, <1>5, <1>6
  <2> QED
    BY <1>2, <1>6, <2>1, ExpressionForm DEF Settled
<1>7. CASE left # 0
  <2>1. t \in Terms /\ t.coeff = left
        /\ \A j : WordAt(t, j) = IF j \in on THEN 1 ELSE 0
    <3>1. on \in SUBSET (Entries \ {0})
      <4>1. 0 \notin on
        BY <1>1, Monotone
      <4> QED
        BY <4>1
    <3> QED
      BY <1>4, <1>7, <3>1 DEF Term, Terms, WordAt
  <2> DEFINE more == Append(e.terms, t)
  <2> HIDE DEF t
  <2>2. /\ more \in Seq(Terms)
        /\ \A j : ValueAt(Sum(c, more), j) =
             (ValueAt(Sum(c, e.terms), j) + t.coeff * WordAt(t, j)) % Modulus
    BY <1>2, <2>1, ValueAppend
  <2> HIDE DEF more, c
  <2>3. ValueAt(Sum(c, more), k) = x
    <3>1. WordAt(t, k) = 1 /\ t.coeff * 1 = left
      BY <1>4, <2>1, SizeAssumption DEF Word
    <3>2. ValueAt(Sum(c, e.terms), k) = v
      BY <1>2
    <3> QED
      BY <1>4, <2>2, <3>1, <3>2
  <2>4. ASSUME NEW j \in 0 .. k - 1
        PROVE  ValueAt(Sum(c, more), j) = vector[j]
    <3>1. j \in Entries /\ j < k
      BY <1>1
    <3>2. j \notin on
      BY <1>1, <3>1, Monotone
    <3>3. WordAt(t, j) = 0 /\ t.coeff * 0 = 0
      BY <1>4, <2>1, <3>2, SizeAssumption DEF Word
    <3>4. ValueAt(Sum(c, e.terms), j) = vector[j] /\ vector[j] \in Word
      BY <1>2, <1>5, <3>1
    <3>5. (vector[j] + 0) % Modulus = vector[j]
      BY <3>4, Wraps DEF Word
    <3> QED
      BY <2>2, <3>3, <3>4, <3>5
  <2>5. \A j \in 0 .. k : ValueAt(Sum(c, more), j) = vector[j]
    BY <1>1, <2>3, <2>4
  <2>6. Settled(Sum(c, more), vector, k)
    BY <1>2, <2>2, <2>5, ExpressionForm DEF Settled, c
  <2> QED
    BY <1>7, <2>6 DEF more, t, c
<1> QED
  BY <1>6, <1>7

\* One conjunction more is an expression again.
LEMMA SettledType ==
  ASSUME NEW vector \in [Entries -> Word], NEW k \in Entries \ {0}, NEW e \in Expressions,
         NEW left, left = (vector[k] - ValueAt(e, k)) % Modulus,
         NEW on, on = {j \in Entries : AsSet(k) \subseteq AsSet(j)}
  PROVE  (IF left = 0 THEN e
          ELSE Sum(vector[0], Append(e.terms, Term(left, on)))) \in Expressions
<1>1. 0 \in Entries /\ vector[0] \in Word /\ vector[k] \in Word /\ e.terms \in Seq(Terms)
  <2>1. vnumber \in 0 .. vnumber
    BY SizeAssumption
  <2>2. 0 \in Entries
    BY <2>1, GroupSizes DEF Entries
  <2> QED
    BY <2>2, ExpressionForm
<1>2. ValueAt(e, k) \in Word
  <2>1. e.constant \in Word /\ e = Sum(e.constant, e.terms)
    BY ExpressionForm
  <2>2. ValueAt(Sum(e.constant, e.terms), k) \in Word
    BY <1>1, <2>1, ValueWord
  <2> QED
    BY <2>1, <2>2
<1>3. left \in Word
  BY <1>1, <1>2, Restores
<1>4. ASSUME left # 0
      PROVE  Sum(vector[0], Append(e.terms, Term(left, on))) \in Expressions
  <2>1. on \in SUBSET (Entries \ {0})
    <3>1. 0 \notin on
      BY <1>1, Monotone DEF Entries
    <3> QED
      BY <3>1
  <2>2. Term(left, on) \in Terms
    BY <1>3, <1>4, <2>1 DEF Term, Terms
  <2>3. Append(e.terms, Term(left, on)) \in Seq(Terms)
    BY <1>1, <2>2, ValueAppend
  <2> QED
    BY <1>1, <2>3, ExpressionForm
<1> QED
  BY <1>4

\* What simplify_generic returns for a result vector has its values, for any number
\* of variables: Simplifier.cpp:936-991 takes off, entry by entry, what the
\* conjunctions before leave there.
LEMMA GenericFaithful ==
  ASSUME NEW vector \in [Entries -> Word]
  PROVE  Generic(vector) \in Expressions /\ Denotes(Generic(vector), vector)
<1> DEFINE n == groupsizes[vnumber] - 1
           W == Expressions
           conjunction(i) == {j \in Entries : AsSet(i) \subseteq AsSet(j)}
           left(x, k) == (vector[k] - ValueAt(x, k)) % Modulus
           Next1(x, k) == IF left(x, k) = 0 THEN x
                          ELSE Sum(vector[0], Append(x.terms, Term(left(x, k), conjunction(k))))
           step == [k \in 1 .. n |-> [x \in W |-> Next1(x, k)]]
           Body(h) == [i \in Entries |-> IF i = 0 THEN Sum(vector[0], <<>>) ELSE Next1(h[i - 1], i)]
           g == CHOOSE h : h = Body(h)
           start == Sum(vector[0], <<>>)
<1>1. n \in Nat /\ Entries = 0 .. n /\ \A k \in 1 .. n : k \in Entries \ {0}
  <2>1. vnumber \in 0 .. vnumber
    BY SizeAssumption
  <2>2. groupsizes[vnumber] \in Nat \ {0}
    BY <2>1, GroupSizes
  <2>3. n \in Nat /\ Entries = 0 .. n
    BY <2>2 DEF Entries
  <2> HIDE DEF n
  <2> QED
    BY <2>3
<1> HIDE DEF n
<1>2. vector[0] \in Word /\ start \in W /\ start.constant = vector[0]
      /\ ValueAt(start, 0) = vector[0]
  <2>1. vector[0] \in Word
    BY <1>1
  <2>2. <<>> \in Seq(Terms)
    OBVIOUS
  <2>3. ValueAt(start, 0) = vector[0]
    BY <2>1, <2>2, ValueWord
  <2> QED
    BY <2>1, <2>2, <2>3, ExpressionForm
<1>3. step \in Steps(W, n)
  <2>1. ASSUME NEW k \in 1 .. n, NEW x \in W
        PROVE  Next1(x, k) \in W
    <3>1. k \in Entries \ {0}
      BY <1>1
    <3> QED
      BY <3>1, SettledType
  <2> HIDE DEF W, Next1
  <2> QED
    BY <2>1 DEF Steps
<1>4. PICK f : Runs(f, W, n, start, step)
  <2> HIDE DEF step, W, start
  <2> QED
    BY <1>1, <1>2, <1>3, LoopRuns
<1> HIDE DEF g
<1>5. f = Body(f)
  <2>1. f \in [0 .. n -> W] /\ f[0] = start /\ \A k \in 1 .. n : f[k] = step[k][f[k - 1]]
    BY <1>4 DEF Runs
  <2>2. \A k \in 0 .. n : k = 0 \/ k \in 1 .. n
    BY <1>1
  <2>3. ASSUME NEW k \in 1 .. n
        PROVE  f[k] = Next1(f[k - 1], k)
    <3>1. f[k - 1] \in W
      BY <1>1, <2>1
    <3>2. step[k] = [x \in W |-> Next1(x, k)]
      OBVIOUS
    <3> HIDE DEF W, step, Next1
    <3> QED
      BY <2>1, <3>1, <3>2
  <2> HIDE DEF Next1, W, step
  <2>4. ASSUME NEW k \in 0 .. n
        PROVE  f[k] = IF k = 0 THEN start ELSE Next1(f[k - 1], k)
    BY <2>1, <2>2, <2>3
  <2> QED
    BY <1>1, <2>1, <2>4
<1>6. g = Body(g)
  <2> HIDE DEF Body
  <2> QED
    BY <1>5 DEF g
<1>7. Generic(vector) = g[n]
  BY DEF Generic, n, g
<1> DEFINE T == {k \in 0 .. n : Settled(g[k], vector, k)}
<1>8. 0 \in T
  <2>1. g[0] = start
    BY <1>1, <1>6
  <2>2. Settled(start, vector, 0)
    <3> HIDE DEF start
    <3> QED
      BY <1>2 DEF Settled
  <2> QED
    BY <1>1, <2>1, <2>2
<1>9. ASSUME NEW k \in 1 .. n, k - 1 \in T
      PROVE  k \in T
  <2>1. k \in 0 .. n /\ k # 0 /\ k \in Entries \ {0}
    BY <1>1
  <2>2. g[k] = Next1(g[k - 1], k)
    BY <1>1, <1>6, <2>1
  <2>3. Settled(g[k - 1], vector, k - 1)
    BY <1>9
  <2>4. Settled(Next1(g[k - 1], k), vector, k)
    BY <2>1, <2>3, SettleMore
  <2> QED
    BY <2>1, <2>2, <2>4
<1>10. \A k \in 0 .. n : k \in T
  <2> HIDE DEF T
  <2> QED
    BY <1>1, <1>8, <1>9, UpTo
<1>11. Settled(g[n], vector, n)
  BY <1>1, <1>10
<1> QED
  BY <1>1, <1>7, <1>11 DEF Settled, Denotes

----------------------------------------------------------------------------
\* How many values there are.

\* A sequence without repetitions is as long as the set of its elements is large.
LEMMA DistinctLength ==
  ASSUME NEW W, NEW s \in Seq(W), Distinct(s)
  PROVE  IsFiniteSet(ToSet(s)) /\ Cardinality(ToSet(s)) = Len(s) /\ Len(s) \in Nat
<1> DEFINE n == Len(s)
           S == ToSet(s)
<1>1. n \in Nat /\ DOMAIN s = 1 .. n /\ s \in [1 .. n -> W]
  OBVIOUS
<1>2. s \in [1 .. n -> S] /\ S = {s[k] : k \in 1 .. n}
  BY <1>1 DEF ToSet
<1>3. \A j, k \in 1 .. n : s[j] = s[k] => j = k
  BY <1>1 DEF Distinct
<1> HIDE DEF n, S
<1>4. s \in Bijection(1 .. n, S)
  BY <1>2, <1>3 DEF Bijection, Injection, Surjection, IsInjective
<1>5. ExistsBijection(1 .. n, S)
  BY <1>4 DEF ExistsBijection
<1>6. IsFiniteSet(1 .. n) /\ Cardinality(1 .. n) = n
  BY <1>1, FS_Interval
<1>7. IsFiniteSet(S) /\ Cardinality(S) = n
  BY <1>5, <1>6, FS_Bijection
<1> QED
  BY <1>1, <1>7 DEF n, S

\* What ascends does not repeat.
LEMMA AscendsDistinct ==
  ASSUME NEW s \in Seq(Word), Ascends(s)
  PROVE  Distinct(s)
<1>1. DOMAIN s = 1 .. Len(s) /\ \A j \in 1 .. Len(s) : s[j] \in Int
  <2> DEFINE W == Word
  <2>1. s \in Seq(W) /\ \A w \in W : w \in Int
    BY DEF Word
  <2> HIDE DEF W
  <2> QED
    BY <2>1
<1>2. Len(s) \in Nat
  OBVIOUS
<1>3. ASSUME NEW j \in 1 .. Len(s), NEW k \in 1 .. Len(s), s[j] = s[k]
      PROVE  j = k
  <2>1. j \in Int /\ k \in Int /\ (j < k \/ k < j \/ j = k)
    BY <1>2
  <2>2. j < k => s[j] < s[k]
    BY <1>1 DEF Ascends
  <2>3. k < j => s[k] < s[j]
    BY <1>1 DEF Ascends
  <2> QED
    BY <1>1, <1>3, <2>1, <2>2, <2>3
<1> QED
  BY <1>1, <1>3 DEF Distinct

\* The two lists of the values of the vector; the second leaves out 0.
LEMMA ValuesFacts ==
  ASSUME resultVector \in [Entries -> Word]
  PROVE  LET image == {resultVector[i] : i \in Entries}
         IN  /\ Listing(Values, {0}) /\ ToSet(Values) = image
             /\ Len(Values) \in Nat /\ Values[1] = resultVector[0]
             /\ IsFiniteSet(image) /\ Cardinality(image) = Len(Values)
             /\ UniqueValues \in Seq(Word) /\ Ascends(UniqueValues) /\ Distinct(UniqueValues)
             /\ ToSet(UniqueValues) = image \ {0}
             /\ Len(UniqueValues) \in Nat /\ Cardinality(image \ {0}) = Len(UniqueValues)
<1> DEFINE image == {resultVector[i] : i \in Entries}
<1>1. /\ Values \in Seq(Word) /\ Distinct(Values) /\ ToSet(Values) = image
      /\ Len(Values) \in Nat \ {0} /\ Values[1] = resultVector[0]
  BY ValuesListed DEF Values
<1>2. UniqueValues \in Seq(Word) /\ Ascends(UniqueValues) /\ ToSet(UniqueValues) = image \ {0}
  BY UniqueListed
<1>3. Distinct(UniqueValues)
  BY <1>2, AscendsDistinct
<1> HIDE DEF image
<1>4. Listing(Values, {0})
  BY <1>1 DEF Listing, Distinct
<1>5. IsFiniteSet(image) /\ Cardinality(image) = Len(Values)
  BY <1>1, DistinctLength
<1>6. Len(UniqueValues) \in Nat /\ Cardinality(image \ {0}) = Len(UniqueValues)
  <2> DEFINE W == Word
  <2> HIDE DEF W
  <2>1. UniqueValues \in Seq(W)
    BY <1>2 DEF W
  <2> QED
    BY <1>2, <1>3, <2>1, DistinctLength
<1> QED
  BY <1>1, <1>2, <1>3, <1>4, <1>5, <1>6 DEF image

\* With entry 0 zero there is one value more than there are nonzero ones.
LEMMA ZeroBeside ==
  ASSUME resultVector \in [Entries -> Word], 0 \in Entries, resultVector[0] = 0
  PROVE  Len(Values) = Len(UniqueValues) + 1
<1> DEFINE image == {resultVector[i] : i \in Entries}
<1>1. /\ IsFiniteSet(image) /\ Cardinality(image) = Len(Values) /\ Len(Values) \in Nat
      /\ Cardinality(image \ {0}) = Len(UniqueValues)
  BY ValuesFacts
<1>2. 0 \in image
  OBVIOUS
<1> HIDE DEF image
<1>3. Cardinality(image \ {0}) = Cardinality(image) - 1
  BY <1>1, <1>2, FS_RemoveElement
<1> QED
  BY <1>1, <1>3

----------------------------------------------------------------------------
\* The rules.

\* The vector is the input with the constant taken off, and zero in entry 0.
Offset(initial, c) ==
  /\ c \in Word
  /\ resultVector = [i \in Entries |-> (initial[i] - c) % Modulus]

\* An entry and the constant that was taken off it make the entry of the input.
LEMMA PutBack ==
  ASSUME NEW initial \in [Entries -> Word], NEW c, Offset(initial, c), NEW i \in Entries
  PROVE  /\ resultVector[i] \in Word /\ initial[i] \in Word
         /\ (c + resultVector[i]) % Modulus = initial[i]
         /\ resultVector[i] = 0 => c = initial[i]
<1>1. c \in Word /\ initial[i] \in Word /\ resultVector[i] = (initial[i] - c) % Modulus
  BY DEF Offset
<1> QED
  BY <1>1, Restores

\* (2), (4), (5), (7): the constant and one term for each nonzero value.
LEMMA TermPerValueFaithful ==
  ASSUME NEW initial \in [Entries -> Word], NEW c, Offset(initial, c),
         0 \in Entries, resultVector[0] = 0
  PROVE  /\ Sum(c, TermPerValue(Values)) \in Expressions
         /\ Denotes(Sum(c, TermPerValue(Values)), initial)
         /\ Len(TermPerValue(Values)) = Len(UniqueValues)
<1> DEFINE terms == TermPerValue(Values)
           image == {resultVector[i] : i \in Entries}
<1>1. resultVector \in [Entries -> Word] /\ c \in Word
  <2>1. \A i \in Entries : resultVector[i] \in Word
    BY PutBack
  <2> QED
    BY <2>1 DEF Offset
<1>2. /\ Listing(Values, {0}) /\ ToSet(Values) = image
      /\ Cardinality(image \ {0}) = Len(UniqueValues) /\ Len(UniqueValues) \in Nat
  BY <1>1, ValuesFacts
<1>3. <<>> \in Seq(Terms) /\ Len(<<>>) = 0
  OBVIOUS
<1>4. Len(terms) = Len(UniqueValues)
  <2>1. Len(AppendTerms(<<>>, Values, {0})) = Len(<<>>) + Cardinality(ToSet(Values) \ {0})
    BY <1>2, <1>3, AppendTermsLength
  <2> QED
    BY <1>2, <1>3, <2>1 DEF TermPerValue
<1>5. ASSUME NEW i \in Entries
      PROVE  terms \in Seq(Terms) /\ ValueAt(Sum(c, terms), i) = initial[i]
  <2> DEFINE r == resultVector[i]
  <2>1. /\ terms \in Seq(Terms)
        /\ ValueAt(Sum(c, terms), i) =
             IF i # 0 /\ r \in image \ {0} THEN (ValueAt(Sum(c, <<>>), i) + r) % Modulus
             ELSE ValueAt(Sum(c, <<>>), i)
    BY <1>1, <1>2, <1>3, AppendTermsValue DEF TermPerValue
  <2>2. ValueAt(Sum(c, <<>>), i) = c
    BY <1>1, <1>3, ValueWord
  <2>3. (c + r) % Modulus = initial[i] /\ (r = 0 => c = initial[i])
    BY PutBack
  <2>4. r \in image
    OBVIOUS
  <2>5. i = 0 => r = 0
    OBVIOUS
  <2> HIDE DEF terms, image, r
  <2> QED
    BY <2>1, <2>2, <2>3, <2>4, <2>5
<1>6. terms \in Seq(Terms)
  BY <1>5
<1> HIDE DEF terms
<1> QED
  BY <1>1, <1>4, <1>5, <1>6, ExpressionForm DEF Denotes, terms

\* Entry 0 is there.
LEMMA ZeroEntry == 0 \in Entries
<1>1. vnumber \in 0 .. vnumber
  BY SizeAssumption
<1> QED
  BY <1>1, GroupSizes DEF Entries

\* When the test on the sign-extended values finds the double, so does the one that
\* wraps.
LEMMA DoubleWraps ==
  ASSUME NEW a \in Word, NEW b \in Word, a # b,
         is_double_modulo(b, a), ~ is_double_modulo(a, b)
  PROVE  (2 * a) % Modulus = b
<1>1. Modulus \in Nat \ {0} /\ a \in 0 .. Modulus - 1 /\ b \in 0 .. Modulus - 1
  BY SizeAssumption DEF Word
<1>2. CASE 2 * Signed(b) = Signed(a) + Modulus
  <2>1. a = 2 * b
    BY <1>1, <1>2 DEF Signed
  <2>2. (2 * b) % Modulus = a
    BY <1>1, <2>1
  <2> QED
    BY <2>2 DEF is_double_modulo
<1> QED
  BY <1>2 DEF is_double_modulo

\* The coefficient of a negated expression, once and twice.
LEMMA NegatedWords ==
  ASSUME NEW a \in Word, NEW b \in Word, a # b, (2 * a) % Modulus = b
  PROVE  LET coeff == (-a) % Modulus
         IN  /\ coeff \in Word \ {0}
             /\ (0 + coeff * (-1)) % Modulus = a
             /\ (0 + coeff * (-2)) % Modulus = b
<1> DEFINE coeff == (-a) % Modulus
<1>1. Modulus \in Nat \ {0} /\ a \in 0 .. Modulus - 1 /\ b \in 0 .. Modulus - 1
  BY SizeAssumption DEF Word
<1>2. a # 0
  BY <1>1
<1>3. coeff = Modulus - a
  BY <1>1, <1>2
<1>4. b = 2 * a \/ b = 2 * a - Modulus
  BY <1>1
<1>5. coeff * (-1) = a - Modulus /\ coeff * (-2) = 2 * a - 2 * Modulus
  BY <1>1, <1>3
<1>6. (a - Modulus) % Modulus = a
  BY <1>1, Wraps
<1>7. (2 * a - 2 * Modulus) % Modulus = b
  <2>1. 2 * a - 2 * Modulus \in {b - 2 * Modulus, b - Modulus}
    BY <1>1, <1>4
  <2> QED
    BY <1>1, <2>1, Wraps
<1>8. coeff \in Word \ {0}
  BY <1>1, <1>2, <1>3 DEF Word
<1> HIDE DEF coeff
<1> QED
  BY <1>1, <1>5, <1>6, <1>7, <1>8 DEF coeff

\* (3) One negated expression.  The exchange of the two values, made on the condition
\* opposite to the one it needs, does no harm: after it the expression is not taken.
LEMMA NegatedFaithful ==
  ASSUME resultVector \in [Entries -> Word], Len(Values) = 2, FindsNegated(Values)
  PROVE  /\ Negated(Values) \in Expressions
         /\ Denotes(Negated(Values), resultVector)
         /\ NumTerms(Negated(Values)) = 1
<1> DEFINE a == Values[1]
           b == Values[2]
           coeff == (-a) % Modulus
           t == [coeff |-> coeff, on |-> On({b}), negated |-> TRUE]
           image == {resultVector[i] : i \in Entries}
<1>1. Listing(Values, {0}) /\ ToSet(Values) = image /\ a = resultVector[0]
  BY ValuesFacts
<1>2. /\ a \in Word /\ b \in Word /\ a # b /\ image = {a, b} /\ DOMAIN Values = {1, 2}
      /\ Values = <<a, b>>
  <2>1. /\ DOMAIN Values = 1 .. 2 /\ \A k \in 1 .. 2 : Values[k] \in Word
        /\ \A j, k \in 1 .. 2 : Values[j] = Values[k] => j = k
    BY <1>1, ListingType
  <2>2. 1 .. 2 = {1, 2}
    OBVIOUS
  <2>3. image = {a, b}
    BY <1>1, <2>1, <2>2 DEF ToSet
  <2>4. Values \in Seq(Word)
    BY <1>1 DEF Listing
  <2> HIDE DEF image
  <2>5. Values = <<a, b>>
    BY <2>4
  <2>6. a \in Word /\ b \in Word /\ a # b
    BY <2>1, <2>2
  <2> QED
    BY <2>1, <2>2, <2>3, <2>5, <2>6
<1>3. ~ is_double_modulo(a, b) /\ is_double_modulo(b, a)
  <2>1. resultVector[0] # DoublePair(Values)[2]
    BY DEF FindsNegated
  <2>2. is_double_modulo(a, b) => DoublePair(Values)[2] = a
    BY DEF DoublePair
  <2>3. ~ is_double_modulo(a, b)
    BY <1>1, <2>1, <2>2
  <2> QED
    BY <2>3 DEF FindsNegated
<1>4. DoublePair(Values)[1] = a /\ DoublePair(Values)[2] = b
  BY <1>3 DEF DoublePair
<1>5. Negated(Values) = Sum(0, <<t>>)
  BY <1>4 DEF Negated
<1>6. coeff \in Word \ {0} /\ (0 + coeff * (-1)) % Modulus = a /\ (0 + coeff * (-2)) % Modulus = b
  BY <1>2, <1>3, DoubleWraps, NegatedWords
<1>7. t \in Terms /\ t.coeff = coeff
      /\ \A i \in Entries : WordAt(t, i) = IF resultVector[i] = b THEN -2 ELSE -1
  <2>1. \A i \in Entries : i \in On({b}) <=> resultVector[i] = b
    BY <1>1, <1>2 DEF On
  <2>2. On({b}) \in SUBSET (Entries \ {0})
    BY DEF On
  <2> HIDE DEF coeff, b
  <2>3. t \in Terms /\ t.coeff = coeff
    BY <1>6, <2>2 DEF Terms
  <2> QED
    BY <2>1, <2>3 DEF WordAt
<1>8. 0 \in Word /\ <<>> \in Seq(Terms) /\ Append(<<>>, t) = <<t>> /\ Len(<<t>>) = 1
  BY SizeAssumption DEF Word
<1>9. ASSUME NEW i \in Entries
      PROVE  <<t>> \in Seq(Terms) /\ ValueAt(Sum(0, <<t>>), i) = resultVector[i]
  <2>1. resultVector[i] \in {a, b}
    BY <1>2
  <2>2. WordAt(t, i) = IF resultVector[i] = b THEN -2 ELSE -1
    BY <1>7
  <2> HIDE DEF t, coeff, a, b, image
  <2>3. <<t>> \in Seq(Terms)
        /\ ValueAt(Sum(0, <<t>>), i) = (ValueAt(Sum(0, <<>>), i) + t.coeff * WordAt(t, i)) % Modulus
    BY <1>7, <1>8, ValueAppend
  <2>4. ValueAt(Sum(0, <<>>), i) = 0
    BY <1>8, ValueWord
  <2>5. CASE resultVector[i] = b
    BY <1>6, <1>7, <2>2, <2>3, <2>4, <2>5
  <2>6. CASE resultVector[i] = a
    BY <1>2, <1>6, <1>7, <2>2, <2>3, <2>4, <2>6
  <2> QED
    BY <2>1, <2>5, <2>6
<1> HIDE DEF t
<1>10. <<t>> \in Seq(Terms)
  BY <1>9, ZeroEntry
<1>11. Sum(0, <<t>>) \in Expressions /\ Sum(0, <<t>>).constant = 0 /\ Sum(0, <<t>>).terms = <<t>>
  BY <1>8, <1>10, ExpressionForm
<1> QED
  BY <1>5, <1>8, <1>9, <1>11 DEF Denotes, NumTerms

----------------------------------------------------------------------------
\* One value that is the sum of two others.

\* There is a first triple when there is one.
LEMMA FirstTripleFound ==
  ASSUME NEW u \in Seq(Word), SumTriples(u) # {}
  PROVE  FirstTriple(u) \in SumTriples(u)
<1> DEFINE rank(t) == (t[1] * 10 + t[2]) * 10 + t[3]
           S == SumTriples(u)
           R == {rank(t) : t \in S}
<1>1. \A t \in S : rank(t) \in Nat
  <2>1. DOMAIN u \subseteq Nat
    OBVIOUS
  <2>2. \A t \in S : t[1] \in Nat /\ t[2] \in Nat /\ t[3] \in Nat
    BY <2>1 DEF SumTriples
  <2> QED
    BY <2>2
<1>2. FirstTriple(u) = CHOOSE t \in S : \A s \in S : rank(t) <= rank(s)
  BY DEF FirstTriple
<1> HIDE DEF rank, S
<1>3. PICK t \in S : TRUE
  BY DEF S
<1>4. R \in SUBSET Nat /\ rank(t) \in R
  BY <1>1
<1>5. PICK m \in R : \A k \in R : m <= k
  BY <1>4, LeastElement
<1>6. PICK s \in S : rank(s) = m
  OBVIOUS
<1>7. \A q \in S : rank(s) <= rank(q)
  BY <1>5, <1>6
<1> QED
  BY <1>2, <1>7 DEF S

\* The values of a triple: three different words other than 0, and the third is the
\* sum of the others, by the first of the two tests if by any.
LEMMA TripleValues ==
  ASSUME NEW u \in Seq(Word), Distinct(u), 0 \notin ToSet(u), NEW t \in SumTriples(u)
  PROVE  /\ t[1] \in 1 .. Len(u) /\ t[2] \in 1 .. Len(u) /\ t[3] \in 1 .. Len(u)
         /\ t[1] < t[2] /\ t[3] \notin {t[1], t[2]} /\ Len(u) \in Nat
         /\ {u[t[1]], u[t[2]], u[t[3]]} \subseteq ToSet(u)
         /\ u[t[1]] \in Word \ {0} /\ u[t[2]] \in Word \ {0} /\ u[t[3]] \in Word \ {0}
         /\ u[t[1]] # u[t[2]] /\ u[t[3]] # u[t[1]] /\ u[t[3]] # u[t[2]]
         /\ (u[t[1]] + u[t[2]]) % Modulus = u[t[3]]
<1> DEFINE a == u[t[1]]
           b == u[t[2]]
           s == u[t[3]]
<1>1. /\ DOMAIN u = 1 .. Len(u) /\ Len(u) \in Nat
      /\ \A k \in 1 .. Len(u) : u[k] \in Word /\ u[k] # 0 /\ u[k] \in ToSet(u)
  <2> DEFINE W == Word
  <2> HIDE DEF W
  <2>1. u \in Seq(W) => DOMAIN u = 1 .. Len(u) /\ \A k \in 1 .. Len(u) : u[k] \in W
    OBVIOUS
  <2>2. DOMAIN u = 1 .. Len(u) /\ \A k \in 1 .. Len(u) : u[k] \in Word
    BY <2>1 DEF W
  <2> QED
    BY <2>2 DEF ToSet
<1>2. /\ t[1] \in 1 .. Len(u) /\ t[2] \in 1 .. Len(u) /\ t[3] \in 1 .. Len(u)
      /\ t[1] < t[2] /\ t[3] \notin {t[1], t[2]} /\ is_sum_modulo(a, b, s)
  BY <1>1 DEF SumTriples
<1>3. a # b /\ s # a /\ s # b
  BY <1>1, <1>2 DEF Distinct
<1>4. a \in Word /\ b \in Word /\ s \in Word
  BY <1>1, <1>2
<1> HIDE DEF a, b, s
<1>5. (a + b) % Modulus = s
  <2>1. Modulus \in Nat \ {0} /\ a \in 0 .. Modulus - 1 /\ b \in 0 .. Modulus - 1
        /\ s \in 0 .. Modulus - 1
    BY <1>4, SizeAssumption DEF Word
  <2>2. CASE Signed(a) + Signed(b) = Signed(s) + Modulus
    <3>1. a + b \in {s, s + Modulus}
      BY <2>1, <2>2 DEF Signed
    <3> QED
      BY <1>4, <2>1, <3>1, Wraps
  <2> QED
    BY <1>2, <2>2 DEF is_sum_modulo
<1> QED
  BY <1>1, <1>2, <1>3, <1>5 DEF a, b, s

\* The loop from the one summand to the other writes a term for each position.
LEMMA SummandTerms ==
  ASSUME NEW u \in Seq(Word), Distinct(u), 0 \notin ToSet(u), NEW t \in SumTriples(u)
  PROVE  LET terms == [n \in 1 .. t[2] - t[1] + 1 |-> TermFor(u[t[1] + n - 1], u[t[3]])]
         IN  terms \in Seq(Terms) /\ Len(terms) = t[2] - t[1] + 1
<1> DEFINE m == t[2] - t[1] + 1
           terms == [n \in 1 .. m |-> TermFor(u[t[1] + n - 1], u[t[3]])]
<1>1. t[1] \in 1 .. Len(u) /\ t[2] \in 1 .. Len(u) /\ t[1] < t[2] /\ Len(u) \in Nat
  BY TripleValues
<1>2. m \in Nat /\ \A n \in 1 .. m : t[1] + n - 1 \in 1 .. Len(u)
  BY <1>1
<1>3. \A k \in 1 .. Len(u) : u[k] \in Word \ {0}
  <2> DEFINE W == Word
  <2> HIDE DEF W
  <2>1. u \in Seq(W) => DOMAIN u = 1 .. Len(u) /\ \A k \in 1 .. Len(u) : u[k] \in W
    OBVIOUS
  <2>2. DOMAIN u = 1 .. Len(u) /\ \A k \in 1 .. Len(u) : u[k] \in Word
    BY <2>1 DEF W
  <2> QED
    BY <2>2 DEF ToSet
<1>4. \A n \in 1 .. m : TermFor(u[t[1] + n - 1], u[t[3]]) \in Terms
  BY <1>2, <1>3, TermForType
<1> DEFINE W == Terms
<1> HIDE DEF m, W
<1>5. terms \in [1 .. m -> W]
  BY <1>4 DEF W
<1>6. terms \in Seq(W) /\ Len(terms) = m
  <2> HIDE DEF terms
  <2>1. terms \in Seq(W)
    BY <1>2, <1>5, SeqDef
  <2>2. Len(terms) = m
    BY <1>2, <1>5, <2>1
  <2> QED
    BY <2>1, <2>2
<1> QED
  BY <1>6 DEF W, m

\* (6), (8): without the value that is the sum, when the summands are neighbours.
LEMMA WithoutSumFaithful ==
  ASSUME NEW initial \in [Entries -> Word], NEW c, Offset(initial, c), resultVector[0] = 0,
         SumTriples(UniqueValues) # {},
         FirstTriple(UniqueValues)[2] = FirstTriple(UniqueValues)[1] + 1
  PROVE  Denotes(Sum(c, WithoutSum(UniqueValues)), initial)
<1> DEFINE u == UniqueValues
           t == FirstTriple(u)
           a == u[t[1]]
           b == u[t[2]]
           s == u[t[3]]
           two == [n \in 1 .. t[2] - t[1] + 1 |-> TermFor(u[t[1] + n - 1], u[t[3]])]
           image == {resultVector[i] : i \in Entries}
<1>1. resultVector \in [Entries -> Word] /\ c \in Word
  <2>1. \A i \in Entries : resultVector[i] \in Word
    BY PutBack
  <2> QED
    BY <2>1 DEF Offset
<1>2. u \in Seq(Word) /\ Distinct(u) /\ ToSet(u) = image \ {0}
  BY <1>1, ValuesFacts
<1> HIDE DEF u
<1>3. t \in SumTriples(u)
  BY <1>2, FirstTripleFound DEF u
<1>4. /\ {a, b, s} \subseteq ToSet(u) /\ a \in Word \ {0} /\ b \in Word \ {0} /\ s \in Word \ {0}
      /\ a # b /\ s # a /\ s # b /\ (a + b) % Modulus = s
      /\ t[1] \in Nat /\ t[2] = t[1] + 1
  <2>1. 0 \notin ToSet(u) /\ t[2] = t[1] + 1
    BY <1>2 DEF u
  <2> HIDE DEF t
  <2>2. /\ t[1] \in 1 .. Len(u) /\ Len(u) \in Nat
        /\ {a, b, s} \subseteq ToSet(u)
        /\ a \in Word \ {0} /\ b \in Word \ {0} /\ s \in Word \ {0}
        /\ a # b /\ s # a /\ s # b /\ (a + b) % Modulus = s
    <3> HIDE DEF image
    <3>1. u \in Seq(Word) /\ Distinct(u)
      BY <1>2
    <3> QED
      BY <1>3, <2>1, <3>1, TripleValues
  <2> HIDE DEF a, b, s
  <2> QED
    BY <2>1, <2>2
<1>5. two \in Seq(Terms) /\ Len(two) = 2 /\ two[1] = TermFor(a, s) /\ two[2] = TermFor(b, s)
  <2>1. 0 \notin ToSet(u)
    BY <1>2
  <2>2. t[2] - t[1] + 1 = 2 /\ t[1] + 1 - 1 = t[1] /\ t[1] + 2 - 1 = t[2]
    BY <1>4
  <2>3. two \in Seq(Terms) /\ Len(two) = 2
    <3> HIDE DEF t
    <3>1. two \in Seq(Terms) /\ Len(two) = t[2] - t[1] + 1
      BY <1>2, <1>3, <2>1, SummandTerms
    <3> HIDE DEF two
    <3> QED
      BY <2>2, <3>1
  <2>4. two[1] = TermFor(u[t[1] + 1 - 1], s) /\ two[2] = TermFor(u[t[1] + 2 - 1], s)
    BY <2>2
  <2> HIDE DEF two
  <2> QED
    BY <2>2, <2>3, <2>4
<1>6. Listing(u, {a, b, s})
  <2>1. \A k \in DOMAIN u : u[k] # 0
    BY <1>2 DEF ToSet
  <2> QED
    BY <1>2, <2>1 DEF Listing, Distinct
<1>7. WithoutSum(u) = AppendTerms(two, u, {a, b, s})
  BY DEF WithoutSum
<1> HIDE DEF t, two, a, b, s
<1>8. ASSUME NEW i \in Entries
      PROVE  ValueAt(Sum(c, WithoutSum(u)), i) = initial[i]
  <2> DEFINE r == resultVector[i]
             v == ValueAt(Sum(c, two), i)
  <2>1. ValueAt(Sum(c, WithoutSum(u)), i) =
          IF i # 0 /\ r \in ToSet(u) \ {a, b, s} THEN (v + r) % Modulus ELSE v
    BY <1>1, <1>5, <1>6, <1>7, AppendTermsValue
  <2>2. PICK f : IsTrace(f, c, two, i)
    BY <1>1, <1>5, TraceExists
  <2>3. v = f[2]
    BY <1>1, <1>5, <2>2, TraceUnique
  <2>4. f[1] = (c + two[1].coeff * WordAt(two[1], i)) % Modulus
        /\ f[2] = (f[1] + two[2].coeff * WordAt(two[2], i)) % Modulus
    <3>1. f[0] = c /\ \A k \in 1 .. 2 :
            f[k] = (f[k - 1] + two[k].coeff * WordAt(two[k], i)) % Modulus
      BY <1>5, <2>2 DEF IsTrace
    <3> QED
      BY <3>1
  <2>5. /\ two[1].coeff = a /\ WordAt(two[1], i) = IF i # 0 /\ r \in {a, s} THEN 1 ELSE 0
        /\ two[2].coeff = b /\ WordAt(two[2], i) = IF i # 0 /\ r \in {b, s} THEN 1 ELSE 0
    BY <1>4, <1>5, TermForType
  <2>6. r \in Word /\ (c + r) % Modulus = initial[i] /\ (r = 0 => c = initial[i])
        /\ (i = 0 => r = 0) /\ (r # 0 => r \in ToSet(u))
    <3>1. r \in image
      OBVIOUS
    <3> HIDE DEF image
    <3> QED
      BY <1>2, <3>1, PutBack
  <2> HIDE DEF r, v
  <2>7. /\ Modulus \in Nat \ {0} /\ a \in 1 .. Modulus - 1 /\ b \in 1 .. Modulus - 1
        /\ s \in 1 .. Modulus - 1 /\ c \in 0 .. Modulus - 1
    BY <1>1, <1>4, SizeAssumption DEF Word
  <2>8. v = IF r \in {a, b, s} THEN (c + r) % Modulus ELSE c
    <3>1. CASE r = a
      <4>1. f[1] = (c + a) % Modulus
        BY <1>4, <2>4, <2>5, <2>6, <2>7, <3>1
      <4>2. f[2] = (f[1] + 0) % Modulus
        BY <1>4, <2>4, <2>5, <2>7, <3>1
      <4>3. f[1] \in Word
        BY <2>7, <4>1, Reduced
      <4>4. f[2] = f[1]
        BY <4>2, <4>3, SizeAssumption DEF Word
      <4> QED
        BY <2>3, <3>1, <4>1, <4>4
    <3>2. CASE r = b
      <4>1. f[1] = (c + 0) % Modulus
        BY <1>4, <2>4, <2>5, <2>7, <3>2
      <4>2. f[1] = c
        BY <2>7, <4>1
      <4>3. f[2] = (c + b) % Modulus
        BY <1>4, <2>4, <2>5, <2>6, <2>7, <3>2, <4>2
      <4> QED
        BY <2>3, <3>2, <4>3
    <3>3. CASE r = s
      <4>1. f[1] = (c + a) % Modulus /\ f[2] = (f[1] + b) % Modulus
        BY <1>4, <2>4, <2>5, <2>6, <2>7, <3>3
      <4>2. f[1] = c + a \/ f[1] = c + a - Modulus
        BY <2>7, <4>1
      <4>3. s = a + b \/ s = a + b - Modulus
        BY <1>4, <2>7
      <4>4. (c + s) % Modulus = c + s \/ (c + s) % Modulus = c + s - Modulus
        BY <2>7
      <4>5. (c + s) % Modulus \in Word
        BY <2>7, Reduced
      <4>6. (f[1] + b) % Modulus = (c + s) % Modulus
        <5> DEFINE w == (c + s) % Modulus
        <5>1. w \in Int /\ f[1] + b \in Int
          BY <2>7, <4>2
        <5> HIDE DEF w
        <5>2. f[1] + b \in {w - 2 * Modulus, w - Modulus, w, w + Modulus, w + 2 * Modulus}
          BY <2>7, <4>2, <4>3, <4>4 DEF w
        <5>3. w \in Word
          BY <4>5 DEF w
        <5>4. (f[1] + b) % Modulus = w
          BY <5>1, <5>2, <5>3, Wraps
        <5> QED
          BY <5>4 DEF w
      <4> QED
        BY <2>3, <3>3, <4>1, <4>6
    <3>4. CASE r \notin {a, b, s}
      <4>1. f[1] = (c + 0) % Modulus /\ f[2] = (f[1] + 0) % Modulus
        BY <2>4, <2>5, <2>7, <3>4
      <4>2. f[1] = c
        BY <2>7, <4>1
      <4>3. f[2] = c
        BY <2>7, <4>1, <4>2
      <4> QED
        BY <2>3, <3>4, <4>3
    <3> QED
      BY <3>1, <3>2, <3>3, <3>4
  <2>9. CASE r \in {a, b, s}
    BY <2>1, <2>6, <2>8, <2>9
  <2>10. CASE r \notin {a, b, s} /\ r # 0
    BY <2>1, <2>6, <2>8, <2>10
  <2>11. CASE r = 0
    <3>1. r \notin {a, b, s} /\ r \notin ToSet(u)
      BY <1>2, <1>4, <2>11
    <3> QED
      BY <2>1, <2>6, <2>8, <2>11, <3>1
  <2> QED
    BY <2>9, <2>10, <2>11
<1> QED
  BY <1>8 DEF Denotes, u

\* Whether the summands are neighbours or not, terms are appended to terms; how many.
LEMMA WithoutSumType ==
  ASSUME resultVector \in [Entries -> Word], SumTriples(UniqueValues) # {}
  PROVE  LET u == UniqueValues
             t == FirstTriple(u)
         IN  /\ WithoutSum(u) \in Seq(Terms)
             /\ Len(WithoutSum(u)) = t[2] - t[1] + 1 + Len(u) - 3
             /\ t[1] \in 1 .. Len(u) /\ t[2] \in 1 .. Len(u) /\ t[1] < t[2]
             /\ Len(u) \in Nat /\ Len(u) >= 3
<1> DEFINE u == UniqueValues
           t == FirstTriple(u)
           a == u[t[1]]
           b == u[t[2]]
           s == u[t[3]]
           terms == [n \in 1 .. t[2] - t[1] + 1 |-> TermFor(u[t[1] + n - 1], u[t[3]])]
           image == {resultVector[i] : i \in Entries}
<1>1. /\ u \in Seq(Word) /\ Distinct(u) /\ ToSet(u) = image \ {0}
      /\ Len(u) \in Nat /\ IsFiniteSet(image)
  BY ValuesFacts
<1> HIDE DEF u, image
<1>2. 0 \notin ToSet(u) /\ t \in SumTriples(u)
  BY <1>1, FirstTripleFound DEF u
<1>3. WithoutSum(u) = AppendTerms(terms, u, {a, b, s})
  BY DEF WithoutSum
<1>4. Listing(u, {a, b, s})
  <2>1. \A k \in DOMAIN u : u[k] # 0
    BY <1>2 DEF ToSet
  <2> QED
    BY <1>1, <2>1 DEF Listing, Distinct
<1> HIDE DEF t
<1>5. /\ t[1] \in 1 .. Len(u) /\ t[2] \in 1 .. Len(u) /\ t[1] < t[2]
      /\ {a, b, s} \subseteq ToSet(u) /\ a # b /\ s # a /\ s # b
  BY <1>1, <1>2, TripleValues
<1>6. terms \in Seq(Terms) /\ Len(terms) = t[2] - t[1] + 1
  BY <1>1, <1>2, SummandTerms
<1> HIDE DEF terms, a, b, s
<1>7. WithoutSum(u) \in Seq(Terms)
  <2>1. PICK f : /\ Simpler(f, terms, u, {a, b, s})
                 /\ AppendTerms(terms, u, {a, b, s}) = f[Len(u)]
    BY <1>4, <1>6, SimplerExists
  <2> QED
    BY <1>1, <1>3, <2>1 DEF Simpler
<1>8. Len(WithoutSum(u)) = Len(terms) + Cardinality(ToSet(u) \ {a, b, s})
  BY <1>3, <1>4, <1>6, AppendTermsLength
<1>9. Cardinality(ToSet(u) \ {a, b, s}) = Len(u) - 3 /\ Len(u) >= 3
  <2> DEFINE S == ToSet(u)
  <2>1. IsFiniteSet(S) /\ Cardinality(S) = Len(u)
    <3> DEFINE W == Word
    <3> HIDE DEF W
    <3>1. u \in Seq(W)
      BY <1>1 DEF W
    <3> QED
      BY <1>1, <3>1, DistinctLength
  <2> HIDE DEF S
  <2>2. a \in S /\ b \in S \ {a} /\ s \in (S \ {a}) \ {b}
    BY <1>5 DEF S
  <2>3. IsFiniteSet(S \ {a}) /\ Cardinality(S \ {a}) = Len(u) - 1
    BY <2>1, <2>2, FS_RemoveElement
  <2>4. IsFiniteSet((S \ {a}) \ {b}) /\ Cardinality((S \ {a}) \ {b}) = Len(u) - 1 - 1
    BY <2>2, <2>3, FS_RemoveElement
  <2>5. /\ IsFiniteSet(((S \ {a}) \ {b}) \ {s})
        /\ Cardinality(((S \ {a}) \ {b}) \ {s}) = Len(u) - 1 - 1 - 1
    BY <2>2, <2>4, FS_RemoveElement
  <2>6. ((S \ {a}) \ {b}) \ {s} = S \ {a, b, s}
    OBVIOUS
  <2> DEFINE rest == Cardinality(S \ {a, b, s})
  <2>7. rest \in Nat /\ rest = Len(u) - 1 - 1 - 1
    BY <2>5, <2>6, FS_CardinalityType
  <2> HIDE DEF rest
  <2>8. rest = Len(u) - 3 /\ Len(u) >= 3
    BY <1>1, <2>7
  <2> QED
    BY <2>8 DEF rest, S
<1>10. Len(WithoutSum(u)) = t[2] - t[1] + 1 + Len(u) - 3
  BY <1>1, <1>5, <1>6, <1>8, <1>9
<1> QED
  BY <1>1, <1>5, <1>7, <1>9, <1>10 DEF u, t

\* Among three values the summands are neighbours: the largest and the smallest add up
\* to more than the one between, and wrapping gives less than the smallest.
LEMMA NeighboursOfThree ==
  ASSUME resultVector \in [Entries -> Word], SumTriples(UniqueValues) # {},
         Len(UniqueValues) = 3
  PROVE  FirstTriple(UniqueValues)[2] = FirstTriple(UniqueValues)[1] + 1
<1> DEFINE u == UniqueValues
           t == FirstTriple(u)
           image == {resultVector[i] : i \in Entries}
<1>1. /\ u \in Seq(Word) /\ Ascends(u) /\ Distinct(u) /\ ToSet(u) = image \ {0}
      /\ DOMAIN u = 1 .. 3 /\ Len(u) = 3
  BY ValuesFacts
<1> HIDE DEF u, image
<1>2. 0 \notin ToSet(u) /\ t \in SumTriples(u)
  BY <1>1, FirstTripleFound DEF u
<1> HIDE DEF t
<1>3. /\ t[1] \in 1 .. 3 /\ t[2] \in 1 .. 3 /\ t[3] \in 1 .. 3
      /\ t[1] < t[2] /\ t[3] \notin {t[1], t[2]}
      /\ u[t[1]] \in Word \ {0} /\ u[t[2]] \in Word \ {0} /\ u[t[3]] \in Word \ {0}
      /\ (u[t[1]] + u[t[2]]) % Modulus = u[t[3]]
  BY <1>1, <1>2, TripleValues
<1>4. u[1] < u[2] /\ u[2] < u[3]
  BY <1>1 DEF Ascends
<1>5. ~ (t[1] = 1 /\ t[2] = 3)
  <2> SUFFICES ASSUME t[1] = 1, t[2] = 3
               PROVE  FALSE
    OBVIOUS
  <2>1. t[3] = 2
    BY <1>3
  <2> DEFINE x == u[1]
             y == u[2]
             z == u[3]
  <2>2. x \in Word \ {0} /\ y \in Word \ {0} /\ z \in Word \ {0} /\ (x + z) % Modulus = y
        /\ x < y /\ y < z
    BY <1>3, <1>4, <2>1
  <2> HIDE DEF x, y, z
  <2> QED
    BY <2>2, SizeAssumption DEF Word
<1> QED
  BY <1>3, <1>5 DEF u, t

\* A term for the value of the first or the second position.
LEMMA FirstOtherType ==
  ASSUME resultVector \in [Entries -> Word], Len(UniqueValues) >= 4
  PROVE  FirstOther(UniqueValues) \in Seq(Terms) /\ Len(FirstOther(UniqueValues)) = 1
<1> DEFINE u == UniqueValues
           image == {resultVector[i] : i \in Entries}
<1>1. u \in Seq(Word) /\ ToSet(u) = image \ {0} /\ Len(u) \in Nat /\ DOMAIN u = 1 .. Len(u)
  BY ValuesFacts
<1> HIDE DEF u, image
<1>2. \A k \in 1 .. Len(u) : u[k] \in Word \ {0}
  <2>1. \A k \in 1 .. Len(u) : u[k] \in image \ {0}
    BY <1>1 DEF ToSet
  <2>2. image \subseteq Word
    BY DEF image
  <2> QED
    BY <2>1, <2>2
<1>3. 1 \in 1 .. Len(u) /\ 2 \in 1 .. Len(u)
  BY <1>1 DEF u
<1>4. \A x : TermFor(u[1], x) \in Terms /\ TermFor(u[2], x) \in Terms
  BY <1>2, <1>3, TermForType
<1>5. PICK t \in Terms : FirstOther(u) = <<t>>
  <2> DEFINE k == CHOOSE m \in HalfOfAll(u) : \A n \in HalfOfAll(u) : m <= n
             j == IF k = 1 THEN 2 ELSE 1
  <2>1. FirstOther(u) = <<TermFor(u[j], u[k])>>
    BY DEF FirstOther
  <2>2. TermFor(u[j], u[k]) \in Terms
    <3> HIDE DEF k
    <3> QED
      BY <1>4
  <2> QED
    BY <2>1, <2>2
<1> QED
  BY <1>5 DEF u

\* What try_eliminate_unique_value returns, and with it how the values lie.
LEMMA EliminatedType ==
  ASSUME resultVector \in [Entries -> Word]
  PROVE  LET u == UniqueValues
             terms == try_eliminate_unique_value(u)
         IN  /\ terms \in Seq(Terms)
             /\ SumTriples(u) # {} => terms = WithoutSum(u)
             /\ terms # <<>> /\ Len(u) <= 3 => SumTriples(u) # {} /\ Len(u) = 3
             /\ Len(u) <= 3 => Len(terms) <= 3
<1> DEFINE u == UniqueValues
           terms == try_eliminate_unique_value(u)
<1>1. Len(u) \in Nat
  BY ValuesFacts
<1>2. CASE SumTriples(u) # {}
  <2>1. terms = WithoutSum(u)
    BY <1>2 DEF try_eliminate_unique_value
  <2> DEFINE t == FirstTriple(u)
  <2>2. /\ WithoutSum(u) \in Seq(Terms)
        /\ Len(WithoutSum(u)) = t[2] - t[1] + 1 + Len(u) - 3
        /\ t[1] \in 1 .. Len(u) /\ t[2] \in 1 .. Len(u) /\ t[1] < t[2]
        /\ Len(u) \in Nat /\ Len(u) >= 3
    BY <1>2, WithoutSumType
  <2> HIDE DEF u, terms, t
  <2>3. Len(u) <= 3 => Len(WithoutSum(u)) <= 3 /\ Len(u) = 3
    <3> DEFINE l == Len(u)
               m == Len(WithoutSum(u))
               p == t[1]
               q == t[2]
    <3>1. l \in Nat /\ l >= 3 /\ p \in 1 .. l /\ q \in 1 .. l /\ m = q - p + 1 + l - 3
      BY <2>2
    <3> HIDE DEF l, m, p, q
    <3>2. l <= 3 => m <= 3 /\ l = 3
      BY <3>1
    <3> QED
      BY <3>2 DEF l, m
  <2> QED
    BY <1>2, <2>1, <2>2, <2>3 DEF u, terms
<1>3. CASE SumTriples(u) = {}
  <2>1. CASE Len(u) >= 4 /\ HalfOfAll(u) # {}
    <3>1. terms = FirstOther(u)
      BY <1>3, <2>1 DEF try_eliminate_unique_value
    <3>2. FirstOther(u) \in Seq(Terms)
      BY <2>1, FirstOtherType
    <3> HIDE DEF u, terms
    <3> QED
      BY <1>1, <1>3, <2>1, <3>1, <3>2 DEF u, terms
  <2>2. CASE ~ (Len(u) >= 4 /\ HalfOfAll(u) # {})
    <3>1. terms = <<>>
      BY <1>3, <2>2 DEF try_eliminate_unique_value
    <3> HIDE DEF u, terms
    <3> QED
      BY <1>3, <3>1 DEF u, terms
  <2> QED
    BY <2>1, <2>2
<1> QED
  BY <1>2, <1>3

----------------------------------------------------------------------------
\* The specification.

\* What the steps keep.  The constant and the vector together are the input; entry 0 is
\* zero once the constant is off; until a rule returns, and where none does, the
\* expression is the sum of conjunctions.
Parts ==
  /\ Offset(initialResultVector, constant)
  /\ pc = "two_values" => constant = 0
  /\ pc = "values" => resultVector[0] = 0 /\ Count > 2
  /\ pc # "done" => rule = "generic"
  /\ rule = "generic" => expr = Generic(initialResultVector)

IInv == TypeOK /\ Parts /\ FaithfulUnlessApart /\ NeverLonger

\* As long as no constant is taken off, the vector is the input.
LEMMA NothingOff ==
  ASSUME NEW initial \in [Entries -> Word], Offset(initial, 0)
  PROVE  resultVector = initial
<1>1. \A i \in Entries : initial[i] \in Word /\ (initial[i] - 0) % Modulus = initial[i]
  <2>1. \A x \in Word : x \in Int /\ x - 0 = x
    BY DEF Word
  <2>2. \A x \in Word : (x - 0) % Modulus = x
    BY <2>1, Wraps
  <2> QED
    BY <2>2
<1> QED
  BY <1>1 DEF Offset

\* The numbers of summands that are compared.
LEMMA Summands ==
  ASSUME initialResultVector \in [Entries -> Word]
  PROVE  /\ Count \in Nat
         /\ \A c \in Word, terms \in Seq(Terms) :
              NumTerms(Sum(c, terms)) = Len(terms) + IF c = 0 THEN 0 ELSE 1
<1>1. \A c \in Word, terms \in Seq(Terms) :
        NumTerms(Sum(c, terms)) = Len(terms) + IF c = 0 THEN 0 ELSE 1
  BY ExpressionForm DEF NumTerms
<1>2. Count \in Nat
  <2> DEFINE e == Generic(initialResultVector)
  <2>1. e \in Expressions
    BY GenericFaithful
  <2>2. Len(e.terms) \in Nat
    BY <2>1, ExpressionForm, TermType
  <2>3. Count = Len(e.terms) + (IF e.constant = 0 THEN 0 ELSE 1)
    BY DEF Count, NumTerms
  <2> DEFINE n == Len(e.terms)
             m == IF e.constant = 0 THEN 0 ELSE 1
  <2>4. n \in Nat /\ m \in Nat /\ Count = n + m
    BY <2>2, <2>3
  <2> HIDE DEF n, m
  <2> QED
    BY <2>4
<1> QED
  BY <1>1, <1>2

\* The initial states: the sum of conjunctions is faithful, and as long as itself.
LEMMA InitInvariant == Init => IInv
<1> SUFFICES ASSUME Init
             PROVE  IInv
  OBVIOUS
<1>1. initialResultVector \in [Entries -> Word]
  BY InputsAssumption DEF Init
<1>2. expr \in Expressions /\ Denotes(expr, initialResultVector)
  BY <1>1, GenericFaithful DEF Init
<1>3. 0 \in Word /\ \A x \in Word : (x - 0) % Modulus = x
  BY SizeAssumption DEF Word
<1>4. Offset(initialResultVector, constant)
  <2>1. \A i \in Entries : initialResultVector[i] \in Word
    BY <1>1
  <2>2. constant = 0 /\ resultVector = initialResultVector
    BY DEF Init
  <2>3. \A i \in Entries : resultVector[i] = (initialResultVector[i] - 0) % Modulus
    BY <1>3, <2>1, <2>2
  <2>4. resultVector \in [Entries -> Word]
    BY <1>1, <2>2
  <2> QED
    BY <1>3, <2>2, <2>3, <2>4 DEF Offset
<1>5. NumTerms(expr) <= Count
  <2>1. Count \in Nat /\ NumTerms(expr) = Count
    BY <1>1, Summands DEF Init, Count
  <2> QED
    BY <2>1
<1>6. TypeOK
  BY <1>1, <1>2, <1>3 DEF Init, TypeOK
<1> QED
  BY <1>2, <1>4, <1>5, <1>6 DEF Init, IInv, Parts, FaithfulUnlessApart, NeverLonger

\* The case FaithfulUnlessApart excepts.
Apart(name) ==
  /\ name = "eliminated"
  /\ SumTriples(UniqueValues) # {} =>
       FirstTriple(UniqueValues)[2] > FirstTriple(UniqueValues)[1] + 1

\* What a rule has to show of what it returns.
LEMMA ReturnKeeps ==
  ASSUME IInv, NEW e \in Expressions,
         NEW name \in {"generic", "single", "negated", "constant_single", "two_terms",
                       "eliminated_three", "per_value", "eliminated"},
         ReturnWith(e, name),
         name = "generic" => e = Generic(initialResultVector),
         Apart(name) \/ Denotes(e, initialResultVector),
         Len(UniqueValues) <= 3 => NumTerms(e) <= Count
  PROVE  IInv'
<1>1. /\ expr' = e /\ rule' = name /\ pc' = "done"
      /\ initialResultVector' = initialResultVector /\ resultVector' = resultVector
      /\ constant' = constant
  BY DEF ReturnWith
<1>2. UniqueValues' = UniqueValues /\ Count' = Count
  BY <1>1 DEF UniqueValues, Values, Count
<1>3. TypeOK'
  BY <1>1 DEF IInv, TypeOK
<1>4. Parts'
  BY <1>1 DEF IInv, Parts, Offset
<1>5. FaithfulUnlessApart'
  BY <1>1, <1>2 DEF Apart, FaithfulUnlessApart, SummandsApart
<1>6. NeverLonger'
  BY <1>1, <1>2 DEF NeverLonger
<1> QED
  BY <1>3, <1>4, <1>5, <1>6 DEF IInv

\* Where no rule applies the sum of conjunctions is returned as it is.
LEMMA KeepKeeps ==
  ASSUME IInv, pc # "done", ReturnWith(expr, "generic")
  PROVE  IInv'
<1>1. expr = Generic(initialResultVector) /\ initialResultVector \in [Entries -> Word]
  BY DEF IInv, Parts, TypeOK
<1>2. expr \in Expressions /\ Denotes(expr, initialResultVector)
  BY <1>1, GenericFaithful
<1>3. NumTerms(expr) <= Count
  <2>1. Count \in Nat /\ NumTerms(expr) = Count
    BY <1>1, Summands DEF Count
  <2> QED
    BY <2>1
<1> QED
  BY <1>1, <1>2, <1>3, ReturnKeeps

\* One term per nonzero value, in whichever of the rules.
LEMMA PerValueKeeps ==
  ASSUME IInv,
         NEW name \in {"single", "constant_single", "two_terms", "per_value"},
         resultVector[0] = 0, ReturnWith(Sum(constant, TermPerValue(Values)), name),
         Len(UniqueValues) <= 3 => Len(UniqueValues) + (IF constant = 0 THEN 0 ELSE 1) <= Count
  PROVE  IInv'
<1> DEFINE terms == TermPerValue(Values)
<1>1. initialResultVector \in [Entries -> Word] /\ constant \in Word
      /\ Offset(initialResultVector, constant)
  BY DEF IInv, Parts, TypeOK
<1>2. /\ Sum(constant, terms) \in Expressions
      /\ Denotes(Sum(constant, terms), initialResultVector)
      /\ Len(terms) = Len(UniqueValues)
  BY <1>1, ZeroEntry, TermPerValueFaithful
<1> HIDE DEF terms
<1>3. terms \in Seq(Terms)
  BY <1>2 DEF Sum, Expressions
<1>4. NumTerms(Sum(constant, terms)) = Len(UniqueValues) + IF constant = 0 THEN 0 ELSE 1
  BY <1>1, <1>2, <1>3, Summands
<1> QED
  BY <1>2, <1>4, ReturnKeeps DEF terms

\* Each rule keeps the invariant.
LEMMA NextInvariant == IInv /\ [Next]_vars => IInv'
<1> SUFFICES ASSUME IInv, [Next]_vars
             PROVE  IInv'
  OBVIOUS
<1> DEFINE u == UniqueValues
           initial == initialResultVector
<1>1. /\ initial \in [Entries -> Word] /\ resultVector \in [Entries -> Word]
      /\ constant \in Word /\ Offset(initial, constant) /\ TypeOK
      /\ pc = "two_values" => constant = 0
      /\ pc = "values" => resultVector[0] = 0 /\ Count > 2
  BY DEF IInv, Parts, TypeOK
<1>2. Count \in Nat /\ Len(u) \in Nat /\ Len(Values) \in Nat
  BY <1>1, Summands, ValuesFacts
<1>3. resultVector[0] = 0 => Len(u) = Len(Values) - 1
  <2>1. resultVector[0] = 0 => Len(Values) = Len(u) + 1
    BY <1>1, ZeroEntry, ZeroBeside
  <2> DEFINE m == Len(u)
             n == Len(Values)
  <2>2. m \in Nat /\ n \in Nat /\ (resultVector[0] = 0 => n = m + 1)
    BY <1>2, <2>1
  <2> HIDE DEF m, n
  <2>3. resultVector[0] = 0 => m = n - 1
    BY <2>2
  <2> QED
    BY <2>3 DEF m, n
<1>4. pc = "two_values" => resultVector = initial
  BY <1>1, NothingOff
<1> HIDE DEF u, initial
<1>5. CASE SingleExpression
  <2>1. /\ pc = "two_values" /\ Count > 1 /\ Len(Values) = 2 /\ resultVector[0] = 0
        /\ ReturnWith(Sum(constant, TermPerValue(Values)), "single")
    BY <1>1, <1>5 DEF SingleExpression, SingleTermTaken
  <2>2. Len(u) = 1 /\ constant = 0
    <3>1. constant = 0
      BY <1>1, <2>1
    <3> QED
      BY <1>3, <2>1, <3>1
  <2>3. Len(u) + (IF constant = 0 THEN 0 ELSE 1) <= Count
    BY <1>2, <2>1, <2>2
  <2> QED
    BY <2>1, <2>3, PerValueKeeps DEF u
<1>6. CASE NegatedExpression
  <2>1. /\ pc = "two_values" /\ Count > 1 /\ Len(Values) = 2 /\ FindsNegated(Values)
        /\ ReturnWith(Negated(Values), "negated")
    BY <1>6 DEF NegatedExpression
  <2>2. /\ Negated(Values) \in Expressions
        /\ Denotes(Negated(Values), resultVector)
        /\ NumTerms(Negated(Values)) = 1
    BY <1>1, <2>1, NegatedFaithful
  <2>3. Denotes(Negated(Values), initialResultVector)
    BY <1>4, <2>1, <2>2 DEF initial
  <2>4. NumTerms(Negated(Values)) <= Count
    BY <1>2, <2>1, <2>2
  <2> QED
    BY <2>1, <2>2, <2>3, <2>4, ReturnKeeps
<1>7. CASE KeepShort
  BY <1>7, KeepKeeps DEF KeepShort
<1>8. CASE SubtractConstant
  <2>1. /\ pc = "two_values" /\ Count > 2 /\ pc' = "values"
        /\ constant' = resultVector[0]
        /\ resultVector' = [i \in Entries |-> (resultVector[i] - resultVector[0]) % Modulus]
        /\ initialResultVector' = initialResultVector /\ expr' = expr /\ rule' = rule
    BY <1>8 DEF SubtractConstant
  <2>2. resultVector[0] \in Word /\ \A i \in Entries : resultVector[i] \in Word
    BY <1>1, ZeroEntry
  <2>3. resultVector' \in [Entries -> Word]
    <3>1. \A i \in Entries : (resultVector[i] - resultVector[0]) % Modulus \in Word
      BY <2>2, Restores
    <3> QED
      BY <2>1, <3>1
  <2>4. resultVector'[0] = 0
    <3>1. (resultVector[0] - resultVector[0]) % Modulus = 0
      <4> DEFINE x == resultVector[0]
      <4>1. x \in Word
        BY <2>2
      <4> HIDE DEF x
      <4>2. (x - x) % Modulus = 0
        BY <4>1, SizeAssumption DEF Word
      <4> QED
        BY <4>2 DEF x
    <3> QED
      BY <2>1, <3>1, ZeroEntry
  <2>5. Offset(initialResultVector, constant)'
    BY <1>4, <2>1, <2>2 DEF Offset, initial
  <2>6. expr = Generic(initialResultVector) /\ rule = "generic"
    BY <2>1 DEF IInv, Parts
  <2>7. expr \in Expressions /\ Denotes(expr, initialResultVector)
    BY <1>1, <2>6, GenericFaithful DEF initial
  <2>8. Count' = Count /\ NumTerms(expr) = Count
    BY <2>1, <2>6 DEF Count
  <2>9. TypeOK'
    BY <1>1, <2>1, <2>2, <2>3 DEF TypeOK
  <2>10. Parts'
    BY <2>1, <2>4, <2>5, <2>6, <2>8 DEF Parts
  <2>11. FaithfulUnlessApart'
    BY <2>1, <2>7 DEF FaithfulUnlessApart
  <2>12. NeverLonger'
    <3>1. NumTerms(expr)' = NumTerms(expr)
      BY <2>1
    <3> QED
      BY <1>2, <2>8, <3>1 DEF NeverLonger
  <2> QED
    BY <2>9, <2>10, <2>11, <2>12 DEF IInv
<1>9. CASE ConstantAndSingle
  <2>1. /\ pc = "values" /\ Len(Values) = 2
        /\ ReturnWith(Sum(constant, TermPerValue(Values)), "constant_single")
    BY <1>9 DEF ConstantAndSingle
  <2>2. resultVector[0] = 0 /\ Len(u) = 1 /\ Count > 2
    <3>1. resultVector[0] = 0 /\ Count > 2
      BY <1>1, <2>1
    <3> QED
      BY <1>3, <2>1, <3>1
  <2>3. Len(u) + (IF constant = 0 THEN 0 ELSE 1) <= Count
    BY <1>2, <2>2
  <2> QED
    BY <2>1, <2>2, <2>3, PerValueKeeps DEF u
<1>10. CASE TwoTerms
  <2>1. /\ pc = "values" /\ Len(Values) = 3 /\ constant = 0
        /\ ReturnWith(Sum(constant, TermPerValue(Values)), "two_terms")
    BY <1>10 DEF TwoTerms
  <2>2. resultVector[0] = 0 /\ Len(u) = 2 /\ Count > 2
    <3>1. resultVector[0] = 0 /\ Count > 2
      BY <1>1, <2>1
    <3> QED
      BY <1>3, <2>1, <3>1
  <2>3. Len(u) + (IF constant = 0 THEN 0 ELSE 1) <= Count
    BY <1>2, <2>1, <2>2
  <2> QED
    BY <2>1, <2>2, <2>3, PerValueKeeps DEF u
<1>11. CASE EliminateOfThree
  <2> DEFINE terms == try_eliminate_unique_value(u)
  <2>1. /\ pc = "values" /\ Len(Values) = 4 /\ constant = 0 /\ terms # <<>>
        /\ ReturnWith(Sum(0, terms), "eliminated_three")
    BY <1>11 DEF EliminateOfThree, u
  <2>2. resultVector[0] = 0 /\ Len(u) = 3 /\ Count > 2
    <3>1. resultVector[0] = 0 /\ Count > 2
      BY <1>1, <2>1
    <3> QED
      BY <1>3, <2>1, <3>1
  <2>3. terms \in Seq(Terms) /\ SumTriples(u) # {} /\ terms = WithoutSum(u)
    BY <1>1, <2>1, <2>2, EliminatedType DEF u
  <2>4. FirstTriple(u)[2] = FirstTriple(u)[1] + 1
    BY <1>1, <2>2, <2>3, NeighboursOfThree DEF u
  <2>5. Denotes(Sum(0, terms), initialResultVector)
    BY <1>1, <2>1, <2>2, <2>3, <2>4, WithoutSumFaithful DEF u, initial
  <2>6. Len(terms) = 2
    <3> DEFINE p == FirstTriple(u)[1]
               q == FirstTriple(u)[2]
               m == Len(WithoutSum(u))
    <3>1. p \in 1 .. 3 /\ m = q - p + 1 + 3 - 3 /\ q = p + 1
      BY <1>1, <2>2, <2>3, <2>4, WithoutSumType DEF u
    <3>2. m = Len(terms)
      BY <2>3
    <3> HIDE DEF p, q, m
    <3>3. m = 2
      BY <3>1
    <3> QED
      BY <3>2, <3>3
  <2> HIDE DEF terms
  <2>7. Sum(0, terms) \in Expressions /\ NumTerms(Sum(0, terms)) = 2
    <3>1. 0 \in Word
      BY <1>1, <2>1
    <3>2. Sum(0, terms) \in Expressions
      BY <2>3, <3>1, ExpressionForm
    <3>3. NumTerms(Sum(0, terms)) = Len(terms) + (IF 0 = 0 THEN 0 ELSE 1)
      BY <1>1, <2>3, <3>1, Summands DEF initial
    <3> QED
      BY <2>6, <3>2, <3>3
  <2>8. NumTerms(Sum(0, terms)) <= Count
    BY <1>2, <2>2, <2>7
  <2> QED
    BY <2>1, <2>5, <2>7, <2>8, ReturnKeeps
<1>12. CASE KeepThree
  BY <1>12, KeepKeeps DEF KeepThree, Remaining
<1>13. CASE OneTermPerValue
  <2>1. /\ pc = "values" /\ Count > 3 /\ constant = 0
        /\ ReturnWith(Sum(constant, TermPerValue(Values)), "per_value")
    BY <1>13 DEF OneTermPerValue, Remaining
  <2>2. Len(u) <= 3 => Len(u) + (IF constant = 0 THEN 0 ELSE 1) <= Count
    BY <1>2, <2>1
  <2> QED
    BY <1>1, <2>1, <2>2, PerValueKeeps DEF u
<1>14. CASE EliminateBesideConstant
  <2> DEFINE terms == try_eliminate_unique_value(u)
  <2>1. /\ pc = "values" /\ Count > 3 /\ ReturnWith(Sum(constant, terms), "eliminated")
    BY <1>14 DEF EliminateBesideConstant, Remaining, u
  <2>2. /\ terms \in Seq(Terms)
        /\ SumTriples(u) # {} => terms = WithoutSum(u)
        /\ Len(u) <= 3 => Len(terms) <= 3
    BY <1>1, EliminatedType DEF u
  <2>3. Apart("eliminated") \/ Denotes(Sum(constant, terms), initialResultVector)
    <3> DEFINE t == FirstTriple(u)
    <3>1. CASE SumTriples(u) # {} /\ t[2] = t[1] + 1
      <4>1. Denotes(Sum(constant, WithoutSum(u)), initialResultVector)
        BY <1>1, <2>1, <3>1, WithoutSumFaithful DEF u, initial
      <4> QED
        BY <2>2, <3>1, <4>1
    <3>2. CASE SumTriples(u) # {} /\ t[2] # t[1] + 1
      <4>1. t[1] \in 1 .. Len(u) /\ t[2] \in 1 .. Len(u) /\ t[1] < t[2]
        BY <1>1, <3>2, WithoutSumType DEF u
      <4> HIDE DEF t
      <4>2. t[2] > t[1] + 1
        BY <1>2, <3>2, <4>1
      <4> QED
        BY <4>2 DEF Apart, u, t
    <3>3. CASE SumTriples(u) = {}
      BY <3>3 DEF Apart, u
    <3> QED
      BY <3>1, <3>2, <3>3
  <2> HIDE DEF terms
  <2>4. /\ Sum(constant, terms) \in Expressions
        /\ NumTerms(Sum(constant, terms)) = Len(terms) + (IF constant = 0 THEN 0 ELSE 1)
    BY <1>1, <2>2, ExpressionForm, Summands DEF initial
  <2>5. Len(u) <= 3 => NumTerms(Sum(constant, terms)) <= Count
    <3>1. Len(terms) \in Nat
      BY <2>2, TermType
    <3> QED
      BY <1>2, <2>1, <2>2, <2>4, <3>1
  <2> QED
    BY <2>1, <2>3, <2>4, <2>5, ReturnKeeps DEF u
<1>15. CASE KeepGeneric
  BY <1>15, KeepKeeps DEF KeepGeneric, Remaining
<1>16. CASE UNCHANGED vars
  <2>1. /\ pc' = pc /\ initialResultVector' = initialResultVector
        /\ resultVector' = resultVector /\ constant' = constant /\ expr' = expr /\ rule' = rule
    BY <1>16 DEF vars
  <2>2. UniqueValues' = UniqueValues /\ Count' = Count
    BY <2>1 DEF UniqueValues, Values, Count
  <2>3. TypeOK' /\ Parts'
    BY <2>1, <2>2 DEF IInv, TypeOK, Parts, Offset
  <2>4. FaithfulUnlessApart' /\ NeverLonger'
    BY <2>1, <2>2 DEF IInv, FaithfulUnlessApart, SummandsApart, NeverLonger
  <2> QED
    BY <2>3, <2>4 DEF IInv
<1> QED
  BY <1>5, <1>6, <1>7, <1>8, <1>9, <1>10, <1>11, <1>12, <1>13, <1>14, <1>15, <1>16 DEF Next

\* The invariant holds in every behaviour.
THEOREM Invariance == Spec => []IInv
<1>1. Init => IInv
  BY InitInvariant
<1>2. IInv /\ [Next]_vars => IInv'
  BY NextInvariant
<1> QED
  BY <1>1, <1>2, PTL DEF Spec

\* try_refine keeps its variables in their types: every coefficient is a nonzero word,
\* and no term is true in entry 0.
THEOREM TypeCorrect == Spec => []TypeOK
<1>1. IInv => TypeOK
  BY DEF IInv
<1> QED
  BY <1>1, Invariance, PTL

\* Simplifier.cpp:723-862: what try_refine returns has the values of the input on every
\* truth assignment, by whichever rule and for every width; the one exception is rule
\* (8) with summands that are not neighbours, or with a sum of all other values.
THEOREM RefinementIsFaithful == Spec => []FaithfulUnlessApart
<1>1. IInv => FaithfulUnlessApart
  BY DEF IInv
<1> QED
  BY <1>1, Invariance, PTL

\* Simplifier.cpp:735-862: with at most three nonzero values, what try_refine returns
\* has no more summands than what it was given.
THEOREM RefinementIsNotLonger == Spec => []NeverLonger
<1>1. IInv => NeverLonger
  BY DEF IInv
<1> QED
  BY <1>1, Invariance, PTL

=============================================================================
