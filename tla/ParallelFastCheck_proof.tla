---------------------- MODULE ParallelFastCheck_proof ----------------------
(***************************************************************************)
(* The races of the parallel fast check are harmless to its verdict: for   *)
(* any number of variables, samples, generator states and processors, and  *)
(* for any two expressions, the verdict is that of the samples drawn, and  *)
(* no thread outlives the call.                                            *)
(***************************************************************************)
EXTENDS ParallelFastCheck, SequenceTheorems, TLAPS

Running == {"load", "store", "compare"}

\* The threads spawned are the first i ones, and the counter is the number of
\* those not joined, as long as the loop runs.
Counted ==
  /\ pc \in {"corners", "spawn"} => i < NUM_TEST_CASES
  /\ pc = "corners" => i = 0
  /\ pc \notin {"drain", "done"} => CurThreadCount = Len(threads)
  /\ CurThreadCount <= i
  /\ pc = "full" => CurThreadCount > 0
  /\ \A t \in Tests : at[t] = "unborn" <=> t > i

\* A thread that still runs is in the list of those to be joined.
Listed == \A t \in Tests : at[t] \in Running => \E k \in 1 .. Len(threads) : threads[k] = t

\* A thread has a whole sample when it compares, and not before.
Drawn ==
  \A t \in Tests :
    /\ at[t] \in {"unborn", "load", "store"} => Len(par[t]) < vnumber
    /\ at[t] \in {"compare", "finished"} => par[t] \in Samples

\* The flag sums up the comparisons made so far, in whatever order they came.
Flagged == IsValid <=> \A t \in Tests : at[t] = "finished" => par[t] \notin Mismatch

\* The loop is left early only after the flag was seen cleared; the call returns
\* on a corner before there is a thread, or after the last one was joined.
Left ==
  /\ pc = "drain" /\ IsValid => i = NUM_TEST_CASES
  /\ pc \notin {"corners", "done"} => Corners \intersect Mismatch = {}
  /\ pc = "done" =>
       \/ Corners \intersect Mismatch # {} /\ i = 0 /\ verdict = FALSE
       \/ /\ Corners \intersect Mismatch = {} /\ threads = <<>> /\ verdict = IsValid
          /\ IsValid => i = NUM_TEST_CASES

IInv == TypeOK /\ Counted /\ Listed /\ Drawn /\ Flagged /\ Left

----------------------------------------------------------------------------

\* Before the corners are tested there is no thread, and the flag is set.
LEMMA InitIInv == Init => IInv
<1> SUFFICES ASSUME Init PROVE IInv
  OBVIOUS
<1>1. TypeOK
  BY SizeAssumption, DifferencesAssumption DEF Init, TypeOK, Tests, Word
<1> QED
  BY <1>1, SizeAssumption
     DEF Init, IInv, Counted, Listed, Drawn, Flagged, Left, Tests, Running

\* The steps of the main thread.  None touches the flag or the samples drawn.
LEMMA MainIInv ==
  ASSUME IInv, Main
  PROVE  IInv'
<1> USE SizeAssumption
<1>1. TypeOK /\ Counted /\ Listed /\ Drawn /\ Flagged /\ Left
  BY DEF IInv
<1>2. Len(threads) \in Nat /\ i \in Nat /\ CurThreadCount \in Nat
  BY <1>1 DEF TypeOK
<1>3. CASE CheckCorners
  <2>1. UNCHANGED <<inputs, i, threads, CurThreadCount, threadVars>>
    BY <1>3 DEF CheckCorners
  <2>2. TypeOK'
    BY <1>1, <1>3, <2>1 DEF CheckCorners, TypeOK, inputs, threadVars
  <2>3. Counted' /\ Listed' /\ Drawn' /\ Flagged'
    BY <1>1, <1>3, <2>1
       DEF CheckCorners, Counted, Listed, Drawn, Flagged, inputs, threadVars
  <2>4. Left'
    BY <1>1, <1>3, <2>1 DEF CheckCorners, Left, Counted, inputs, threadVars
  <2> QED
    BY <2>2, <2>3, <2>4 DEF IInv
<1>4. CASE Spawn
  <2>1. i + 1 \in Tests
    BY <1>1, <1>2, <1>4 DEF Spawn, Counted, Tests
  <2>2. /\ threads' \in Seq(Tests) /\ Len(threads') = Len(threads) + 1
        /\ \A k \in 1 .. Len(threads) : threads'[k] = threads[k]
        /\ threads'[Len(threads) + 1] = i + 1
    BY <1>1, <1>4, <2>1, AppendProperties DEF Spawn, TypeOK
  <2>3. /\ i' = i + 1 /\ CurThreadCount' = CurThreadCount + 1 /\ pc = "spawn"
        /\ pc' \in {"full", "test"}
        /\ UNCHANGED <<inputs, SP64, IsValid, register, par, verdict>>
        /\ \A t \in Tests : at'[t] = IF t = i + 1 THEN "load" ELSE at[t]
    BY <1>1, <1>4 DEF Spawn, TypeOK
  <2>4. CurThreadCount <= i
    BY <1>1 DEF Counted
  <2>5. TypeOK'
    <3>1. i' \in 0 .. NUM_TEST_CASES /\ CurThreadCount' \in 0 .. NUM_TEST_CASES
      BY <1>2, <2>1, <2>3, <2>4 DEF Tests
    <3> QED
      BY <1>1, <1>4, <2>2, <2>3, <3>1 DEF Spawn, TypeOK, inputs
  <2>6. Counted'
    <3>1. \A t \in Tests : at'[t] = "unborn" <=> t > i'
      BY <1>1, <1>2, <2>1, <2>3 DEF Counted, Tests
    <3> QED
      BY <1>1, <1>2, <2>2, <2>3, <3>1 DEF Counted
  <2>7. Listed'
    <3> SUFFICES ASSUME NEW t \in Tests, at'[t] \in Running
                 PROVE  \E k \in 1 .. Len(threads') : threads'[k] = t
      BY DEF Listed
    <3>1. CASE t = i + 1
      BY <1>2, <2>2, <3>1
    <3>2. CASE t # i + 1
      BY <1>1, <1>2, <2>2, <2>3, <3>2 DEF Listed
    <3> QED
      BY <3>1, <3>2
  <2>8. at[i + 1] = "unborn" /\ Len(par[i + 1]) < vnumber
    BY <1>1, <1>2, <2>1 DEF Counted, Drawn
  <2>9. Drawn'
    <3> SUFFICES ASSUME NEW t \in Tests
                 PROVE  /\ at'[t] \in {"unborn", "load", "store"} => Len(par[t]) < vnumber
                        /\ at'[t] \in {"compare", "finished"} => par[t] \in Samples
      BY <2>3 DEF Drawn
    <3>1. CASE t = i + 1
      BY <2>3, <2>8, <3>1
    <3>2. CASE t # i + 1
      BY <1>1, <2>3, <3>2 DEF Drawn
    <3> QED
      BY <3>1, <3>2
  <2>10. Flagged'
    BY <1>1, <2>1, <2>3, <2>8 DEF Flagged, inputs
  <2>11. Left'
    BY <1>1, <2>3 DEF Left, inputs
  <2> QED
    BY <2>5, <2>6, <2>7, <2>9, <2>10, <2>11 DEF IInv
<1>5. CASE JoinFront \/ JoinRemaining
  <2>1. /\ pc \in {"full", "drain"}
        /\ pc = "full" => pc' = "test" /\ CurThreadCount' = CurThreadCount - 1
        /\ pc = "drain" => pc' = "drain" /\ CurThreadCount' = CurThreadCount
        /\ threads' = Tail(threads) /\ at[Head(threads)] = "finished"
        /\ UNCHANGED <<inputs, i, verdict, threadVars>>
    BY <1>5 DEF JoinFront, JoinRemaining
  <2>2. threads # <<>>
    BY <1>1, <1>5, <2>1 DEF JoinFront, JoinRemaining, Counted, TypeOK
  <2>3. /\ threads' \in Seq(Tests) /\ Len(threads') = Len(threads) - 1
        /\ Len(threads) \in Nat \ {0} /\ Head(threads) = threads[1]
        /\ \A k \in 1 .. Len(threads') : threads'[k] = threads[k + 1]
    BY <1>1, <2>1, <2>2, HeadTailProperties DEF TypeOK
  <2>4. TypeOK'
    <3>1. CurThreadCount' \in 0 .. NUM_TEST_CASES
      BY <1>1, <1>2, <2>1 DEF TypeOK, Counted
    <3>2. pc' \in {"corners", "spawn", "full", "test", "drain", "done"}
      BY <2>1
    <3> QED
      BY <1>1, <2>1, <2>3, <3>1, <3>2 DEF TypeOK, inputs, threadVars
  <2>5. Counted'
    <3>1. CurThreadCount' <= i' /\ (pc' # "drain" => CurThreadCount' = Len(threads'))
      BY <1>1, <1>2, <2>1, <2>3 DEF Counted
    <3>2. pc' \in {"test", "drain"}
      BY <2>1
    <3> QED
      BY <1>1, <2>1, <3>1, <3>2 DEF Counted, threadVars
  <2>6. Listed'
    <3> SUFFICES ASSUME NEW t \in Tests, at[t] \in Running
                 PROVE  \E k \in 1 .. Len(threads') : threads'[k] = t
      BY <2>1 DEF Listed, threadVars
    <3>1. PICK k \in 1 .. Len(threads) : threads[k] = t
      BY <1>1 DEF Listed
    <3>2. k # 1
      BY <2>1, <2>3, <3>1 DEF Running
    <3>3. k - 1 \in 1 .. Len(threads') /\ threads'[k - 1] = t
      BY <2>3, <3>1, <3>2
    <3> QED
      BY <3>3
  <2>7. Drawn' /\ Flagged'
    BY <1>1, <2>1 DEF Drawn, Flagged, inputs, threadVars
  <2>8. Left'
    BY <1>1, <2>1 DEF Left, inputs, threadVars
  <2> QED
    BY <2>4, <2>5, <2>6, <2>7, <2>8 DEF IInv
<1>6. CASE TestFlag
  <2>1. /\ pc = "test"
        /\ \/ ~IsValid /\ pc' = "drain"
           \/ i < NUM_TEST_CASES /\ pc' = "spawn"
           \/ ~(i < NUM_TEST_CASES) /\ pc' = "drain"
        /\ UNCHANGED <<inputs, i, threads, CurThreadCount, verdict, threadVars>>
    BY <1>6 DEF TestFlag
  <2>2. TypeOK'
    BY <1>1, <2>1 DEF TypeOK, inputs, threadVars
  <2>3. Counted' /\ Listed' /\ Drawn' /\ Flagged'
    BY <1>1, <2>1 DEF Counted, Listed, Drawn, Flagged, inputs, threadVars
  <2>4. i = NUM_TEST_CASES \/ i < NUM_TEST_CASES
    BY <1>1 DEF TypeOK
  <2>5. Left'
    BY <1>1, <2>1, <2>4 DEF Left, inputs, threadVars
  <2> QED
    BY <2>2, <2>3, <2>5 DEF IInv
<1>7. CASE Return
  <2>1. /\ pc = "drain" /\ pc' = "done" /\ threads = <<>> /\ verdict' = IsValid
        /\ UNCHANGED <<inputs, i, threads, CurThreadCount, threadVars>>
    BY <1>7 DEF Return
  <2>2. TypeOK'
    BY <1>1, <2>1 DEF TypeOK, inputs, threadVars
  <2>3. Counted' /\ Listed' /\ Drawn' /\ Flagged'
    BY <1>1, <2>1 DEF Counted, Listed, Drawn, Flagged, inputs, threadVars
  <2>4. Left'
    BY <1>1, <2>1 DEF Left, inputs, threadVars
  <2> QED
    BY <2>2, <2>3, <2>4 DEF IInv
<1> QED
  BY <1>3, <1>4, <1>5, <1>6, <1>7 DEF Main

\* The steps of a thread.  Another thread may have moved the generator between
\* the two halves of a draw: the sample is a sample all the same.
LEMMA ThreadIInv ==
  ASSUME IInv, NEW t \in Tests, Thread(t)
  PROVE  IInv'
<1> USE SizeAssumption
<1>1. TypeOK /\ Counted /\ Listed /\ Drawn /\ Flagged /\ Left
  BY DEF IInv
<1>2. at[t] \in Running
  BY DEF Thread, Load, Store, Compare, Running
<1>3. UNCHANGED <<inputs, mainVars>>
  BY DEF Thread, Load, Store, Compare
<1>4. at'[t] # "unborn" /\ \A u \in Tests : u # t => at'[u] = at[u]
  BY <1>1 DEF Thread, Load, Store, Compare, TypeOK
<1>5. pc # "done"
  BY <1>1, <1>2 DEF Left, Listed, Counted, Running, Tests
<1>6. Counted' /\ Listed'
  BY <1>1, <1>2, <1>3, <1>4 DEF Counted, Listed, mainVars, Running
<1>7. Left' \/ (IsValid' /\ ~IsValid)
  BY <1>1, <1>3, <1>5 DEF Left, inputs, mainVars
<1>8. CASE Load(t)
  <2>1. TypeOK'
    BY <1>1, <1>8 DEF Load, TypeOK, inputs, mainVars
  <2>2. Drawn' /\ Flagged'
    BY <1>1, <1>8 DEF Load, Drawn, Flagged, TypeOK, inputs
  <2> QED
    BY <1>6, <1>7, <1>8, <2>1, <2>2 DEF IInv, Load
<1>9. CASE Store(t)
  <2> DEFINE x == (register[t] + 1) % WordSize
  <2>1. x \in Word
    BY <1>1 DEF TypeOK, Word
  <2>2. /\ at[t] = "store" /\ SP64' = x /\ register' = register /\ IsValid' = IsValid
        /\ par' = [par EXCEPT ![t] = Append(par[t], x)]
        /\ at' = [at EXCEPT ![t] = IF Len(par[t]) + 1 = vnumber THEN "compare" ELSE "load"]
    BY <1>9 DEF Store
  <2> HIDE DEF x
  <2>3. par[t] \in Seq(Word) /\ Len(par[t]) \in Nat /\ Len(par[t]) < vnumber
    BY <1>1, <2>2 DEF TypeOK, Drawn
  <2>4. /\ par'[t] \in Seq(Word) /\ Len(par'[t]) = Len(par[t]) + 1
        /\ \A u \in Tests : u # t => par'[u] = par[u]
    BY <1>1, <2>1, <2>2, <2>3, AppendProperties DEF TypeOK
  <2>5. TypeOK'
    <3>1. /\ par' \in [Tests -> Seq(Word)]
          /\ at' \in [Tests -> {"unborn", "load", "store", "compare", "finished"}]
      <4>1. Append(par[t], x) \in Seq(Word)
        BY <2>1, <2>3, AppendProperties
      <4> QED
        BY <1>1, <2>2, <4>1 DEF TypeOK
    <3>2. \A u \in Tests : Len(par'[u]) <= vnumber
      <4>1. Len(par'[t]) <= vnumber
        BY <2>3, <2>4
      <4>2. \A u \in Tests : u # t => Len(par'[u]) <= vnumber
        BY <1>1, <2>4 DEF TypeOK
      <4> QED
        BY <4>1, <4>2
    <3> QED
      BY <1>1, <1>3, <2>1, <2>2, <3>1, <3>2 DEF TypeOK, inputs, mainVars
  <2>6. Drawn'
    <3>1. Len(par'[t]) = vnumber => par'[t] \in Samples
      BY <2>4 DEF Samples
    <3> QED
      BY <1>1, <1>4, <2>2, <2>3, <2>4, <3>1 DEF Drawn, TypeOK
  <2>7. Flagged'
    BY <1>1, <1>3, <1>4, <2>2, <2>4 DEF Flagged, TypeOK, inputs
  <2> QED
    BY <1>6, <1>7, <2>2, <2>5, <2>6, <2>7 DEF IInv
<1>10. CASE Compare(t)
  <2>1. TypeOK'
    BY <1>1, <1>10 DEF Compare, TypeOK, inputs, mainVars
  <2>2. Drawn'
    BY <1>1, <1>10 DEF Compare, Drawn, TypeOK
  <2>3. at[t] # "finished" /\ at'[t] = "finished" /\ par' = par /\ Mismatch' = Mismatch
        /\ IsValid' = (IF par[t] \in Mismatch THEN FALSE ELSE IsValid)
    BY <1>1, <1>10 DEF Compare, TypeOK, inputs
  <2>4. Flagged'
    BY <1>1, <1>4, <2>3 DEF Flagged
  <2>5. IsValid' => IsValid
    BY <2>3
  <2> QED
    BY <1>6, <1>7, <2>1, <2>2, <2>4, <2>5 DEF IInv
<1> QED
  BY <1>8, <1>9, <1>10 DEF Thread

\* Every state of probably_equivalent_parallel and its threads: which threads run is
\* told by the list of those to join, the count of launches and the main thread's place.
THEOREM Invariance == Spec => []IInv
<1>1. IInv /\ UNCHANGED vars => IInv'
  BY DEF IInv, TypeOK, Counted, Listed, Drawn, Flagged, Left, vars, inputs, mainVars, threadVars
<1>2. IInv /\ [Next]_vars => IInv'
  BY <1>1, MainIInv, ThreadIInv DEF Next
<1> QED
  BY InitIInv, <1>2, PTL DEF Spec

\* The generator, the samples and the books of the main thread keep their types,
\* whatever the threads interleave.
THEOREM TypeCorrect == Spec => []TypeOK
<1>1. IInv => TypeOK
  BY DEF IInv
<1> QED
  BY Invariance, <1>1, PTL

\* When probably_equivalent_parallel returns, every thread it has spawned has ended:
\* none is left with a reference into its frame.
THEOREM ThreadsEndFirst == Spec => []NoThreadOutlivesCall
<1>1. IInv => NoThreadOutlivesCall
  BY DEF IInv, TypeOK, Counted, Listed, Left, Running, NoThreadOutlivesCall, Tests
<1> QED
  BY Invariance, <1>1, PTL

\* The verdict is that of the samples drawn, for any number of threads and any
\* order of their unlocked loads and stores.
THEOREM VerdictIsOfSamples == Spec => []VerdictMatchesSamples
<1>1. IInv => VerdictMatchesSamples
  BY DEF IInv, TypeOK, Counted, Flagged, Left, VerdictMatchesSamples, Tests
<1> QED
  BY Invariance, <1>1, PTL

\* A pair is only accepted on all of its random samples, although the flag is read
\* without synchronisation.
THEOREM ValidIsFullyTested == Spec => []AllSamplesTested
<1>1. IInv => AllSamplesTested
  <2> SUFFICES ASSUME IInv, pc = "done", verdict = TRUE, NEW t \in Tests
               PROVE  at[t] = "finished"
    BY DEF AllSamplesTested
  <2>1. i = NUM_TEST_CASES /\ threads = <<>>
    BY DEF IInv, Left
  <2> QED
    BY <2>1, SizeAssumption DEF IInv, TypeOK, Counted, Listed, Running, Tests
<1> QED
  BY Invariance, <1>1, PTL

\* No step of any thread takes back a difference that was found.
THEOREM DifferenceIsKept == Spec => NeverForgotten
<1>1. [Next]_vars => [~IsValid => ~IsValid']_vars
  BY DEF Next, Main, CheckCorners, Spawn, JoinFront, TestFlag, JoinRemaining, Return,
         Thread, Load, Store, Compare, threadVars
<1> QED
  BY <1>1, PTL DEF Spec, NeverForgotten

=============================================================================
