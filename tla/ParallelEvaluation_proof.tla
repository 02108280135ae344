---------------------- MODULE ParallelEvaluation_proof ----------------------
(***************************************************************************)
(* The window of futures keeps the order of the result vector and its own  *)
(* bound, for any number of entries and of processors.                     *)
(***************************************************************************)
EXTENDS ParallelEvaluation, FiniteSetTheorems, TLAPS

\* The entries collected, the ones in the window and the ones not launched are
\* consecutive intervals.
Consecutive ==
  /\ i = Len(resultVector) + Len(threads)
  /\ \A k \in 1 .. Len(resultVector) : resultVector[k] = k - 1
  /\ \A k \in 1 .. Len(threads) : threads[k] = Len(resultVector) + k - 1

\* A task is only waited for, or collected, once it was started.
Started ==
  /\ \A entry \in finished : entry < i
  /\ \A entry \in Entries : entry < Len(resultVector) => entry \in finished

\* The counter is the number of futures, and the window is full exactly when the
\* main thread waits.
Counted ==
  /\ pc \in {"launch", "full"} => CurThreadCount = Len(threads)
  /\ MaxThreadCount > 0 =>
       /\ Len(threads) <= MaxThreadCount
       /\ pc = "launch" => Len(threads) < MaxThreadCount

IInv == TypeOK /\ Consecutive /\ Started /\ Counted

\* The first entry is launched into an empty window.
LEMMA InitIInv == Init => IInv
BY EntriesAssumption, ConcurrencyAssumption
   DEF Init, IInv, TypeOK, Consecutive, Started, Counted, Entries

\* A task launched is the next entry, and takes the last place of the window.
LEMMA LaunchIInv ==
  ASSUME IInv, Launch
  PROVE  IInv'
<1> USE EntriesAssumption, ConcurrencyAssumption
<1>1. TypeOK /\ Consecutive /\ Started /\ Counted
  BY DEF IInv
<1>2. i \in Entries
  BY <1>1 DEF Launch, TypeOK, Entries
<1>3. /\ threads' \in Seq(Entries)
      /\ Len(threads') = Len(threads) + 1
      /\ \A k \in 1 .. Len(threads') :
           threads'[k] = IF k = Len(threads) + 1 THEN i ELSE threads[k]
  BY <1>1, <1>2 DEF Launch, TypeOK
<1>4. TypeOK'
  BY <1>1, <1>2, <1>3 DEF Launch, TypeOK, Entries
<1>5. Consecutive'
  <2>1. Len(resultVector) \in Nat /\ Len(threads) \in Nat /\ i \in Int
    BY <1>1 DEF TypeOK
  <2>2. i' = i + 1 /\ resultVector' = resultVector
    BY DEF Launch
  <2>3. i' = Len(resultVector') + Len(threads')
    BY <1>1, <1>3, <2>1, <2>2 DEF Consecutive
  <2>4. \A k \in 1 .. Len(resultVector') : resultVector'[k] = k - 1
    BY <1>1, <2>2 DEF Consecutive
  <2>5. \A k \in 1 .. Len(threads') : threads'[k] = Len(resultVector') + k - 1
    <3> SUFFICES ASSUME NEW k \in 1 .. Len(threads')
                 PROVE  threads'[k] = Len(resultVector') + k - 1
      OBVIOUS
    <3>1. CASE k = Len(threads) + 1
      BY <1>1, <1>3, <2>1, <2>2, <3>1 DEF Consecutive
    <3>2. CASE k \in 1 .. Len(threads)
      BY <1>1, <1>3, <2>1, <2>2, <3>2 DEF Consecutive
    <3> QED
      BY <1>3, <2>1, <3>1, <3>2
  <2> QED
    BY <2>3, <2>4, <2>5 DEF Consecutive
<1>6. Started'
  BY <1>1 DEF Launch, Started, TypeOK, Entries
<1>7. Counted'
  <2>1. Len(threads) \in Nat /\ CurThreadCount \in Nat /\ MaxThreadCount \in Nat
    BY <1>1 DEF TypeOK
  <2> QED
    BY <1>1, <1>3, <2>1 DEF Launch, Counted
<1> QED
  BY <1>4, <1>5, <1>6, <1>7 DEF IInv

\* Taking the oldest future, in the loop or at the end, appends the next entry.
LEMMA TakeHead ==
  ASSUME IInv, threads # <<>>, Head(threads) \in finished,
         resultVector' = Append(resultVector, Head(threads)),
         threads' = Tail(threads),
         UNCHANGED <<MaxThreadCount, i, finished>>
  PROVE  /\ Head(threads) = Len(resultVector)
         /\ Len(resultVector) < NumEntries
         /\ resultVector' \in Seq(Entries)
         /\ threads' \in Seq(Entries)
         /\ Len(threads') = Len(threads) - 1
         /\ Consecutive'
         /\ Started'
<1> USE EntriesAssumption
<1>1. TypeOK /\ Consecutive /\ Started
  BY DEF IInv
<1>2. /\ Len(threads) \in Nat \ {0}
      /\ Len(resultVector) \in Nat
      /\ Head(threads) = threads[1]
      /\ Head(threads) \in Entries
  BY <1>1 DEF TypeOK
<1>3. /\ threads' \in Seq(Entries)
      /\ Len(threads') = Len(threads) - 1
      /\ \A k \in 1 .. Len(threads') : threads'[k] = threads[k + 1]
  BY <1>1 DEF TypeOK
<1>4. /\ resultVector' \in Seq(Entries)
      /\ Len(resultVector') = Len(resultVector) + 1
      /\ \A k \in 1 .. Len(resultVector') :
           resultVector'[k] = IF k = Len(resultVector) + 1 THEN Head(threads)
                                                           ELSE resultVector[k]
  BY <1>1, <1>2 DEF TypeOK
<1>5. Head(threads) = Len(resultVector)
  BY <1>1, <1>2 DEF Consecutive
<1>6. Len(resultVector) < NumEntries
  BY <1>2, <1>5 DEF Entries
<1>7. Consecutive'
  <2>1. i \in Int /\ i' = i
    BY <1>1 DEF TypeOK
  <2>2. i' = Len(resultVector') + Len(threads')
    BY <1>1, <1>2, <1>3, <1>4, <2>1 DEF Consecutive
  <2>3. \A k \in 1 .. Len(resultVector') : resultVector'[k] = k - 1
    BY <1>1, <1>2, <1>4, <1>5 DEF Consecutive
  <2>4. \A k \in 1 .. Len(threads') : threads'[k] = Len(resultVector') + k - 1
    <3> SUFFICES ASSUME NEW k \in 1 .. Len(threads')
                 PROVE  threads'[k] = Len(resultVector') + k - 1
      OBVIOUS
    <3>1. k + 1 \in 1 .. Len(threads)
      BY <1>2, <1>3
    <3>2. threads[k + 1] = Len(resultVector) + (k + 1) - 1
      BY <1>1, <3>1 DEF Consecutive
    <3> QED
      BY <1>2, <1>3, <1>4, <3>2
  <2> QED
    BY <2>2, <2>3, <2>4 DEF Consecutive
<1>8. Started'
  <2>1. \A entry \in Entries : entry < Len(resultVector') => entry \in finished'
    BY <1>1, <1>2, <1>4, <1>5 DEF Started, Entries
  <2> QED
    BY <1>1, <2>1 DEF Started, Entries
<1> QED
  BY <1>3, <1>4, <1>5, <1>6, <1>7, <1>8

\* A result taken from a full window makes room for one task.
LEMMA TakeFrontIInv ==
  ASSUME IInv, TakeFront
  PROVE  IInv'
<1> USE EntriesAssumption, ConcurrencyAssumption
<1>1. TypeOK /\ Counted
  BY DEF IInv
<1>2. /\ resultVector' \in Seq(Entries)
      /\ threads' \in Seq(Entries)
      /\ Len(threads') = Len(threads) - 1
      /\ Consecutive'
      /\ Started'
  BY TakeHead DEF TakeFront
<1>3. Len(threads) \in Nat \ {0} /\ MaxThreadCount \in Nat /\ CurThreadCount = Len(threads)
  BY <1>1 DEF TypeOK, TakeFront, Counted
<1>4. TypeOK'
  BY <1>1, <1>2, <1>3 DEF TypeOK, TakeFront
<1>5. Counted'
  BY <1>1, <1>2, <1>3 DEF Counted, TakeFront
<1> QED
  BY <1>2, <1>4, <1>5 DEF IInv

\* After the last launch the results are taken in the order of the window.
LEMMA TakeRemainingIInv ==
  ASSUME IInv, TakeRemaining
  PROVE  IInv'
<1> USE EntriesAssumption, ConcurrencyAssumption
<1>1. TypeOK /\ Counted
  BY DEF IInv
<1>2. /\ resultVector' \in Seq(Entries)
      /\ threads' \in Seq(Entries)
      /\ Len(threads') = Len(threads) - 1
      /\ Consecutive'
      /\ Started'
  BY TakeHead DEF TakeRemaining
<1>3. Len(threads) \in Nat \ {0} /\ MaxThreadCount \in Nat
  BY <1>1 DEF TypeOK, TakeRemaining
<1>4. TypeOK'
  BY <1>1, <1>2 DEF TypeOK, TakeRemaining
<1>5. Counted'
  BY <1>1, <1>2, <1>3 DEF Counted, TakeRemaining
<1> QED
  BY <1>2, <1>4, <1>5 DEF IInv

\* A task that finishes, whenever it does, changes neither the window nor the results.
LEMMA FinishIInv ==
  ASSUME IInv, NEW entry \in Entries, Finish(entry)
  PROVE  IInv'
<1>1. TypeOK'
  BY DEF IInv, TypeOK, Finish
<1>2. Consecutive' /\ Counted'
  BY DEF IInv, Consecutive, Counted, Finish
<1>3. Started'
  BY DEF IInv, Started, Finish
<1> QED
  BY <1>1, <1>2, <1>3 DEF IInv

\* Every step of the main thread and of a task keeps the invariant.
LEMMA StepIInv == IInv /\ [Next]_vars => IInv'
<1> SUFFICES ASSUME IInv, [Next]_vars
             PROVE  IInv'
  OBVIOUS
<1>1. CASE Launch
  BY <1>1, LaunchIInv
<1>2. CASE TakeFront
  BY <1>2, TakeFrontIInv
<1>3. CASE AllLaunched
  BY <1>3 DEF AllLaunched, IInv, TypeOK, Consecutive, Started, Counted
<1>4. CASE TakeRemaining
  BY <1>4, TakeRemainingIInv
<1>5. CASE Return
  BY <1>5 DEF Return, IInv, TypeOK, Consecutive, Started, Counted
<1>6. CASE \E entry \in Entries : Finish(entry)
  BY <1>6, FinishIInv
<1>7. CASE UNCHANGED vars
  BY <1>7 DEF vars, IInv, TypeOK, Consecutive, Started, Counted
<1> QED
  BY <1>1, <1>2, <1>3, <1>4, <1>5, <1>6, <1>7 DEF Next, Main

\* The state of the window is consistent at every moment.
THEOREM Invariance == Spec => []IInv
BY InitIInv, StepIInv, PTL DEF Spec

\* Every variable keeps its type.
THEOREM TypeCorrect == Spec => []TypeOK
<1>1. IInv => TypeOK
  BY DEF IInv
<1> QED
  BY Invariance, <1>1, PTL

----------------------------------------------------------------------------

\* The tasks alive are in the window.
LEMMA WindowFromIInv == IInv => WindowBounded
<1> SUFFICES ASSUME IInv, MaxThreadCount > 0
             PROVE  /\ Len(threads) <= MaxThreadCount
                    /\ Cardinality({entry \in Entries : entry < i /\ entry \notin finished})
                         <= MaxThreadCount
  BY DEF WindowBounded
<1> DEFINE alive  == {entry \in Entries : entry < i /\ entry \notin finished}
           window == Len(resultVector) .. i - 1
<1>1. /\ Len(resultVector) \in Nat /\ Len(threads) \in Nat
      /\ MaxThreadCount \in Nat /\ i \in Int
      /\ i = Len(resultVector) + Len(threads)
      /\ Len(threads) <= MaxThreadCount
  BY ConcurrencyAssumption DEF IInv, TypeOK, Consecutive, Counted
<1>2. alive \subseteq window
  BY <1>1, EntriesAssumption DEF IInv, Started, Entries
<1>3. IsFiniteSet(window) /\ Cardinality(window) = Len(threads)
  <2>1. Len(resultVector) \in Int /\ i - 1 \in Int
    BY <1>1
  <2>2. /\ IsFiniteSet(window)
        /\ Cardinality(window) = IF Len(resultVector) > i - 1 THEN 0
                                 ELSE (i - 1) - Len(resultVector) + 1
    BY <2>1, FS_Interval
  <2> QED
    BY <1>1, <2>2
<1>4. Cardinality(alive) <= Cardinality(window)
  BY <1>2, <1>3, FS_Subset
<1>5. Cardinality(alive) \in Nat
  BY <1>2, <1>3, FS_Subset, FS_CardinalityType
<1> QED
  BY <1>1, <1>3, <1>4, <1>5

\* There are never more tasks alive than processors, if their number is known.
THEOREM WindowIsBounded == Spec => []WindowBounded
BY Invariance, WindowFromIInv, PTL

\* The parallel loop implements the serial one, whatever order tasks finish in:
\* its initial states and its steps are the serial ones, or stutter.
THEOREM RefinesSerial == Spec => ImplementsSerialSafety
<1>1. Init => Serial!Init
  BY DEF Init, Serial!Init
<1>2. IInv /\ [Next]_vars => [Serial!Next]_resultVector
  <2> SUFFICES ASSUME IInv, [Next]_vars, resultVector' # resultVector
               PROVE  Serial!Next
    OBVIOUS
  <2>1. CASE TakeFront
    BY <2>1, TakeHead DEF TakeFront, Serial!Next, Serial!Evaluate
  <2>2. CASE TakeRemaining
    BY <2>2, TakeHead DEF TakeRemaining, Serial!Next, Serial!Evaluate
  <2> QED
    BY <2>1, <2>2 DEF Next, Main, Launch, AllLaunched, Return, Finish, vars
<1> QED
  BY <1>1, <1>2, Invariance, PTL DEF Spec, ImplementsSerialSafety, Serial!Safety

=============================================================================
