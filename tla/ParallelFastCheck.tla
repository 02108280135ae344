------------------------- MODULE ParallelFastCheck -------------------------
(***************************************************************************)
(* Simplifier::probably_equivalent_parallel: the input and the simplified  *)
(* expression are compared on deterministic corner samples first and then  *)
(* on random samples, one thread per sample.  The threads share, without   *)
(* any lock, the generator SP64 they draw from and the flag IsValid, a     *)
(* local variable of the main thread's frame.                              *)
(*                                                                         *)
(* The two expressions are abstracted to the set of samples on which their *)
(* values differ.  The generator's state is a counter that wraps, and what *)
(* it returns is the state after the increment: its output function is a   *)
(* bijection of that state.                                                *)
(***************************************************************************)
EXTENDS Integers, Sequences, FiniteSets

CONSTANTS
  vnumber,         \* the number of variables, and of draws per sample
  NUM_TEST_CASES,  \* the number of random samples
  WordSize,        \* the number of generator states, 2^64
  Concurrency,     \* the values std::thread::hardware_concurrency() may return
  Differences,     \* the sets of samples on which two expressions may differ
  Unset            \* no verdict yet

ASSUME SizeAssumption ==
  /\ vnumber \in Nat \ {0}
  /\ NUM_TEST_CASES \in Nat \ {0}
  /\ WordSize \in Nat \ {0, 1}
  /\ Concurrency \subseteq Nat
  /\ Unset \notin BOOLEAN

Word == 0 .. WordSize - 1

Samples == [1 .. vnumber -> Word]

ASSUME DifferencesAssumption == Differences \subseteq SUBSET Samples

VARIABLES
  Mismatch,        \* the samples on which the two expressions differ
  MaxThreadCount,  \* read once, by init
  pc,              \* where the main thread is
  i,               \* the number of threads spawned
  threads,         \* the threads not joined yet, oldest first
  CurThreadCount,
  SP64,            \* the state of the shared generator
  IsValid,         \* the shared flag
  at,              \* where each thread is
  register,        \* the generator state a thread has loaded
  par,             \* the sample a thread has drawn so far
  verdict          \* what the call has returned

mainVars   == <<pc, i, threads, CurThreadCount, verdict>>
threadVars == <<SP64, IsValid, at, register, par>>
inputs     == <<Mismatch, MaxThreadCount>>
vars       == <<inputs, mainVars, threadVars>>

Tests == 1 .. NUM_TEST_CASES

\* All variables zero or all ones, or one variable 1 or all ones and the rest zero.
Corners ==
  LET allOnes == WordSize - 1
      hot(j, v) == [k \in 1 .. vnumber |-> IF k = j THEN v ELSE 0]
  IN  {[k \in 1 .. vnumber |-> 0], [k \in 1 .. vnumber |-> allOnes]}
        \union {hot(j, v) : j \in 1 .. vnumber, v \in {1, allOnes}}

----------------------------------------------------------------------------

Init ==
  /\ Mismatch \in Differences
  /\ MaxThreadCount \in Concurrency
  /\ pc = "corners"
  /\ i = 0
  /\ threads = <<>>
  /\ CurThreadCount = 0
  /\ SP64 = 0
  /\ IsValid = TRUE
  /\ at = [t \in Tests |-> "unborn"]
  /\ register = [t \in Tests |-> 0]
  /\ par = [t \in Tests |-> <<>>]
  /\ verdict = Unset

\* Mistake: the corner samples are forgotten on the parallel path.
CheckCorners_Skipped ==
  /\ pc = "corners"
  /\ pc' = "spawn"
  /\ UNCHANGED <<inputs, i, threads, CurThreadCount, verdict, threadVars>>

\* A difference on a corner sample is returned before any thread is spawned.
CheckCorners ==
  /\ pc = "corners"
  /\ IF Corners \intersect Mismatch # {}
       THEN pc' = "done" /\ verdict' = FALSE
       ELSE pc' = "spawn" /\ UNCHANGED verdict
  /\ UNCHANGED <<inputs, i, threads, CurThreadCount, threadVars>>

Spawn ==
  /\ pc = "spawn"
  /\ threads' = Append(threads, i + 1)
  /\ at' = [at EXCEPT ![i + 1] = "load"]
  /\ CurThreadCount' = CurThreadCount + 1
  /\ i' = i + 1
  /\ pc' = IF CurThreadCount + 1 = MaxThreadCount THEN "full" ELSE "test"
  /\ UNCHANGED <<inputs, SP64, IsValid, register, par, verdict>>

\* threads.front().join() when the window is full.
JoinFront ==
  /\ pc = "full"
  /\ at[Head(threads)] = "finished"
  /\ threads' = Tail(threads)
  /\ CurThreadCount' = CurThreadCount - 1
  /\ pc' = "test"
  /\ UNCHANGED <<inputs, i, verdict, threadVars>>

\* Mistake: a rejection returns at once, with threads still running.
TestFlag_ReturnAtOnce ==
  /\ pc = "test"
  /\ \/ /\ ~IsValid
        /\ pc' = "done"
        /\ verdict' = FALSE
     \/ /\ pc' = IF i < NUM_TEST_CASES THEN "spawn" ELSE "drain"
        /\ UNCHANGED verdict
  /\ UNCHANGED <<inputs, i, threads, CurThreadCount, threadVars>>

\* The end of the loop body.  The flag is read without synchronisation, so the
\* main thread may still see TRUE after a thread has cleared it.
TestFlag ==
  /\ pc = "test"
  /\ \/ /\ ~IsValid
        /\ pc' = "drain"
     \/ pc' = IF i < NUM_TEST_CASES THEN "spawn" ELSE "drain"
  /\ UNCHANGED <<inputs, i, threads, CurThreadCount, verdict, threadVars>>

\* Mistake: the joined thread stays in the list.
JoinRemaining_NoPop ==
  /\ pc = "drain"
  /\ threads # <<>>
  /\ at[Head(threads)] = "finished"
  /\ UNCHANGED <<inputs, pc, i, threads, CurThreadCount, verdict, threadVars>>

\* The loop over the threads that remain.
JoinRemaining ==
  /\ pc = "drain"
  /\ threads # <<>>
  /\ at[Head(threads)] = "finished"
  /\ threads' = Tail(threads)
  /\ UNCHANGED <<inputs, pc, i, CurThreadCount, verdict, threadVars>>

\* Mistake: the result is what it was when the loop was left.
Return_BeforeJoining ==
  /\ pc = "drain"
  /\ verdict' = IsValid
  /\ pc' = "done"
  /\ UNCHANGED <<inputs, i, threads, CurThreadCount, threadVars>>

\* Every thread has been joined: the flag is read after their last writes.
Return ==
  /\ pc = "drain"
  /\ threads = <<>>
  /\ verdict' = IsValid
  /\ pc' = "done"
  /\ UNCHANGED <<inputs, i, threads, CurThreadCount, threadVars>>

Main ==
  CheckCorners \/ Spawn \/ JoinFront \/ TestFlag \/ JoinRemaining \/ Return

----------------------------------------------------------------------------

\* SplitMix64::next adds to the member x: a load ...
Load(t) ==
  /\ at[t] = "load"
  /\ register' = [register EXCEPT ![t] = SP64]
  /\ at' = [at EXCEPT ![t] = "store"]
  /\ UNCHANGED <<inputs, mainVars, SP64, IsValid, par>>

\* Mistake: the state is an unbounded integer.
Store_Unwrapped(t) ==
  LET x == register[t] + 1 IN
  /\ at[t] = "store"
  /\ SP64' = x
  /\ par' = [par EXCEPT ![t] = Append(@, x)]
  /\ at' = [at EXCEPT ![t] = IF Len(par[t]) + 1 = vnumber THEN "compare" ELSE "load"]
  /\ UNCHANGED <<inputs, mainVars, IsValid, register>>

\* ... and a store, which another thread's store may come between.  The value
\* drawn is computed from the register.
Store(t) ==
  LET x == (register[t] + 1) % WordSize IN
  /\ at[t] = "store"
  /\ SP64' = x
  /\ par' = [par EXCEPT ![t] = Append(@, x)]
  /\ at' = [at EXCEPT ![t] = IF Len(par[t]) + 1 = vnumber THEN "compare" ELSE "load"]
  /\ UNCHANGED <<inputs, mainVars, IsValid, register>>

\* Mistake: every thread stores the outcome of its own comparison.
Compare_Overwriting(t) ==
  /\ at[t] = "compare"
  /\ IsValid' = (par[t] \notin Mismatch)
  /\ at' = [at EXCEPT ![t] = "finished"]
  /\ UNCHANGED <<inputs, mainVars, SP64, register, par>>

\* The flag is only ever cleared.
Compare(t) ==
  /\ at[t] = "compare"
  /\ IsValid' = IF par[t] \in Mismatch THEN FALSE ELSE IsValid
  /\ at' = [at EXCEPT ![t] = "finished"]
  /\ UNCHANGED <<inputs, mainVars, SP64, register, par>>

Thread(t) == Load(t) \/ Store(t) \/ Compare(t)

Next == Main \/ \E t \in Tests : Thread(t)

\* The operating system schedules every thread that is not blocked in a join.
Fairness == WF_vars(Main) /\ \A t \in Tests : WF_vars(Thread(t))

Spec == Init /\ [][Next]_vars /\ Fairness

----------------------------------------------------------------------------

TypeOK ==
  /\ Mismatch \subseteq Samples
  /\ MaxThreadCount \in Concurrency
  /\ pc \in {"corners", "spawn", "full", "test", "drain", "done"}
  /\ i \in 0 .. NUM_TEST_CASES
  /\ threads \in Seq(Tests)
  /\ CurThreadCount \in 0 .. NUM_TEST_CASES
  /\ SP64 \in Word
  /\ IsValid \in BOOLEAN
  /\ at \in [Tests -> {"unborn", "load", "store", "compare", "finished"}]
  /\ register \in [Tests -> Word]
  /\ par \in [Tests -> Seq(Word)]
  /\ \A t \in Tests : Len(par[t]) <= vnumber
  /\ verdict \in BOOLEAN \union {Unset}

\* When the call returns, no thread it spawned is still running: each of them
\* holds references to the locals of the frame that goes away.
NoThreadOutlivesCall ==
  pc = "done" => \A t \in Tests : at[t] \in {"unborn", "finished"}

\* The verdict is right about every sample that was compared, whatever the races:
\* "valid" means no corner sample and no drawn sample differs, and "not valid"
\* is backed by a sample that does.
VerdictMatchesSamples ==
  pc = "done" =>
    (verdict <=> /\ Corners \intersect Mismatch = {}
                 /\ \A t \in Tests : at[t] = "finished" => par[t] \notin Mismatch)

\* "Valid" is only answered after all the random samples.
AllSamplesTested ==
  pc = "done" /\ verdict = TRUE => \A t \in Tests : at[t] = "finished"

\* A rejected pair is never accepted again, and a difference some thread has found
\* is never lost.
NeverForgotten == [][~IsValid => ~IsValid']_vars

\* The call returns.
Returns == <>(pc = "done")

=============================================================================
