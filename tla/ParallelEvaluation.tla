------------------------ MODULE ParallelEvaluation ------------------------
(***************************************************************************)
(* Simplifier::init_result_vector_parallel: the entries of the result      *)
(* vector are evaluated by std::async tasks.  The main thread keeps their  *)
(* futures in a queue, never starts a task while MaxThreadCount futures    *)
(* are outstanding, and takes results from the front only, although the    *)
(* tasks finish in any order.                                              *)
(***************************************************************************)
EXTENDS Integers, Sequences, FiniteSets

CONSTANTS
  NumEntries,   \* 2^vnumber
  Concurrency   \* the values std::thread::hardware_concurrency() may return

ASSUME EntriesAssumption == NumEntries \in Nat \ {0}

\* The standard allows hardware_concurrency() to return 0.
ASSUME ConcurrencyAssumption == Concurrency \subseteq Nat

VARIABLES
  MaxThreadCount,  \* read once, by init
  pc,              \* where the main thread is
  i,               \* the entry it launches next
  threads,         \* the futures it holds, oldest first
  CurThreadCount,
  finished,        \* the entries whose task has returned
  resultVector

vars == <<MaxThreadCount, pc, i, threads, CurThreadCount, finished, resultVector>>

Init ==
  /\ MaxThreadCount \in Concurrency
  /\ pc = "launch"
  /\ i = 0
  /\ threads = <<>>
  /\ CurThreadCount = 0
  /\ finished = {}
  /\ resultVector = <<>>

\* Mistake: the window is tested before the new future is counted.
Launch_CountLate ==
  /\ pc = "launch"
  /\ i < NumEntries
  /\ threads' = Append(threads, i)
  /\ CurThreadCount' = CurThreadCount + 1
  /\ i' = i + 1
  /\ pc' = IF CurThreadCount = MaxThreadCount THEN "full" ELSE "launch"
  /\ UNCHANGED <<MaxThreadCount, finished, resultVector>>

\* Mistake: the loop runs once more than there are entries.
Launch_OnePastEnd ==
  /\ pc = "launch"
  /\ i <= NumEntries
  /\ threads' = Append(threads, i)
  /\ CurThreadCount' = CurThreadCount + 1
  /\ i' = i + 1
  /\ pc' = IF CurThreadCount + 1 = MaxThreadCount THEN "full" ELSE "launch"
  /\ UNCHANGED <<MaxThreadCount, finished, resultVector>>

\* Start the task of the next entry; if the window is full now, wait.
Launch ==
  /\ pc = "launch"
  /\ i < NumEntries
  /\ threads' = Append(threads, i)
  /\ CurThreadCount' = CurThreadCount + 1
  /\ i' = i + 1
  /\ pc' = IF CurThreadCount + 1 = MaxThreadCount THEN "full" ELSE "launch"
  /\ UNCHANGED <<MaxThreadCount, finished, resultVector>>

\* Mistake: whichever task is ready is taken, not the one at the front.
TakeFront_AnyReady ==
  \E k \in DOMAIN threads :
    /\ pc = "full"
    /\ threads[k] \in finished
    /\ resultVector' = Append(resultVector, threads[k])
    /\ threads' = SubSeq(threads, 1, k - 1) \o SubSeq(threads, k + 1, Len(threads))
    /\ CurThreadCount' = CurThreadCount - 1
    /\ pc' = "launch"
    /\ UNCHANGED <<MaxThreadCount, i, finished>>

\* threads.front().get() blocks until that task has returned.
TakeFront ==
  /\ pc = "full"
  /\ threads # <<>>
  /\ Head(threads) \in finished
  /\ resultVector' = Append(resultVector, Head(threads))
  /\ threads' = Tail(threads)
  /\ CurThreadCount' = CurThreadCount - 1
  /\ pc' = "launch"
  /\ UNCHANGED <<MaxThreadCount, i, finished>>

AllLaunched ==
  /\ pc = "launch"
  /\ i = NumEntries
  /\ pc' = "drain"
  /\ UNCHANGED <<MaxThreadCount, i, threads, CurThreadCount, finished, resultVector>>

\* The loop over the futures that remain.
TakeRemaining ==
  /\ pc = "drain"
  /\ threads # <<>>
  /\ Head(threads) \in finished
  /\ resultVector' = Append(resultVector, Head(threads))
  /\ threads' = Tail(threads)
  /\ UNCHANGED <<MaxThreadCount, pc, i, CurThreadCount, finished>>

Return ==
  /\ pc = "drain"
  /\ threads = <<>>
  /\ pc' = "done"
  /\ UNCHANGED <<MaxThreadCount, i, threads, CurThreadCount, finished, resultVector>>

Main == Launch \/ TakeFront \/ AllLaunched \/ TakeRemaining \/ Return

\* A task that was started returns the value of its entry.
Finish(entry) ==
  /\ entry < i
  /\ entry \notin finished
  /\ finished' = finished \union {entry}
  /\ UNCHANGED <<MaxThreadCount, pc, i, threads, CurThreadCount, resultVector>>

Entries == 0 .. NumEntries - 1

Next == Main \/ \E entry \in Entries : Finish(entry)

\* eval always returns, and the main thread runs whenever it is not blocked.
Fairness == WF_vars(Main) /\ \A entry \in Entries : WF_vars(Finish(entry))

Spec == Init /\ [][Next]_vars /\ Fairness

----------------------------------------------------------------------------

TypeOK ==
  /\ MaxThreadCount \in Concurrency
  /\ pc \in {"launch", "full", "drain", "done"}
  /\ i \in 0 .. NumEntries
  /\ threads \in Seq(Entries)
  /\ CurThreadCount \in Nat
  /\ finished \subseteq Entries
  /\ resultVector \in Seq(Entries)

\* With a known number of processors there are never more tasks alive than
\* processors.  With 0 the test CurThreadCount == MaxThreadCount never holds and
\* there is no bound.
WindowBounded ==
  MaxThreadCount > 0 =>
    /\ Len(threads) <= MaxThreadCount
    /\ Cardinality({entry \in Entries : entry < i /\ entry \notin finished})
         <= MaxThreadCount

----------------------------------------------------------------------------

Serial == INSTANCE SerialEvaluation

\* Whatever the order in which tasks finish, the result vector grows exactly as
\* the serial loop would grow it, and is complete in the end.
ImplementsSerial == Serial!Spec

\* The safety part of the same claim.
ImplementsSerialSafety == Serial!Safety

=============================================================================
