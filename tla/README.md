# SiMBA++ in TLA+

SiMBA++ (this repository) simplifies mixed Boolean-arithmetic (MBA) expressions:
an expression over `+ - * & | ^ ~` of fixed-width words goes in, a shorter one that
is meant to be equal comes out. It is used from the command line on one expression
or on a file of them, and as an LLVM tool that replaces MBA code in a module.

This directory holds TLA+ specifications of its parts, the TLC configurations that
check them on small instances, and TLAPS proofs of the facts that matter most.

    tlc -workers 4 -config Router.cfg Router      # any module with its .cfg
    tlapm CandidateReplacement_proof.tla

## The system

| Component | State it keeps | Operations | What makes it correct |
| --- | --- | --- | --- |
| Linear decomposition, `Simplifier.cpp` | result vector, expression text | `simplify_generic`, `get_variable_combinations`, `subtract_coefficient` | the sum of conjunctions has the values of the input on every truth assignment |
| Refinement, `Simplifier.cpp`, `BitwiseList.h` | result vector, expression | `try_refine` and its eight rules | each rule keeps those values and does not make the result longer |
| Truth-vector evaluation, `Simplifier.cpp` | result vector, futures | `init_result_vector`, `..._parallel` | the entries are in order, however the tasks finish |
| Fast check, `Simplifier.cpp`, `include/splitmix64.h` | threads, generator, flag | `probably_equivalent`, `..._parallel` | the verdict is the one of the samples compared; no thread outlives the call |
| Variable names, `Simplifier.cpp` | two texts, name tables | `parse_and_replace_variables`, `try_simplify_fewer_variables`, `replace_variables_back` | every name is renamed to its own, and restored |
| Routing, `SimplifierRouter.cpp` | the command-line options, the cached Python | `RouteSimplify`, `TryAutoFallback`, `TrySelectedSimplifier` | nothing refuted is reported valid; no route is forgotten or run twice |
| Driver, `CSiMBA.cpp` | options, counters | `SimplifySingleMBA`, `RunSimplifier` | what is reported is what was found |
| Verification, `MBA/Verify.cpp`, `MBA/SemiLinearProver.cpp` | none | `fastCheckEquivalent`, `proveEquivalent` | a proof is never given for different expressions |
| LLVM replacement, `LLVMParser.cpp` | candidates, what was marked and erased, the process-wide cache of verdicts | `extractAndSimplify`, `findReplacements`, `walkSubAST`, `verify` | nothing left refers to what was erased; only verified code is replaced; the function does not grow |
| Z3 prover, `Z3Prover.cpp` | a solver and a context, process-wide | `prove`, `proveReplacement`, `resetZ3Solver`, `abandonZ3Solver` | the solver never outlives its context |
| Linearity checker, `MBAChecker.cpp` | position in the text | `check_expression` | what it accepts is linear |
| Evaluator, `ShuttingYard.cpp` | token queues | `eval` | precedence and names |
| Expression trees, `MBA/Node.cpp`, `MBA/Refine*.cpp`, `MBA/Expand.cpp` | a tree, changed in place | `refine`, `expand`, `factorizeSums`, `polish`, `markLinear`, `refineAfterSubstitution` | every rewrite is an identity, whatever ran before; trees stay well formed; the rules settle |
| General simplifier, `MBA/GeneralSimplifier.cpp`, `MBA/Substitute.cpp` | the tree, memo tables, budgets, a deadline | `simplify`, `simplifyDirect`, `simplifyViaSubstitution` | the result is equivalent wherever the search stops |
| Linear and multibit simplifiers, `MBA/LinearSimplifier.cpp`, `MBA/Multibit*.cpp` | result vectors, batches | `simplifyLinearMba`, `MultibitSimplifier::simplify`, `Batch` | exact decomposition, exact partition |

How they interact: the driver calls the router with one expression; the router
classifies it and runs one of the GAMBA port's simplifiers, a Python script, or none
("native"); what a route answers is verified and, in `auto` mode with
`--auto-fallback`, a route that answers nothing is followed by the others. On the
native path the driver calls `Simplifier::simplify_linear_mba`: an optional linearity
check, then renaming of variables, evaluation on all truth assignments,
decomposition, refinement (up to three variables), fast check, renaming back, proof.
The LLVM tool calls the same router and simplifier for every candidate in a module.

What is hard in this code: two places start threads, one of which shares a generator
and a flag without a lock; the index arithmetic of the decomposition; the chain of
rules in `try_refine`, each of which relies on what the earlier ones excluded; text
substitutions that may meet their own output; the many paths from a query to a
report, each of which must verify; some 150 rewrite rules on trees that are changed in
place while loops run over them, each of which meets what the others have left; in the
LLVM tool, a cache and candidate lists that outlive the instructions they were collected
from, and a solver that must not outlive its context. Nothing is persisted, so there are
no crashes to recover from. `PROJECT.json` lists these hazards with their lines.

## The modules

| Module | Models | Composes or extends |
| --- | --- | --- |
| `LinearDecomposition` | abstract: elimination of conjunctions over any set of variables | |
| `LinearDecomposition_proof` | proofs | `LinearDecomposition`, `TLAPS` |
| `TruthTable` | words, and entries of a result vector as truth assignments | |
| `TruthTable_proof` | lemmas: bits, strides, ascending lists, loops as recursive functions | `TruthTable`, `FiniteSetTheorems`, `TLAPS` |
| `SimplifyGeneric` | `simplify_generic` and its helpers | `TruthTable`; implements `LinearDecomposition` |
| `SimplifyGeneric_proof` | proofs | `SimplifyGeneric`, `TruthTable_proof`; uses the theorems of `LinearDecomposition_proof` |
| `TryRefine` | `try_refine` and its helpers | `TruthTable` |
| `TryRefine_proof` | proofs | `TryRefine`, `TruthTable_proof`, `SequenceTheorems` |
| `SerialEvaluation` | abstract: `init_result_vector` | |
| `ParallelEvaluation` | `init_result_vector_parallel` | implements `SerialEvaluation` |
| `ParallelEvaluation_proof` | proofs | `ParallelEvaluation`, `FiniteSetTheorems`, `TLAPS` |
| `ParallelFastCheck` | `probably_equivalent_parallel`, `SplitMix64::next` | |
| `ParallelFastCheck_proof` | proofs | `ParallelFastCheck`, `SequenceTheorems`, `TLAPS` |
| `VariableRenaming` | the substitutions of names in the order `simplify` runs them | |
| `Router` | `RouteSimplify`, `TryAutoFallback`, the driver, verdicts of both verifiers | |
| `Router_proof` | proofs | `Router`, `TLAPS` |
| `NodeTree` | trees as values: what they denote, `Node`'s basic operations, `MBAValue` | |
| `RefineA`, `RefineB`, `RefineC` | the rules of the files of these names | one upon the other, from `NodeTree` |
| `Refine` | `refine`: the rounds of both steps over a tree | `RefineC` |
| `Expand`, `Factorize` | `expand`; `factorizeSums` with the partition of `Batch` | `RefineB` |
| `BitwiseInSums`, `RefineD` | `refineAfterSubstitution`: rules for sums of bitwise operations | `Refine`, `Expand` |
| `Polish` | `polish` | `RefineB` |
| `Substitute` | the methods of `Substitute.cpp` | `RefineD` |
| `NonlinearPart` | `trySimplifySumNonlinearPart` | `RefineA` |
| `GeneralSimplifier` | `simplify`, `simplifyDirect`, `simplifyViaSubstitution`, the nonlinear step with its linear part, the deadline | `Substitute`, `Polish`, `Factorize`, `NonlinearPart` |
| `TreePasses` | the passes as actions over a tree | `GeneralSimplifier` |
| `SolverCache` | `prove`, `proveReplacement`, both contexts, faults | |
| `CandidateReplacement` | `extractAndSimplify` and what it calls | `SolverCache` |
| `CandidateReplacement_proof` | proofs | `CandidateReplacement`, `SequenceTheorems`, `FiniteSetTheorems`, `TLAPS` |
| `MC*` | instances for TLC | the module they are named after |

Definitions keep the names of the code. A definition whose name is that of another
with a suffix (`Launch_CountLate`), under a comment that starts with *Mistake*, is a
plausible error in that definition; it is not used by the specification and only
serves to see that a property notices the error.

### Linear decomposition

An entry of the result vector is a truth assignment, and `LinearDecomposition` says
so literally: vectors are functions on sets of variables. A step takes a conjunction
none of whose proper sub-conjunctions is left, attributes the residual there to it,
and subtracts that from every larger assignment. `SimplifyGeneric` is what the code
does: group sizes, the list of combinations, strides and windows of
`subtract_coefficient`, shifts in `are_variables_true`. The rounds in which
`get_variable_combinations` extends its list while it runs over it are actions
(`ListSingletons`, `NextRound`, `EnlargeCombination`, `CombinationsListed`); loops that only
compute a number are recursive functions, so that they can be reasoned about. The
refinement mapping reads an index as the set of its bits; entry 0, the constant, is
the conjunction of no variable. To the abstract elimination the rounds of the list
are stutters. The text of the expression is abstracted to the terms appended.

Two things are cut off on purpose. A word is `0 .. Modulus - 1`; `mod_red` with its
signed remainders is the identity on the word that `APInt` already is, so subtracting
reduces. The number of `simplify_generic`'s string operations (trailing `+`, outer
parentheses) does not change what is denoted.

### Refinement

An expression is a constant and terms; a term is a coefficient and the truth vector of
a table entry. What depends on the text does so through two facts, kept as such:
whether a table entry is parenthesised, and how many `+` signs there are. Each rule is
an action, and `rule` records which one returned. `Generic` is the input expression
of `try_refine`: the constant, and for each entry in turn the conjunction with what the
terms before it leave there. `SimplifyGeneric` is the code that computes it; that it has
the values of the vector is `GenericFaithful`, for any number of variables.

### Parallel evaluation and fast check

`pc` is the main thread's place. A future or thread is the number of its entry or
test. `hardware_concurrency()` may be any value of `Concurrency`, 0 included, which
the standard allows and for which the window has no bound. `Finish`, `Load`, `Store`
and `Compare` are the steps of the threads. The generator's `x += c` is a load and a
store, because nothing makes it one step; the flag may be read as it was before a
write, because nothing orders the two until the join.

### Names

Texts are sequences of characters in this module, and only here, since the hazards
are about parts of names. Every expression is a sum of variables: operators only
separate names. Names are replaced in the order in which they occur, one after the
other in one text. That each is then replaced by its own `X[i]`, and that the result comes back in the names of the
input, is not true of every input, and the run says of which: the renaming is exact if and only if
the names are apart (`NamesApart`: no name in one that is replaced later or in what an
earlier one has become), and a result that goes by the placeholders `v0`, `v1`, `v2` has its
names back if and only if no placeholder is in a name that is restored before it
(`PlaceholdersApart`). The input comes back if the names are apart, and the result on the direct path always.
The names of the instance are such that inputs meet these conditions and fail them.

### Router

A route is an oracle that answers nothing or an expression, of which only what the
verifiers can tell matters: `equal`, `unproved` (equal, but the prover does not
decide it), `unseen` (different, but not on a sample), `seen`. Init chooses the
options and the class of the query; `attempts` is a history variable.

### Expression trees

A node is a value: a record of type, children, constant and variable. A method that
changes `*this` is an operator that returns the changed node, and a method that also
tells its caller something returns a record of both. `NodeTree` gives the meaning,
`Values(n)`: the function from valuations to words, with `MBAValue`'s double width where
the code computes with it. The rules keep the names of the methods and their order
inside `refineStep2`, and each keeps its early returns, since what one rule leaves is
what the next one meets. Lists that the code changes while it runs over them (`done`,
`toRemove` in `RefineD`; the children of a node in `Refine` and `GeneralSimplifier`) are
modelled as they run. Where a rule inserts into a list that a loop of its caller runs
over, what follows is undefined in the code, and the tree is `undefined` from then on.

The state of `TreePasses` is an input tree and the passes made over it; the tree is
`Tree(done)`, a function of that history. The passes are deterministic, so nothing is
gained from a tree in the state, and a history is short to print. `plan` says which
sequences of passes are tried; they are the ones the code makes (refactor after refine,
polish last, the acceptance rules after a substitution).

Abstracted: that `copy` shares nothing, since trees are values; the keys of
`markLinearFast`, `noChangeFingerprint` and the memo tables, which only spare work. The
linear solver is a constant operator, `simplifyLinearMba`: from a linear tree to an equal
one. What goes through it is modelled, whole trees and linear parts of nonlinear ones
(`LinearPart`); the instance has a solver that answers with the combination of
conjunctions where that has fewer nodes. The deadline is a number of looks at the clock
(`left`), so that a search may be stopped at each of them; budgets for substitutions are left out.

A node's mark is what `markLinear` would say of it where it is asked for. The code may
hold an older one: the restricted `markLinear` does not look again at children that are
marked (Node.cpp:520-522), and the restricted `refine` may have rewritten them. Compared
with the compiled code on some four thousand generated trees, divisions, remainders and sums of
nonlinear products among them, the model gave another result for three, all for this reason;
`(-2*x)|(y^-1^1)|~y`, for instance, is taken for linear and answered with -1.

### Candidate replacement and the solver

A function is a sequence of instructions with operands; what is a root, what a tree
inlines, what it reads, what counts for its size and what a replacement removes are
computed from that as `getAST` and `findReplacements` do. A replacement is whether it is
right and three counts, because the code counts in three ways: `verify` the binary
operators `eval` meets (`binary`), the cost of a shared tree the characters
`countOperators` takes for operators (`counted`), and `createLLVMReplacement` makes an
instruction for each operator, unary ones and casts included (`instructions`). Where it comes
from (router, native path, candidate rewrites) does not matter to what is done with it, so any may be
proposed; `verify` lets a wrong one through on random values alone, and never with
a proof, unless `--accept-unknown` takes a time out for one. What `tryMBAPatterns` gives
is verified without a proof, always; since some of its identities are not laws, it may be
wrong, and `byPattern` remembers where it came from.
`MBACache` is keyed by what `calculateHash` looks at, so different trees may meet there,
and it lives on from function to function. Then the candidates are put in one by one:
`made` are the new instructions, `operands` what each instruction uses now.

`SolverCache` has the three pointers as numbers of contexts. Its calls are actions, which
`CandidateReplacement` conjoins to the steps that ask: `Simplify` to the prover's
context, `Verify` and `walkSubAST` to the parser's, `abandonZ3CtxGlobal` to a fault.

Left out: widths and types (so the casts a replacement pays for), selects and compares,
pointers, back edges of phi nodes, and what runs after a function is done (the null-byte
rewriting, LLVM's pipelines).

What the model shows beside its properties: a cached *negative* verdict of another tree
with the same hash makes a candidate be skipped for good; a cached positive one is
never updated, even when verification fails; a candidate found by `walkSubAST` has no
cost check, so only whole candidates are covered by `GrowsByUncounted`; and a candidate whose
variable was itself replaced is skipped although it has kept smaller ones from being
tried, which is the exception in `MarkedGone`. These are missed simplifications. Wrong
replacements by patterns, and those that make the function larger, are in the section on the runs.

## The runs

Passing runs:

| Run | Instance | Shows |
| --- | --- | --- |
| `linear_decomposition` | 3 variables, words 0..1: all vectors, all orders | elimination is exact in every order that keeps subsets first |
| `simplify_generic` | 4 variables, words 0..3, vectors with at most two nonzero values (`MCInit`) | each conjunction once, exact result, implements the abstract elimination, returns |
| `parallel_evaluation` | 16 entries (the code runs it from four variables), windows 0, 1, 2, 4 | order, completeness and window |
| `parallel_fast_check` | 2 variables, 3 samples, 5 generator states, windows 0, 1, 2 | the verdict, the joins and the end of the call under all interleavings |
| `refine` | 3 variables, words 0..7, about 20000 vectors: of two values, of up to six values, and of sums of four conjunctions | every rule faithful, rule (8) where its summands are neighbours in the ascending list; never longer with up to three values |
| `router` | every setting, every query, every answer | see the properties in `Router` |
| `variable_renaming` | six names of up to three characters, some inside others, in `X` or with a placeholder in them; up to five operands | on which inputs renaming and restoring are exact, and on which not |
| `tree_passes` | words of 4 bits, 2 variables; about 6500 pairs of an input and a sequence of passes | every pass keeps the shape and, but for nine known trees, the values; `refine` settles |
| `candidate_replacement` | 43 functions of up to 7 instructions and a pair of them; trees of at most two variables, five replacements, 3 contexts | see the properties in `CandidateReplacement` and `SolverCache` |

Why the bounds are enough. The decomposition is linear: what one entry contributes
does not depend on the others, so an error in an index shows on vectors with one or two
nonzero values. Four variables are needed for the gap in `are_variables_true` and for
the second round of enlarging combinations, and are the fewest for which the code does
not refine the result. A window
smaller than, equal to and larger than the number of tasks in flight, and the window 0,
are the cases of the two thread loops. Two draws per sample and three samples let two
threads interleave in the middle of a sample while a third is still to start; five
generator states are fewer than the six draws, so the generator wraps as well. Eight words have doubles and sums that wrap and that do not. The router's
settings are finite and all explored. The inputs of the tree passes are, for every rule, a tree it fires on,
and all pairs from pools of operands under every operator, since a rule looks at a node, its
children and their children; four bits tell apart the constants the rules
distinguish (0, 1, -1, 2, the half of the range and its neighbours), and two variables are
what a rule compares. Functions of three binary operators have every way in
which two trees share, contain or feed each other; the named ones add casts, intrinsics and loads
between them. The five replacements are below, at and above what a shared tree of
that size loses, with counts that agree and that do not (a cast, negations), and one is wrong;
with them wrong patterns are put in, and functions grow by what is not counted.
Three contexts are one for each user and one after a fault. Five operands over six names pass through the
direct and the placeholder path, which starts at four.

What the comments of the code promise does not hold everywhere, and no input on which it
is known to fail in the models is kept out of the passing runs, with one exception: `StaysDefined` has
its run in the next table. The conditions are in the properties:
`FaithfulUnlessApart`, `RenamingExactIfApart`, `NamesRestoredIfApart`, `KeepsValuesUnlessKnown`,
`ValuesKeptButByPatterns` and `GrowsByUncounted`. Of those, the renaming, the restoring and the
trees are equivalences: the runs also show that the code fails where the condition does.

Runs that find the code in disagreement with what it says of itself (the quotations
are in `PROJECT.json`, "findings"):

| Run | Violates | Because |
| --- | --- | --- |
| `refine_eliminate` | `RefinementFaithful` | rule (8) adds the third value to the terms between the two summands as well: a wrong result, refused where the fast check is on |
| `tree_insertion` | `StaysDefined` | a rule inserts into the list of children its caller runs over: undefined behaviour, as for `x*(2*y)**2` |
| `tree_values` | `KeepsValues` | a pass changes the values of nine trees (`MCKnown`), for as many reasons |

`tree_values` stops at the first of its trees; that each of them gets other values is what
`KeepsValuesUnlessKnown` says in `tree_passes`. They are:

* `(2^x)+(6^x)+(4^x)`: a merged exclusive disjunction is merged once more (RefineD.cpp:1033);
* `0+x%y` becomes 0: a sum reduced to a remainder goes on in the search as that remainder (GeneralSimplifier.cpp:508);
* `y+(x*y)%x` becomes `y+x%(x*y)`: linear operands are moved to the front of a remainder (Node.cpp:849);
* `2*(3|x|y)-2*(3&x&y)` becomes `2*(3^x^y)`: three operands are taken for two inside a product (RefineD.cpp:2259);
* `(1&x&y)-(2|x|y)` becomes `-2-(-4&x&y)`: a conjunction and a disjunction are merged as if of one type (RefineD.cpp:1325);
* `(3|x|y)-(-4|x|y)+2*(4|x|y)` loses `y`: of three disjunctions merged, only the second operand of the main one is kept (RefineD.cpp:1610);
* `(x-1)&(x^(2*x-1))` becomes `x-1`: the conj-disj identity does not look for a disjunction, nor does its second form (RefineC.cpp:994);
* `x**y*x**y` becomes `x**(y+y)`: exponents are added as words (RefineB.cpp:476);
* `(x+8*y)*2*y` becomes `2*x` at 4 bits: a sum that shrinks to one summand stands for the whole product (Expand.cpp:105).

These trees were given to the compiled simplifier as well,
which answers as the model does.

Disagreements with comments that are in the model, and have no run of their own since the passing
ones go through them:

* names are to be replaced "in order not to replace substrings of variables"
  (Simplifier.cpp:1137-1138; the sort below it is commented out), and a name inside another
  is replaced there: `x+x1` becomes `X[0]+X[0]1`. `RenamingExactIfApart` is an equivalence;
* with inputs named `v0`, `v1`, ... (as in `data/CoBRA/simba/e1_5vars.txt`) a restored name is taken
  for a placeholder: `v1+v2` can come back as `v2+v2`. The fast check refuses it where it
  is on. `NamesRestoredIfApart` is an equivalence;
* "every rewrite is re-verified by verify()/Z3, so a false positive is impossible"
  (LLVMParser.h:127-128), but a local pattern is only tried on random values, with `--prove` too, and
  some patterns are not laws (LLVMParser.cpp:1852-1859, 2124): sext(sext(v) op c) is not sext(v) op c where
  v op c overflows. `ValuesKeptButByPatterns` has patterns as its exception;
* "check if replacement is cheaper than original expression" (LLVMParser.cpp:1040), but the cost
  leaves unary operators out (ShuttingYard.cpp:954): `x&~(y|z)` is replaced by `~(~x|(y|z))`, four instructions
  for three. `GrowsByUncounted` says by how much a function may grow.

Disagreements that are not in a run, seen while reading and modelling. On the native path and its
callers: the samples of the parallel fast check depend on the schedule, since the
generator is raced on (Simplifier.cpp:435; plans/FAST_CHECK_VS_Z3_PLAN.md asks for
determinism); `--prove` is not applied to the results of the fallback and of the
external, direct and term-by-term routes (SimplifierRouter.cpp:575); `return "";` in
a function of type `bool` is true, so a refused input is reported as a valid empty result
(Simplifier.cpp:1382). In the rules on trees: `checkBeautifyConstants` may shift by 64; the
order of nodes by `operator<` is not a strict weak one; marks may be stale, as said above;
`resolveBitwiseNegationsInSums` may leave a sum of one child, for which
`StaysWellFormed` makes an exception. Each is a reason to have the result verified, and
`simplify()` itself does not end with a fast check.

`TryRefine` also follows the code where its comments are optimistic: a single
expression is taken only when its text is in parentheses (Simplifier.cpp:756), rule (4)
may put `0+` before a term (801), the second test of `is_double_modulo` has its
arguments exchanged (526), and rule (7) with more than three values can be longer than
its input (847). None of these changes what is denoted.

## Fairness

Liveness is claimed where the code runs to an end. `SimplifyGeneric` and `Router` are
sequential: weak fairness of `Next` says that the program continues. In `Router` this
also says that each route answers, which the deadline of the general simplifier and the
timeout of the script give on Windows; elsewhere the script is taken to end.
`ParallelEvaluation` and `ParallelFastCheck` have weak fairness of the main thread and
of every other thread: the system schedules a thread that can run, and a thread
blocked in `get` or `join` is not enabled. No strong fairness is used.

## Proofs

For `LinearDecomposition`, with any set `Variables` and any positive `Modulus`:

* `TypeCorrect`, `AlwaysAccounted` and `EliminationCorrect`: the elimination is
  exact. The inductive invariant is `TypeOK /\ UpwardClosed /\ Accounted`.
  `Accounted` alone is not inductive: eliminating a conjunction changes the value on
  every larger assignment, so none of those may be settled already. That is
  `UpwardClosed`, which holds because `Lowest` takes subsets first.

For `ParallelEvaluation`, with any number of entries and any window:

* `TypeCorrect`, `WindowIsBounded` and `RefinesSerial`. The inductive invariant adds
  to the types that the vector and the waiting futures are together the entries
  launched, in order (`Consecutive`), that only launched tasks have
  finished and every collected one has (`Started`), and how the count relates to the futures (`Counted`).
  `RefinesSerial` is the safety part of the refinement the run checks in full.

For `SimplifyGeneric`, with any number of variables, any positive `Modulus` and every
result vector:

* `TypeCorrect`, `CombinationsAreExact`, `RefinesDecomposition`, `ResultIsExact`.
  The inductive invariant is `TypeOK /\ ListOK /\ TermsOK /\ PhaseOK`. That every
  conjunction is listed, once, cannot be told from the list while it is being extended.
  `ListOK` says that its lists of variables ascend, differ and never get shorter, and
  `RoundOK` what a round knows of the place it has come to: how the counters delimit the
  lists of the last size, which of those have been extended and by what, and that all
  smaller conjunctions are there (`CompleteUpTo`). `TermsOK` follows the place in the
  finished list: the terms appended are those of the conjunctions passed.
* `RefinesDecomposition` is the refinement the run checks. The work is in what the indices mean: an index is the set of its bits
  (`TruthTable_proof`), the strides and windows of `subtract_coefficient` visit each
  larger assignment once, and the list puts smaller conjunctions first.
* `ResultIsExact` is inherited: the detailed specification implements the abstract
  one, of which `EliminationCorrect` is a theorem.

For `ParallelFastCheck`, with any number of samples, variables, generator states and
processors, and for any two expressions:

* `TypeCorrect`, `ThreadsEndFirst`, `VerdictIsOfSamples`, `ValidIsFullyTested`,
  `DifferenceIsKept`. The properties are not inductive because they speak of the
  end, and what they need is the books kept on the way there: how the counter relates
  to the list of threads (`Counted`), that a thread that runs is on that list
  (`Listed`), which threads have a whole sample (`Drawn`), that the flag sums up the
  comparisons made so far in whatever order they came (`Flagged`), and on which
  ground the loop is left (`Left`).

For `Router`, for every setting of the options and every answer of the routes:

* `TypeCorrect`, `RefutedIsNeverReported`, `RoutesRunOnce`, `FailureIsExhaustion`,
  `ExplicitChoiceIsKept`. The inductive invariant tells from where the query is how often
  each route has run (`Run`): in the loop of the fallback, once if it is the one left
  out or was passed by, and not at all otherwise.

For `TryRefine`, with any positive `Modulus`, any set of result vectors and (the proofs
do not use the bound) up to three variables:

* `TypeCorrect`, `RefinementIsFaithful`, `RefinementIsNotLonger`. The inductive invariant
  adds to the three properties what a rule relies on (`Parts`): the vector is the input
  with `constant` taken off (`Offset`), entry 0 is zero once that is done, there are more
  than two summands by then, and until a rule returns, `expr` is `Generic`. TLC checked it
  on the instance of the run first. What `fillResultSet` and the sorting leave is settled
  once (`ValuesListed`, `UniqueListed`: each value once, and how many), and so is a loop
  that appends a term per value (`AppendTermsValue`, `AppendTermsLength`).
* Three places where the code looks wrong and is not, or not always. The exchange in
  `try_find_negated_single_expression` is made on the opposite of the condition it needs,
  but then the pair fails the test on entry 0 (`NegatedFaithful`). The tests on
  sign-extended values find a double or a sum only where the wrapping tests do
  (`DoubleWraps`, `TripleValues`). Rule (6) has the loop of rule (8) that is wrong for
  summands that are not neighbours, but among three ascending values they always are
  (`NeighboursOfThree`). So the exception in `FaithfulUnlessApart` is confined to rule (8).

For `CandidateReplacement`, with any functions, thresholds and bounds:

* `SolverBelongsAlways`. That a kept solver is the asking context's is immediate from
  `prove`; that it does not outlive a fault needs `SolverInv`: the two contexts in use
  are different, and neither was abandoned. Every step of the passes is then shown to
  change the solver by one of its calls or not at all (`NextIsSolverNext`).
* `TypeCorrect`, `NothingDanglesEver` and `OnlyPatternsAreTrusted`, from `IInv`. `NothingDangles`
  is inductive only together with where candidates come from: their roots are of the function
  at work (`CandidatesOK`), so what a tree reads is an instruction of it that is erased
  or still there (`VariablesAreOfFunction`), and the new instruction has a place of its
  own (`MadeOK`). `ValuesKeptButByPatterns` needs in addition that with proofs every candidate on its
  way in was verified or is a pattern's (`Verified`), which no step takes from the cache. The seven steps that only search are
  handled by one lemma, `FindKeepsIInv`; the substance is in `ReplaceIInv` and `EraseIInv`.
* `MarkedIsGone`, from `Gone`. A mark is redeemed in one of two ways. The candidate
  that made it is put in, and its loop erases its tree; or that candidate is skipped because
  another has erased a part of its tree, and then the rest has lost its users and was swept
  away by the loop of the other one. So `Gone` says of every instruction that has
  lost a user to an erasure that it is erased too, or still has a user, or is waiting for
  the loop at work (`Swept`); that no whole candidate has in its tree the
  root of an earlier one (`Apart`), which holds because a whole candidate is taken only
  if nothing of its tree is marked (`SearchOK`); that an instruction has its operands
  or the replacements of those (`OperandsOK`); and that the loop starts with a root nobody uses
  (`RootUnused`). Trees are walks that end: the lemmas `TreeEquation` and
  `OwnedEquation` get them as fixed points of a monotone rule, and what is deepest in a tree comes
  from a last place in the function (`LastPlace`), which takes the place of an induction. `Gone`
  was model-checked on the instance of the run before it was proved.
* `GrowthIsBounded`, an action property, from `Costs`, which was model-checked first as well.
  A candidate is judged long before it is put in, so two things have to last.
  That what is counted of a whole candidate is paid for by what it owns is settled by the verdict
  (`AcceptedIsPaid`: either all of a tree with more nodes than `eval` counts goes, or the part that
  goes has as many operators as `countOperators` finds) and depends on the original function alone (`SamePaid`). That what it owns is
  there to pay with is looked up when it is put in: nothing of its tree has been
  erased, and its new instruction is new (`ReplacingIsNew`, by `Apart`). From there on `Costs` keeps
  a balance: the size, plus what the candidate owns and has been erased, is at
  most the size before plus the instructions put in. Each erasure moves one operator from
  one side of the sum to the other at most (`EraseCosts`), and at the end everything owned has gone
  (`AllOwnedIsErased`), so that only instructions the test has not counted can be left over. The size is the cardinality of the set of operators (`Operators`), so its
  changes are those of finite sets.

`tlapm` checks the eight modules without any assumption but the named ones on the constants.
Induction is not used as a rule: the library's is out of its reach. `TruthTable_proof`
gets it for sets from the well-foundedness of finite sets under inclusion
(`LeastElement`, `Induction`), and from that a trace for every loop (`Trace`), which is what
a recursive function needs to be unfolded.

Model-checked only:

* liveness everywhere (`Returns`, `Answered`, `Settles`, `ImplementsSerial` beyond its
  safety part): it rests on fairness and `ENABLED`;
* `VariableRenaming`, whose texts are searched and replaced character by character: the
  properties need that no name overlaps what is inserted for another, which is a fact
  about every split of a text;
* everything on expression trees, whose operators are recursive.

## Not modelled, and the plan

Not modelled:

* The linearity checker, the tokenizer and evaluator of `ShuttingYard.cpp`, the GAMBA port's parser and all
  printing: they go from text to trees and back, character by character.
* The refinements of `LinearSimplifier`, `MultibitSimplifier`, `BitwiseFactory`, the
  minimisation of `Implicant` and `Dnf`: other ways to find a result, which appear in
  `Router` and `CandidateReplacement` as oracles whose answers are verified.
* `SemiLinearProver` and the translation to Z3 terms: what they decide is the verdict of
  the oracles in `Router` and `verify`.
* `walkTopLevelTerms`, the external process, `simplifyMBAModule`, the null-byte rewriting, LLVM's pipelines and the
  plugin, which registers the tool and has no state.
* Timing output, statistics, debug flags, vendored containers, scripts and tests.

Next, in this order:

1. Proofs: `VariableRenaming` with its folds replaced by recursive functions, and with
   the condition on names under which search and replace is exact as a hypothesis.
2. `LinearSimplification`: `Simplifier::simplify` over the modules above, with the
   serial fast check: when is an answer of the native path right?
3. `WalkTerms`: the split at `+` and what putting terms together again denotes.
4. `MultibitDecomposition`, as another implementation of `LinearDecomposition`, and
   `LinearityChecker` as an algorithm against a reference definition.
