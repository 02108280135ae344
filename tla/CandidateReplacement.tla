------------------------- MODULE CandidateReplacement -------------------------
(***************************************************************************)
(* LLVMParser::extractAndSimplify with findReplacements, walkSubAST and    *)
(* verify: the trees of a function are collected, replacements for them    *)
(* are found and verified, and then put in one after the other, while the  *)
(* instructions that lose their last use are erased.  The cache of         *)
(* verdicts and the solver live as long as the process.                    *)
(*                                                                         *)
(* A function is a record of its instructions in order: kind and ops, the  *)
(* sequence of operands.  An operand is an instruction (positive), an      *)
(* argument (negative) or a constant (Const).  The kinds are               *)
(*   "bin"    binary operators (divisions, which are roots only where a    *)
(*            value is used, are left out),                                *)
(*   "cast"   truncations: not counted as operators,                       *)
(*   "call"   supported intrinsics: roots only, variables in other trees,  *)
(*   "load"   instructions that are not supported: always variables,       *)
(*   "sink"   returns and stores.                                          *)
(* Selects and compares, which are inlined but not rendered, widths and    *)
(* types are left out.                                                     *)
(*                                                                         *)
(* A replacement is whether it is right, and three counts that the code    *)
(* takes in three ways: binary, the operators that eval counts, which are  *)
(* the binary ones; counted, the characters that countOperators takes for  *)
(* operators, the unary ones among them; and instructions, what            *)
(* createLLVMReplacement makes of it: one for every operator, binary,      *)
(* unary or cast (none for a variable or a constant).                      *)
(***************************************************************************)
EXTENDS Integers, Sequences, FiniteSets, Functions, SolverCache

CONSTANTS
    Processes,       \* the sequences of functions a process may work on
    MinASTSize,      \* --min-ast-size
    MaxVarCount,     \* --max-var-count
    Replacements     \* what may be found: the three counts, and whether it is right

Const == 0
Kinds == {"bin", "cast", "call", "load", "sink"}

\* An instruction uses what is computed before it.
WellFormed(g) ==
    /\ g.kind \in Seq(Kinds) /\ DOMAIN g.ops = DOMAIN g.kind
    /\ \A i \in DOMAIN g.ops : \A k \in DOMAIN g.ops[i] : g.ops[i][k] \in Int /\ g.ops[i][k] < i

ASSUME ProcessesAssumption ==
    \A p \in Processes : p \in Seq(Range(p)) /\ \A g \in Range(p) : WellFormed(g)

ASSUME ReplacementsAssumption ==
    Replacements \subseteq [binary : Nat, counted : Nat, instructions : Nat, right : BOOLEAN]

VARIABLES
    options,         \* --prove, --accept-unknown and --walk-sub-ast
    functions,       \* the functions not begun yet
    f,               \* the function at work, as it was
    operands,        \* the operands of the instructions it has now
    made,            \* the candidates put into it, by the instruction they have become
    pc,
    waiting,         \* the candidates not visited yet
    cand,            \* the candidate at work
    ReplacedInstructions,
    Candidates,      \* the valid candidates, in the order of their replacement
    SubASTCandidates,
    ErasedAll,       \* the instructions erased
    sizeBefore,      \* history: the size before the last replacement
    MBACache

irVars   == <<f, operands, made, ErasedAll, sizeBefore>>
findVars == <<waiting, ReplacedInstructions, Candidates, SubASTCandidates>>
vars == <<options, functions, pc, cand, MBACache, irVars, findVars, solverVars>>

(***************************************************************************)
(* Trees of a function, as they are before anything is replaced.           *)
(***************************************************************************)
Instructions(g) == DOMAIN g.kind
Inlined(g)   == {i \in Instructions(g) : g.kind[i] \in {"bin", "cast"}}
Supported(g) == {i \in Instructions(g) : g.kind[i] \in {"bin", "cast", "call"}}

\* extractCandidates: the instructions that compute, and the supported operands
\* of those that use a value.
Roots(g) ==
    Inlined(g) \cup
    {i \in Supported(g) : \E j \in Instructions(g) \ Inlined(g) : i \in Range(g.ops[j])}

Users(i, ops) == {j \in DOMAIN ops : i \in Range(ops[j])}

\* getAST: from the root through the operands that are inlined.
TreeOf(g, root) ==
    LET inTree[i \in Instructions(g)] ==
            i = root \/ (i \in Inlined(g) /\ \E u \in Users(i, g.ops) : inTree[u])
    IN {i \in Instructions(g) : inTree[i]}

VariablesOf(g, tree) == (UNION {Range(g.ops[i]) : i \in tree}) \ (Inlined(g) \cup {Const})

getASTSize(g, tree) == Cardinality({i \in tree : g.kind[i] # "cast"})

\* calculateHash goes by the opcodes and the constants, and not by which operand
\* is whose: trees that differ may have the same hash.
calculateHash(g, tree) ==
    [k \in {"bin", "cast", "call"} |-> Cardinality({i \in tree : g.kind[i] = k})]

\* Mistake: all of the tree is taken to go.
OwnedBy_Tree(g, root, tree) == tree

\* The instructions a replacement removes: the root, and those all of whose users
\* are removed.
OwnedBy(g, root, tree) ==
    LET owned[i \in Instructions(g)] ==
            \/ i = root
            \/ i \in tree /\ Users(i, g.ops) # {} /\ \A u \in Users(i, g.ops) : owned[u]
    IN {i \in tree : owned[i]}

(***************************************************************************)
(* Candidates of the function at work.                                     *)
(***************************************************************************)
Tree(root) == TreeOf(f, root)
Variables(root) == VariablesOf(f, Tree(root))
Owned(root) == OwnedBy(f, root, Tree(root))
Hash(root) == calculateHash(f, Tree(root))
ASTSize(root) == getASTSize(f, Tree(root))

\* A candidate that is not whole was found in the tree of another one.  byPattern is
\* history: the replacement is one of tryMBAPatterns.
Candidate(root, r, whole) ==
    [root |-> root, replacement |-> r, whole |-> whole, byPattern |-> FALSE]
NoReplacement == [binary |-> 0, counted |-> 0, instructions |-> 0, right |-> TRUE]
NoCandidate == Candidate(Const, NoReplacement, TRUE)

CachedAs(root, verdict) == Hash(root) \in DOMAIN MBACache /\ MBACache[Hash(root)] = verdict

constainsReplacedInstructions(root) == Tree(root) \cap ReplacedInstructions # {}

\* verify: a replacement has to have fewer binary operators than the tree has nodes,
\* casts included, and to agree with it on random values, by which a wrong one may
\* slip through.  The proof, if it is asked for and DoZ3, finds a wrong one unless
\* it times out, and may refuse a right one: a time out, an exception or a fault.
Shorter(c) == c.replacement.binary < Cardinality(Tree(c.root))
verify(c, DoZ3, verdict) ==
    IF verdict
    THEN Shorter(c) /\ (c.replacement.right \/ ~(options.prove /\ DoZ3) \/ options.acceptUnknown)
    ELSE ~Shorter(c) \/ ~c.replacement.right \/ (options.prove /\ DoZ3)

\* The router proves what it reports if it has to; the native path does not.
Proposed == UNCHANGED solverVars \/ (options.prove /\ proveReplacement)

\* The solver is not asked when the random values or the optimizer have decided.  A
\* fault counts as a proof that failed.
Z3Asked(DoZ3, verdict) ==
    \/ UNCHANGED solverVars
    \/ options.prove /\ DoZ3 /\ doProveWithZ3
    \/ options.prove /\ DoZ3 /\ ~verdict /\ abandonZ3CtxGlobal

\* Mistake: a shared tree is taken for one that goes as a whole.
CostsMore_Never(c) == FALSE

\* The tree shares nodes with other code, and countOperators finds more in its
\* replacement than the part that goes has, casts excluded.
SharesNodes(root) == Owned(root) # Tree(root)
CostsMore(c) ==
    /\ SharesNodes(c.root)
    /\ c.replacement.counted > getASTSize(f, Owned(c.root))

\* What the function has: a replacement is as many instructions as are made for it.
Weight(i) == IF i \in DOMAIN made THEN made[i].replacement.instructions ELSE 1
Operators == UNION {{i} \X (1 .. Weight(i)) : i \in DOMAIN operands}
Size == Cardinality(Operators)

(***************************************************************************)
(* Init, and extractCandidates for the next function.                      *)
(***************************************************************************)
Init ==
    /\ options \in [prove : BOOLEAN, acceptUnknown : BOOLEAN, walkSubAST : BOOLEAN]
    /\ functions \in Processes
    /\ f = [kind |-> <<>>, ops |-> <<>>]
    /\ operands = <<>> /\ made = <<>> /\ ErasedAll = {} /\ sizeBefore = 0
    /\ waiting = {} /\ ReplacedInstructions = {} /\ Candidates = <<>> /\ SubASTCandidates = <<>>
    /\ cand = NoCandidate
    /\ pc = "extract"
    /\ MBACache = <<>>
    /\ SolverInit

extractCandidates ==
    /\ pc = "extract" /\ functions # <<>>
    /\ functions' = Tail(functions)
    /\ f' = Head(functions)
    /\ operands' = f'.ops /\ made' = <<>> /\ ErasedAll' = {} /\ sizeBefore' = 0
    /\ waiting' = Roots(f')
    /\ ReplacedInstructions' = {} /\ Candidates' = <<>> /\ SubASTCandidates' = <<>>
    /\ pc' = "visit"
    /\ UNCHANGED <<options, cand, MBACache, solverVars>>

(***************************************************************************)
(* findReplacements: the candidates are visited from the largest tree on.  *)
(***************************************************************************)
IsNext(root) ==
    /\ pc = "visit" /\ root \in waiting
    /\ \A other \in waiting : Cardinality(Tree(other)) <= Cardinality(Tree(root))

Skipped(root) ==
    \/ ASTSize(root) < MinASTSize
    \/ Cardinality(Variables(root)) > MaxVarCount
    \/ constainsReplacedInstructions(root)
    \/ CachedAs(root, FALSE)

Skip(root) ==
    /\ IsNext(root) /\ Skipped(root)
    /\ waiting' = waiting \ {root}
    /\ UNCHANGED <<options, functions, pc, cand, MBACache, irVars, ReplacedInstructions,
                   Candidates, SubASTCandidates, solverVars>>

\* Mistake: a replacement is not verified when the cache knows the tree.
Simplify_TrustsCache(root) ==
    /\ IsNext(root) /\ ~Skipped(root)
    /\ waiting' = waiting \ {root}
    /\ \E r \in Replacements : cand' = Candidate(root, r, TRUE)
    /\ Proposed
    /\ pc' = IF CachedAs(root, TRUE) THEN "valid" ELSE "verify"
    /\ UNCHANGED <<options, functions, MBACache, irVars, ReplacedInstructions, Candidates,
                   SubASTCandidates>>

\* The simplifier may prove what it finds on its own; what it finds is verified.
Simplify(root) ==
    /\ IsNext(root) /\ ~Skipped(root)
    /\ waiting' = waiting \ {root}
    /\ \E r \in Replacements : cand' = Candidate(root, r, TRUE)
    /\ Proposed
    /\ pc' = "verify"
    /\ UNCHANGED <<options, functions, MBACache, irVars, ReplacedInstructions, Candidates,
                   SubASTCandidates>>

Verify ==
    /\ pc = "verify"
    /\ \E verdict \in BOOLEAN :
          /\ verify(cand, TRUE, verdict)
          /\ Z3Asked(TRUE, verdict)
          /\ pc' = IF verdict THEN "valid" ELSE "invalid"
    /\ UNCHANGED <<options, functions, cand, MBACache, irVars, findVars>>

\* replaceWithKnownPatterns and tryCandidateSimplifications propose others.
TryOther ==
    /\ pc = "invalid"
    /\ \E r \in Replacements : cand' = [cand EXCEPT !.replacement = r]
    /\ pc' = "verify"
    /\ UNCHANGED <<options, functions, MBACache, irVars, findVars, solverVars>>

\* What the identities of tryMBAPatterns give is verified without a proof; some of
\* them are not laws, so it may be wrong.
TryMBAPatterns ==
    /\ pc = "invalid"
    /\ \E r \in Replacements : cand' = [cand EXCEPT !.replacement = r, !.byPattern = TRUE]
    /\ verify(cand', FALSE, TRUE)
    /\ pc' = "valid"
    /\ UNCHANGED <<options, functions, MBACache, irVars, findVars, solverVars>>

\* The verdict is noted unless the cache had one.
Noted(verdict) ==
    MBACache' = IF Hash(cand.root) \in DOMAIN MBACache THEN MBACache
                ELSE [h \in DOMAIN MBACache \cup {Hash(cand.root)} |->
                         IF h = Hash(cand.root) THEN verdict ELSE MBACache[h]]

Reject ==
    /\ pc = "invalid"
    /\ Noted(FALSE)
    /\ pc' = IF Hash(cand.root) \notin DOMAIN MBACache /\ options.walkSubAST THEN "walk" ELSE "visit"
    /\ UNCHANGED <<options, functions, cand, irVars, findVars, solverVars>>

RefuseShared ==
    /\ pc = "valid" /\ CostsMore(cand)
    /\ Noted(TRUE)
    /\ pc' = "visit"
    /\ UNCHANGED <<options, functions, cand, irVars, findVars, solverVars>>

Accept ==
    /\ pc = "valid" /\ ~CostsMore(cand)
    /\ Noted(TRUE)
    /\ ReplacedInstructions' = ReplacedInstructions \cup Owned(cand.root)
    /\ Candidates' = Append(Candidates, cand)
    /\ pc' = "visit"
    /\ UNCHANGED <<options, functions, cand, irVars, waiting, SubASTCandidates, solverVars>>

\* walkSubAST: the first binary operator below the root for which a replacement can
\* be verified, if there is one; those before it are proposed or verified in vain.
WalkOn ==
    /\ pc = "walk"
    /\ Proposed \/ Z3Asked(TRUE, FALSE)
    /\ UNCHANGED <<options, functions, pc, cand, MBACache, irVars, findVars>>

walkSubAST ==
    /\ pc = "walk"
    /\ \/ UNCHANGED SubASTCandidates /\ UNCHANGED solverVars
       \/ \E o \in Inlined(f), r \in Replacements :
             /\ f.kind[o] = "bin" /\ \E i \in Tree(cand.root) : o \in Range(f.ops[i])
             /\ ASTSize(o) >= MinASTSize
             /\ verify(Candidate(o, r, FALSE), TRUE, TRUE)
             /\ Z3Asked(TRUE, TRUE)
             /\ SubASTCandidates' = Append(SubASTCandidates, Candidate(o, r, FALSE))
    /\ pc' = "visit"
    /\ UNCHANGED <<options, functions, cand, MBACache, irVars, waiting, ReplacedInstructions,
                   Candidates>>

EndFind ==
    /\ pc = "visit" /\ waiting = {}
    /\ Candidates' = Candidates \o SubASTCandidates
    /\ SubASTCandidates' = <<>>
    /\ pc' = "apply"
    /\ UNCHANGED <<options, functions, cand, MBACache, irVars, waiting, ReplacedInstructions,
                   solverVars>>

(***************************************************************************)
(* extractAndSimplify: the replacements are put in.                        *)
(***************************************************************************)
\* Mistake: what the tree reads is not looked up.
refersToErased_TreeOnly(c) == Tree(c.root) \cap ErasedAll # {}

\* A candidate was collected before others were put in: its tree and its variables are
\* looked up among what those have erased.
refersToErased(c) == (Tree(c.root) \cup Variables(c.root)) \cap ErasedAll # {}

SkipErased ==
    /\ pc = "apply" /\ Candidates # <<>> /\ refersToErased(Head(Candidates))
    /\ Candidates' = Tail(Candidates)
    /\ UNCHANGED <<options, functions, pc, cand, MBACache, irVars, waiting,
                   ReplacedInstructions, SubASTCandidates, solverVars>>

\* createLLVMReplacement: the new instruction reads the variables of the tree, and the
\* users of the root are given it instead.
Replacing(root) == Len(f.kind) + root
createLLVMReplacement ==
    /\ pc = "apply" /\ Candidates # <<>> /\ ~refersToErased(Head(Candidates))
    /\ Candidates' = Tail(Candidates)
    /\ cand' = Head(Candidates)
    /\ LET root == cand'.root
           new  == Replacing(root)
       IN /\ operands' = [i \in DOMAIN operands \cup {new} |->
                             IF i = new THEN [v \in Variables(root) |-> v]
                             ELSE [k \in DOMAIN operands[i] |->
                                      IF operands[i][k] = root THEN new ELSE operands[i][k]]]
          /\ made' = [i \in DOMAIN made \cup {new} |->
                         IF i = new THEN cand' ELSE made[i]]
    /\ sizeBefore' = Size
    /\ pc' = "erase"
    /\ UNCHANGED <<options, functions, f, ErasedAll, MBACache, waiting, ReplacedInstructions,
                   SubASTCandidates, solverVars>>

\* What the loop over the tree, repeated until nothing goes, may erase next.
Erasable == {i \in Tree(cand.root) \cap DOMAIN operands : Users(i, operands) = {}}

\* Mistake: the instruction is noted as erased and left where it is.
Erase_Left(i) ==
    /\ pc = "erase" /\ i \in Erasable \ ErasedAll
    /\ ErasedAll' = ErasedAll \cup {i}
    /\ UNCHANGED <<options, functions, operands, pc, cand, f, made, sizeBefore, MBACache,
                   findVars, solverVars>>

Erase(i) ==
    /\ pc = "erase" /\ i \in Erasable
    /\ operands' = Restrict(operands, DOMAIN operands \ {i})
    /\ ErasedAll' = ErasedAll \cup {i}
    /\ UNCHANGED <<options, functions, pc, cand, f, made, sizeBefore, MBACache, findVars,
                   solverVars>>

ErasedEnough ==
    /\ pc = "erase" /\ Erasable = {}
    /\ pc' = "apply"
    /\ UNCHANGED <<options, functions, cand, MBACache, irVars, findVars, solverVars>>

EndFunction ==
    /\ pc = "apply" /\ Candidates = <<>>
    /\ pc' = IF functions = <<>> THEN "done" ELSE "extract"
    /\ UNCHANGED <<options, functions, cand, MBACache, irVars, findVars, solverVars>>

Visit == \E root \in waiting : Skip(root) \/ Simplify(root)
Judge == Verify \/ TryOther \/ TryMBAPatterns \/ Reject \/ RefuseShared \/ Accept \/ WalkOn \/ walkSubAST
Apply == SkipErased \/ createLLVMReplacement \/ (\E i \in Instructions(f) : Erase(i)) \/ ErasedEnough

Next == extractCandidates \/ Visit \/ Judge \/ EndFind \/ Apply \/ EndFunction

Spec == Init /\ [][Next]_vars

(***************************************************************************)
(* Properties.                                                             *)
(***************************************************************************)
\* Type correctness: what the function has are its instructions but those erased, and
\* the replacements.
TypeOK ==
    /\ pc \in {"extract", "visit", "verify", "valid", "invalid", "walk", "apply", "erase", "done"}
    /\ WellFormed(f)
    /\ waiting \subseteq Instructions(f)
    /\ ReplacedInstructions \subseteq Instructions(f)
    /\ ErasedAll = Instructions(f) \ DOMAIN operands
    /\ DOMAIN made = DOMAIN operands \ Instructions(f)

\* No instruction that is left uses one that was erased, and nothing new was built
\* from one: whatever the candidates share, and whatever was verified.
NothingDangles ==
    \A i \in DOMAIN operands : \A k \in DOMAIN operands[i] :
        operands[i][k] > 0 => operands[i][k] \in DOMAIN operands

\* What an operand stands for: a replacement, for the instruction it has replaced.
StandsFor(v) == IF v \in DOMAIN made THEN v - Len(f.kind) ELSE v

\* The k-th operand of an instruction as the function had it, or the k-th variable of
\* a replacement's tree.
Original(i, k) == IF i \in DOMAIN made THEN k ELSE f.ops[i][k]

\* Proofs were asked for, and a proof that times out is not taken for one.
Proved == options.prove /\ ~options.acceptUnknown

\* Every instruction that is left, returns and stores among them, has the operands it
\* had or what has replaced them, and so has what was put in over others; with proofs,
\* what has replaced them is equivalent, or one of tryMBAPatterns: none is put in on
\* the word of the cache.
ValuesKeptButByPatterns ==
    \A i \in DOMAIN operands : \A k \in DOMAIN operands[i] :
        LET v == operands[i][k]
        IN /\ StandsFor(v) = Original(i, k)
           /\ Proved /\ v \in DOMAIN made => made[v].replacement.right \/ made[v].byPattern

\* What the test that lets a candidate pass counts of its replacement: the cost of a
\* shared tree, and otherwise what verify compares with the size of the tree.
CountedBy(c) == IF SharesNodes(c.root) THEN c.replacement.counted ELSE c.replacement.binary

\* "It must not cost more than that": a candidate found as a whole makes the function
\* larger by no more than the instructions of its replacement that its test has not
\* counted (unary operators of an unshared tree, casts and shifts of a shared one),
\* whatever was put in or erased before it.
GrowsByUncounted ==
    [][pc = "erase" /\ pc' = "apply" /\ cand.whole =>
          Size + CountedBy(cand) <= sizeBefore + cand.replacement.instructions]_vars

\* "Mark the instructions this replacement will actually remove": what was marked, and
\* kept smaller candidates from being tried, is gone in the end, unless a variable
\* of its tree was replaced.
MarkedGone ==
    pc = "apply" /\ Candidates = <<>> =>
        \A i \in ReplacedInstructions :
            \/ i \notin DOMAIN operands
            \/ \E root \in Roots(f) : i \in Owned(root) /\ Variables(root) \cap ErasedAll # {}

=============================================================================
