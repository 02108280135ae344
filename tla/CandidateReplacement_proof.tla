---------------------- MODULE CandidateReplacement_proof ----------------------
(***************************************************************************)
(* Safety of CandidateReplacement for every set of functions, every bound  *)
(* on sizes and every interleaving of rewrites, verdicts and faults.       *)
(***************************************************************************)
EXTENDS CandidateReplacement, SequenceTheorems, FiniteSetTheorems, TLAPS

(***************************************************************************)
(* The solver.  That the cached solver belongs to the contexts in use is   *)
(* inductive only with what is known of the contexts: the two in use       *)
(* differ, and neither was abandoned.                                      *)
(***************************************************************************)
SolverInv ==
    /\ created \in Nat \ {0}
    /\ ProverCtx \in 0 .. created
    /\ Z3CtxGlobal \in 1 .. created
    /\ ProverCtx # Z3CtxGlobal
    /\ abandoned \subseteq 1 .. created
    /\ ProverCtx \notin abandoned /\ Z3CtxGlobal \notin abandoned
    /\ SolverBelongs

SolverNext == proveReplacement \/ doProveWithZ3 \/ abandonZ3CtxGlobal

\* Before the first call there is one context, and no solver.
LEMMA SolverInitInv == SolverInit => SolverInv
BY DEF SolverInit, SolverInv, SolverBelongs, None

\* A solver that is kept is one of the context that asks.
LEMMA SolverForIsAsked ==
  ASSUME NEW c
  PROVE  SolverFor(c) = c
BY DEF SolverFor, Kept

\* Each of the three calls keeps what is known of the contexts: one makes a context at
\* most, and an abandoned one is forgotten together with its solver.
LEMMA SolverNextInv ==
  ASSUME SolverInv, SolverNext
  PROVE  SolverInv'
<1>1. CASE proveReplacement
  BY <1>1, SolverForIsAsked
  DEF SolverInv, SolverBelongs, proveReplacement, prove, None
<1>2. CASE doProveWithZ3
  BY <1>2, SolverForIsAsked
  DEF SolverInv, SolverBelongs, doProveWithZ3, prove, None
<1>3. CASE abandonZ3CtxGlobal
  BY <1>3, SolverForIsAsked
  DEF SolverInv, SolverBelongs, abandonZ3CtxGlobal, Forgotten, None
<1> QED
  BY <1>1, <1>2, <1>3 DEF SolverNext

\* Whatever the passes do, the solver changes by one of its calls or not at all.
LEMMA NextIsSolverNext ==
  ASSUME [Next]_vars
  PROVE  SolverNext \/ UNCHANGED solverVars
<1>1. CASE Visit
  BY <1>1 DEF Visit, Skip, Simplify, Proposed, SolverNext
<1>2. CASE Judge
  BY <1>2 DEF Judge, Verify, TryOther, TryMBAPatterns, Reject, RefuseShared, Accept,
              WalkOn, walkSubAST, Proposed, Z3Asked, SolverNext
<1>3. CASE Apply
  BY <1>3 DEF Apply, SkipErased, createLLVMReplacement, Erase, ErasedEnough
<1>4. CASE extractCandidates \/ EndFind \/ EndFunction
  BY <1>4 DEF extractCandidates, EndFind, EndFunction
<1>5. CASE UNCHANGED vars
  BY <1>5 DEF vars
<1> QED
  BY <1>1, <1>2, <1>3, <1>4, <1>5 DEF Next

\* A conjecture is only ever added to a solver of its own context, and no solver
\* outlives the context it was made in (getProverCtx, prove, abandonZ3Solver).
THEOREM SolverBelongsAlways == Spec => []SolverBelongs
<1>1. Init => SolverInv
  BY SolverInitInv DEF Init
<1>2. SolverInv /\ [Next]_vars => SolverInv'
  <2> SUFFICES ASSUME SolverInv, [Next]_vars PROVE SolverInv'
    OBVIOUS
  <2>1. CASE SolverNext
    BY <2>1, SolverNextInv
  <2>2. CASE UNCHANGED solverVars
    BY <2>2 DEF SolverInv, SolverBelongs, solverVars
  <2> QED
    BY <2>1, <2>2, NextIsSolverNext
<1>3. SolverInv => SolverBelongs
  BY DEF SolverInv
<1> QED
  BY <1>1, <1>2, <1>3, PTL DEF Spec

(***************************************************************************)
(* The functions.  TypeOK and NothingDangles are inductive once it is      *)
(* known that the candidates are of the function at work, and              *)
(* ValuesKeptButByPatterns once it is known that with proofs every         *)
(* candidate but those of tryMBAPatterns was proved.                       *)
(***************************************************************************)
Proposals == [root : Instructions(f), replacement : Replacements, whole : BOOLEAN,
              byPattern : BOOLEAN]
Verified  == {c \in Proposals : Proved => c.replacement.right \/ c.byPattern}

\* The functions a process may work on, and those it has not begun yet.
AllFunctions == UNION {Range(p) : p \in Processes}
FunctionsOK == functions \in Seq(AllFunctions)

CandidatesOK ==
    /\ Candidates \in Seq(Verified) /\ SubASTCandidates \in Seq(Verified)
    /\ pc \in {"verify", "invalid", "walk"} => cand \in Proposals
    /\ pc \in {"valid", "erase"} => cand \in Verified
    /\ options \in [prove : BOOLEAN, acceptUnknown : BOOLEAN, walkSubAST : BOOLEAN]

\* What is put in has the place after the function of the root it replaces.
MadeOK ==
    /\ \A i \in DOMAIN made : i > Len(f.kind)
    /\ DOMAIN operands \subseteq Nat
    /\ Proved => \A i \in DOMAIN made : made[i].replacement.right \/ made[i].byPattern

IInv ==
    /\ TypeOK /\ NothingDangles /\ ValuesKeptButByPatterns
    /\ FunctionsOK /\ CandidatesOK /\ MadeOK

\* getAST stays within the function.
LEMMA TreeIsOfFunction ==
  ASSUME NEW g, NEW root
  PROVE  TreeOf(g, root) \subseteq Instructions(g)
BY DEF TreeOf

\* What a replacement removes is of the tree it replaces.
LEMMA OwnedIsOfTree ==
  ASSUME NEW g, NEW root, NEW tree
  PROVE  OwnedBy(g, root, tree) \subseteq tree
BY DEF OwnedBy

\* extractCandidates only lists instructions of the function.
LEMMA RootsAreOfFunction ==
  ASSUME NEW g
  PROVE  Roots(g) \subseteq Instructions(g)
BY DEF Roots, Inlined, Supported

\* What a tree reads is an instruction of the function, or comes from outside of it.
LEMMA VariablesAreOfFunction ==
  ASSUME NEW g, WellFormed(g), NEW tree, tree \subseteq Instructions(g),
         NEW v \in VariablesOf(g, tree)
  PROVE  v \in Int /\ v <= Len(g.kind) /\ (v > 0 => v \in Instructions(g))
<1>1. PICK i \in tree : v \in Range(g.ops[i])
  BY DEF VariablesOf
<1>2. PICK k \in DOMAIN g.ops[i] : v = g.ops[i][k]
  BY <1>1 DEF Range
<1>3. g.kind \in Seq(Kinds) /\ i \in DOMAIN g.ops /\ DOMAIN g.kind = 1 .. Len(g.kind)
  BY DEF WellFormed, Instructions
<1>4. i \in 1 .. Len(g.kind) /\ v \in Int /\ v < i
  BY <1>2, <1>3 DEF WellFormed
<1> QED
  BY <1>3, <1>4 DEF Instructions

\* In every function an instruction uses what is computed before it.
LEMMA FunctionsAreWellFormed ==
  /\ \A g \in AllFunctions : WellFormed(g)
  /\ \A p \in Processes : p \in Seq(AllFunctions)
<1>1. \A g \in AllFunctions : WellFormed(g)
  BY ProcessesAssumption DEF AllFunctions
<1>2. ASSUME NEW p \in Processes
      PROVE  p \in Seq(AllFunctions)
  <2>1. p \in Seq(Range(p)) /\ Range(p) \subseteq AllFunctions
    BY ProcessesAssumption DEF AllFunctions
  <2> QED
    BY <2>1
<1> QED
  BY <1>1, <1>2

\* There is no function at work at first.
LEMMA InitIInv == Init => IInv
<1> SUFFICES ASSUME Init PROVE IInv
  OBVIOUS
<1>1. /\ f.kind = <<>> /\ f.ops = <<>> /\ operands = <<>> /\ made = <<>> /\ ErasedAll = {}
      /\ waiting = {} /\ ReplacedInstructions = {} /\ Candidates = <<>>
      /\ SubASTCandidates = <<>> /\ pc = "extract"
  BY DEF Init
<1>2. DOMAIN operands = {} /\ DOMAIN made = {} /\ DOMAIN f.kind = {} /\ DOMAIN f.ops = {}
  BY <1>1
<1>3. TypeOK /\ MadeOK /\ NothingDangles /\ ValuesKeptButByPatterns
  BY <1>1, <1>2 DEF TypeOK, MadeOK, NothingDangles, ValuesKeptButByPatterns, WellFormed, Instructions
<1>4. FunctionsOK
  BY FunctionsAreWellFormed DEF Init, FunctionsOK
<1>5. CandidatesOK
  BY <1>1 DEF CandidatesOK, Init
<1> QED
  BY <1>3, <1>4, <1>5 DEF IInv

\* The next function begins with its own operands, and without candidates.
LEMMA ExtractIInv ==
  ASSUME IInv, extractCandidates
  PROVE  IInv'
<1>1. /\ functions' = Tail(functions) /\ f' = Head(functions) /\ operands' = f'.ops
      /\ made' = <<>> /\ ErasedAll' = {} /\ waiting' = Roots(f') /\ ReplacedInstructions' = {}
      /\ Candidates' = <<>> /\ SubASTCandidates' = <<>> /\ pc' = "visit" /\ options' = options
      /\ functions # <<>>
  BY DEF extractCandidates
<1>2. functions' \in Seq(AllFunctions) /\ WellFormed(f')
  BY <1>1, HeadTailProperties, FunctionsAreWellFormed DEF IInv, FunctionsOK
<1>3. /\ DOMAIN operands' = Instructions(f)' /\ DOMAIN f'.kind = 1 .. Len(f'.kind)
      /\ DOMAIN made' = {}
  BY <1>1, <1>2 DEF WellFormed, Instructions
<1>4. TypeOK'
  BY <1>1, <1>2, <1>3, RootsAreOfFunction DEF TypeOK
<1>5. \A i \in DOMAIN operands' : \A k \in DOMAIN operands'[i] :
         operands'[i][k] \in Int /\ operands'[i][k] < i
  BY <1>1, <1>2 DEF WellFormed
<1>6. NothingDangles'
  BY <1>3, <1>5 DEF NothingDangles, Instructions
<1>7. ValuesKeptButByPatterns'
  BY <1>1, <1>3 DEF ValuesKeptButByPatterns, StandsFor, Original
<1>8. CandidatesOK' /\ MadeOK'
  BY <1>1, <1>3 DEF IInv, CandidatesOK, MadeOK, Instructions
<1> QED
  BY <1>2, <1>4, <1>6, <1>7, <1>8 DEF IInv, FunctionsOK

\* A step that leaves the instructions alone keeps the invariant if it keeps what is
\* known of the candidates.
LEMMA FindKeepsIInv ==
  ASSUME IInv, UNCHANGED <<options, functions, irVars>>,
         pc' \in {"extract", "visit", "verify", "valid", "invalid", "walk", "apply", "erase", "done"},
         waiting' \subseteq Instructions(f), ReplacedInstructions' \subseteq Instructions(f),
         CandidatesOK'
  PROVE  IInv'
<1>1. /\ f' = f /\ operands' = operands /\ made' = made /\ ErasedAll' = ErasedAll
      /\ options' = options /\ functions' = functions
  BY DEF irVars
<1>2. TypeOK /\ NothingDangles /\ ValuesKeptButByPatterns /\ FunctionsOK /\ MadeOK
  BY DEF IInv
<1>3. TypeOK'
  BY <1>1, <1>2 DEF TypeOK
<1>4. NothingDangles' /\ FunctionsOK'
  BY <1>1, <1>2 DEF NothingDangles, FunctionsOK
<1>5. ValuesKeptButByPatterns' /\ MadeOK'
  BY <1>1, <1>2 DEF ValuesKeptButByPatterns, StandsFor, Original, Proved, MadeOK
<1> QED
  BY <1>3, <1>4, <1>5 DEF IInv

\* With the function and the options, the proposals and the verified ones stay.
LEMMA SameProposals ==
  ASSUME UNCHANGED <<options, f>>
  PROVE  Proposals' = Proposals /\ Verified' = Verified
BY DEF Proposals, Verified, Proved, Instructions

\* With proofs, what verify accepts is right.
LEMMA AcceptedIsRight ==
  ASSUME NEW c \in Proposals, verify(c, TRUE, TRUE)
  PROVE  c \in Verified
BY DEF verify, Verified, Proved

\* What the simplifier proposes for an instruction is a proposal for the function.
LEMMA CandidateIsProposal ==
  ASSUME NEW root \in Instructions(f), NEW r \in Replacements, NEW whole \in BOOLEAN
  PROVE  Candidate(root, r, whole) \in Proposals
BY DEF Candidate, Proposals

\* A root that is skipped leaves no trace, and one that is simplified only a proposal.
LEMMA VisitIInv ==
  ASSUME IInv, Visit
  PROVE  IInv'
<1>1. PICK root \in waiting : Skip(root) \/ Simplify(root)
  BY DEF Visit
<1>2. /\ waiting \subseteq Instructions(f) /\ ReplacedInstructions \subseteq Instructions(f)
      /\ CandidatesOK
  BY DEF IInv, TypeOK
<1>3. CASE Skip(root)
  <2>1. /\ UNCHANGED <<options, functions, pc, cand, irVars, ReplacedInstructions, Candidates,
                       SubASTCandidates>>
        /\ waiting' = waiting \ {root} /\ f' = f /\ pc = "visit"
    BY <1>3 DEF Skip, IsNext, irVars
  <2>2. CandidatesOK'
    BY <1>2, <2>1, SameProposals DEF CandidatesOK
  <2> QED
    BY <1>2, <2>1, <2>2, FindKeepsIInv
<1>4. CASE Simplify(root)
  <2>1. /\ UNCHANGED <<options, functions, irVars, ReplacedInstructions, Candidates,
                       SubASTCandidates>>
        /\ waiting' = waiting \ {root} /\ f' = f /\ pc' = "verify"
    BY <1>4 DEF Simplify, irVars
  <2>2. cand' \in Proposals
    BY <1>2, <1>4, CandidateIsProposal DEF Simplify
  <2>3. CandidatesOK'
    BY <1>2, <2>1, <2>2, SameProposals DEF CandidatesOK
  <2> QED
    BY <1>2, <2>1, <2>3, FindKeepsIInv
<1> QED
  BY <1>1, <1>3, <1>4

\* A verdict adds a candidate to a list only after it was verified.
LEMMA JudgeIInv ==
  ASSUME IInv, Judge
  PROVE  IInv'
<1>1. /\ waiting \subseteq Instructions(f) /\ ReplacedInstructions \subseteq Instructions(f)
      /\ CandidatesOK
  BY DEF IInv, TypeOK
<1>2. CASE Verify
  <2>1. /\ UNCHANGED <<options, functions, cand, irVars, findVars>> /\ f' = f
        /\ pc = "verify" /\ pc' \in {"valid", "invalid"}
    BY <1>2 DEF Verify, irVars
  <2>2. pc' = "valid" => cand \in Verified
    BY <1>1, <1>2, AcceptedIsRight DEF Verify, CandidatesOK
  <2>3. CandidatesOK'
    BY <1>1, <2>1, <2>2, SameProposals DEF CandidatesOK, findVars
  <2> QED
    BY <1>1, <2>1, <2>3, FindKeepsIInv DEF findVars
<1>3. CASE TryOther
  <2>1. /\ UNCHANGED <<options, functions, irVars, findVars>> /\ f' = f
        /\ pc = "invalid" /\ pc' = "verify"
    BY <1>3 DEF TryOther, irVars
  <2>2. cand' \in Proposals
    BY <1>1, <1>3, <2>1 DEF TryOther, CandidatesOK, Proposals
  <2>3. CandidatesOK'
    BY <1>1, <2>1, <2>2, SameProposals DEF CandidatesOK, findVars
  <2> QED
    BY <1>1, <2>1, <2>3, FindKeepsIInv DEF findVars
<1>4. CASE TryMBAPatterns
  <2>1. /\ UNCHANGED <<options, functions, irVars, findVars>> /\ f' = f
        /\ pc = "invalid" /\ pc' = "valid"
    BY <1>4 DEF TryMBAPatterns, irVars
  <2>2. PICK r \in Replacements : cand' = [cand EXCEPT !.replacement = r, !.byPattern = TRUE]
    BY <1>4 DEF TryMBAPatterns
  <2>3. cand' \in Verified
    BY <1>1, <2>1, <2>2 DEF CandidatesOK, Proposals, Verified
  <2>4. CandidatesOK'
    BY <1>1, <2>1, <2>3, SameProposals DEF CandidatesOK, findVars
  <2> QED
    BY <1>1, <2>1, <2>4, FindKeepsIInv DEF findVars
<1>5. CASE Reject
  <2>1. /\ UNCHANGED <<options, functions, cand, irVars, findVars>> /\ f' = f
        /\ pc = "invalid" /\ pc' \in {"walk", "visit"}
    BY <1>5 DEF Reject, irVars
  <2>2. CandidatesOK'
    BY <1>1, <2>1, SameProposals DEF CandidatesOK, findVars
  <2> QED
    BY <1>1, <2>1, <2>2, FindKeepsIInv DEF findVars
<1>6. CASE RefuseShared
  <2>1. UNCHANGED <<options, functions, cand, irVars, findVars>> /\ f' = f /\ pc' = "visit"
    BY <1>6 DEF RefuseShared, irVars
  <2>2. CandidatesOK'
    BY <1>1, <2>1, SameProposals DEF CandidatesOK, findVars
  <2> QED
    BY <1>1, <2>1, <2>2, FindKeepsIInv DEF findVars
<1>7. CASE Accept
  <2>1. /\ UNCHANGED <<options, functions, cand, irVars, waiting, SubASTCandidates>> /\ f' = f
        /\ pc = "valid" /\ pc' = "visit" /\ Candidates' = Append(Candidates, cand)
        /\ ReplacedInstructions' = ReplacedInstructions \cup Owned(cand.root)
    BY <1>7 DEF Accept, irVars
  <2>2. Owned(cand.root) \subseteq Instructions(f)
    BY TreeIsOfFunction, OwnedIsOfTree DEF Owned, Tree
  <2>3. Candidates' \in Seq(Verified)
    BY <1>1, <2>1, AppendProperties DEF CandidatesOK
  <2>4. CandidatesOK'
    BY <1>1, <2>1, <2>3, SameProposals DEF CandidatesOK
  <2> QED
    BY <1>1, <2>1, <2>2, <2>4, FindKeepsIInv
<1>8. CASE walkSubAST
  <2>1. /\ UNCHANGED <<options, functions, cand, irVars, waiting, ReplacedInstructions,
                       Candidates>>
        /\ f' = f /\ pc' = "visit"
    BY <1>8 DEF walkSubAST, irVars
  <2>2. SubASTCandidates' \in Seq(Verified)
    <3>1. CASE UNCHANGED SubASTCandidates
      BY <1>1, <3>1 DEF CandidatesOK
    <3>2. ASSUME NEW o \in Inlined(f), NEW r \in Replacements,
                 verify(Candidate(o, r, FALSE), TRUE, TRUE),
                 SubASTCandidates' = Append(SubASTCandidates, Candidate(o, r, FALSE))
          PROVE  SubASTCandidates' \in Seq(Verified)
      <4>1. Candidate(o, r, FALSE) \in Verified
        BY <3>2, CandidateIsProposal, AcceptedIsRight DEF Inlined
      <4> QED
        BY <1>1, <3>2, <4>1, AppendProperties DEF CandidatesOK
    <3> QED
      BY <1>8, <3>1, <3>2 DEF walkSubAST
  <2>3. CandidatesOK'
    BY <1>1, <2>1, <2>2, SameProposals DEF CandidatesOK
  <2> QED
    BY <1>1, <2>1, <2>3, FindKeepsIInv
<1>9. CASE WalkOn
  <2>1. /\ UNCHANGED <<options, functions, pc, cand, irVars, findVars>> /\ f' = f
        /\ pc = "walk"
    BY <1>9 DEF WalkOn, irVars
  <2>2. CandidatesOK'
    BY <1>1, <2>1, SameProposals DEF CandidatesOK, findVars
  <2> QED
    BY <1>1, <2>1, <2>2, FindKeepsIInv DEF findVars
<1> QED
  BY <1>2, <1>3, <1>4, <1>5, <1>6, <1>7, <1>8, <1>9 DEF Judge

\* The steps that only move on from one phase to the next.
LEMMA EndIInv ==
  ASSUME IInv, EndFind \/ EndFunction \/ SkipErased \/ ErasedEnough \/ UNCHANGED vars
  PROVE  IInv'
<1>1. /\ waiting \subseteq Instructions(f) /\ ReplacedInstructions \subseteq Instructions(f)
      /\ CandidatesOK
  BY DEF IInv, TypeOK
<1>2. CASE EndFind
  <2>1. /\ UNCHANGED <<options, functions, cand, irVars, waiting, ReplacedInstructions>>
        /\ f' = f /\ pc' = "apply"
        /\ Candidates' = Candidates \o SubASTCandidates /\ SubASTCandidates' = <<>>
    BY <1>2 DEF EndFind, irVars
  <2>2. Candidates' \in Seq(Verified) /\ SubASTCandidates' \in Seq(Verified)
    BY <1>1, <2>1, ConcatProperties DEF CandidatesOK
  <2>3. CandidatesOK'
    BY <1>1, <2>1, <2>2, SameProposals DEF CandidatesOK
  <2> QED
    BY <1>1, <2>1, <2>3, FindKeepsIInv
<1>3. CASE SkipErased
  <2>1. /\ UNCHANGED <<options, functions, pc, cand, irVars, waiting, ReplacedInstructions,
                       SubASTCandidates>>
        /\ f' = f /\ Candidates # <<>> /\ Candidates' = Tail(Candidates) /\ pc = "apply"
    BY <1>3 DEF SkipErased, irVars
  <2>2. Candidates' \in Seq(Verified)
    BY <1>1, <2>1, HeadTailProperties DEF CandidatesOK
  <2>3. CandidatesOK'
    BY <1>1, <2>1, <2>2, SameProposals DEF CandidatesOK
  <2> QED
    BY <1>1, <2>1, <2>3, FindKeepsIInv
<1>4. CASE ErasedEnough \/ EndFunction
  <2>1. /\ UNCHANGED <<options, functions, cand, irVars, findVars>> /\ f' = f
        /\ pc' \in {"apply", "done", "extract"}
    BY <1>4 DEF ErasedEnough, EndFunction, irVars
  <2>2. CandidatesOK'
    BY <1>1, <2>1, SameProposals DEF CandidatesOK, findVars
  <2> QED
    BY <1>1, <2>1, <2>2, FindKeepsIInv DEF findVars
<1>5. CASE UNCHANGED vars
  <2>1. UNCHANGED <<options, functions, pc, cand, irVars, findVars>> /\ f' = f /\ pc' = pc
    BY <1>5 DEF vars, irVars
  <2>2. CandidatesOK'
    BY <1>1, <2>1, SameProposals DEF CandidatesOK, findVars
  <2>3. TypeOK
    BY DEF IInv
  <2> QED
    BY <1>1, <2>1, <2>2, <2>3, FindKeepsIInv DEF findVars, TypeOK
<1> QED
  BY <1>2, <1>3, <1>4, <1>5

\* The replacement reads what the tree reads, none of it erased, and takes the place
\* of the root at every use.
LEMMA ReplaceIInv ==
  ASSUME IInv, createLLVMReplacement
  PROVE  IInv'
<1> DEFINE c    == Head(Candidates)
           root == c.root
           new  == Replacing(root)
           Put(i) == [k \in DOMAIN operands[i] |->
                         IF operands[i][k] = root THEN new ELSE operands[i][k]]
<1>1. /\ pc = "apply" /\ Candidates # <<>> /\ ~refersToErased(c)
      /\ Candidates' = Tail(Candidates) /\ cand' = c /\ pc' = "erase"
      /\ UNCHANGED <<options, functions, f, ErasedAll, waiting, ReplacedInstructions,
                     SubASTCandidates>>
  BY DEF createLLVMReplacement
<1>2. /\ operands' = [i \in DOMAIN operands \cup {new} |->
                         IF i = new THEN [v \in Variables(root) |-> v] ELSE Put(i)]
      /\ made' = [i \in DOMAIN made \cup {new} |->
                     IF i = new THEN c ELSE made[i]]
  BY <1>1 DEF createLLVMReplacement
<1>3. /\ TypeOK /\ NothingDangles /\ ValuesKeptButByPatterns
      /\ FunctionsOK /\ CandidatesOK /\ MadeOK
  BY DEF IInv
<1>4. c \in Verified /\ Candidates' \in Seq(Verified)
  BY <1>1, <1>3, HeadTailProperties DEF CandidatesOK
<1>5. root \in Instructions(f)
  BY <1>4 DEF Verified, Proposals
<1>6. Instructions(f) = 1 .. Len(f.kind) /\ Len(f.kind) \in Nat
  BY <1>3 DEF TypeOK, WellFormed, Instructions
<1>7. new \in Nat /\ new > Len(f.kind) /\ new - Len(f.kind) = root
  BY <1>5, <1>6 DEF Replacing
<1>8. \A v \in Variables(root) :
         v \in Int /\ v <= Len(f.kind) /\ (v > 0 => v \in DOMAIN operands)
  <2>1. \A v \in Variables(root) :
           v \in Int /\ v <= Len(f.kind) /\ (v > 0 => v \in Instructions(f))
    BY <1>3, TreeIsOfFunction, VariablesAreOfFunction DEF Variables, Tree, TypeOK
  <2>2. Variables(root) \cap ErasedAll = {}
    BY <1>1 DEF refersToErased
  <2> QED
    BY <1>3, <2>1, <2>2 DEF TypeOK
<1>9. CandidatesOK'
  BY <1>1, <1>3, <1>4, SameProposals DEF CandidatesOK
<1>10. Proved => c.replacement.right \/ c.byPattern
  BY <1>4 DEF Verified
<1> HIDE DEF c, root, new
<1>11. DOMAIN operands' = DOMAIN operands \cup {new} /\ DOMAIN made' = DOMAIN made \cup {new}
  BY <1>2
<1>12. TypeOK'
  BY <1>1, <1>3, <1>6, <1>7, <1>11 DEF TypeOK, Instructions
<1>13. MadeOK'
  <2>1. Proved' = Proved
    BY <1>1 DEF Proved
  <2> QED
    BY <1>1, <1>2, <1>3, <1>7, <1>10, <1>11, <2>1 DEF MadeOK
<1>14. FunctionsOK'
  BY <1>1, <1>3 DEF FunctionsOK
<1>15. NothingDangles'
  <2> SUFFICES ASSUME NEW i \in DOMAIN operands', NEW k \in DOMAIN operands'[i],
                      operands'[i][k] > 0
               PROVE  operands'[i][k] \in DOMAIN operands'
    BY DEF NothingDangles
  <2>1. CASE i = new
    BY <1>2, <1>8, <1>11, <2>1
  <2>2. CASE i # new
    <3>1. operands'[i] = Put(i) /\ i \in DOMAIN operands
      BY <1>2, <1>11, <2>2
    <3> QED
      BY <1>3, <1>11, <3>1 DEF NothingDangles
  <2> QED
    BY <2>1, <2>2
<1>16. ValuesKeptButByPatterns'
  <2> DEFINE Stands(v) == IF v \in DOMAIN made' THEN v - Len(f.kind) ELSE v
  <2>1. \A v : Stands(v) = IF v = new THEN root ELSE StandsFor(v)
    BY <1>7, <1>11 DEF StandsFor
  <2> HIDE DEF Stands
  <2>2. \A v \in Int : v <= Len(f.kind) => v # new /\ StandsFor(v) = v
    BY <1>3, <1>6, <1>7 DEF MadeOK, StandsFor, TypeOK
  <2>3. ASSUME NEW i \in DOMAIN operands', NEW k \in DOMAIN operands'[i]
        PROVE  Stands(operands'[i][k]) = IF i \in DOMAIN made' THEN k ELSE f.ops[i][k]
    <3>1. CASE i = new
      BY <1>2, <1>8, <1>11, <2>1, <2>2, <3>1
    <3>2. CASE i # new
      <4>1. operands'[i] = Put(i) /\ i \in DOMAIN operands /\ k \in DOMAIN operands[i]
        BY <1>2, <1>11, <2>3, <3>2
      <4>2. StandsFor(operands[i][k]) = IF i \in DOMAIN made THEN k ELSE f.ops[i][k]
        BY <1>3, <4>1 DEF ValuesKeptButByPatterns, Original
      <4>3. i \in DOMAIN made' <=> i \in DOMAIN made
        BY <1>11, <3>2
      <4>4. CASE operands[i][k] = root
        BY <1>5, <1>6, <2>1, <2>2, <4>1, <4>2, <4>3, <4>4
      <4>5. CASE operands[i][k] # root
        <5>1. operands[i][k] = new => new \in DOMAIN made
          BY <1>3, <1>6, <1>7, <4>1 DEF NothingDangles, TypeOK
        <5>2. operands[i][k] # new \/ StandsFor(operands[i][k]) = root
          BY <1>7, <5>1 DEF StandsFor
        <5> QED
          BY <2>1, <4>1, <4>2, <4>3, <4>5, <5>2
      <4> QED
        BY <4>4, <4>5
    <3> QED
      BY <3>1, <3>2
  <2>4. \A i \in DOMAIN operands' : \A k \in DOMAIN operands'[i] :
           StandsFor(operands[i][k])' = Original(i, k)'
    BY <1>1, <2>3 DEF Stands, StandsFor, Original
  <2> QED
    BY <1>13, <2>4 DEF ValuesKeptButByPatterns, MadeOK
<1> QED
  BY <1>9, <1>12, <1>13, <1>14, <1>15, <1>16 DEF IInv

\* An instruction goes only when nothing uses it.
LEMMA EraseIInv ==
  ASSUME IInv, NEW e \in Instructions(f), Erase(e)
  PROVE  IInv'
<1>1. /\ pc = "erase" /\ e \in Tree(cand.root) /\ e \in DOMAIN operands /\ Users(e, operands) = {}
      /\ ErasedAll' = ErasedAll \cup {e}
      /\ UNCHANGED <<options, functions, pc, cand, f, made, findVars>>
  BY DEF Erase, Erasable
<1>2. operands' = [i \in DOMAIN operands \ {e} |-> operands[i]]
  BY DEF Erase, Restrict
<1>3. /\ TypeOK /\ NothingDangles /\ ValuesKeptButByPatterns
      /\ FunctionsOK /\ CandidatesOK /\ MadeOK
  BY DEF IInv
<1>4. \A i \in DOMAIN operands : \A k \in DOMAIN operands[i] : operands[i][k] # e
  BY <1>1 DEF Users, Range
<1>5. TypeOK'
  BY <1>1, <1>2, <1>3 DEF TypeOK, findVars
<1>6. NothingDangles'
  BY <1>2, <1>3, <1>4 DEF NothingDangles
<1>7. ValuesKeptButByPatterns'
  BY <1>1, <1>2, <1>3 DEF ValuesKeptButByPatterns, StandsFor, Original, Proved
<1>8. CandidatesOK'
  BY <1>1, <1>3, SameProposals DEF CandidatesOK, findVars
<1>9. MadeOK' /\ FunctionsOK'
  BY <1>1, <1>2, <1>3 DEF MadeOK, FunctionsOK, Proved
<1> QED
  BY <1>5, <1>6, <1>7, <1>8, <1>9 DEF IInv

\* Every step keeps the invariant: extraction, the search, the replacement, the erasing.
LEMMA StepIInv == IInv /\ [Next]_vars => IInv'
<1> SUFFICES ASSUME IInv, [Next]_vars PROVE IInv'
  OBVIOUS
<1>1. CASE extractCandidates
  BY <1>1, ExtractIInv
<1>2. CASE Visit
  BY <1>2, VisitIInv
<1>3. CASE Judge
  BY <1>3, JudgeIInv
<1>4. CASE Apply
  BY <1>4, EndIInv, ReplaceIInv, EraseIInv DEF Apply
<1>5. CASE EndFind \/ EndFunction \/ UNCHANGED vars
  BY <1>5, EndIInv
<1> QED
  BY <1>1, <1>2, <1>3, <1>4, <1>5 DEF Next

\* What is known of the functions, the candidates and the replacements holds whatever
\* is proposed, verified and put in, and in whatever order.
THEOREM Invariance == Spec => []IInv
BY InitIInv, StepIInv, PTL DEF Spec

\* What the function has are its instructions but those erased, and the replacements
\* put in: createLLVMReplacement and the erasing loop keep the books.
THEOREM TypeCorrect == Spec => []TypeOK
<1>1. IInv => TypeOK
  BY DEF IInv
<1> QED
  BY Invariance, <1>1, PTL

\* No instruction that is left uses one that was erased: it is enough that a candidate
\* whose tree or variables were erased is skipped, and that what has users stays.
THEOREM NothingDanglesEver == Spec => []NothingDangles
<1>1. IInv => NothingDangles
  BY DEF IInv
<1> QED
  BY Invariance, <1>1, PTL

\* Every use that is left is of what it was of before, or of what has replaced it.  With
\* proofs, and without --accept-unknown, what has replaced it is equivalent unless it is
\* one of tryMBAPatterns, which Verify has not proved: neither the cache nor another
\* replacement lets one in.
THEOREM OnlyPatternsAreTrusted == Spec => []ValuesKeptButByPatterns
<1>1. IInv => ValuesKeptButByPatterns
  BY DEF IInv
<1> QED
  BY Invariance, <1>1, PTL

----------------------------------------------------------------------------
\* A set of places in a function has a last one: the sets of places after it are
\* finite, and well-founded by inclusion.
LEMMA LastPlace ==
  ASSUME NEW n \in Nat, NEW T \in SUBSET (1 .. n), T # {}
  PROVE  \E i \in T : \A j \in T : j <= i
<1> DEFINE F == {i .. n : i \in T}
<1>1. F \subseteq FiniteSubsetsOf(Nat)
  <2>1. \A i \in T : IsFiniteSet(i .. n) /\ i .. n \in SUBSET Nat
    BY FS_Interval
  <2> QED
    BY <2>1 DEF FiniteSubsetsOf
<1>2. PICK x \in F : \A y \in F : ~ (<<y, x>> \in StrictSubsetOrdering(Nat))
  <2>1. F # {}
    OBVIOUS
  <2> HIDE DEF F
  <2> QED
    BY <1>1, <2>1, FS_StrictSubsetOrderingWellFounded, WFMin
<1>3. PICK i \in T : x = i .. n
  BY <1>2
<1>4. ASSUME NEW j \in T, j > i
      PROVE  FALSE
  <2>1. i \in 1 .. n /\ j \in 1 .. n
    OBVIOUS
  <2>2. j .. n \subseteq i .. n /\ j .. n \in SUBSET Nat /\ i .. n \in SUBSET Nat
    BY <1>4, <2>1
  <2>3. i \in i .. n /\ i \notin j .. n
    BY <1>4, <2>1
  <2>4. <<j .. n, i .. n>> \in StrictSubsetOrdering(Nat)
    BY <2>2, <2>3 DEF StrictSubsetOrdering
  <2>5. j .. n \in F
    OBVIOUS
  <2> QED
    BY <1>2, <1>3, <2>4, <2>5
<1> QED
  BY <1>4

----------------------------------------------------------------------------
\* Trees.

\* A set closed under a monotone rule exists that the rule gives back: it is what
\* a walk over a tree computes.
LEMMA FixedSet ==
  ASSUME NEW I, NEW rule \in [SUBSET I -> SUBSET I],
         \A A, B \in SUBSET I : A \subseteq B => rule[A] \subseteq rule[B]
  PROVE  \E S \in SUBSET I : rule[S] = S
<1> DEFINE Closed == {S \in SUBSET I : rule[S] \subseteq S}
           Least == {i \in I : \A S \in Closed : i \in S}
<1>1. \A S \in Closed : Least \subseteq S
  OBVIOUS
<1>2. Least \in SUBSET I /\ rule[Least] \in SUBSET I
  OBVIOUS
<1>3. rule[Least] \subseteq Least
  <2>1. ASSUME NEW S \in Closed PROVE rule[Least] \subseteq S
    <3>1. rule[Least] \subseteq rule[S]
      BY <1>1, <1>2
    <3> QED
      BY <3>1
  <2> QED
    BY <1>2, <2>1
<1>4. rule[Least] \in Closed
  <2>1. rule[rule[Least]] \subseteq rule[Least]
    BY <1>2, <1>3
  <2> QED
    BY <1>2, <2>1
<1>5. Least \subseteq rule[Least]
  BY <1>1, <1>4
<1> QED
  BY <1>2, <1>3, <1>5

\* getAST: beside the root, a tree has the inlined operands of its instructions.
LEMMA TreeEquation ==
  ASSUME NEW g, WellFormed(g), NEW root
  PROVE  \A i \in Instructions(g) :
           i \in TreeOf(g, root) <=>
             \/ i = root
             \/ i \in Inlined(g) /\ \E u \in Users(i, g.ops) : u \in TreeOf(g, root)
<1> DEFINE I == Instructions(g)
           rule == [S \in SUBSET I |->
                      {i \in I : i = root \/ (i \in Inlined(g) /\ \E u \in Users(i, g.ops) : u \in S)}]
           Body(h) == [i \in I |-> i = root \/ (i \in Inlined(g) /\ \E u \in Users(i, g.ops) : h[u])]
           inTree == CHOOSE h : h = Body(h)
<1>1. \A i \in I : Users(i, g.ops) \subseteq I
  BY DEF Users, WellFormed, Instructions
<1>2. PICK S \in SUBSET I : rule[S] = S
  <2>1. rule \in [SUBSET I -> SUBSET I]
    OBVIOUS
  <2>2. \A A, B \in SUBSET I : A \subseteq B => rule[A] \subseteq rule[B]
    OBVIOUS
  <2> HIDE DEF rule, I
  <2> QED
    BY <2>1, <2>2, FixedSet
<1>3. \A i \in I : i \in S <=> i = root \/ (i \in Inlined(g) /\ \E u \in Users(i, g.ops) : u \in S)
  BY <1>2
<1>4. \E h : h = Body(h)
  <2> DEFINE h == [i \in I |->
                     i = root \/ (i \in Inlined(g) /\ \E u \in Users(i, g.ops) : u \in S)]
  <2>1. \A u \in I : h[u] <=> u \in S
    BY <1>3
  <2> HIDE DEF I
  <2>2. ASSUME NEW i \in I
        PROVE  (\E u \in Users(i, g.ops) : u \in S) <=> (\E u \in Users(i, g.ops) : h[u])
    <3> HIDE DEF h
    <3> QED
      BY <1>1, <2>1
  <2>3. h = Body(h)
    BY <2>2
  <2> QED
    BY <2>3
<1>5. inTree = Body(inTree)
  <2> HIDE DEF Body
  <2> QED
    BY <1>4
<1>6. \A i \in I :
        inTree[i] <=> i = root \/ (i \in Inlined(g) /\ \E u \in Users(i, g.ops) : inTree[u])
  <2> HIDE DEF inTree, I
  <2> QED
    BY <1>5
<1>7. TreeOf(g, root) = {i \in I : inTree[i]}
  BY DEF TreeOf
<1> HIDE DEF inTree, I
<1>8. \A i \in I : i \in TreeOf(g, root) <=> inTree[i]
  BY <1>7
<1> QED
  BY <1>1, <1>6, <1>8 DEF I

\* findReplacements: what a replacement removes beside the root are the nodes of the
\* tree with users, all of which it removes.
LEMMA OwnedEquation ==
  ASSUME NEW g, WellFormed(g), NEW root, NEW tree, root \in tree, tree \subseteq Instructions(g)
  PROVE  \A i \in Instructions(g) :
           i \in OwnedBy(g, root, tree) <=>
             \/ i = root
             \/ /\ i \in tree /\ Users(i, g.ops) # {}
                /\ \A u \in Users(i, g.ops) : u \in OwnedBy(g, root, tree)
<1> DEFINE I == Instructions(g)
           Then(i, S) == i \in tree /\ Users(i, g.ops) # {} /\ \A u \in Users(i, g.ops) : u \in S
           rule == [S \in SUBSET I |-> {i \in I : i = root \/ Then(i, S)}]
           Body(h) == [i \in I |->
                         \/ i = root
                         \/ i \in tree /\ Users(i, g.ops) # {} /\ \A u \in Users(i, g.ops) : h[u]]
           owned == CHOOSE h : h = Body(h)
<1>1. \A i \in I : Users(i, g.ops) \subseteq I
  BY DEF Users, WellFormed, Instructions
<1>2. PICK S \in SUBSET I : rule[S] = S
  <2>1. rule \in [SUBSET I -> SUBSET I]
    OBVIOUS
  <2>2. \A A, B \in SUBSET I : A \subseteq B => rule[A] \subseteq rule[B]
    OBVIOUS
  <2> HIDE DEF rule, I
  <2> QED
    BY <2>1, <2>2, FixedSet
<1>3. \A i \in I : i \in S <=> i = root \/ Then(i, S)
  BY <1>2
<1>4. \E h : h = Body(h)
  <2> DEFINE h == [i \in I |->
                     \/ i = root
                     \/ i \in tree /\ Users(i, g.ops) # {} /\ \A u \in Users(i, g.ops) : u \in S]
  <2>1. \A u \in I : h[u] <=> u \in S
    BY <1>3
  <2> HIDE DEF I
  <2>2. ASSUME NEW i \in I
        PROVE  (\A u \in Users(i, g.ops) : u \in S) <=> (\A u \in Users(i, g.ops) : h[u])
    <3> HIDE DEF h
    <3> QED
      BY <1>1, <2>1
  <2>3. h = Body(h)
    BY <2>2
  <2> QED
    BY <2>3
<1>5. owned = Body(owned)
  <2> HIDE DEF Body
  <2> QED
    BY <1>4
<1>6. \A i \in I :
        owned[i] <=> \/ i = root
                     \/ i \in tree /\ Users(i, g.ops) # {} /\ \A u \in Users(i, g.ops) : owned[u]
  <2> HIDE DEF owned, I
  <2> QED
    BY <1>5
<1>7. OwnedBy(g, root, tree) = {i \in tree : owned[i]}
  BY DEF OwnedBy
<1> HIDE DEF owned, I
<1>8. \A i \in I : i \in OwnedBy(g, root, tree) <=> owned[i]
  BY <1>6, <1>7
<1> QED
  BY <1>1, <1>6, <1>8 DEF I

\* A user comes after what it uses.
LEMMA UsersAreLater ==
  ASSUME NEW g, WellFormed(g), NEW i \in Instructions(g), NEW u \in Users(i, g.ops)
  PROVE  u \in Instructions(g) /\ u > i /\ i \in Range(g.ops[u])
<1>1. u \in DOMAIN g.ops /\ i \in Range(g.ops[u]) /\ Instructions(g) = DOMAIN g.ops
  BY DEF Users, WellFormed, Instructions
<1>2. PICK k \in DOMAIN g.ops[u] : i = g.ops[u][k]
  BY <1>1 DEF Range
<1> QED
  BY <1>1, <1>2 DEF WellFormed

\* A tree is its root and inlined instructions before it.
LEMMA TreeBelowRoot ==
  ASSUME NEW g, WellFormed(g), NEW root \in Instructions(g)
  PROVE  /\ root \in TreeOf(g, root)
         /\ \A i \in TreeOf(g, root) \ {root} : i \in Inlined(g) /\ i < root
<1>1. Instructions(g) = 1 .. Len(g.kind) /\ Len(g.kind) \in Nat
  BY DEF WellFormed, Instructions
<1>2. root \in TreeOf(g, root) /\ TreeOf(g, root) \subseteq Instructions(g)
  BY TreeEquation, TreeIsOfFunction
<1> DEFINE n == Len(g.kind)
           T == TreeOf(g, root)
<1>3. PICK last \in T : \A j \in T : j <= last
  <2>1. n \in Nat /\ T \in SUBSET (1 .. n) /\ T # {}
    BY <1>1, <1>2
  <2> HIDE DEF n, T
  <2> QED
    BY <2>1, LastPlace
<1>4. last = root
  <2> SUFFICES ASSUME last # root PROVE FALSE
    OBVIOUS
  <2>1. PICK u \in Users(last, g.ops) : u \in T
    BY <1>2, TreeEquation
  <2>2. u > last /\ u \in 1 .. n /\ last \in 1 .. n
    BY <1>1, <1>2, UsersAreLater
  <2> QED
    BY <1>3, <2>1, <2>2
<1>5. \A i \in T \ {root} : i \in Inlined(g) /\ i < root
  <2> SUFFICES ASSUME NEW i \in T \ {root} PROVE i \in Inlined(g) /\ i < root
    OBVIOUS
  <2>1. i \in Inlined(g)
    BY <1>2, TreeEquation
  <2> QED
    BY <1>1, <1>2, <1>3, <1>4, <2>1
<1> QED
  BY <1>2, <1>5

\* What is inlined and used in a tree is of that tree.
LEMMA TreeIsClosed ==
  ASSUME NEW g, WellFormed(g), NEW root, NEW u \in TreeOf(g, root),
         NEW i \in Inlined(g), u \in Users(i, g.ops)
  PROVE  i \in TreeOf(g, root)
BY TreeEquation DEF Inlined

----------------------------------------------------------------------------
(***************************************************************************)
(* What was marked is gone in the end.  A mark is redeemed by the          *)
(* candidate that made it, and when that is skipped, because another one   *)
(* has erased a part of its tree, by the loop of the other one, which does *)
(* not end before everything that has lost its users is erased.            *)
(***************************************************************************)
Searching == {"visit", "verify", "valid", "invalid", "walk"}

\* A whole candidate is a root whose tree has nothing that is marked.
SearchOK ==
  /\ waiting \subseteq Roots(f)
  /\ pc \in {"verify", "valid", "invalid"} =>
       cand.whole /\ cand.root \in Roots(f) /\ Tree(cand.root) \cap ReplacedInstructions = {}
  /\ pc \in Searching =>
       /\ DOMAIN made = {}
       /\ \A k \in DOMAIN Candidates : Candidates[k].root \in ReplacedInstructions

\* No tree of a whole candidate has a root that is replaced before.
Apart ==
  /\ \A k \in DOMAIN Candidates : Candidates[k].whole =>
       /\ Candidates[k].root \in Roots(f)
       /\ \A j \in 1 .. k - 1 : Candidates[j].root \notin Tree(Candidates[k].root)
  /\ \A k \in DOMAIN SubASTCandidates : ~ SubASTCandidates[k].whole
  /\ \A i \in DOMAIN made : \A k \in DOMAIN Candidates :
       Candidates[k].whole => i - Len(f.kind) \notin Tree(Candidates[k].root)

\* An instruction has its operands, or the replacements of those; a replacement
\* reads nothing that is inlined.
OperandsOK ==
  /\ \A i \in Instructions(f) \cap DOMAIN operands :
       /\ DOMAIN operands[i] = DOMAIN f.ops[i]
       /\ \A k \in DOMAIN operands[i] :
            \/ operands[i][k] = f.ops[i][k]
            \/ f.ops[i][k] \in Instructions(f) /\ operands[i][k] = Replacing(f.ops[i][k])
  /\ \A i \in DOMAIN operands \ Instructions(f) : \A k \in DOMAIN operands[i] :
       operands[i][k] \notin Inlined(f)

RootUnused == pc = "erase" => cand.root \in Instructions(f) /\ Users(cand.root, operands) = {}

\* Whatever has lost its users is erased, as soon as the loop at work has ended.
LostIsErased(i) == Users(i, f.ops) \cap ErasedAll # {} => Users(i, operands) # {}
Swept ==
  \A i \in Inlined(f) \cap DOMAIN operands :
    LostIsErased(i) \/ (pc = "erase" /\ i \in Tree(cand.root))

\* A mark is redeemed, or will be by the candidate that made it.
Marked ==
  \A i \in ReplacedInstructions :
    \/ i \notin DOMAIN operands
    \/ \E root \in Roots(f) : i \in Owned(root) /\ Variables(root) \cap ErasedAll # {}
    \/ \E k \in DOMAIN Candidates : Candidates[k].whole /\ i \in Owned(Candidates[k].root)
    \/ pc = "erase" /\ i \in Owned(cand.root)

Gone == SearchOK /\ Apart /\ OperandsOK /\ RootUnused /\ Swept /\ Marked

\* At first, nothing is marked.
LEMMA InitGone == Init => Gone
<1> SUFFICES ASSUME Init PROVE Gone
  OBVIOUS
<1>1. /\ f.kind = <<>> /\ f.ops = <<>> /\ operands = <<>> /\ made = <<>> /\ ErasedAll = {}
      /\ waiting = {} /\ ReplacedInstructions = {} /\ Candidates = <<>>
      /\ SubASTCandidates = <<>> /\ pc = "extract"
  BY DEF Init
<1>2. /\ DOMAIN operands = {} /\ DOMAIN made = {} /\ DOMAIN Candidates = {}
      /\ DOMAIN SubASTCandidates = {}
  BY <1>1
<1>3. SearchOK /\ Apart /\ OperandsOK
  BY <1>1, <1>2 DEF SearchOK, Apart, OperandsOK, Searching
<1>4. RootUnused /\ Swept /\ Marked
  BY <1>1, <1>2 DEF RootUnused, Swept, Marked
<1> QED
  BY <1>3, <1>4 DEF Gone

\* A function begins with nothing marked and nothing erased.
LEMMA ExtractGone ==
  ASSUME IInv, extractCandidates
  PROVE  Gone'
<1>1. /\ f' = Head(functions) /\ operands' = f'.ops
      /\ made' = <<>> /\ ErasedAll' = {} /\ waiting' = Roots(f') /\ ReplacedInstructions' = {}
      /\ Candidates' = <<>> /\ SubASTCandidates' = <<>> /\ pc' = "visit"
  BY DEF extractCandidates
<1>2. /\ DOMAIN made' = {} /\ DOMAIN Candidates' = {} /\ DOMAIN SubASTCandidates' = {}
  BY <1>1
<1>3. DOMAIN operands' = Instructions(f')
  <2>1. TypeOK'
    BY ExtractIInv DEF IInv
  <2> QED
    BY <1>1, <2>1 DEF TypeOK, WellFormed, Instructions
<1>4. SearchOK' /\ Apart' /\ RootUnused' /\ Marked'
  BY <1>1, <1>2 DEF SearchOK, Apart, RootUnused, Marked, Searching
<1>5. OperandsOK'
  BY <1>1, <1>3 DEF OperandsOK
<1>6. Swept'
  BY <1>1 DEF Swept, LostIsErased
<1> QED
  BY <1>4, <1>5, <1>6 DEF Gone

\* Trees and what is owned depend on the function alone.
LEMMA SameTrees ==
  ASSUME f' = f
  PROVE  /\ Roots(f)' = Roots(f) /\ Instructions(f)' = Instructions(f)
         /\ Inlined(f)' = Inlined(f)
         /\ \A root : Tree(root)' = Tree(root) /\ Owned(root)' = Owned(root)
                      /\ Variables(root)' = Variables(root)
BY DEF Roots, Instructions, Inlined, Supported, Tree, Owned, Variables

\* A step of the search, or one between two functions, that leaves the lists alone
\* keeps what is known of them.
LEMMA QuietKeepsGone ==
  ASSUME Gone, UNCHANGED irVars, pc # "erase", pc' # "erase",
         UNCHANGED <<Candidates, SubASTCandidates, ReplacedInstructions>>, SearchOK'
  PROVE  Gone'
<1>1. /\ f' = f /\ operands' = operands /\ made' = made /\ ErasedAll' = ErasedAll
      /\ Candidates' = Candidates /\ SubASTCandidates' = SubASTCandidates
      /\ ReplacedInstructions' = ReplacedInstructions
  BY DEF irVars
<1>2. Apart'
  BY <1>1, SameTrees DEF Gone, Apart
<1>3. OperandsOK'
  BY <1>1, SameTrees DEF Gone, OperandsOK, Replacing
<1>4. RootUnused'
  BY DEF RootUnused
<1>5. Swept'
  BY <1>1, SameTrees DEF Gone, Swept, LostIsErased
<1>6. Marked'
  BY <1>1, SameTrees DEF Gone, Marked
<1> QED
  BY <1>2, <1>3, <1>4, <1>5, <1>6 DEF Gone

\* A root is proposed for only if its tree has nothing that is marked.
LEMMA VisitGone ==
  ASSUME Gone, Visit
  PROVE  Gone'
<1>1. PICK root \in waiting : Skip(root) \/ Simplify(root)
  BY DEF Visit
<1>2. SearchOK
  BY DEF Gone
<1>3. CASE Skip(root)
  <2>1. /\ UNCHANGED irVars /\ UNCHANGED <<Candidates, SubASTCandidates, ReplacedInstructions>>
        /\ waiting' = waiting \ {root} /\ f' = f /\ made' = made /\ pc = "visit" /\ pc' = pc
    BY <1>3 DEF Skip, IsNext, irVars
  <2>2. SearchOK'
    BY <1>2, <2>1, SameTrees DEF SearchOK, Searching
  <2> QED
    BY <2>1, <2>2, QuietKeepsGone
<1>4. CASE Simplify(root)
  <2>1. /\ UNCHANGED irVars /\ UNCHANGED <<Candidates, SubASTCandidates, ReplacedInstructions>>
        /\ waiting' = waiting \ {root} /\ f' = f /\ made' = made /\ pc = "visit"
        /\ pc' = "verify" /\ ~ constainsReplacedInstructions(root)
    BY <1>4 DEF Simplify, IsNext, irVars, Skipped
  <2>2. cand'.whole /\ cand'.root = root
    BY <1>4 DEF Simplify, Candidate
  <2>3. root \in Roots(f) /\ Tree(root) \cap ReplacedInstructions = {}
    BY <1>2, <2>1 DEF SearchOK, constainsReplacedInstructions
  <2>4. SearchOK'
    BY <1>2, <2>1, <2>2, <2>3, SameTrees DEF SearchOK, Searching
  <2> QED
    BY <2>1, <2>4, QuietKeepsGone
<1> QED
  BY <1>1, <1>3, <1>4

\* An accepted candidate marks what it owns, and has none of the roots before it in
\* its tree.
LEMMA AcceptGone ==
  ASSUME IInv, Gone, Accept
  PROVE  Gone'
<1>1. /\ UNCHANGED irVars /\ f' = f /\ operands' = operands /\ made' = made
      /\ ErasedAll' = ErasedAll /\ waiting' = waiting /\ SubASTCandidates' = SubASTCandidates
      /\ pc = "valid" /\ pc' = "visit" /\ Candidates' = Append(Candidates, cand)
      /\ ReplacedInstructions' = ReplacedInstructions \cup Owned(cand.root)
  BY DEF Accept, irVars
<1>2. SearchOK /\ Apart /\ OperandsOK /\ Swept /\ Marked
  BY DEF Gone
<1>3. /\ cand.whole /\ cand.root \in Roots(f) /\ Tree(cand.root) \cap ReplacedInstructions = {}
      /\ DOMAIN made = {}
      /\ \A k \in DOMAIN Candidates : Candidates[k].root \in ReplacedInstructions
  BY <1>1, <1>2 DEF SearchOK, Searching
<1>4. Candidates \in Seq(Verified) /\ WellFormed(f) /\ cand.root \in Instructions(f)
  BY <1>3, RootsAreOfFunction DEF IInv, CandidatesOK, TypeOK
<1> DEFINE n == Len(Candidates)
<1>5. /\ n \in Nat /\ DOMAIN Candidates = 1 .. n /\ DOMAIN Candidates' = 1 .. n + 1
      /\ \A k \in 1 .. n : Candidates'[k] = Candidates[k]
      /\ Candidates'[n + 1] = cand
  BY <1>1, <1>4, AppendProperties
<1> HIDE DEF n
<1>6. cand.root \in Owned(cand.root)
  <2>1. /\ Tree(cand.root) \subseteq Instructions(f) /\ cand.root \in Tree(cand.root)
    BY <1>4, TreeIsOfFunction, TreeBelowRoot DEF Tree
  <2> QED
    BY <1>4, <2>1, OwnedEquation DEF Owned
<1>7. SearchOK'
  <2>1. \A k \in DOMAIN Candidates' : Candidates'[k].root \in ReplacedInstructions'
    BY <1>1, <1>3, <1>5, <1>6
  <2> QED
    BY <1>1, <1>2, <1>3, <2>1, SameTrees DEF SearchOK
<1>8. Apart'
  <2> SUFFICES ASSUME NEW k \in 1 .. n + 1, Candidates'[k].whole
               PROVE  /\ Candidates'[k].root \in Roots(f)
                      /\ \A j \in 1 .. k - 1 : Candidates'[j].root \notin Tree(Candidates'[k].root)
    BY <1>1, <1>2, <1>3, <1>5, SameTrees DEF Apart
  <2>1. CASE k \in 1 .. n
    <3>1. \A j \in 1 .. k - 1 : j \in 1 .. n
      BY <1>5, <2>1
    <3> QED
      BY <1>2, <1>5, <2>1, <3>1 DEF Apart
  <2>2. CASE k = n + 1
    <3>1. \A j \in 1 .. k - 1 : j \in 1 .. n
      BY <1>5, <2>2
    <3> QED
      BY <1>3, <1>5, <2>2, <3>1
  <2> QED
    BY <1>5, <2>1, <2>2
<1>9. OperandsOK'
  BY <1>1, <1>2, SameTrees DEF OperandsOK, Replacing
<1>10. RootUnused' /\ Swept'
  BY <1>1, <1>2, SameTrees DEF RootUnused, Swept, LostIsErased
<1>11. Marked'
  <2> SUFFICES ASSUME NEW i \in ReplacedInstructions', i \in DOMAIN operands
               PROVE  \/ \E root \in Roots(f) : i \in Owned(root) /\ Variables(root) \cap ErasedAll # {}
                      \/ \E k \in 1 .. n + 1 : Candidates'[k].whole /\ i \in Owned(Candidates'[k].root)
    BY <1>1, <1>5, SameTrees DEF Marked
  <2>1. CASE i \in ReplacedInstructions
    <3>1. ASSUME NEW k \in 1 .. n, Candidates[k].whole, i \in Owned(Candidates[k].root)
          PROVE  \E m \in 1 .. n + 1 : Candidates'[m].whole /\ i \in Owned(Candidates'[m].root)
      BY <1>5, <3>1
    <3> QED
      BY <1>1, <1>2, <1>5, <2>1, <3>1 DEF Marked
  <2>2. CASE i \in Owned(cand.root)
    <3>1. n + 1 \in 1 .. n + 1
      BY <1>5
    <3> QED
      BY <1>3, <1>5, <2>2, <3>1
  <2> QED
    BY <1>1, <2>1, <2>2
<1> QED
  BY <1>7, <1>8, <1>9, <1>10, <1>11 DEF Gone

\* Verdicts mark nothing but what is accepted, and a candidate found below another one
\* is not whole.
LEMMA JudgeGone ==
  ASSUME IInv, Gone, Judge
  PROVE  Gone'
<1>1. SearchOK
  BY DEF Gone
<1>2. CASE Verify \/ RefuseShared \/ Reject \/ WalkOn
  <2>1. /\ UNCHANGED irVars /\ UNCHANGED findVars /\ cand' = cand /\ f' = f /\ made' = made
        /\ pc # "erase" /\ pc' # "erase" /\ pc \in Searching
        /\ pc' \in {"verify", "valid", "invalid"} => pc \in {"verify", "valid", "invalid"}
    BY <1>2 DEF Verify, RefuseShared, Reject, WalkOn, irVars, Searching
  <2>2. SearchOK'
    BY <1>1, <2>1, SameTrees DEF SearchOK, findVars
  <2> QED
    BY <2>1, <2>2, QuietKeepsGone DEF findVars
<1>3. CASE TryOther \/ TryMBAPatterns
  <2>1. /\ UNCHANGED irVars /\ UNCHANGED findVars /\ f' = f /\ made' = made
        /\ pc = "invalid" /\ pc' \in {"verify", "valid"}
    BY <1>3 DEF TryOther, TryMBAPatterns, irVars
  <2>2. cand'.root = cand.root /\ cand'.whole = cand.whole
    <3>1. cand \in Proposals
      BY <2>1 DEF IInv, CandidatesOK
    <3>2. \E r \in Replacements : \/ cand' = [cand EXCEPT !.replacement = r]
                                  \/ cand' = [cand EXCEPT !.replacement = r, !.byPattern = TRUE]
      BY <1>3 DEF TryOther, TryMBAPatterns
    <3> QED
      BY <3>1, <3>2 DEF Proposals
  <2>3. SearchOK'
    BY <1>1, <2>1, <2>2, SameTrees DEF SearchOK, findVars, Searching
  <2> QED
    BY <2>1, <2>3, QuietKeepsGone DEF findVars
<1>4. CASE walkSubAST
  <2>1. /\ UNCHANGED irVars /\ f' = f /\ made' = made /\ operands' = operands
        /\ ErasedAll' = ErasedAll /\ Candidates' = Candidates /\ waiting' = waiting
        /\ ReplacedInstructions' = ReplacedInstructions /\ pc = "walk" /\ pc' = "visit"
    BY <1>4 DEF walkSubAST, irVars
  <2>2. \A k \in DOMAIN SubASTCandidates' : ~ SubASTCandidates'[k].whole
    <3>1. \A k \in DOMAIN SubASTCandidates : ~ SubASTCandidates[k].whole
      BY DEF Gone, Apart
    <3>2. CASE UNCHANGED SubASTCandidates
      BY <3>1, <3>2
    <3>3. ASSUME NEW o \in Inlined(f), NEW r \in Replacements,
                 SubASTCandidates' = Append(SubASTCandidates, Candidate(o, r, FALSE))
          PROVE  \A k \in DOMAIN SubASTCandidates' : ~ SubASTCandidates'[k].whole
      <4> DEFINE W == Proposals
                 new == Candidate(o, r, FALSE)
      <4>1. ~ new.whole
        BY DEF Candidate
      <4>2. SubASTCandidates \in Seq(W) /\ new \in W
        <5>1. Verified \subseteq Proposals
          BY DEF Verified
        <5>2. new \in Proposals
          BY CandidateIsProposal DEF Inlined
        <5> DEFINE V == Verified
        <5>3. SubASTCandidates \in Seq(V) /\ V \subseteq W
          BY <5>1 DEF IInv, CandidatesOK
        <5> HIDE DEF V, W
        <5>4. SubASTCandidates \in Seq(W)
          BY <5>3
        <5> QED
          BY <5>2, <5>4 DEF W
      <4>3. SubASTCandidates' = Append(SubASTCandidates, new)
        BY <3>3
      <4> HIDE DEF new, W
      <4>4. \A k \in DOMAIN SubASTCandidates' :
               \/ k \in DOMAIN SubASTCandidates /\ SubASTCandidates'[k] = SubASTCandidates[k]
               \/ SubASTCandidates'[k] = new
        BY <4>2, <4>3
      <4> QED
        BY <3>1, <4>1, <4>4
    <3> QED
      BY <1>4, <3>2, <3>3 DEF walkSubAST
  <2>3. SearchOK'
    BY <1>1, <2>1, SameTrees DEF SearchOK, Searching
  <2>4. Apart'
    BY <2>1, <2>2, SameTrees DEF Gone, Apart
  <2>5. OperandsOK' /\ RootUnused' /\ Swept'
    BY <2>1, SameTrees DEF Gone, OperandsOK, Replacing, RootUnused, Swept, LostIsErased
  <2>6. Marked'
    BY <2>1, SameTrees DEF Gone, Marked
  <2> QED
    BY <2>3, <2>4, <2>5, <2>6 DEF Gone
<1> QED
  BY <1>2, <1>3, <1>4, AcceptGone DEF Judge

\* What uses an inlined instruction now has always done so.
LEMMA UsersAreOriginal ==
  ASSUME TypeOK, OperandsOK, NEW i \in Inlined(f), NEW u \in Users(i, operands)
  PROVE  u \in Instructions(f) /\ u \in DOMAIN operands /\ u \in Users(i, f.ops)
<1>1. PICK k \in DOMAIN operands[u] : operands[u][k] = i /\ u \in DOMAIN operands
  BY DEF Users, Range
<1>2. i \in Instructions(f) /\ Instructions(f) = 1 .. Len(f.kind) /\ Len(f.kind) \in Nat
      /\ Instructions(f) = DOMAIN f.ops
  BY DEF TypeOK, WellFormed, Instructions, Inlined
<1>3. u \in Instructions(f)
  BY <1>1 DEF OperandsOK
<1>4. f.ops[u][k] = i /\ k \in DOMAIN f.ops[u]
  <2>1. k \in DOMAIN f.ops[u]
    BY <1>1, <1>3 DEF OperandsOK
  <2>2. \/ operands[u][k] = f.ops[u][k]
        \/ f.ops[u][k] \in Instructions(f) /\ operands[u][k] = Replacing(f.ops[u][k])
    BY <1>1, <1>3 DEF OperandsOK
  <2>3. \A v \in Instructions(f) : Replacing(v) # i
    BY <1>2 DEF Replacing
  <2> QED
    BY <1>1, <2>1, <2>2, <2>3
<1> QED
  BY <1>1, <1>2, <1>3, <1>4 DEF Users, Range

\* Once the root is erased, and everything that has lost its users, so is what the
\* root owns: the last one of those left would have lost its users.
LEMMA OwnedIsErased ==
  ASSUME TypeOK, OperandsOK, \A i \in Inlined(f) \cap DOMAIN operands : LostIsErased(i),
         NEW root \in Instructions(f), root \notin DOMAIN operands
  PROVE  Owned(root) \cap DOMAIN operands = {}
<1> SUFFICES ASSUME Owned(root) \cap DOMAIN operands # {} PROVE FALSE
  OBVIOUS
<1>1. /\ WellFormed(f) /\ Instructions(f) = 1 .. Len(f.kind) /\ Len(f.kind) \in Nat
      /\ ErasedAll = Instructions(f) \ DOMAIN operands
  BY DEF TypeOK, WellFormed, Instructions
<1>2. /\ Tree(root) \subseteq Instructions(f) /\ root \in Tree(root)
      /\ Owned(root) \subseteq Tree(root)
  BY <1>1, TreeIsOfFunction, TreeBelowRoot, OwnedIsOfTree DEF Tree, Owned
<1> DEFINE T == Owned(root) \cap DOMAIN operands
           n == Len(f.kind)
<1>3. PICK i \in T : \A j \in T : j <= i
  <2>1. n \in Nat /\ T \in SUBSET (1 .. n) /\ T # {}
    BY <1>1, <1>2
  <2> HIDE DEF n, T
  <2> QED
    BY <2>1, LastPlace
<1>4. i \in Instructions(f) /\ i \in Tree(root) /\ i # root /\ i \in DOMAIN operands
  BY <1>1, <1>2, <1>3
<1>5. Users(i, f.ops) # {} /\ \A u \in Users(i, f.ops) : u \in Owned(root)
  BY <1>1, <1>2, <1>3, <1>4, OwnedEquation DEF Owned
<1>6. \A u \in Users(i, f.ops) : u \in ErasedAll
  <2> SUFFICES ASSUME NEW u \in Users(i, f.ops) PROVE u \in ErasedAll
    OBVIOUS
  <2>1. u \in Instructions(f) /\ u > i
    BY <1>1, <1>4, UsersAreLater
  <2>2. u \notin T
    BY <1>1, <1>3, <1>4, <2>1
  <2> QED
    BY <1>1, <1>5, <2>1, <2>2
<1>7. i \in Inlined(f)
  BY <1>1, <1>4, TreeBelowRoot DEF Tree
<1>8. PICK u \in Users(i, operands) : TRUE
  BY <1>4, <1>5, <1>6, <1>7 DEF LostIsErased
<1>9. u \in DOMAIN operands /\ u \in Users(i, f.ops)
  BY <1>7, UsersAreOriginal
<1> QED
  BY <1>1, <1>6, <1>9

\* A tree loses its root before any other part of it, unless that part was replaced
\* on its own.
LEMMA RootIsErased ==
  ASSUME TypeOK, NothingDangles, OperandsOK, NEW root \in Instructions(f),
         Tree(root) \cap ErasedAll # {},
         \A i \in DOMAIN made : i - Len(f.kind) \notin Tree(root)
  PROVE  root \notin DOMAIN operands
<1>1. /\ WellFormed(f) /\ Instructions(f) = 1 .. Len(f.kind) /\ Len(f.kind) \in Nat
      /\ ErasedAll = Instructions(f) \ DOMAIN operands
      /\ DOMAIN made = DOMAIN operands \ Instructions(f)
      /\ Instructions(f) = DOMAIN f.ops
  BY DEF TypeOK, WellFormed, Instructions
<1>2. Tree(root) \subseteq Instructions(f)
  BY TreeIsOfFunction DEF Tree
<1> DEFINE T == Tree(root) \cap ErasedAll
           n == Len(f.kind)
<1>3. PICK i \in T : \A j \in T : j <= i
  <2>1. n \in Nat /\ T \in SUBSET (1 .. n) /\ T # {}
    BY <1>1, <1>2
  <2> HIDE DEF n, T
  <2> QED
    BY <2>1, LastPlace
<1>4. i \in Tree(root) /\ i \in Instructions(f) /\ i \notin DOMAIN operands
  BY <1>1, <1>3
<1>5. CASE i # root
  <2>1. PICK u \in Users(i, f.ops) : u \in Tree(root)
    BY <1>1, <1>4, <1>5, TreeEquation DEF Tree
  <2>2. u \in Instructions(f) /\ u > i
    BY <1>1, <1>4, UsersAreLater
  <2>3. u \in DOMAIN operands
    BY <1>1, <1>2, <1>3, <1>4, <2>1, <2>2
  <2>4. PICK k \in DOMAIN f.ops[u] : f.ops[u][k] = i
    BY DEF Users, Range
  <2>5. k \in DOMAIN operands[u] /\ (operands[u][k] = i \/ operands[u][k] = Replacing(i))
    BY <2>2, <2>3, <2>4 DEF OperandsOK
  <2>6. operands[u][k] \in DOMAIN operands
    <3>1. i > 0 /\ Replacing(i) > 0
      BY <1>1, <1>4 DEF Replacing
    <3> QED
      BY <2>3, <2>5, <3>1 DEF NothingDangles
  <2>7. Replacing(i) \in DOMAIN made
    <3>1. Replacing(i) \notin Instructions(f)
      BY <1>1, <1>4 DEF Replacing
    <3> QED
      BY <1>1, <1>4, <2>5, <2>6, <3>1
  <2>8. Replacing(i) - Len(f.kind) = i
    BY <1>1, <1>4 DEF Replacing
  <2> QED
    BY <1>4, <2>7, <2>8
<1> QED
  BY <1>4, <1>5

\* The candidates that are left once the first one was handled.
LEMMA TailOfCandidates ==
  ASSUME CandidatesOK, Candidates # <<>>
  PROVE  /\ Len(Candidates) \in Nat \ {0} /\ DOMAIN Candidates = 1 .. Len(Candidates)
         /\ Head(Candidates) = Candidates[1] /\ Head(Candidates) \in Proposals
         /\ DOMAIN Tail(Candidates) = 1 .. Len(Candidates) - 1
         /\ \A k \in 1 .. Len(Candidates) - 1 : Tail(Candidates)[k] = Candidates[k + 1]
<1> DEFINE W == Verified
           s == Candidates
<1>1. s \in Seq(W) /\ s # <<>>
  BY DEF CandidatesOK
<1>2. W \subseteq Proposals
  BY DEF Verified
<1> HIDE DEF W, s
<1>3. /\ Len(s) \in Nat \ {0} /\ DOMAIN s = 1 .. Len(s) /\ Head(s) = s[1] /\ Head(s) \in W
      /\ DOMAIN Tail(s) = 1 .. Len(s) - 1
      /\ \A k \in 1 .. Len(s) - 1 : Tail(s)[k] = s[k + 1]
  BY <1>1
<1> QED
  BY <1>2, <1>3 DEF s

\* Once the first candidate is handled, put in or not, the others are as they were.
LEMMA TailApart ==
  ASSUME Apart, CandidatesOK, Candidates # <<>>, Candidates' = Tail(Candidates), f' = f,
         SubASTCandidates' = SubASTCandidates, Len(f.kind) \in Nat,
         Head(Candidates).root \in Int,
         \A i \in DOMAIN made' : i \in DOMAIN made \/ i = Replacing(Head(Candidates).root)
  PROVE  Apart'
<1> DEFINE n == Len(Candidates)
<1>1. /\ n \in Nat \ {0} /\ DOMAIN Candidates = 1 .. n
      /\ Head(Candidates) = Candidates[1] /\ DOMAIN Candidates' = 1 .. n - 1
      /\ \A k \in 1 .. n - 1 : Candidates'[k] = Candidates[k + 1]
  BY TailOfCandidates
<1> HIDE DEF n
<1>2. ASSUME NEW k \in 1 .. n - 1, Candidates'[k].whole
      PROVE  /\ Candidates'[k].root \in Roots(f)
             /\ \A j \in 1 .. k - 1 : Candidates'[j].root \notin Tree(Candidates'[k].root)
             /\ \A i \in DOMAIN made' : i - Len(f.kind) \notin Tree(Candidates'[k].root)
  <2>1. k + 1 \in 1 .. n /\ Candidates'[k] = Candidates[k + 1] /\ Candidates[k + 1].whole
    BY <1>1, <1>2
  <2>2. /\ Candidates'[k].root \in Roots(f)
        /\ \A j \in 1 .. k : Candidates[j].root \notin Tree(Candidates[k + 1].root)
        /\ \A i \in DOMAIN made : i - Len(f.kind) \notin Tree(Candidates[k + 1].root)
    BY <1>1, <2>1 DEF Apart
  <2>3. \A j \in 1 .. k - 1 : j + 1 \in 1 .. k /\ Candidates'[j] = Candidates[j + 1]
    BY <1>1, <2>1
  <2>4. Candidates[1].root \notin Tree(Candidates[k + 1].root)
    BY <2>1, <2>2
  <2>5. Replacing(Head(Candidates).root) - Len(f.kind) = Candidates[1].root
    BY <1>1 DEF Replacing
  <2> QED
    BY <2>1, <2>2, <2>3, <2>4, <2>5
<1> QED
  BY <1>1, <1>2, SameTrees DEF Apart

\* A candidate that is skipped has a variable that was erased, or nothing is left of
\* what it owns.
LEMMA SkipErasedGone ==
  ASSUME IInv, Gone, SkipErased
  PROVE  Gone'
<1> DEFINE n == Len(Candidates)
<1>1. /\ UNCHANGED irVars /\ f' = f /\ operands' = operands /\ made' = made
      /\ ErasedAll' = ErasedAll /\ waiting' = waiting /\ SubASTCandidates' = SubASTCandidates
      /\ pc = "apply" /\ pc' = pc /\ Candidates # <<>> /\ Candidates' = Tail(Candidates)
      /\ ReplacedInstructions' = ReplacedInstructions /\ refersToErased(Head(Candidates))
  BY DEF SkipErased, irVars
<1>2. /\ TypeOK /\ NothingDangles /\ CandidatesOK
      /\ SearchOK /\ Apart /\ OperandsOK /\ Swept /\ Marked
  BY DEF IInv, Gone
<1>3. /\ n \in Nat \ {0} /\ DOMAIN Candidates = 1 .. n
      /\ Head(Candidates) = Candidates[1] /\ DOMAIN Candidates' = 1 .. n - 1
      /\ \A k \in 1 .. n - 1 : Candidates'[k] = Candidates[k + 1]
      /\ Head(Candidates).root \in Instructions(f)
  BY <1>1, <1>2, TailOfCandidates DEF Proposals
<1> HIDE DEF n
<1>4. Apart'
  <2>1. Len(f.kind) \in Nat /\ Head(Candidates).root \in Int
    BY <1>2, <1>3 DEF TypeOK, WellFormed, Instructions
  <2> QED
    BY <1>1, <1>2, <2>1, TailApart
<1>5. SearchOK'
  BY <1>1, <1>2, SameTrees DEF SearchOK, Searching
<1>6. OperandsOK' /\ RootUnused' /\ Swept'
  BY <1>1, <1>2, SameTrees DEF OperandsOK, Replacing, RootUnused, Swept, LostIsErased
<1>7. ASSUME NEW i \in ReplacedInstructions, i \in DOMAIN operands,
             Candidates[1].whole, i \in Owned(Candidates[1].root)
      PROVE  \E root \in Roots(f) : i \in Owned(root) /\ Variables(root) \cap ErasedAll # {}
  <2> DEFINE root == Candidates[1].root
  <2>1. root \in Roots(f) /\ root \in Instructions(f)
        /\ \A m \in DOMAIN made : m - Len(f.kind) \notin Tree(root)
    BY <1>2, <1>3, <1>7 DEF Apart
  <2>2. CASE Tree(root) \cap ErasedAll # {}
    <3>1. root \notin DOMAIN operands
      <4> HIDE DEF root
      <4> QED
        BY <1>2, <2>1, <2>2, RootIsErased
    <3>2. \A j \in Inlined(f) \cap DOMAIN operands : LostIsErased(j)
      BY <1>1, <1>2 DEF Swept
    <3>3. Owned(root) \cap DOMAIN operands = {}
      <4> HIDE DEF root
      <4> QED
        BY <1>2, <2>1, <3>1, <3>2, OwnedIsErased
    <3> QED
      BY <1>7, <3>3
  <2>3. CASE Tree(root) \cap ErasedAll = {}
    <3>1. Variables(root) \cap ErasedAll # {}
      BY <1>1, <1>3, <2>3 DEF refersToErased
    <3> QED
      BY <1>7, <2>1, <3>1
  <2> QED
    BY <2>2, <2>3
<1>8. Marked'
  <2>1. ASSUME NEW i \in ReplacedInstructions, NEW k \in 1 .. n, k # 1,
               Candidates[k].whole, i \in Owned(Candidates[k].root)
        PROVE  \E m \in 1 .. n - 1 : Candidates'[m].whole /\ i \in Owned(Candidates'[m].root)
    <3>1. k - 1 \in 1 .. n - 1 /\ Candidates'[k - 1] = Candidates[k]
      BY <1>3, <2>1
    <3> QED
      BY <2>1, <3>1
  <2>2. \A i \in ReplacedInstructions :
          \/ i \notin DOMAIN operands
          \/ \E root \in Roots(f) : i \in Owned(root) /\ Variables(root) \cap ErasedAll # {}
          \/ \E m \in 1 .. n - 1 : Candidates'[m].whole /\ i \in Owned(Candidates'[m].root)
    BY <1>1, <1>2, <1>3, <1>7, <2>1 DEF Marked
  <2>3. /\ \A root : Owned(root)' = Owned(root) /\ Variables(root)' = Variables(root)
        /\ Roots(f)' = Roots(f)
    BY <1>1, SameTrees
  <2> QED
    BY <1>1, <1>3, <2>2, <2>3 DEF Marked
<1> QED
  BY <1>4, <1>5, <1>6, <1>8 DEF Gone

\* When nothing is left that the loop may erase, nothing is left that has lost its
\* users, or that the root owns.
LEMMA AllOwnedIsErased ==
  ASSUME IInv, Gone, ErasedEnough
  PROVE  /\ \A i \in Inlined(f) \cap DOMAIN operands : LostIsErased(i)
         /\ Owned(cand.root) \cap DOMAIN operands = {}
<1>1. pc = "erase" /\ Erasable = {}
  BY DEF ErasedEnough
<1>2. /\ TypeOK /\ OperandsOK /\ RootUnused /\ Swept
  BY DEF IInv, Gone
<1>3. \A i \in Inlined(f) \cap DOMAIN operands : LostIsErased(i)
  <2> SUFFICES ASSUME NEW i \in Inlined(f) \cap DOMAIN operands, i \in Tree(cand.root)
               PROVE  Users(i, operands) # {}
    BY <1>2 DEF Swept, LostIsErased
  <2> QED
    BY <1>1 DEF Erasable
<1>4. Owned(cand.root) \cap DOMAIN operands = {}
  <2>1. cand.root \in Instructions(f) /\ Users(cand.root, operands) = {}
    BY <1>1, <1>2 DEF RootUnused
  <2>2. cand.root \in Tree(cand.root)
    BY <1>2, <2>1, TreeBelowRoot DEF Tree, TypeOK
  <2>3. cand.root \notin DOMAIN operands
    BY <1>1, <2>1, <2>2 DEF Erasable
  <2> QED
    BY <1>2, <1>3, <2>1, <2>3, OwnedIsErased
<1> QED
  BY <1>3, <1>4

\* The loop over the tree ends when nothing is left that it may erase: the root has
\* gone, and with it all that it owns.
LEMMA ErasedEnoughGone ==
  ASSUME IInv, Gone, ErasedEnough
  PROVE  Gone'
<1>1. /\ UNCHANGED irVars /\ f' = f /\ operands' = operands /\ made' = made
      /\ ErasedAll' = ErasedAll /\ waiting' = waiting /\ SubASTCandidates' = SubASTCandidates
      /\ pc = "erase" /\ pc' = "apply" /\ Candidates' = Candidates /\ Erasable = {}
      /\ ReplacedInstructions' = ReplacedInstructions
  BY DEF ErasedEnough, irVars, findVars
<1>2. /\ TypeOK /\ SearchOK /\ Apart /\ OperandsOK /\ RootUnused /\ Swept /\ Marked
  BY DEF IInv, Gone
<1>3. \A i \in Inlined(f) \cap DOMAIN operands : LostIsErased(i)
  BY AllOwnedIsErased
<1>4. Owned(cand.root) \cap DOMAIN operands = {}
  BY AllOwnedIsErased
<1>5. SearchOK' /\ Apart' /\ RootUnused'
  BY <1>1, <1>2, SameTrees DEF SearchOK, Apart, RootUnused, Searching
<1>6. OperandsOK' /\ Swept'
  BY <1>1, <1>2, <1>3, SameTrees DEF OperandsOK, Replacing, Swept, LostIsErased
<1>7. Marked'
  BY <1>1, <1>2, <1>4, SameTrees DEF Marked
<1> QED
  BY <1>5, <1>6, <1>7 DEF Gone

\* Erasing one instruction may leave others without users: its operands, which are of
\* the tree the loop goes over.
LEMMA EraseGone ==
  ASSUME IInv, Gone, NEW e \in Instructions(f), Erase(e)
  PROVE  Gone'
<1>1. /\ pc = "erase" /\ pc' = pc /\ cand' = cand /\ f' = f /\ made' = made /\ waiting' = waiting
      /\ Candidates' = Candidates /\ SubASTCandidates' = SubASTCandidates
      /\ ReplacedInstructions' = ReplacedInstructions
      /\ e \in Tree(cand.root) /\ ErasedAll' = ErasedAll \cup {e}
  BY DEF Erase, Erasable, findVars
<1>2. operands' = [i \in DOMAIN operands \ {e} |-> operands[i]]
  BY DEF Erase, Restrict
<1>3. /\ TypeOK /\ SearchOK /\ Apart /\ OperandsOK /\ RootUnused /\ Swept /\ Marked
  BY DEF IInv, Gone
<1>4. SearchOK' /\ Apart'
  BY <1>1, <1>3, SameTrees DEF SearchOK, Apart, Searching
<1>5. OperandsOK'
  BY <1>1, <1>2, <1>3, SameTrees DEF OperandsOK, Replacing
<1>6. \A i : Users(i, operands') = Users(i, operands) \ {e}
  BY <1>2 DEF Users
<1>7. RootUnused'
  BY <1>1, <1>3, <1>6, SameTrees DEF RootUnused, Users
<1>8. Swept'
  <2> SUFFICES ASSUME NEW i \in Inlined(f), i \in DOMAIN operands, i # e, i \notin Tree(cand.root),
                      Users(i, f.ops) \cap (ErasedAll \cup {e}) # {}
               PROVE  Users(i, operands) \ {e} # {}
    <3>1. DOMAIN operands' = DOMAIN operands \ {e}
      BY <1>2
    <3> QED
      BY <1>1, <1>6, <3>1, SameTrees DEF Swept, LostIsErased
  <2>1. e \notin Users(i, f.ops)
    BY <1>1, <1>3, TreeIsClosed DEF TypeOK, Tree
  <2>2. Users(i, operands) # {}
    BY <1>3, <2>1 DEF Swept, LostIsErased
  <2>3. e \notin Users(i, operands)
    BY <1>3, <2>1, UsersAreOriginal
  <2> QED
    BY <2>2, <2>3
<1>9. Marked'
  <2>1. DOMAIN operands' \subseteq DOMAIN operands
    BY <1>2
  <2>2. \A S : S \cap ErasedAll # {} => S \cap ErasedAll' # {}
    BY <1>1
  <2> QED
    BY <1>1, <1>3, <2>1, <2>2, SameTrees DEF Marked
<1> QED
  BY <1>4, <1>5, <1>7, <1>8, <1>9 DEF Gone

\* The replacement takes the users of the root away, and no others'; what it reads is
\* not inlined, so it keeps nothing of the tree alive.
LEMMA ReplaceGone ==
  ASSUME IInv, Gone, createLLVMReplacement
  PROVE  Gone'
<1> DEFINE c    == Head(Candidates)
           root == c.root
           new  == Replacing(root)
           Put(i) == [k \in DOMAIN operands[i] |->
                         IF operands[i][k] = root THEN new ELSE operands[i][k]]
           n == Len(Candidates)
<1>1. /\ pc = "apply" /\ Candidates # <<>> /\ Candidates' = Tail(Candidates) /\ cand' = c
      /\ pc' = "erase" /\ f' = f /\ ErasedAll' = ErasedAll /\ waiting' = waiting
      /\ ReplacedInstructions' = ReplacedInstructions /\ SubASTCandidates' = SubASTCandidates
  BY DEF createLLVMReplacement
<1>2. /\ operands' = [i \in DOMAIN operands \cup {new} |->
                         IF i = new THEN [v \in Variables(root) |-> v] ELSE Put(i)]
      /\ made' = [i \in DOMAIN made \cup {new} |->
                     IF i = new THEN c ELSE made[i]]
  BY <1>1 DEF createLLVMReplacement
<1>3. /\ TypeOK /\ CandidatesOK /\ WellFormed(f)
      /\ SearchOK /\ Apart /\ OperandsOK /\ Swept /\ Marked
  BY DEF IInv, Gone, TypeOK
<1>4. /\ n \in Nat \ {0} /\ DOMAIN Candidates = 1 .. n
      /\ c = Candidates[1] /\ DOMAIN Candidates' = 1 .. n - 1
      /\ \A k \in 1 .. n - 1 : Candidates'[k] = Candidates[k + 1]
      /\ root \in Instructions(f)
  BY <1>1, <1>3, TailOfCandidates DEF Proposals
<1>5. /\ Instructions(f) = 1 .. Len(f.kind) /\ Len(f.kind) \in Nat /\ Instructions(f) = DOMAIN f.ops
      /\ Inlined(f) \subseteq Instructions(f) /\ root \in Nat
  BY <1>3, <1>4 DEF WellFormed, Instructions, Inlined
<1>6. new \in Nat /\ new > Len(f.kind) /\ new \notin Instructions(f) /\ new # root
  BY <1>4, <1>5 DEF Replacing
<1>7. Apart'
  <2>1. \A i \in DOMAIN made' : i \in DOMAIN made \/ i = Replacing(Head(Candidates).root)
    BY <1>2
  <2>2. Head(Candidates).root \in Int
    BY <1>5
  <2> QED
    BY <1>1, <1>3, <1>5, <2>1, <2>2, TailApart
<1> HIDE DEF c, root, new, n
<1>8. SearchOK'
  BY <1>1, <1>3, SameTrees DEF SearchOK, Searching
<1>9. /\ DOMAIN operands' = DOMAIN operands \cup {new}
      /\ operands'[new] = [v \in Variables(root) |-> v]
      /\ \A i \in DOMAIN operands : i # new => operands'[i] = Put(i)
  BY <1>2
<1>10. OperandsOK'
  <2>1. ASSUME NEW i \in Instructions(f), i \in DOMAIN operands'
        PROVE  /\ DOMAIN operands'[i] = DOMAIN f.ops[i]
               /\ \A k \in DOMAIN operands'[i] :
                    \/ operands'[i][k] = f.ops[i][k]
                    \/ f.ops[i][k] \in Instructions(f) /\ operands'[i][k] = Replacing(f.ops[i][k])
    <3>1. i \in DOMAIN operands /\ i # new /\ operands'[i] = Put(i)
      BY <1>6, <1>9, <2>1
    <3>2. ASSUME NEW k \in DOMAIN operands[i], operands[i][k] = root
          PROVE  f.ops[i][k] = root
      <4>1. \A v \in Instructions(f) : Replacing(v) # root
        BY <1>4, <1>5 DEF Replacing
      <4> QED
        BY <1>3, <3>1, <3>2, <4>1 DEF OperandsOK
    <3> QED
      BY <1>3, <1>4, <3>1, <3>2 DEF OperandsOK, new
  <2>2. ASSUME NEW i \in DOMAIN operands', i \notin Instructions(f), NEW k \in DOMAIN operands'[i]
        PROVE  operands'[i][k] \notin Inlined(f)
    <3>1. CASE i = new
      BY <1>9, <2>2, <3>1 DEF Variables, VariablesOf
    <3>2. CASE i # new
      <4>1. i \in DOMAIN operands /\ operands'[i] = Put(i)
        BY <1>9, <2>2, <3>2
      <4> QED
        BY <1>3, <1>5, <1>6, <2>2, <4>1 DEF OperandsOK
    <3> QED
      BY <3>1, <3>2
  <2>3. \A v : Replacing(v)' = Replacing(v)
    BY <1>1 DEF Replacing
  <2> QED
    BY <1>1, <2>1, <2>2, <2>3, SameTrees DEF OperandsOK
<1>11. root \notin Variables(root)
  <2> SUFFICES ASSUME root \in Variables(root) PROVE FALSE
    OBVIOUS
  <2>1. PICK u \in Tree(root) : root \in Range(f.ops[u])
    BY DEF Variables, VariablesOf
  <2>2. u \in Instructions(f) /\ u <= root
    <3>1. \A i \in Tree(root) \ {root} : i < root
      BY <1>3, <1>4, TreeBelowRoot DEF Tree
    <3>2. Tree(root) \subseteq Instructions(f)
      BY TreeIsOfFunction DEF Tree
    <3> QED
      BY <1>4, <1>5, <2>1, <3>1, <3>2
  <2>3. u \in Users(root, f.ops)
    BY <1>5, <2>1, <2>2 DEF Users
  <2>4. u > root
    BY <1>3, <1>4, <2>3, UsersAreLater
  <2> QED
    BY <1>4, <1>5, <2>2, <2>4
<1>12. RootUnused'
  <2>1. ASSUME NEW i \in DOMAIN operands', NEW k \in DOMAIN operands'[i]
        PROVE  operands'[i][k] # root
    <3>1. CASE i = new
      BY <1>9, <1>11, <2>1, <3>1
    <3>2. CASE i # new
      <4>1. operands'[i] = Put(i)
        BY <1>9, <2>1, <3>2
      <4> QED
        BY <1>6, <2>1, <4>1
    <3> QED
      BY <3>1, <3>2
  <2>2. Users(root, operands') = {}
    BY <2>1 DEF Users, Range
  <2>3. cand'.root = root
    BY <1>1 DEF root
  <2> QED
    BY <1>1, <1>4, <2>2, <2>3, SameTrees DEF RootUnused, Users
<1>13. Swept'
  <2>1. ASSUME NEW i \in Inlined(f), i \in DOMAIN operands', i # root,
               Users(i, f.ops) \cap ErasedAll # {}
        PROVE  Users(i, operands') # {}
    <3>1. i \in DOMAIN operands
      BY <1>5, <1>6, <1>9, <2>1
    <3>2. Users(i, operands) # {}
      BY <1>1, <1>3, <2>1, <3>1 DEF Swept, LostIsErased
    <3>3. PICK u \in DOMAIN operands : \E k \in DOMAIN operands[u] : operands[u][k] = i
      BY <3>2 DEF Users, Range
    <3>4. u # new
      <4>1. u \in Users(i, operands)
        BY <3>3 DEF Users, Range
      <4> QED
        BY <1>3, <1>6, <4>1, UsersAreOriginal
    <3>5. operands'[u] = Put(u) /\ u \in DOMAIN operands'
      BY <1>9, <3>4
    <3>6. \E k \in DOMAIN operands'[u] : operands'[u][k] = i
      BY <2>1, <3>3, <3>5
    <3> QED
      BY <3>5, <3>6 DEF Users, Range
  <2>2. root \in Tree(root) /\ cand'.root = root
    BY <1>1, <1>3, <1>4, TreeBelowRoot DEF Tree, root
  <2> QED
    BY <1>1, <2>1, <2>2, SameTrees DEF Swept, LostIsErased, Users
<1>14. Marked'
  <2>1. ASSUME NEW i \in ReplacedInstructions, NEW k \in 1 .. n, k # 1,
               Candidates[k].whole, i \in Owned(Candidates[k].root)
        PROVE  \E m \in 1 .. n - 1 : Candidates'[m].whole /\ i \in Owned(Candidates'[m].root)
    <3>1. k - 1 \in 1 .. n - 1 /\ Candidates'[k - 1] = Candidates[k]
      BY <1>4, <2>1
    <3> QED
      BY <2>1, <3>1
  <2>2. \A i \in ReplacedInstructions : i \notin DOMAIN operands => i \notin DOMAIN operands'
    <3>1. ReplacedInstructions \subseteq Instructions(f)
      BY <1>3 DEF TypeOK
    <3> QED
      BY <1>6, <1>9, <3>1
  <2>3. \A i \in ReplacedInstructions :
          \/ i \notin DOMAIN operands'
          \/ \E r \in Roots(f) : i \in Owned(r) /\ Variables(r) \cap ErasedAll # {}
          \/ \E m \in 1 .. n - 1 : Candidates'[m].whole /\ i \in Owned(Candidates'[m].root)
          \/ i \in Owned(cand'.root)
    BY <1>1, <1>3, <1>4, <2>1, <2>2 DEF Marked
  <2>4. /\ \A r : Owned(r)' = Owned(r) /\ Variables(r)' = Variables(r)
        /\ Roots(f)' = Roots(f)
    BY <1>1, SameTrees
  <2> QED
    BY <1>1, <1>4, <2>3, <2>4 DEF Marked
<1> QED
  BY <1>7, <1>8, <1>10, <1>12, <1>13, <1>14 DEF Gone

\* The candidates found below others come after the whole ones, and are not whole.
LEMMA EndFindGone ==
  ASSUME IInv, Gone, EndFind
  PROVE  Gone'
<1>1. /\ UNCHANGED irVars /\ f' = f /\ operands' = operands /\ made' = made
      /\ ErasedAll' = ErasedAll /\ waiting' = waiting /\ SubASTCandidates' = <<>>
      /\ pc = "visit" /\ pc' = "apply" /\ Candidates' = Candidates \o SubASTCandidates
      /\ ReplacedInstructions' = ReplacedInstructions
  BY DEF EndFind, irVars
<1>2. /\ CandidatesOK /\ SearchOK /\ Apart /\ OperandsOK /\ Swept /\ Marked
  BY DEF IInv, Gone
<1>3. /\ DOMAIN Candidates \subseteq DOMAIN Candidates' /\ DOMAIN Candidates' \subseteq Nat \ {0}
      /\ \A k \in DOMAIN Candidates' :
           \/ /\ k \in DOMAIN Candidates /\ Candidates'[k] = Candidates[k]
              /\ \A j \in 1 .. k - 1 : j \in DOMAIN Candidates /\ Candidates'[j] = Candidates[j]
           \/ ~ Candidates'[k].whole
      /\ \A k \in DOMAIN Candidates : Candidates'[k] = Candidates[k]
  <2> DEFINE W == Verified
             s == Candidates
             t == SubASTCandidates
  <2>1. s \in Seq(W) /\ t \in Seq(W) /\ \A k \in DOMAIN t : ~ t[k].whole
    BY <1>2 DEF CandidatesOK, Apart
  <2>2. Candidates' = s \o t
    BY <1>1
  <2> HIDE DEF W, s, t
  <2>3. /\ Len(s) \in Nat /\ Len(t) \in Nat /\ DOMAIN s = 1 .. Len(s) /\ DOMAIN t = 1 .. Len(t)
        /\ DOMAIN (s \o t) = 1 .. Len(s) + Len(t)
        /\ \A k \in 1 .. Len(s) + Len(t) :
             (s \o t)[k] = IF k <= Len(s) THEN s[k] ELSE t[k - Len(s)]
    BY <2>1
  <2>4. ASSUME NEW k \in 1 .. Len(s) + Len(t), k > Len(s)
        PROVE  ~ (s \o t)[k].whole
    <3>1. k - Len(s) \in DOMAIN t
      BY <2>3, <2>4
    <3> QED
      BY <2>1, <2>3, <2>4, <3>1
  <2>5. ASSUME NEW k \in 1 .. Len(s)
        PROVE  /\ (s \o t)[k] = s[k] /\ k \in 1 .. Len(s) + Len(t)
               /\ \A j \in 1 .. k - 1 : j \in 1 .. Len(s) /\ (s \o t)[j] = s[j]
    BY <2>3
  <2> QED
    BY <2>2, <2>3, <2>4, <2>5 DEF s
<1>4. DOMAIN made = {} /\ DOMAIN SubASTCandidates' = {}
  BY <1>1, <1>2 DEF SearchOK, Searching
<1>5. SearchOK' /\ RootUnused'
  BY <1>1, <1>2, SameTrees DEF SearchOK, RootUnused, Searching
<1>6. Apart'
  <2>1. ASSUME NEW k \in DOMAIN Candidates', Candidates'[k].whole
        PROVE  /\ Candidates'[k].root \in Roots(f)
               /\ \A j \in 1 .. k - 1 : Candidates'[j].root \notin Tree(Candidates'[k].root)
    BY <1>2, <1>3, <2>1 DEF Apart
  <2> QED
    BY <1>1, <1>4, <2>1, SameTrees DEF Apart
<1>7. OperandsOK' /\ Swept'
  BY <1>1, <1>2, SameTrees DEF OperandsOK, Replacing, Swept, LostIsErased
<1>8. Marked'
  <2>1. \A i \in ReplacedInstructions :
          \/ i \notin DOMAIN operands
          \/ \E r \in Roots(f) : i \in Owned(r) /\ Variables(r) \cap ErasedAll # {}
          \/ \E k \in DOMAIN Candidates' : Candidates'[k].whole /\ i \in Owned(Candidates'[k].root)
    BY <1>1, <1>2, <1>3 DEF Marked
  <2>2. /\ \A r : Owned(r)' = Owned(r) /\ Variables(r)' = Variables(r)
        /\ Roots(f)' = Roots(f)
    BY <1>1, SameTrees
  <2> QED
    BY <1>1, <2>1, <2>2 DEF Marked
<1> QED
  BY <1>5, <1>6, <1>7, <1>8 DEF Gone

\* Every step keeps the books of the marks.
LEMMA StepGone == IInv /\ Gone /\ [Next]_vars => Gone'
<1> SUFFICES ASSUME IInv, Gone, [Next]_vars PROVE Gone'
  OBVIOUS
<1>1. CASE extractCandidates
  BY <1>1, ExtractGone
<1>2. CASE Visit
  BY <1>2, VisitGone
<1>3. CASE Judge
  BY <1>3, JudgeGone
<1>4. CASE Apply
  BY <1>4, SkipErasedGone, ReplaceGone, EraseGone, ErasedEnoughGone DEF Apply
<1>5. CASE EndFind
  BY <1>5, EndFindGone
<1>6. CASE EndFunction
  <2>1. /\ UNCHANGED irVars /\ UNCHANGED findVars /\ pc = "apply" /\ pc' \in {"done", "extract"}
        /\ f' = f
    BY <1>6 DEF EndFunction, irVars
  <2>2. SearchOK'
    BY <2>1, SameTrees DEF Gone, SearchOK, Searching, findVars
  <2> QED
    BY <2>1, <2>2, QuietKeepsGone DEF findVars
<1>7. CASE UNCHANGED vars
  <2>1. /\ f' = f /\ operands' = operands /\ made' = made /\ ErasedAll' = ErasedAll
        /\ waiting' = waiting /\ ReplacedInstructions' = ReplacedInstructions
        /\ Candidates' = Candidates /\ SubASTCandidates' = SubASTCandidates
        /\ pc' = pc /\ cand' = cand
    BY <1>7 DEF vars, irVars, findVars
  <2>2. SearchOK' /\ Apart'
    BY <2>1, SameTrees DEF Gone, SearchOK, Apart, Searching
  <2>3. OperandsOK' /\ RootUnused' /\ Swept'
    BY <2>1, SameTrees DEF Gone, OperandsOK, Replacing, RootUnused, Swept, LostIsErased
  <2>4. Marked'
    BY <2>1, SameTrees DEF Gone, Marked
  <2> QED
    BY <2>2, <2>3, <2>4 DEF Gone
<1> QED
  BY <1>1, <1>2, <1>3, <1>4, <1>5, <1>6, <1>7 DEF Next

\* What findReplacements has marked, and so kept from being tried on its own, is gone
\* when all candidates of a function are handled, unless a variable of the tree it was
\* marked for was itself erased: neither sharing between trees nor the order of the
\* candidates leaves marked code behind.
THEOREM MarkedIsGone == Spec => []MarkedGone
<1>1. Gone => MarkedGone
  BY DEF Gone, Marked, MarkedGone
<1>2. Gone /\ IInv /\ [Next]_vars => Gone'
  BY StepGone
<1> QED
  BY InitGone, Invariance, <1>1, <1>2, PTL DEF Spec

----------------------------------------------------------------------------
(***************************************************************************)
(* How far the function grows.  That what is counted of a candidate is     *)
(* paid for by what it owns is known when it is accepted; that it is still *)
(* so when it is put in needs the books of the loop that erases.           *)
(***************************************************************************)
\* No more is counted of a candidate than what it owns has.
Paid(c) == CountedBy(c) <= Cardinality(Owned(c.root))

\* What a candidate owns and has been erased.
Erased(c) == Owned(c.root) \ DOMAIN operands

\* Every whole candidate in the list is paid for, and while one is put in, what was
\* erased of it counts against what it has added.
ListPaid == \A k \in DOMAIN Candidates : Candidates[k].whole => Paid(Candidates[k])
Costs ==
  /\ IsFiniteSet(Operators) /\ sizeBefore \in Nat
  /\ pc = "valid" => Shorter(cand)
  /\ ListPaid
  /\ pc = "erase" /\ cand.whole =>
       /\ Paid(cand)
       /\ Size + Cardinality(Erased(cand)) <= sizeBefore + cand.replacement.instructions

\* The operators are pairs of an instruction and a number, and depend on what the
\* function has alone.
LEMMA OperatorsAre ==
  /\ \A p : p \in Operators <=> \E i \in DOMAIN operands : \E k \in 1 .. Weight(i) : p = <<i, k>>
  /\ operands' = operands /\ made' = made => Operators' = Operators /\ Size' = Size
BY DEF Operators, Weight, Size

\* The same of what the function has next.
LEMMA OperatorsMember ==
  \A p : p \in Operators' <=> \E i \in DOMAIN operands' : \E k \in 1 .. Weight(i)' : p = <<i, k>>
BY DEF Operators

\* A tree is finite, and so is what a replacement of it removes.
LEMMA OwnedIsFinite ==
  ASSUME WellFormed(f), NEW root
  PROVE  /\ IsFiniteSet(Tree(root)) /\ IsFiniteSet(Owned(root))
         /\ Cardinality(Tree(root)) \in Nat /\ Cardinality(Owned(root)) \in Nat
<1>1. Instructions(f) = 1 .. Len(f.kind) /\ Len(f.kind) \in Nat
  BY DEF WellFormed, Instructions
<1>2. IsFiniteSet(Instructions(f))
  BY <1>1, FS_Interval
<1>3. Tree(root) \subseteq Instructions(f) /\ Owned(root) \subseteq Tree(root)
  BY TreeIsOfFunction, OwnedIsOfTree DEF Tree, Owned
<1>4. IsFiniteSet(Tree(root))
  BY <1>2, <1>3, FS_Subset
<1>5. IsFiniteSet(Owned(root))
  BY <1>3, <1>4, FS_Subset
<1> QED
  BY <1>4, <1>5, FS_CardinalityType

\* What is counted of a candidate is a number.
LEMMA CountIsNatural ==
  ASSUME NEW c \in Proposals
  PROVE  CountedBy(c) \in Nat /\ c.replacement.instructions \in Nat
BY ReplacementsAssumption DEF Proposals, CountedBy

\* What is accepted is paid for: the whole tree goes and has more nodes than the
\* replacement binary operators, or countOperators finds no more than the part has
\* that goes.
LEMMA AcceptedIsPaid ==
  ASSUME WellFormed(f), cand \in Proposals, Shorter(cand), ~ CostsMore(cand)
  PROVE  Paid(cand)
<1> DEFINE O == Owned(cand.root)
           B == {i \in O : f.kind[i] # "cast"}
           r == CountedBy(cand)
<1>1. r \in Nat
  BY CountIsNatural
<1>2. /\ IsFiniteSet(O) /\ Cardinality(O) \in Nat /\ Cardinality(Tree(cand.root)) \in Nat
  BY OwnedIsFinite
<1>3. CASE ~ SharesNodes(cand.root)
  <2>1. r < Cardinality(O)
    BY <1>3 DEF SharesNodes, CountedBy, Shorter
  <2> QED
    BY <1>1, <1>2, <2>1 DEF Paid
<1>4. CASE SharesNodes(cand.root)
  <2>1. ~ (r > Cardinality(B))
    BY <1>4 DEF CostsMore, CountedBy, getASTSize
  <2>2. Cardinality(B) \in Nat /\ Cardinality(B) <= Cardinality(O)
    <3>1. B \in SUBSET O
      OBVIOUS
    <3> HIDE DEF B, O
    <3> QED
      BY <1>2, <3>1, FS_Subset, FS_CardinalityType
  <2>3. r <= Cardinality(O)
    <3> HIDE DEF r, B, O
    <3> QED
      BY <1>1, <1>2, <2>1, <2>2
  <2> QED
    BY <2>3 DEF Paid
<1> QED
  BY <1>3, <1>4

\* At first there is nothing.
LEMMA InitCosts == Init => Costs
<1> SUFFICES ASSUME Init PROVE Costs
  OBVIOUS
<1>1. /\ operands = <<>> /\ made = <<>> /\ sizeBefore = 0 /\ Candidates = <<>> /\ pc = "extract"
  BY DEF Init
<1>2. DOMAIN operands = {} /\ DOMAIN Candidates = {}
  BY <1>1
<1>3. Operators = {}
  BY <1>2, OperatorsAre
<1> QED
  BY <1>1, <1>2, <1>3, FS_EmptySet DEF Costs, ListPaid

\* A function begins with its instructions.
LEMMA ExtractCosts ==
  ASSUME IInv, extractCandidates
  PROVE  Costs'
<1>1. /\ made' = <<>> /\ sizeBefore' = 0 /\ Candidates' = <<>> /\ pc' = "visit"
      /\ operands' = f'.ops
  BY DEF extractCandidates
<1>2. DOMAIN made' = {} /\ DOMAIN Candidates' = {}
  BY <1>1
<1>3. /\ DOMAIN operands' = 1 .. Len(f'.kind) /\ Len(f'.kind) \in Nat
  <2>1. WellFormed(f')
    BY ExtractIInv DEF IInv, TypeOK
  <2> QED
    BY <1>1, <2>1 DEF WellFormed
<1>4. Operators' = (1 .. Len(f'.kind)) \X (1 .. 1)
  <2>1. \A i : Weight(i)' = 1
    BY <1>2 DEF Weight
  <2> QED
    BY <1>3, <2>1 DEF Operators
<1>5. IsFiniteSet(Operators')
  <2>1. IsFiniteSet(1 .. Len(f'.kind))
    BY <1>3, FS_Interval
  <2>2. IsFiniteSet(1 .. 1)
    <3>1. 1 .. 1 = {1}
      OBVIOUS
    <3> QED
      BY <3>1, FS_Singleton
  <2> QED
    BY <1>4, <2>1, <2>2, FS_Product
<1> QED
  BY <1>1, <1>2, <1>5 DEF Costs, ListPaid

\* What a candidate has and costs depends on the function alone.
LEMMA SamePaid ==
  ASSUME f' = f, \A k \in DOMAIN Candidates' : Candidates'[k].whole => Paid(Candidates'[k])
  PROVE  ListPaid'
BY DEF ListPaid, Paid, CountedBy, SharesNodes, Owned, Tree

\* A step that leaves the instructions and the list alone, and does not erase, keeps
\* what is known of the costs if a valid candidate is shorter than its tree.
LEMMA QuietKeepsCosts ==
  ASSUME Costs, UNCHANGED irVars, pc' # "erase", Candidates' = Candidates,
         pc' = "valid" => Shorter(cand')
  PROVE  Costs'
<1>1. f' = f /\ operands' = operands /\ made' = made /\ sizeBefore' = sizeBefore
  BY DEF irVars
<1>2. IsFiniteSet(Operators') /\ sizeBefore' \in Nat
  BY <1>1, OperatorsAre DEF Costs
<1>3. pc' = "valid" => Shorter(cand)'
  BY <1>1, SameTrees DEF Shorter
<1>4. ListPaid'
  BY <1>1, SamePaid DEF Costs, ListPaid
<1> QED
  BY <1>2, <1>3, <1>4 DEF Costs

\* Verdicts: what is valid is shorter than its tree, and what is accepted is paid for.
LEMMA JudgeCosts ==
  ASSUME IInv, Gone, Costs, Judge
  PROVE  Costs'
<1>1. CASE Verify
  <2>1. /\ UNCHANGED irVars /\ UNCHANGED findVars /\ cand' = cand /\ pc' # "erase"
        /\ pc' = "valid" => Shorter(cand)
    BY <1>1 DEF Verify, verify
  <2> QED
    BY <2>1, QuietKeepsCosts DEF findVars
<1>2. CASE TryOther \/ Reject \/ RefuseShared \/ WalkOn \/ walkSubAST
  <2>1. /\ UNCHANGED irVars /\ Candidates' = Candidates /\ pc' # "erase" /\ pc' # "valid"
    BY <1>2 DEF TryOther, Reject, RefuseShared, WalkOn, walkSubAST, findVars
  <2> QED
    BY <2>1, QuietKeepsCosts
<1>3. CASE TryMBAPatterns
  <2>1. /\ UNCHANGED irVars /\ Candidates' = Candidates /\ pc' = "valid" /\ verify(cand', FALSE, TRUE)
    BY <1>3 DEF TryMBAPatterns, findVars
  <2> QED
    BY <2>1, QuietKeepsCosts DEF verify
<1>4. CASE Accept
  <2>1. /\ UNCHANGED irVars /\ f' = f /\ operands' = operands /\ made' = made
        /\ sizeBefore' = sizeBefore /\ pc = "valid" /\ pc' = "visit"
        /\ Candidates' = Append(Candidates, cand) /\ ~ CostsMore(cand)
    BY <1>4 DEF Accept, irVars
  <2>2. WellFormed(f) /\ cand \in Proposals /\ Candidates \in Seq(Verified) /\ Shorter(cand)
    BY <2>1 DEF IInv, TypeOK, CandidatesOK, Verified, Costs
  <2>3. Paid(cand)
    BY <2>1, <2>2, AcceptedIsPaid
  <2>4. \A k \in DOMAIN Candidates' :
           Candidates'[k] = cand \/ (k \in DOMAIN Candidates /\ Candidates'[k] = Candidates[k])
    <3> DEFINE W == Verified
               s == Candidates
    <3>1. s \in Seq(W) /\ cand \in W /\ Candidates' = Append(s, cand)
      BY <2>1, <2>2 DEF IInv, CandidatesOK
    <3> HIDE DEF W, s
    <3>2. \A k \in DOMAIN Append(s, cand) :
             Append(s, cand)[k] = cand \/ (k \in DOMAIN s /\ Append(s, cand)[k] = s[k])
      BY <3>1
    <3> QED
      BY <3>1, <3>2 DEF s
  <2>5. \A k \in DOMAIN Candidates' : Candidates'[k].whole => Paid(Candidates'[k])
    BY <2>3, <2>4 DEF Costs, ListPaid
  <2>6. ListPaid'
    BY <2>1, <2>5, SamePaid
  <2>7. IsFiniteSet(Operators') /\ sizeBefore' \in Nat
    BY <2>1, OperatorsAre DEF Costs
  <2> QED
    BY <2>1, <2>6, <2>7 DEF Costs
<1> QED
  BY <1>1, <1>2, <1>3, <1>4 DEF Judge

\* The list grows by candidates that are not whole, and loses its first one.
LEMMA ListCosts ==
  ASSUME IInv, Gone, Costs, EndFind \/ SkipErased
  PROVE  Costs'
<1>1. /\ f' = f /\ operands' = operands /\ made' = made /\ sizeBefore' = sizeBefore
      /\ pc' = "apply"
  BY DEF EndFind, SkipErased, irVars
<1>2. \A k \in DOMAIN Candidates' :
         Candidates'[k].whole => \E j \in DOMAIN Candidates : Candidates'[k] = Candidates[j]
  <2>1. CASE EndFind
    <3> DEFINE W == Verified
               s == Candidates
               t == SubASTCandidates
    <3>1. s \in Seq(W) /\ t \in Seq(W) /\ \A k \in DOMAIN t : ~ t[k].whole
      BY DEF IInv, CandidatesOK, Gone, Apart
    <3>2. Candidates' = s \o t
      BY <2>1 DEF EndFind
    <3> HIDE DEF W, s, t
    <3>3. \A k \in DOMAIN (s \o t) :
             \/ k \in DOMAIN s /\ (s \o t)[k] = s[k]
             \/ k - Len(s) \in DOMAIN t /\ (s \o t)[k] = t[k - Len(s)]
      BY <3>1
    <3> QED
      BY <3>1, <3>2, <3>3 DEF s
  <2>2. CASE SkipErased
    <3>1. CandidatesOK /\ Candidates # <<>> /\ Candidates' = Tail(Candidates)
      BY <2>2 DEF IInv, SkipErased
    <3> QED
      BY <3>1, TailOfCandidates
  <2> QED
    BY <2>1, <2>2
<1>3. \A k \in DOMAIN Candidates' : Candidates'[k].whole => Paid(Candidates'[k])
  BY <1>2 DEF Costs, ListPaid
<1>4. ListPaid'
  BY <1>1, <1>3, SamePaid
<1>5. IsFiniteSet(Operators') /\ sizeBefore' \in Nat
  BY <1>1, OperatorsAre DEF Costs
<1> QED
  BY <1>1, <1>4, <1>5 DEF Costs

\* What is put in is new, if the candidate is whole: a root is replaced at most once.
LEMMA ReplacingIsNew ==
  ASSUME IInv, Gone, Candidates # <<>>, Head(Candidates).whole
  PROVE  Replacing(Head(Candidates).root) \notin DOMAIN operands
<1> DEFINE root == Head(Candidates).root
<1>1. /\ TypeOK /\ CandidatesOK /\ Apart /\ WellFormed(f)
  BY DEF IInv, Gone, TypeOK
<1>2. /\ root = Candidates[1].root /\ Candidates[1].whole /\ root \in Instructions(f)
      /\ 1 \in DOMAIN Candidates
  BY <1>1, TailOfCandidates DEF Proposals
<1>3. Instructions(f) = 1 .. Len(f.kind) /\ Len(f.kind) \in Nat
  BY <1>1 DEF WellFormed, Instructions
<1>4. root \in Tree(root)
  BY <1>1, <1>2, TreeBelowRoot DEF Tree
<1>5. \A i \in DOMAIN made : i - Len(f.kind) \notin Tree(root)
  BY <1>1, <1>2 DEF Apart
<1>6. Replacing(root) - Len(f.kind) = root /\ Replacing(root) \notin Instructions(f)
  BY <1>2, <1>3 DEF Replacing
<1>7. Replacing(root) \notin DOMAIN made
  BY <1>4, <1>5, <1>6
<1> QED
  BY <1>1, <1>6, <1>7 DEF TypeOK

\* The function grows by the operators of what is put in, and nothing that the
\* candidate owns has been erased before.
LEMMA ReplaceCosts ==
  ASSUME IInv, Gone, Costs, createLLVMReplacement
  PROVE  Costs'
<1> DEFINE c    == Head(Candidates)
           root == c.root
           new  == Replacing(root)
           r    == c.replacement.instructions
           N    == {new} \X (1 .. r)
<1>1. /\ Candidates # <<>> /\ Candidates' = Tail(Candidates) /\ cand' = c
      /\ pc' = "erase" /\ f' = f /\ ErasedAll' = ErasedAll /\ sizeBefore' = Size
      /\ ~ refersToErased(c)
  BY DEF createLLVMReplacement
<1>2. /\ DOMAIN operands' = DOMAIN operands \cup {new}
      /\ made' = [i \in DOMAIN made \cup {new} |->
                     IF i = new THEN c ELSE made[i]]
  BY <1>1 DEF createLLVMReplacement
<1>3. /\ TypeOK /\ CandidatesOK /\ WellFormed(f) /\ IsFiniteSet(Operators) /\ ListPaid
  BY DEF IInv, TypeOK, Costs
<1>4. c \in Proposals /\ c = Candidates[1] /\ 1 \in DOMAIN Candidates
  BY <1>1, <1>3, TailOfCandidates
<1>5. r \in Nat /\ root \in Instructions(f)
  BY <1>4, ReplacementsAssumption DEF Proposals
<1>6. ListPaid'
  <2>1. \A k \in DOMAIN Candidates' : \E j \in DOMAIN Candidates : Candidates'[k] = Candidates[j]
    BY <1>1, <1>3, TailOfCandidates
  <2>2. \A k \in DOMAIN Candidates' : Candidates'[k].whole => Paid(Candidates'[k])
    BY <1>3, <2>1 DEF ListPaid
  <2> QED
    BY <1>1, <2>2, SamePaid
<1> HIDE DEF c, root, new, r
<1>7. \A i : Weight(i)' = IF i = new THEN r ELSE Weight(i)
  BY <1>2 DEF Weight, r
<1>8. IsFiniteSet(N) /\ Cardinality(N) = r
  <2>1. IsFiniteSet(1 .. r) /\ Cardinality(1 .. r) = r
    BY <1>5, FS_Interval
  <2>2. IsFiniteSet({new}) /\ Cardinality({new}) = 1
    BY FS_Singleton
  <2>3. IsFiniteSet(N) /\ Cardinality(N) = 1 * r
    BY <2>1, <2>2, FS_Product
  <2> QED
    BY <1>5, <2>3
<1>9. Operators' \subseteq Operators \cup N
  <2> SUFFICES ASSUME NEW i \in DOMAIN operands', NEW k \in 1 .. Weight(i)', <<i, k>> \notin N
               PROVE  i \in DOMAIN operands /\ k \in 1 .. Weight(i)
    BY OperatorsMember, OperatorsAre
  <2> QED
    BY <1>2, <1>7
<1>10. IsFiniteSet(Operators') /\ sizeBefore' \in Nat
  BY <1>1, <1>3, <1>8, <1>9, FS_Union, FS_Subset, FS_CardinalityType DEF Size
<1>11. ASSUME c.whole
       PROVE  Paid(c) /\ Size' = sizeBefore' + r /\ Owned(root) \ DOMAIN operands' = {}
  <2>1. Paid(c)
    BY <1>3, <1>4, <1>11 DEF ListPaid
  <2>2. new \notin DOMAIN operands
    BY <1>1, <1>11, ReplacingIsNew DEF new, root, c
  <2>3. Operators' = Operators \cup N
    <3>1. ASSUME NEW i \in DOMAIN operands, NEW k \in 1 .. Weight(i)
          PROVE  i \in DOMAIN operands' /\ k \in 1 .. Weight(i)'
      BY <1>2, <1>7, <2>2
    <3>2. Operators \subseteq Operators'
      BY <3>1, OperatorsAre, OperatorsMember
    <3>3. ASSUME NEW k \in 1 .. r
          PROVE  new \in DOMAIN operands' /\ \A i : i = new => k \in 1 .. Weight(i)'
      BY <1>2, <1>7
    <3>4. N \subseteq Operators'
      BY <3>3, OperatorsMember
    <3> QED
      BY <1>9, <3>2, <3>4
  <2>4. Operators \cap N = {}
    BY <2>2 DEF Operators
  <2>5. Size' = Size + r
    <3>1. Cardinality(Operators \cup N) = Cardinality(Operators) + Cardinality(N) - Cardinality({})
      BY <1>3, <1>8, <2>4, FS_Union
    <3>2. Cardinality({}) = 0 /\ Cardinality(Operators) \in Nat
      BY <1>3, FS_EmptySet, FS_CardinalityType
    <3> QED
      BY <1>5, <1>8, <2>3, <3>1, <3>2 DEF Size
  <2>6. Owned(root) \subseteq DOMAIN operands
    <3>1. Owned(root) \subseteq Tree(root) /\ Tree(root) \subseteq Instructions(f)
      BY OwnedIsOfTree, TreeIsOfFunction DEF Owned, Tree
    <3>2. Tree(root) \cap ErasedAll = {}
      BY <1>1 DEF refersToErased, root
    <3> QED
      BY <1>3, <3>1, <3>2 DEF TypeOK
  <2> QED
    BY <1>1, <1>2, <2>1, <2>5, <2>6
<1>12. ASSUME c.whole
       PROVE  /\ Paid(cand)'
              /\ (Size + Cardinality(Erased(cand)) <= sizeBefore + cand.replacement.instructions)'
  <2>1. Paid(cand)'
    BY <1>1, <1>11, <1>12 DEF Paid, CountedBy, SharesNodes, Owned, Tree
  <2>2. Erased(cand)' = Owned(root) \ DOMAIN operands'
    BY <1>1, SameTrees DEF Erased, Owned, Tree, root
  <2>3. Cardinality(Erased(cand)') = 0
    BY <1>11, <1>12, <2>2, FS_EmptySet
  <2>4. Size' = sizeBefore' + cand'.replacement.instructions
    BY <1>1, <1>11, <1>12 DEF r
  <2>5. cand'.replacement.instructions \in Nat
    BY <1>1, <1>5 DEF r
  <2> QED
    BY <1>10, <2>1, <2>3, <2>4, <2>5
<1> QED
  BY <1>1, <1>6, <1>10, <1>12 DEF Costs

\* What is erased is an instruction and no replacement: one operator less.
LEMMA EraseCosts ==
  ASSUME IInv, Costs, NEW e \in Instructions(f), Erase(e)
  PROVE  Costs'
<1>1. /\ pc = "erase" /\ pc' = pc /\ cand' = cand /\ f' = f /\ made' = made
      /\ sizeBefore' = sizeBefore /\ Candidates' = Candidates
      /\ e \in DOMAIN operands
  BY DEF Erase, Erasable, findVars
<1>2. DOMAIN operands' = DOMAIN operands \ {e}
  BY DEF Erase, Restrict
<1>3. /\ TypeOK /\ WellFormed(f) /\ cand \in Proposals
      /\ IsFiniteSet(Operators) /\ sizeBefore \in Nat /\ ListPaid
  BY <1>1 DEF IInv, TypeOK, CandidatesOK, Verified, Costs
<1>4. Weight(e) = 1 /\ \A i : Weight(i)' = Weight(i)
  BY <1>1, <1>3 DEF Weight, TypeOK
<1>5. Operators' = Operators \ {<<e, 1>>} /\ <<e, 1>> \in Operators
  <2>1. <<e, 1>> \in Operators
    BY <1>1, <1>4, OperatorsAre
  <2>2. \A p : p \in Operators' <=> \E i \in DOMAIN operands' : \E k \in 1 .. Weight(i) : p = <<i, k>>
    BY <1>4, OperatorsMember
  <2>3. \A p : p \in Operators' <=> p \in Operators /\ p # <<e, 1>>
    BY <1>2, <1>4, <2>2, OperatorsAre
  <2> QED
    BY <2>1, <2>3
<1>6. IsFiniteSet(Operators') /\ Size' = Size - 1 /\ Size \in Nat
  BY <1>3, <1>5, FS_RemoveElement, FS_CardinalityType DEF Size
<1>7. ListPaid'
  BY <1>1, <1>3, SamePaid DEF ListPaid
<1>8. ASSUME cand.whole
      PROVE  /\ Paid(cand)'
             /\ (Size + Cardinality(Erased(cand)) <= sizeBefore + cand.replacement.instructions)'
  <2>1. /\ Paid(cand)
        /\ Size + Cardinality(Erased(cand)) <= sizeBefore + cand.replacement.instructions
    BY <1>1, <1>8 DEF Costs
  <2>2. Paid(cand)'
    BY <1>1, <2>1 DEF Paid, CountedBy, SharesNodes, Owned, Tree
  <2>3. Erased(cand)' \subseteq Erased(cand) \cup {e}
    BY <1>1, <1>2 DEF Erased, Owned, Tree
  <2>4. IsFiniteSet(Erased(cand))
    <3>1. IsFiniteSet(Owned(cand.root))
      BY <1>3, OwnedIsFinite
    <3> QED
      BY <3>1, FS_Subset DEF Erased
  <2>5. /\ Cardinality(Erased(cand)) \in Nat /\ Cardinality(Erased(cand)') \in Nat
        /\ Cardinality(Erased(cand)') <= Cardinality(Erased(cand)) + 1
    <3> DEFINE S == Erased(cand)
               T == Erased(cand)'
    <3>1. IsFiniteSet(S) /\ T \subseteq S \cup {e}
      BY <2>3, <2>4
    <3> HIDE DEF S, T
    <3>2. /\ IsFiniteSet(S \cup {e}) /\ Cardinality(S) \in Nat
          /\ Cardinality(S \cup {e}) = (IF e \in S THEN Cardinality(S) ELSE Cardinality(S) + 1)
      BY <3>1, FS_AddElement, FS_CardinalityType
    <3>3. IsFiniteSet(T) /\ Cardinality(T) <= Cardinality(S \cup {e})
      BY <3>1, <3>2, FS_Subset
    <3>4. Cardinality(T) \in Nat
      BY <3>3, FS_CardinalityType
    <3>5. Cardinality(T) <= Cardinality(S) + 1
      BY <3>2, <3>3, <3>4
    <3> QED
      BY <3>2, <3>4, <3>5 DEF S, T
  <2>6. cand.replacement.instructions \in Nat
    BY <1>3, ReplacementsAssumption DEF Proposals
  <2> QED
    BY <1>1, <1>3, <1>6, <2>1, <2>2, <2>5, <2>6
<1> QED
  BY <1>1, <1>3, <1>6, <1>7, <1>8 DEF Costs

\* Every step keeps the books of the costs.
LEMMA StepCosts == IInv /\ Gone /\ Costs /\ [Next]_vars => Costs'
<1> SUFFICES ASSUME IInv, Gone, Costs, [Next]_vars PROVE Costs'
  OBVIOUS
<1>1. CASE extractCandidates
  BY <1>1, ExtractCosts
<1>2. CASE Visit \/ ErasedEnough \/ EndFunction
  <2>1. /\ UNCHANGED irVars /\ Candidates' = Candidates /\ pc' # "erase"
        /\ pc' # "valid"
    BY <1>2 DEF Visit, Skip, Simplify, IsNext, ErasedEnough, EndFunction, findVars
  <2> QED
    BY <2>1, QuietKeepsCosts
<1>3. CASE Judge
  BY <1>3, JudgeCosts
<1>4. CASE EndFind \/ SkipErased
  BY <1>4, ListCosts
<1>5. CASE createLLVMReplacement
  BY <1>5, ReplaceCosts
<1>6. CASE \E i \in Instructions(f) : Erase(i)
  BY <1>6, EraseCosts
<1>7. CASE UNCHANGED vars
  <2>1. /\ f' = f /\ operands' = operands /\ made' = made /\ Candidates' = Candidates
        /\ sizeBefore' = sizeBefore /\ pc' = pc /\ cand' = cand
    BY <1>7 DEF vars, irVars, findVars
  <2>2. Operators' = Operators /\ Size' = Size
    BY <2>1, OperatorsAre
  <2>3. ListPaid'
    BY <2>1, SamePaid DEF Costs, ListPaid
  <2> QED
    BY <2>1, <2>2, <2>3 DEF Costs, Shorter, Paid, CountedBy, SharesNodes, Erased, Owned, Tree
<1> QED
  BY <1>1, <1>2, <1>3, <1>4, <1>5, <1>6, <1>7 DEF Next, Apply

\* When the loop over the tree has ended, all that a candidate owns has gone, and what
\* was not counted of it is all by which the function may have grown.
LEMMA EndedIsPaid ==
  ASSUME IInv, Gone, Costs, [Next]_vars, pc = "erase", pc' = "apply", cand.whole
  PROVE  Size + CountedBy(cand) <= sizeBefore + cand.replacement.instructions
<1>1. ErasedEnough
  BY DEF Next, Visit, Skip, Simplify, IsNext, Judge, Verify, TryOther, TryMBAPatterns,
         Reject, RefuseShared, Accept, WalkOn, walkSubAST, EndFind, Apply, SkipErased,
         createLLVMReplacement, Erase, EndFunction, extractCandidates, vars
<1>2. /\ TypeOK /\ WellFormed(f) /\ cand \in Proposals
  BY DEF IInv, TypeOK, CandidatesOK, Verified
<1>3. Owned(cand.root) \cap DOMAIN operands = {}
  BY <1>1, AllOwnedIsErased
<1>4. Erased(cand) = Owned(cand.root)
  BY <1>3 DEF Erased
<1>5. /\ CountedBy(cand) <= Cardinality(Owned(cand.root))
      /\ Size + Cardinality(Owned(cand.root)) <= sizeBefore + cand.replacement.instructions
  BY <1>4 DEF Costs, Paid
<1>6. /\ Cardinality(Owned(cand.root)) \in Nat /\ cand.replacement.instructions \in Nat
      /\ CountedBy(cand) \in Nat /\ Size \in Nat /\ sizeBefore \in Nat
  <2>1. Size \in Nat /\ sizeBefore \in Nat
    BY FS_CardinalityType DEF Costs, Size
  <2> QED
    BY <1>2, <2>1, OwnedIsFinite, CountIsNatural
<1> DEFINE O == Cardinality(Owned(cand.root))
           n == CountedBy(cand)
           r == cand.replacement.instructions
<1>7. n <= O /\ Size + O <= sizeBefore + r /\ {O, n, r, Size, sizeBefore} \subseteq Nat
  BY <1>5, <1>6
<1> HIDE DEF O, n, r
<1>8. Size + n <= sizeBefore + r
  BY <1>7
<1> QED
  BY <1>8 DEF n, r

\* A candidate found as a whole makes the function larger by no more than what verify,
\* or the cost of a shared tree, has not counted of its replacement, whatever was put in
\* or erased since it was judged.
THEOREM GrowthIsBounded == Spec => GrowsByUncounted
<1>1. Costs /\ Gone /\ IInv /\ [Next]_vars => Costs'
  BY StepCosts
<1>2. Gone /\ IInv /\ [Next]_vars => Gone'
  BY StepGone
<1>3. Costs /\ Gone /\ IInv /\ [Next]_vars =>
        [pc = "erase" /\ pc' = "apply" /\ cand.whole =>
            Size + CountedBy(cand) <= sizeBefore + cand.replacement.instructions]_vars
  BY EndedIsPaid
<1> QED
  BY InitCosts, InitGone, Invariance, <1>1, <1>2, <1>3, PTL DEF Spec, GrowsByUncounted

=============================================================================
