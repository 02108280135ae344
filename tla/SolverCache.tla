----------------------------- MODULE SolverCache -----------------------------
(***************************************************************************)
(* Z3Prover.cpp: the one solver the process caches, and the two contexts   *)
(* that hand conjectures to it.  proveReplacement works in the context of  *)
(* the prover, LLVMParser::verify in the one of the parser, which is       *)
(* replaced when a fault has come out of the library (builds with SEH).    *)
(*                                                                         *)
(* Contexts are numbered as they are created, and never freed.  The module *)
(* gives the calls as actions on its variables; a module that proves       *)
(* something composes them with its own.                                   *)
(***************************************************************************)
EXTENDS Naturals

CONSTANT MaxContexts      \* bound: no fault happens once so many were created

ASSUME MaxContextsAssumption == MaxContexts \in Nat

None == 0

VARIABLES
    created,     \* the number of contexts created
    ProverCtx,   \* the context of proveReplacement, or None
    Z3CtxGlobal, \* the context of the parser
    Solver,      \* the context the cached solver was built from, or None
    abandoned,   \* the contexts in which a fault has happened
    asked        \* the contexts of the last conjecture and of the solver it was added to

solverVars == <<created, ProverCtx, Z3CtxGlobal, Solver, abandoned, asked>>

\* The first parser of the process creates its context.
SolverInit ==
    /\ created = 1
    /\ ProverCtx = None
    /\ Z3CtxGlobal = 1
    /\ Solver = None
    /\ abandoned = {}
    /\ asked = [conjecture |-> None, solver |-> None]

\* Mistake: the cached solver is used for every conjecture.
Kept_Always(c) == Solver

\* prove: a solver cached from another context is dropped, and one is made when
\* there is none.
Kept(c) == IF Solver # None /\ Solver # c THEN None ELSE Solver
SolverFor(c) == IF Kept(c) = None THEN c ELSE Kept(c)

prove(c) ==
    /\ Solver' = SolverFor(c)
    /\ asked' = [conjecture |-> c, solver |-> SolverFor(c)]

\* The context of the prover is created by the first call.
proveReplacement ==
    LET c == IF ProverCtx = None THEN created + 1 ELSE ProverCtx
    IN /\ created' = IF ProverCtx = None THEN c ELSE created
       /\ ProverCtx' = c
       /\ prove(c)
       /\ UNCHANGED <<Z3CtxGlobal, abandoned>>

doProveWithZ3 ==
    /\ prove(Z3CtxGlobal)
    /\ UNCHANGED <<created, ProverCtx, Z3CtxGlobal, abandoned>>

\* Mistake: only the context is replaced.
Forgotten_Kept(s) == s

\* abandonZ3Solver: what is cached after a fault of the solver s.
Forgotten(s) == None
\* A fault before or after the conjecture was added: the parser goes on in a new
\* context.
abandonZ3CtxGlobal ==
    /\ created < MaxContexts
    /\ \/ Solver' = Forgotten(Solver) /\ asked' = asked
       \/ /\ Solver' = Forgotten(SolverFor(Z3CtxGlobal))
          /\ asked' = [conjecture |-> Z3CtxGlobal, solver |-> SolverFor(Z3CtxGlobal)]
    /\ abandoned' = abandoned \cup {Z3CtxGlobal}
    /\ created' = created + 1
    /\ Z3CtxGlobal' = created + 1
    /\ UNCHANGED ProverCtx

\* "It must never outlive that context, and must never be handed a conjecture from
\* a different one": a conjecture meets a solver of its own context, and the cached
\* solver never belongs to a context whose heap a fault may have corrupted.
SolverBelongs ==
    /\ asked.solver = asked.conjecture
    /\ Solver \in {None, ProverCtx, Z3CtxGlobal}
    /\ Solver \notin abandoned

=============================================================================
