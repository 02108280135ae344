------------------------------- MODULE Router -------------------------------
\* One query of the SiMBA++ command line: SimplifierRouter.cpp chooses the
\* simplifier (RouteSimplify), falls back to the others (TryAutoFallback), and
\* CSiMBA.cpp runs the native path and reports (SimplifySingleMBA for --mba,
\* RunSimplifier for each line of a database).
\*
\* A route is an oracle: it answers nothing or an expression, and of an
\* expression only what the two verifiers can tell matters.  What the native
\* simplifier computes is the subject of SimplifyGeneric and TryRefine.
EXTENDS Naturals

CONSTANTS
    SimplifierChoice,   \* the values of --simplifier to explore
    Callers             \* "single" (--mba) and "database" (--mbadb)

None == "none"          \* the empty string

\* "equal"    equivalent to the input, and the prover says so
\* "unproved" equivalent, but the prover abstains or times out
\* "unseen"   not equivalent, but no sample of the fast check shows it
\* "seen"     not equivalent, and a sample shows it
Answers == {"equal", "unproved", "unseen", "seen"}

Routes == {"msimba", "general", "external"}

\* How the MBA classifiers see the expression: checkLinear, isSemiLinear, else.
Classes == {"linear", "semilinear", "nonlinear"}

\* The options that matter here, and the caller.
Settings == [caller: Callers, simplifier: SimplifierChoice, fastCheck: BOOLEAN,
             prove: BOOLEAN, autoFallback: BOOLEAN, checkLinear: BOOLEAN,
             walkSubAST: BOOLEAN]

\* wide: more than 16 bits; manyVars: six variables or more; gated: too many
\* variables or too small for the limits of the command line.
Queries == [class: Classes, wide: BOOLEAN, manyVars: BOOLEAN, gated: BOOLEAN]

VARIABLES
    settings,   \* the command line: fixed by Init
    query,      \* the expression: fixed by Init
    pc,         \* "route", "primary", "verify", "fallback", "native", "done"
    choice,     \* effectiveChoice's answer, None for the native path
    skip,       \* TryAutoFallback: the route it leaves out, None for none
    position,       \* TryAutoFallback: the position of its loop in the order
    nativeSays, \* what simplify_linear_mba returned; FALSE before it runs
    attempts,   \* history: how often each route was run
    SimpMBA,    \* the caller's output string
    verdict     \* what is reported; None before

loopVars == <<skip, position>>
vars == <<settings, query, pc, choice, loopVars, nativeSays, attempts, SimpMBA,
          verdict>>

TypeOK ==
    /\ settings \in Settings
    /\ query \in Queries
    /\ pc \in {"route", "primary", "verify", "fallback", "native", "done"}
    /\ choice \in Routes \cup {None}
    /\ skip \in Routes \cup {None}
    /\ position \in 1..4
    /\ nativeSays \in BOOLEAN
    /\ attempts \in [Routes -> 0..2]
    /\ SimpMBA \in Answers \cup {None}
    /\ verdict \in {None, "valid", "skipped", "failed", "invalid"}

-----------------------------------------------------------------------------
\* The two verifiers, and what they say of an answer.
fastCheckEquivalent(res) == res # "seen"
proveEquivalent(res) == res = "equal"

autoMode == settings.simplifier = "auto"

\* What a route may answer.  GeneralSimplifier::simplify returns simplifyDirect's
\* answer, fast-checked and never proved, for six variables or more; else the
\* answer of the full search, proved when asked.  The terms walkTopLevelTerms
\* puts together again are proved one by one at most.
AnswersOf(r) ==
    LET direct == IF query.manyVars THEN Answers \ {"seen"} ELSE {}
        search == IF settings.prove THEN {"equal"} ELSE Answers
        walked == IF settings.walkSubAST THEN Answers ELSE {}
    IN  IF r = "general" THEN direct \cup search \cup walked ELSE Answers

\* The MBA classifiers are asked in this order.
classified ==
    CASE query.class = "linear"     -> None
      [] query.class = "semilinear" -> "msimba"
      [] query.class = "nonlinear"  -> "general"

\* Mistake: the value of the option is used as it was given.
effectiveChoice_AsGiven ==
    IF autoMode THEN classified ELSE settings.simplifier

\* None sends the query to the native path; an unknown value does so too.
effectiveChoice ==
    LET explicit == IF settings.simplifier \in Routes
                    THEN settings.simplifier ELSE None
    IN  IF autoMode THEN classified ELSE explicit

\* The order of the fallback.
order ==
    IF query.manyVars THEN <<"general", "msimba", "external">>
                      ELSE <<"msimba", "general", "external">>

Ran(r) == attempts' = [attempts EXCEPT ![r] = @ + 1]

Reports(v) == pc' = "done" /\ verdict' = v

-----------------------------------------------------------------------------
Init ==
    /\ settings \in Settings
    /\ query \in Queries
    /\ pc = "route"
    /\ choice = None
    /\ skip = None
    /\ position = 1
    /\ nativeSays = FALSE
    /\ attempts = [r \in Routes |-> 0]
    /\ SimpMBA = None
    /\ verdict = None

TryAutoFallback(left) == pc' = "fallback" /\ skip' = left /\ position' = 1

\* Mistake: the route that just failed is not taken out of the fallback.
NoAnswer_NoSkip(ran) ==
    \/ /\ settings.autoFallback /\ autoMode
       /\ TryAutoFallback(None)
       /\ UNCHANGED verdict
    \/ /\ ~(settings.autoFallback /\ autoMode)
       /\ Reports("failed")
       /\ UNCHANGED loopVars

\* Mistake: the fallback does not look at the mode.
NoAnswer_AnyMode(ran) ==
    \/ /\ settings.autoFallback
       /\ TryAutoFallback(ran)
       /\ UNCHANGED verdict
    \/ /\ ~settings.autoFallback
       /\ Reports("failed")
       /\ UNCHANGED loopVars

\* The chosen route has no answer: the other routes, or FAILED.
NoAnswer(ran) ==
    \/ /\ settings.autoFallback /\ autoMode
       /\ TryAutoFallback(ran)
       /\ UNCHANGED verdict
    \/ /\ ~(settings.autoFallback /\ autoMode)
       /\ Reports("failed")
       /\ UNCHANGED loopVars

\* RouteSimplify up to the call of the chosen simplifier: the native path, the
\* gates, the width limit of "general", and "msimba" skipped as a primary for
\* six variables or more.
RouteNative ==
    /\ pc = "route"
    /\ \/ effectiveChoice = None
       \/ effectiveChoice = "general" /\ query.wide /\ ~query.gated
    /\ choice' = effectiveChoice
    /\ pc' = "native"
    /\ UNCHANGED <<settings, query, loopVars, nativeSays, attempts, SimpMBA,
                   verdict>>

RouteGated ==
    /\ pc = "route"
    /\ effectiveChoice # None
    /\ query.gated
    /\ choice' = effectiveChoice
    /\ Reports("skipped")
    /\ UNCHANGED <<settings, query, loopVars, nativeSays, attempts, SimpMBA>>

\* Mistake: the fallback leaves the primary out even where it was skipped.
RouteManyVariables_SkipUnrun ==
    /\ pc = "route"
    /\ effectiveChoice = "msimba"
    /\ ~query.gated
    /\ query.manyVars
    /\ choice' = "msimba"
    /\ NoAnswer("msimba")
    /\ UNCHANGED <<settings, query, nativeSays, attempts, SimpMBA>>

RouteManyVariables ==
    /\ pc = "route"
    /\ effectiveChoice = "msimba"
    /\ ~query.gated
    /\ query.manyVars
    /\ choice' = "msimba"
    /\ NoAnswer(None)
    /\ UNCHANGED <<settings, query, nativeSays, attempts, SimpMBA>>

RoutePrimary ==
    /\ pc = "route"
    /\ ~query.gated
    /\ \/ effectiveChoice = "msimba" /\ ~query.manyVars
       \/ effectiveChoice = "general" /\ ~query.wide
       \/ effectiveChoice = "external"
    /\ choice' = effectiveChoice
    /\ pc' = "primary"
    /\ UNCHANGED <<settings, query, loopVars, nativeSays, attempts, SimpMBA,
                   verdict>>

\* The simplifier answers: on the whole expression or, for "general" and
\* "external" with --walk-sub-ast, term by term.
PrimaryAnswers ==
    /\ pc = "primary"
    /\ SimpMBA' \in AnswersOf(choice)
    /\ Ran(choice)
    /\ pc' = "verify"
    /\ UNCHANGED <<settings, query, choice, loopVars, nativeSays, verdict>>

PrimaryFails ==
    /\ pc = "primary"
    /\ Ran(choice)
    /\ NoAnswer(choice)
    /\ UNCHANGED <<settings, query, choice, nativeSays, SimpMBA>>

\* The script or a Python with numpy is missing, or Python does not start.
ExternalUnavailable ==
    /\ pc = "primary"
    /\ choice = "external"
    /\ pc' = "native"
    /\ UNCHANGED <<settings, query, choice, loopVars, nativeSays, attempts,
                   SimpMBA, verdict>>

\* verifyNonNativeResult and, on the msimba route only, the proof.
Accepted ==
    /\ settings.fastCheck => fastCheckEquivalent(SimpMBA)
    /\ choice = "msimba" /\ settings.prove => proveEquivalent(SimpMBA)

\* Mistake: an answer that is refused is dropped and never reported.
VerifyPrimary_Drops ==
    /\ pc = "verify"
    /\ Accepted
    /\ Reports("valid")
    /\ UNCHANGED <<settings, query, choice, loopVars, nativeSays, attempts,
                   SimpMBA>>

VerifyPrimary ==
    /\ pc = "verify"
    /\ Reports(IF Accepted THEN "valid" ELSE "invalid")
    /\ UNCHANGED <<settings, query, choice, loopVars, nativeSays, attempts,
                   SimpMBA>>

-----------------------------------------------------------------------------
\* One round of the loop over the order, for a route that is not left out.
Trying(r) == pc = "fallback" /\ position \in 1..3 /\ r = order[position] /\ r # skip

\* Mistake: the fallback trusts its routes, as TrySelectedSimplifier lets it.
FallbackAccepts_Unchecked(r) ==
    /\ Trying(r)
    /\ SimpMBA' \in AnswersOf(r)
    /\ Ran(r)
    /\ Reports("valid")
    /\ UNCHANGED <<settings, query, choice, loopVars, nativeSays>>

\* TryAutoFallback.  A route that answers nothing, and one whose answer the
\* fast check refuses, passes to the next; the proof is not consulted.
FallbackAccepts(r) ==
    /\ Trying(r)
    /\ \E res \in AnswersOf(r) :
          /\ settings.fastCheck => fastCheckEquivalent(res)
          /\ SimpMBA' = res
    /\ Ran(r)
    /\ Reports("valid")
    /\ UNCHANGED <<settings, query, choice, loopVars, nativeSays>>

FallbackPasses(r) ==
    /\ Trying(r)
    /\ Ran(r)
    /\ position' = position + 1
    /\ UNCHANGED <<settings, query, pc, choice, skip, nativeSays, SimpMBA, verdict>>

FallbackSkips ==
    /\ pc = "fallback"
    /\ position \in 1..3
    /\ order[position] = skip
    /\ position' = position + 1
    /\ UNCHANGED <<settings, query, pc, choice, skip, nativeSays, attempts, SimpMBA,
                   verdict>>

\* No route is left: RouteSimplify says FAILED; after the native path its own
\* return value stands.
FallbackExhausted ==
    /\ pc = "fallback"
    /\ position = 4
    /\ Reports(IF nativeSays THEN "valid" ELSE "failed")
    /\ UNCHANGED <<settings, query, choice, loopVars, nativeSays, attempts,
                   SimpMBA>>

-----------------------------------------------------------------------------
\* The native path.  SimplifySingleMBA leaves fastCheck at its default, true.
NativeFastCheck == settings.caller = "single" \/ settings.fastCheck

\* simplify_linear_mba answers: Simplifier::simplify always builds a string
\* and returns whether the fast check and the proof let it pass.
NativeAnswers ==
    /\ pc = "native"
    /\ \E res \in Answers :
          LET passes == /\ NativeFastCheck => fastCheckEquivalent(res)
                        /\ settings.prove => proveEquivalent(res)
          IN  /\ SimpMBA' = res
              /\ nativeSays' = passes
              /\ Reports(IF passes THEN "valid" ELSE "invalid")
    /\ UNCHANGED <<settings, query, choice, loopVars, attempts>>

\* simplify_linear_mba does not take the expression for a linear MBA.  Its
\* `return "";` in a function of type bool is a pointer that is not null: true.
NativeRefuses ==
    /\ pc = "native"
    /\ settings.checkLinear
    /\ nativeSays' = TRUE
    /\ \/ /\ settings.autoFallback /\ autoMode
          /\ TryAutoFallback(None)
          /\ UNCHANGED verdict
       \/ /\ ~(settings.autoFallback /\ autoMode)
          /\ Reports("valid")
          /\ UNCHANGED loopVars
    /\ UNCHANGED <<settings, query, choice, attempts, SimpMBA>>

-----------------------------------------------------------------------------
Route == RouteNative \/ RouteGated \/ RouteManyVariables \/ RoutePrimary
Primary == PrimaryAnswers \/ PrimaryFails \/ ExternalUnavailable
              \/ VerifyPrimary
Fallback == (\E r \in Routes : FallbackAccepts(r) \/ FallbackPasses(r))
              \/ FallbackSkips \/ FallbackExhausted
Native == NativeAnswers \/ NativeRefuses

Next == Route \/ Primary \/ Fallback \/ Native

\* The program is sequential and every route answers in the end: the searches
\* are under a deadline, the script under a timeout or taken to end.
Spec == Init /\ [][Next]_vars /\ WF_vars(Next)

-----------------------------------------------------------------------------
\* With the fast check on, no path reports as valid a string that one of its
\* samples refutes: "never trust an unverified result" (README.md:64-65).
RefutedNeverValid ==
    settings.fastCheck /\ verdict = "valid" => SimpMBA # "seen"

\* No simplifier runs twice on one query, whichever of the primary call, the
\* fallback of RouteSimplify and the fallback of its caller runs it: each run
\* may cost the whole timeout.
NoRouteTwice == \A r \in Routes : attempts[r] <= 1

\* In auto mode with the fallback on, "failed" means that every route was run
\* and none answered (TryAutoFallback, with the skip its callers pass).
FailedMeansExhausted ==
    verdict = "failed" /\ autoMode /\ settings.autoFallback
        => \A r \in Routes : attempts[r] = 1

\* An explicit --simplifier never runs another route (README.md:61-62).
ExplicitIsSingle ==
    ~autoMode => \A r \in Routes \ {settings.simplifier} : attempts[r] = 0

\* Every query is answered.
Answered == <>(verdict # None)

=============================================================================
