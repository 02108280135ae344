---------------------------- MODULE Router_proof ----------------------------
(***************************************************************************)
(* The routing of a query, for all values of the options and every answer  *)
(* of the routes: what the safety properties of Router say holds in every  *)
(* state.                                                                  *)
(***************************************************************************)
EXTENDS Router, TLAPS

\* The routes the loop of TryAutoFallback has passed by.
Passed == {order[n] : n \in 1 .. position - 1}

\* How often each route has run, told from where the query is.
Run(r) ==
  /\ pc \in {"route", "primary", "native"} => attempts[r] = 0
  /\ pc = "verify" => attempts[r] = IF r = choice THEN 1 ELSE 0
  /\ pc = "fallback" => attempts[r] = IF r = skip \/ r \in Passed THEN 1 ELSE 0
  /\ pc = "done" => attempts[r] \in 0 .. 1

\* What is known where the query is.
Where ==
  /\ pc \in {"primary", "verify"} => choice \in Routes
  /\ pc = "fallback" => autoMode /\ settings.autoFallback
  /\ pc \notin {"verify", "done"} => SimpMBA = None
  /\ verdict = None <=> pc # "done"

IInv ==
  /\ TypeOK
  /\ \A r \in Routes : Run(r)
  /\ Where
  /\ RefutedNeverValid
  /\ FailedMeansExhausted
  /\ ExplicitIsSingle
  /\ ~autoMode => choice \in {None, settings.simplifier}

----------------------------------------------------------------------------

\* The order of the fallback lists each route once.
LEMMA OrderListsRoutes ==
  /\ \A n \in 1 .. 3 : order[n] \in Routes
  /\ \A m, n \in 1 .. 3 : order[m] = order[n] => m = n
  /\ \A r \in Routes : \E n \in 1 .. 3 : order[n] = r
<1>1. CASE query.manyVars
  <2>1. order[1] = "general" /\ order[2] = "msimba" /\ order[3] = "external"
    BY <1>1 DEF order
  <2> QED
    BY <2>1 DEF Routes
<1>2. CASE ~query.manyVars
  <2>1. order[1] = "msimba" /\ order[2] = "general" /\ order[3] = "external"
    BY <1>2 DEF order
  <2> QED
    BY <2>1 DEF Routes
<1> QED
  BY <1>1, <1>2

\* An explicit choice is kept or leads to the native path.
LEMMA ChoiceIsARoute ==
  ASSUME TypeOK
  PROVE  /\ effectiveChoice \in Routes \cup {None}
         /\ ~autoMode => effectiveChoice \in {None, settings.simplifier}
<1>1. query.class \in Classes
  BY DEF TypeOK, Queries
<1>2. classified \in Routes \cup {None}
  BY <1>1 DEF classified, Classes, Routes
<1> QED
  BY <1>2 DEF effectiveChoice

\* Before RouteSimplify is called nothing has run and nothing is reported.
LEMMA InitIInv == Init => IInv
<1> SUFFICES ASSUME Init PROVE IInv
  OBVIOUS
<1>1. attempts \in [Routes -> 0 .. 2]
  BY DEF Init
<1>2. settings \in Settings /\ query \in Queries /\ nativeSays \in BOOLEAN
  BY DEF Init
<1>3. TypeOK
  BY <1>1, <1>2 DEF Init, TypeOK
<1> QED
  BY <1>3 DEF Init, IInv, Run, Where, RefutedNeverValid, FailedMeansExhausted,
              ExplicitIsSingle, None

\* RouteSimplify up to the call of the chosen simplifier.
LEMMA RouteIInv ==
  ASSUME IInv, Route
  PROVE  IInv'
<1>1. TypeOK /\ Where /\ pc = "route" /\ \A r \in Routes : attempts[r] = 0
  BY DEF IInv, Run, Route, RouteNative, RouteGated, RouteManyVariables, RoutePrimary
<1>2. /\ UNCHANGED <<settings, query, nativeSays, attempts, SimpMBA>>
      /\ choice' = effectiveChoice
  BY DEF Route, RouteNative, RouteGated, RouteManyVariables, RoutePrimary
<1>3. choice' \in Routes \cup {None} /\ (~autoMode' => choice' \in {None, settings.simplifier})
  BY <1>1, <1>2, ChoiceIsARoute DEF autoMode
<1>4. \/ pc' \in {"native", "primary"} /\ UNCHANGED <<loopVars, verdict>>
         /\ (pc' = "primary" => choice' \in Routes)
      \/ pc' = "done" /\ verdict' = "skipped" /\ UNCHANGED loopVars
      \/ pc' = "done" /\ verdict' = "failed" /\ UNCHANGED loopVars
         /\ ~(settings.autoFallback /\ autoMode)
      \/ pc' = "fallback" /\ skip' = None /\ position' = 1 /\ UNCHANGED verdict
         /\ settings.autoFallback /\ autoMode
  BY DEF Route, RouteNative, RouteGated, RouteManyVariables, RoutePrimary, NoAnswer,
         Reports, TryAutoFallback, Routes
<1>5. TypeOK'
  BY <1>1, <1>2, <1>3, <1>4 DEF TypeOK, loopVars
<1>6. \A r \in Routes : Run(r)'
  BY <1>1, <1>2, <1>4 DEF Run, Passed, Routes, None
<1>7. Where'
  BY <1>1, <1>2, <1>3, <1>4 DEF Where, autoMode, None
<1>8. RefutedNeverValid' /\ FailedMeansExhausted' /\ ExplicitIsSingle'
  BY <1>1, <1>2, <1>4
     DEF RefutedNeverValid, FailedMeansExhausted, ExplicitIsSingle, Where, autoMode, None
<1> QED
  BY <1>2, <1>3, <1>5, <1>6, <1>7, <1>8 DEF IInv, autoMode

\* The chosen simplifier, and what is made of its answer.
LEMMA PrimaryIInv ==
  ASSUME IInv, Primary
  PROVE  IInv'
<1>1. /\ TypeOK /\ Where /\ pc \in {"primary", "verify"} /\ verdict = None
      /\ choice \in Routes /\ (~autoMode => choice = settings.simplifier)
      /\ \A r \in Routes : attempts[r] = IF pc = "verify" /\ r = choice THEN 1 ELSE 0
  BY DEF IInv, Run, Where, Primary, PrimaryAnswers, PrimaryFails, ExternalUnavailable,
         VerifyPrimary, None, Routes
<1>2. UNCHANGED <<settings, query, choice, nativeSays>>
  BY DEF Primary, PrimaryAnswers, PrimaryFails, ExternalUnavailable, VerifyPrimary
<1>3. /\ attempts' \in [Routes -> 0 .. 2]
      /\ \A r \in Routes : attempts'[r] = IF pc' # "native" /\ r = choice THEN 1 ELSE 0
  <2>1. CASE PrimaryAnswers \/ PrimaryFails
    <3>1. pc = "primary" /\ pc' # "native" /\ attempts' = [attempts EXCEPT ![choice] = @ + 1]
      BY <2>1 DEF PrimaryAnswers, PrimaryFails, Ran, NoAnswer, TryAutoFallback, Reports
    <3> QED
      BY <1>1, <3>1 DEF TypeOK
  <2>2. CASE ExternalUnavailable \/ VerifyPrimary
    BY <1>1, <2>2 DEF ExternalUnavailable, VerifyPrimary, Reports, TypeOK
  <2> QED
    BY <2>1, <2>2 DEF Primary
<1>4. \/ /\ pc' = "verify" /\ SimpMBA' \in Answers
         /\ UNCHANGED <<loopVars, verdict>>
      \/ /\ pc' = "fallback" /\ skip' = choice /\ position' = 1
         /\ settings.autoFallback /\ autoMode
         /\ UNCHANGED <<SimpMBA, verdict>> /\ pc = "primary"
      \/ /\ pc' = "done" /\ verdict' = "failed" /\ ~(settings.autoFallback /\ autoMode)
         /\ UNCHANGED <<SimpMBA, loopVars>>
      \/ /\ pc' = "native"
         /\ UNCHANGED <<SimpMBA, loopVars, verdict>> /\ pc = "primary"
      \/ /\ pc' = "done" /\ verdict' \in {"valid", "invalid"}
         /\ settings.fastCheck /\ verdict' = "valid" => SimpMBA' # "seen"
         /\ UNCHANGED <<SimpMBA, loopVars>>
  <2>1. CASE PrimaryAnswers
    <3>1. SimpMBA' \in Answers
      BY <2>1 DEF PrimaryAnswers, AnswersOf, Answers
    <3> QED
      BY <2>1, <3>1 DEF PrimaryAnswers
  <2>2. CASE PrimaryFails
    BY <2>2 DEF PrimaryFails, NoAnswer, TryAutoFallback, Reports
  <2>3. CASE ExternalUnavailable
    BY <2>3 DEF ExternalUnavailable, loopVars
  <2>4. CASE VerifyPrimary
    BY <2>4 DEF VerifyPrimary, Accepted, Reports, fastCheckEquivalent, loopVars
  <2> QED
    BY <2>1, <2>2, <2>3, <2>4 DEF Primary
<1>5. TypeOK'
  BY <1>1, <1>2, <1>3, <1>4 DEF TypeOK, loopVars
<1>6. \A r \in Routes : Run(r)'
  BY <1>1, <1>2, <1>3, <1>4 DEF Run, Passed
<1>7. Where'
  BY <1>1, <1>2, <1>4 DEF Where, autoMode, None
<1>8. RefutedNeverValid' /\ FailedMeansExhausted' /\ ExplicitIsSingle'
  BY <1>1, <1>2, <1>3, <1>4
     DEF RefutedNeverValid, FailedMeansExhausted, ExplicitIsSingle, autoMode, None
<1> QED
  BY <1>1, <1>2, <1>5, <1>6, <1>7, <1>8 DEF IInv, autoMode

\* The loop of TryAutoFallback: a route it tries has not run before.
LEMMA FallbackIInv ==
  ASSUME IInv, Fallback
  PROVE  IInv'
<1>1. /\ TypeOK /\ Where /\ pc = "fallback" /\ autoMode /\ settings.autoFallback
      /\ SimpMBA = None /\ verdict = None
      /\ \A r \in Routes : attempts[r] = IF r = skip \/ r \in Passed THEN 1 ELSE 0
  BY DEF IInv, Run, Where, Fallback, FallbackAccepts, FallbackPasses, FallbackSkips,
         FallbackExhausted, Trying
<1>2. UNCHANGED <<settings, query, choice, nativeSays, skip>>
  BY DEF Fallback, FallbackAccepts, FallbackPasses, FallbackSkips, FallbackExhausted, loopVars
<1>3. ASSUME position \in 1 .. 3, position' = position + 1
      PROVE  Passed' = Passed \cup {order[position]} /\ order[position] \notin Passed
  <2>1. order' = order
    BY <1>2 DEF order
  <2> QED
    BY <1>3, <2>1, OrderListsRoutes DEF Passed
<1>4. ASSUME NEW r \in Routes, Trying(r), Ran(r)
      PROVE  /\ attempts' \in [Routes -> 0 .. 2]
             /\ attempts[r] = 0 /\ attempts'[r] = 1
             /\ \A q \in Routes : q # r => attempts'[q] = attempts[q]
  <2>1. r \notin Passed /\ r # skip
    BY <1>4, OrderListsRoutes DEF Trying, Passed
  <2> QED
    BY <1>1, <1>4, <2>1 DEF Ran, TypeOK
<1>5. CASE \E r \in Routes : FallbackAccepts(r)
  <2>1. PICK r \in Routes : FallbackAccepts(r)
    BY <1>5
  <2>2. /\ pc' = "done" /\ verdict' = "valid" /\ position' = position
        /\ SimpMBA' \in Answers /\ (settings.fastCheck => SimpMBA' # "seen")
    BY <2>1 DEF FallbackAccepts, Reports, loopVars, fastCheckEquivalent, AnswersOf, Answers
  <2>3. /\ attempts' \in [Routes -> 0 .. 2]
        /\ \A q \in Routes : attempts'[q] \in 0 .. 1
    BY <1>1, <1>4, <2>1 DEF FallbackAccepts
  <2> QED
    BY <1>1, <1>2, <2>2, <2>3
       DEF IInv, TypeOK, Run, Where, RefutedNeverValid, FailedMeansExhausted,
           ExplicitIsSingle, autoMode, None
<1>6. CASE FallbackSkips \/ \E r \in Routes : FallbackPasses(r)
  <2>1. /\ pc' = "fallback" /\ UNCHANGED <<SimpMBA, verdict>>
        /\ position \in 1 .. 3 /\ position' = position + 1
    BY <1>1, <1>6 DEF FallbackSkips, FallbackPasses, Trying
  <2>2. /\ attempts' \in [Routes -> 0 .. 2]
        /\ \A q \in Routes : attempts'[q] = IF q = skip' \/ q \in Passed' THEN 1 ELSE 0
    <3>1. CASE FallbackSkips
      BY <1>1, <1>2, <1>3, <2>1, <3>1 DEF FallbackSkips, TypeOK
    <3>2. ASSUME NEW r \in Routes, FallbackPasses(r)
          PROVE  <2>2!1 /\ <2>2!2
      BY <1>1, <1>2, <1>3, <1>4, <2>1, <3>2 DEF FallbackPasses, Trying
    <3> QED
      BY <1>6, <3>1, <3>2
  <2> QED
    BY <1>1, <1>2, <2>1, <2>2
       DEF IInv, TypeOK, Run, Where, RefutedNeverValid, FailedMeansExhausted,
           ExplicitIsSingle, autoMode, None
<1>7. CASE FallbackExhausted
  <2>1. /\ pc' = "done" /\ verdict' \in {"valid", "failed"} /\ position = 4
        /\ UNCHANGED <<attempts, SimpMBA, loopVars>>
    BY <1>7 DEF FallbackExhausted, Reports
  <2>2. \A r \in Routes : attempts[r] = 1
    <3>1. \A r \in Routes : r \in Passed
      BY <2>1, OrderListsRoutes DEF Passed
    <3> QED
      BY <1>1, <3>1
  <2> QED
    BY <1>1, <1>2, <2>1, <2>2
       DEF IInv, TypeOK, Run, Where, RefutedNeverValid, FailedMeansExhausted,
           ExplicitIsSingle, autoMode, None, loopVars
<1> QED
  BY <1>5, <1>6, <1>7 DEF Fallback

\* The native path: no route has run when simplify_linear_mba is called.
LEMMA NativeIInv ==
  ASSUME IInv, Native
  PROVE  IInv'
<1>1. /\ TypeOK /\ Where /\ pc = "native" /\ SimpMBA = None /\ verdict = None
      /\ \A r \in Routes : attempts[r] = 0
  BY DEF IInv, Run, Where, Native, NativeAnswers, NativeRefuses, None
<1>2. UNCHANGED <<settings, query, choice, attempts>>
  BY DEF Native, NativeAnswers, NativeRefuses
<1>3. CASE NativeAnswers
  <2>1. /\ pc' = "done" /\ verdict' \in {"valid", "invalid"} /\ UNCHANGED loopVars
        /\ SimpMBA' \in Answers
    BY <1>3 DEF NativeAnswers, Reports
  <2>2. nativeSays' \in BOOLEAN
    BY <1>3 DEF NativeAnswers
  <2>3. settings.fastCheck /\ verdict' = "valid" => SimpMBA' # "seen"
    BY <1>3 DEF NativeAnswers, Reports, NativeFastCheck, fastCheckEquivalent
  <2> QED
    BY <1>1, <1>2, <2>1, <2>2, <2>3
       DEF IInv, TypeOK, Run, Where, RefutedNeverValid, FailedMeansExhausted,
           ExplicitIsSingle, autoMode, None, loopVars
<1>4. CASE NativeRefuses
  <2>1. nativeSays' = TRUE /\ UNCHANGED SimpMBA
    BY <1>4 DEF NativeRefuses
  <2>2. \/ pc' = "fallback" /\ skip' = None /\ position' = 1 /\ UNCHANGED verdict
           /\ settings.autoFallback /\ autoMode
        \/ pc' = "done" /\ verdict' = "valid" /\ UNCHANGED loopVars
    BY <1>4 DEF NativeRefuses, TryAutoFallback, Reports
  <2> QED
    BY <1>1, <1>2, <2>1, <2>2
       DEF IInv, TypeOK, Run, Passed, Where, RefutedNeverValid, FailedMeansExhausted,
           ExplicitIsSingle, autoMode, None, loopVars, Routes
<1> QED
  BY <1>3, <1>4 DEF Native

\* Every step of the program keeps the invariant.
LEMMA StepIInv == IInv /\ [Next]_vars => IInv'
<1> SUFFICES ASSUME IInv, [Next]_vars PROVE IInv'
  OBVIOUS
<1>1. CASE Next
  BY <1>1, RouteIInv, PrimaryIInv, FallbackIInv, NativeIInv DEF Next
<1>2. CASE UNCHANGED vars
  BY <1>2 DEF IInv, vars, loopVars, TypeOK, Run, Passed, order, Where, RefutedNeverValid,
              FailedMeansExhausted, ExplicitIsSingle, autoMode
<1> QED
  BY <1>1, <1>2

\* The count of every route's runs can be told from where the query is, in
\* every state of the program: the primary call, the fallback's loop with the
\* routes it has passed by, the native path.
THEOREM Invariance == Spec => []IInv
BY InitIInv, StepIInv, PTL DEF Spec

----------------------------------------------------------------------------

\* The variables keep to their sets; the loop of TryAutoFallback never reads
\* past the last route of its order.
THEOREM TypeCorrect == Spec => []TypeOK
<1>1. IInv => TypeOK
  BY DEF IInv
<1> QED
  BY <1>1, Invariance, PTL

\* With the fast check on, neither the primary call, nor the fallback, nor the
\* native path of either caller reports as valid an answer a sample refutes.
THEOREM RefutedIsNeverReported == Spec => []RefutedNeverValid
<1>1. IInv => RefutedNeverValid
  BY DEF IInv
<1> QED
  BY <1>1, Invariance, PTL

\* The primary call of RouteSimplify and the loop of TryAutoFallback, with the
\* skip its callers pass, never run one route twice on a query.
THEOREM RoutesRunOnce == Spec => []NoRouteTwice
<1>1. IInv => NoRouteTwice
  <2> SUFFICES ASSUME IInv, NEW r \in Routes PROVE attempts[r] <= 1
    BY DEF NoRouteTwice
  <2>1. Run(r) /\ pc \in {"route", "primary", "verify", "fallback", "native", "done"}
    BY DEF IInv, TypeOK
  <2> QED
    BY <2>1 DEF Run
<1> QED
  BY <1>1, Invariance, PTL

\* In auto mode with the fallback on, RouteSimplify says FAILED only after each
\* of the three routes was run once and none answered.
THEOREM FailureIsExhaustion == Spec => []FailedMeansExhausted
<1>1. IInv => FailedMeansExhausted
  BY DEF IInv
<1> QED
  BY <1>1, Invariance, PTL

\* An explicit --simplifier runs no other route: the fallback is for auto mode,
\* also where the native path refuses the expression.
THEOREM ExplicitChoiceIsKept == Spec => []ExplicitIsSingle
<1>1. IInv => ExplicitIsSingle
  BY DEF IInv
<1> QED
  BY <1>1, Invariance, PTL

=============================================================================
