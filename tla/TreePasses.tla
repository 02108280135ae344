----------------------------- MODULE TreePasses -----------------------------
(***************************************************************************)
(* The passes that GeneralSimplifier and mba_cli make over a tree, one     *)
(* after the other:                                                        *)
(*                                                                         *)
(*   refine        local rules, in rounds, until nothing changes;          *)
(*   substitute    operands are replaced by variables and put back, for    *)
(*                 every selection of them;                                *)
(*   accept        what follows when a substitution is accepted: the rules *)
(*                 for sums of bitwise operations, and refine if they have *)
(*                 changed the tree;                                       *)
(*   refactor      products are multiplied out, sums are factorized, and   *)
(*                 the tree is refined if that has changed it;             *)
(*   expand, factorize, markLinear and polish;                             *)
(*   simplify      the whole search of the general simplifier, direct its  *)
(*                 single pass, and hurry a search that meets its deadline.*)
(*                                                                         *)
(* The state is the history of the passes made over an input; the tree     *)
(* they have led to is a function of that history, Tree(done).             *)
(***************************************************************************)
EXTENDS GeneralSimplifier

CONSTANTS Calls,     \* the trees and the passes made over them: pairs
          Known,     \* those of which it is known that a pass changes the values
          Deadline   \* looks at the clock before the deadline of a hurried search

VARIABLES input, done, plan
vars == <<input, done, plan>>

(***************************************************************************)
(* The passes.                                                             *)
(***************************************************************************)
\* refactor, and what simplifyNonlinearSubexpressionStep does if it has changed the tree.
Refactored(n) == Made(refactor(n), LAMBDA m : IF m = n THEN n ELSE Tidied(m))

EndInPolish == {"polish", "simplify", "hurry", "direct"}
Looks == 2 ^ 20      \* more than a search makes

Pass(name, n) ==
    CASE name = "refine"     -> refine(n)
      [] name = "substitute" -> simplifyViaSubstitution(Work(n, FALSE, Looks)).node
      [] name = "accept"     -> Accepted(n)
      [] name = "refactor"   -> Refactored(n)
      [] name = "markLinear" -> markLinear(n)
      [] name = "expand"     -> expand(n, FALSE)
      [] name = "factorize"  -> factorizeSums(n, FALSE)
      [] name = "polish"     -> polish(n)
      [] name = "simplify"   -> SimplifiedTree(n, Looks, Search)
      [] name = "hurry"      -> SimplifiedTree(n, Deadline, Search)
      [] name = "direct"     -> SimplifiedTree(n, Looks, Direct)

RECURSIVE AfterPasses(_, _)
AfterPasses(n, names) == 
    IF names = <<>> THEN n
    ELSE Made(AfterPasses(n, Front(names)), LAMBDA m : Pass(Last(names), m))

\* The tree after the passes of a history.
Tree(history) == AfterPasses(input, history)

(***************************************************************************)
(* The specification.                                                      *)
(***************************************************************************)
Init ==
    /\ \E call \in Calls : input = call[1] /\ plan = call[2]
    /\ done = <<>>

Make(name) ==
    /\ plan # <<>> /\ Head(plan) = name
    /\ plan' = Tail(plan)
    /\ done' = Append(done, name)
    /\ UNCHANGED input

Refine     == Make("refine")
Substitute == Make("substitute")
Accept     == Make("accept")
Refactor   == Make("refactor")
MarkLinear == Make("markLinear")
Expand     == Make("expand")
Factorize  == Make("factorize")
Polish     == Make("polish")
Simplify   == Make("simplify")
Hurry      == Make("hurry")
SimplifyDirect == Make("direct")

Next ==
    \/ Refine \/ Substitute \/ Accept \/ Refactor
    \/ MarkLinear \/ Expand \/ Factorize \/ Polish
    \/ Simplify \/ Hurry \/ SimplifyDirect

Spec == Init /\ [][Next]_vars

(***************************************************************************)
(* Properties.  They speak of steps, since that is where trees are formed; *)
(* made is the history after the step.                                     *)
(***************************************************************************)

\* Type correctness of a tree: as many children as the type of a node asks for,
\* and words of twice the bits as constants (rules that divide leave them so).
RECURSIVE WellFormed(_, _)
WellFormed(n, least) ==
    /\ n.type \in {NodeTypes[i] : i \in DOMAIN NodeTypes}
    /\ CASE n.type = "CONSTANT" -> n.ch = <<>> /\ n.constant = MBAValue(n.constant)
         [] n.type = "VARIABLE" -> n.ch = <<>> /\ n.vname \in 1 .. NumVars
         [] n.type = "NEGATION" -> Len(n.ch) = 1
         [] n.type \in OpaqueOps \cup {"POWER"} -> Len(n.ch) = 2
         [] OTHER -> Len(n.ch) >= least
    /\ \A i \in DOMAIN n.ch : WellFormed(n.ch[i], least)

\* Every pass leaves a well-formed tree: no rule forgets to replace a node by
\* its only child or to drop the constant it has used up, whatever the rules
\* before it have done.  (resolveBitwiseNegationsInSums of polish may leave a
\* sum of one child.)
StaysWellFormed ==
    [][\A made \in {done'} : WellFormed(Tree(made), IF Last(made) \in EndInPolish THEN 1 ELSE 2)]_vars

\* The search ends with a tree: no loop over the children of a node goes on after
\* the list it runs over has been changed by the rules applied to a child.
StaysDefined == [][\A made \in {done'} : Tree(made) # undefined]_vars

\* A pass keeps what the tree denotes, for any values of the variables, in
\* whatever form earlier rules have left the tree, except where it is known that it
\* does not; and there the values do change.
KeepsValuesUnlessKnown ==
    [][\A before \in {Tree(done)} :
         \A after \in {Pass(plan[1], before)} :
             /\ after # undefined
             /\ Values(after) = Values(before) <=> <<input, done \o plan>> \notin Known]_vars

\* What the simplifier says of its rewrites (GeneralSimplifier.cpp:847-849): they all
\* keep what the tree denotes.
KeepsValues ==
    [][\A before \in {Tree(done)} :
         \A after \in {Pass(plan[1], before)} : Values(after) = Values(before)]_vars

\* refine ends because a round changes nothing, not because MAX_IT rounds are
\* made: no two rules undo each other's work.
Settles == [][plan[1] = "refine" => RefineRounds(Tree(done), 1).settled]_vars

=============================================================================
