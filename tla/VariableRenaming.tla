-------------------------- MODULE VariableRenaming --------------------------
(***************************************************************************)
(* What Simplifier does to the names of variables: the input is rewritten  *)
(* with X[0], X[1], ... before it is evaluated                             *)
(* (parse_and_replace_variables), and the result is rewritten with the     *)
(* original names: directly (replace_variables_back) or, with more than    *)
(* three variables, by way of v0, v1, v2 (try_simplify_fewer_variables).   *)
(* All of it is search and replace in the text, one name after the other,  *)
(* so here a text is a sequence of characters.                             *)
(*                                                                         *)
(* Every expression is a sum of variables: the operators do not matter     *)
(* except that they separate names.                                        *)
(***************************************************************************)
EXTENDS Naturals, Sequences, SequencesExt, FiniteSetsExt

CONSTANTS
  Names,        \* the names that may occur, in alphabetical order
  Inputs        \* the expressions: sequences of positions in Names

ASSUME NamesAssumption ==
  /\ \A n \in DOMAIN Names : Len(Names[n]) > 0
  /\ \A input \in Inputs : input # <<>> /\ ToSet(input) \subseteq DOMAIN Names

VARIABLES
  input,               \* the operands of the expression
  pc,
  i,                   \* the loop counter
  originalExpression,
  expr,                \* the simplified expression
  occuring             \* the variables left in it, ascending

vars == <<input, pc, i, originalExpression, expr, occuring>>

----------------------------------------------------------------------------

\* The operands, with the text name(n) for each, joined by "+".
Joined(operands, name(_)) ==
  FlattenSeq([k \in DOMAIN operands |->
                IF k = 1 THEN name(operands[k]) ELSE <<"+">> \o name(operands[k])])

Digit == <<"0", "1", "2", "3", "4", "5">>

\* The distinct variables of the input, in alphabetical order.
originalVariables ==
  LET used == ToSet(input)
  IN  SelectSeq([n \in DOMAIN Names |-> n], LAMBDA n : n \in used)

vnumber == Len(originalVariables)

OriginalName(v) == Names[originalVariables[v + 1]]

get_vname(v) == <<"X", "[">> \o <<Digit[v + 1]>> \o <<"]">>

Placeholder(k) == <<"v">> \o <<Digit[k + 1]>>

OccursAt(from, text, k) ==
  k + Len(from) - 1 <= Len(text) /\ SubSeq(text, k, k + Len(from) - 1) = from

\* Mistake: only the first occurrence is replaced.
replace_all_First(text, from, to) ==
  LET starts == {k \in DOMAIN text : OccursAt(from, text, k)}
  IN  IF starts = {} THEN text
      ELSE SubSeq(text, 1, Min(starts) - 1) \o to
             \o SubSeq(text, Min(starts) + Len(from), Len(text))

\* From left to right; what has been inserted is not searched again.
replace_all(text, from, to) ==
  LET step(done, k) ==
        CASE k <= done.read -> done
          [] k > done.read /\ OccursAt(from, text, k) ->
               [read |-> k + Len(from) - 1, out |-> done.out \o to]
          [] OTHER -> [read |-> k, out |-> Append(done.out, text[k])]
  IN  FoldLeftDomain(step, [read |-> 0, out |-> <<>>], text).out

----------------------------------------------------------------------------

Init ==
  /\ input \in Inputs
  /\ pc = "replace"
  /\ i = 0
  /\ originalExpression = Joined(input, LAMBDA n : Names[n])
  /\ expr = <<>>
  /\ occuring = <<>>

\* One round of the loop that ends parse_and_replace_variables.
ReplaceVariable ==
  /\ pc = "replace"
  /\ i < vnumber
  /\ originalExpression' = replace_all(originalExpression, OriginalName(i), get_vname(i))
  /\ i' = i + 1
  /\ UNCHANGED <<input, pc, expr, occuring>>

\* Mistake: the variables are counted from 1.
Simplify_FromOne ==
  /\ pc = "replace"
  /\ i = vnumber
  /\ \E left \in SUBSET (1 .. vnumber) :
       /\ left # {}
       /\ occuring' = SelectSeq([v \in 1 .. vnumber |-> v], LAMBDA v : v \in left)
       /\ expr' = Joined(occuring', get_vname)
       /\ pc' = IF vnumber > 3 /\ Len(occuring') <= 3 THEN "placeholders" ELSE "back"
  /\ i' = 0
  /\ UNCHANGED <<input, originalExpression>>

\* The simplified expression: a sum of some of the variables X[0], X[1], ...
\* Up to three are renamed by way of v0, v1, v2 if there were more before.
Simplify ==
  /\ pc = "replace"
  /\ i = vnumber
  /\ \E left \in SUBSET (0 .. vnumber - 1) :
       /\ left # {}
       /\ occuring' = SelectSeq([v \in 1 .. vnumber |-> v - 1], LAMBDA v : v \in left)
       /\ expr' = Joined(occuring', get_vname)
       /\ pc' = IF vnumber > 3 /\ Len(occuring') <= 3 THEN "placeholders" ELSE "back"
  /\ i' = 0
  /\ UNCHANGED <<input, originalExpression>>

\* try_simplify_fewer_variables: X[occuring[i]] becomes v<i> ...
ToPlaceholder ==
  /\ pc = "placeholders"
  /\ i < Len(occuring)
  /\ expr' = replace_all(expr, get_vname(occuring[i + 1]), Placeholder(i))
  /\ i' = i + 1
  /\ UNCHANGED <<input, pc, originalExpression, occuring>>

\* ... an inner Simplifier returns an expression in the same names ...
InnerSimplify ==
  /\ pc = "placeholders"
  /\ i = Len(occuring)
  /\ pc' = "originals"
  /\ i' = 0
  /\ UNCHANGED <<input, originalExpression, expr, occuring>>

\* Mistake: the i-th original variable instead of the i-th one that occurs.
FromPlaceholder_NotOccuring ==
  /\ pc = "originals"
  /\ i < Len(occuring)
  /\ expr' = replace_all(expr, Placeholder(i), OriginalName(i))
  /\ i' = i + 1
  /\ UNCHANGED <<input, pc, originalExpression, occuring>>

\* ... and v<i> becomes the original name.
FromPlaceholder ==
  /\ pc = "originals"
  /\ i < Len(occuring)
  /\ expr' = replace_all(expr, Placeholder(i), OriginalName(occuring[i + 1]))
  /\ i' = i + 1
  /\ UNCHANGED <<input, pc, originalExpression, occuring>>

FewerVariablesDone ==
  /\ pc = "originals"
  /\ i = Len(occuring)
  /\ pc' = "back"
  /\ i' = 0
  /\ UNCHANGED <<input, originalExpression, expr, occuring>>

\* replace_variables_back, on the result and on the rewritten input.
ReplaceBack ==
  /\ pc = "back"
  /\ i < vnumber
  /\ expr' = replace_all(expr, get_vname(i), OriginalName(i))
  /\ originalExpression' = replace_all(originalExpression, get_vname(i), OriginalName(i))
  /\ i' = i + 1
  /\ UNCHANGED <<input, pc, occuring>>

Return ==
  /\ pc = "back"
  /\ i = vnumber
  /\ pc' = "done"
  /\ UNCHANGED <<input, i, originalExpression, expr, occuring>>

Next ==
  \/ ReplaceVariable
  \/ Simplify
  \/ ToPlaceholder
  \/ InnerSimplify
  \/ FromPlaceholder
  \/ FewerVariablesDone
  \/ ReplaceBack
  \/ Return

Spec == Init /\ [][Next]_vars

----------------------------------------------------------------------------

Chars == UNION {ToSet(Names[n]) : n \in DOMAIN Names}
           \union ToSet(Digit) \union {"+", "X", "[", "]", "v"}

TypeOK ==
  /\ pc \in {"replace", "placeholders", "originals", "back", "done"}
  /\ i \in 0 .. vnumber
  /\ ToSet(originalExpression) \subseteq Chars
  /\ ToSet(expr) \subseteq Chars
  /\ ToSet(occuring) \subseteq 0 .. vnumber - 1

\* The position of a variable of the input among originalVariables.
IndexIn(n) == CHOOSE v \in 0 .. vnumber - 1 : originalVariables[v + 1] = n

Occurs(part, text) == \E k \in DOMAIN text : OccursAt(part, text, k)

\* No name is found in one that is replaced after it, or in a text that has been
\* put in for an earlier one.  (A name found in an earlier one does no harm.)
NamesApart ==
  \A v, w \in 0 .. vnumber - 1 :
    v < w => ~Occurs(OriginalName(v), OriginalName(w)) /\ ~Occurs(OriginalName(w), get_vname(v))

\* No placeholder is found in a name that has been restored before it is replaced,
\* unless it is replaced by itself.
PlaceholdersApart ==
  \A j, k \in DOMAIN occuring :
    j < k => \/ ~Occurs(Placeholder(k - 1), OriginalName(occuring[j]))
             \/ OriginalName(occuring[k]) = Placeholder(k - 1)

TakesPlaceholders == vnumber > 3 /\ Len(occuring) <= 3

\* "... in order not to replace substrings of variables": the expression that is
\* evaluated has X[i] exactly where the input has its i-th variable, if no name is
\* found in a later one or in what earlier ones have become, and only then; and if so,
\* the input has got its names back in the end.
RenamingExactIfApart ==
  /\ pc \in {"placeholders", "originals"} \/ (pc = "replace" /\ i = vnumber) =>
       (originalExpression = Joined(input, LAMBDA n : get_vname(IndexIn(n))) <=> NamesApart)
  /\ pc = "done" /\ NamesApart => originalExpression = Joined(input, LAMBDA n : Names[n])

\* The result is returned in the names of the input: on the direct way always, and
\* by way of placeholders if no placeholder is found in a name restored before it,
\* and only then.
NamesRestoredIfApart ==
  pc = "done" =>
    (expr = Joined(occuring, OriginalName) <=> (TakesPlaceholders => PlaceholdersApart))

=============================================================================
