----------------------- MODULE MCCandidateReplacement -----------------------
(***************************************************************************)
(* Instances of CandidateReplacement.                                      *)
(***************************************************************************)
EXTENDS CandidateReplacement

a == -1
b == -2
Function(kind, ops) == [kind |-> kind, ops |-> ops]

\* Two sums that share one operand: both are results.
Shared == Function(<<"bin", "bin", "bin", "sink", "sink">>,
                   << <<a, b>>, <<1, a>>, <<1, b>>, <<2>>, <<3>> >>)

\* A chain: each instruction is the root of a tree that contains the ones before.
Chain == Function(<<"bin", "bin", "bin", "sink">>, << <<a, b>>, <<1, a>>, <<2, 1>>, <<3>> >>)

\* The middle of a tree is also the input of another one, by way of a cast.
Flag == Function(<<"bin", "bin", "bin", "cast", "sink", "sink">>,
                 << <<a, b>>, <<1, Const>>, <<2, 1>>, <<2>>, <<3>>, <<4>> >>)

\* An intrinsic: a result with a tree of its own, and a variable of the tree above it.
Intrinsic == Function(<<"bin", "bin", "call", "bin", "bin", "sink", "sink">>,
                      << <<a, b>>, <<1, a>>, <<2>>, <<3, a>>, <<4, 3>>, <<5>>, <<3>> >>)

\* A tree that reads what was loaded from an address that is computed.
Loaded == Function(<<"bin", "bin", "load", "bin", "bin", "sink", "sink">>,
                   << <<a, b>>, <<1, b>>, <<2>>, <<3, 1>>, <<4, 3>>, <<5>>, <<4>> >>)

\* Everything below the last two instructions is a result as well.
Results == Function(<<"bin", "bin", "bin", "bin", "sink", "sink", "sink">>,
                    << <<a, b>>, <<1, a>>, <<2, 1>>, <<3, b>>, <<1>>, <<2>>, <<4>> >>)

\* Functions of three binary operators over one another and an argument: the last
\* one is a result, and so may be one of the others.
Operands(S) == {<<u, v>> : u, v \in S} \ {<<1, a>>, <<2, a>>, <<2, 1>>}
OfThree ==
    {Function(<<"bin", "bin", "bin", "sink", "sink">>, << <<a, b>>, <<a, u>>, q, <<3>>, <<r>> >>) :
        u \in {a, 1}, q \in Operands({a, 1, 2}), r \in {1, 2, 3}}

\* x & ~(y|z), which is not shared.
NotShared == Function(<<"bin", "bin", "bin", "sink">>, << <<a, b>>, <<1, Const>>, <<2, a>>, <<3>> >>)

\* sext(x), ~(x&y), x+y+x, ~(~x|(y|z)), and a wrong one.
Replacement(binary, counted, instructions, right) ==
    [binary |-> binary, counted |-> counted, instructions |-> instructions, right |-> right]
MCReplacements == {Replacement(0, 0, 1, TRUE), Replacement(1, 2, 2, TRUE),
                   Replacement(2, 2, 2, TRUE), Replacement(2, 4, 4, TRUE),
                   Replacement(1, 1, 1, FALSE)}

MCProcesses == {<<Shared>>, <<Chain>>, <<Flag>>, <<Intrinsic>>, <<Loaded>>, <<Results>>, <<NotShared>>,
                <<Shared, Chain>>}
                   \cup {<<g>> : g \in OfThree}
=============================================================================
