------------------------- MODULE MCVariableRenaming -------------------------
(***************************************************************************)
(* Instances of VariableRenaming.                                          *)
(***************************************************************************)
EXTENDS VariableRenaming

\* X, aX, v1, x, x1, xv2: some are found in others, and X in every X[i]; v1 and xv2
\* hold a placeholder.
NestedNames == << <<"X">>, <<"a", "X">>, <<"v", "1">>, <<"x">>, <<"x", "1">>, <<"x", "v", "2">> >>

UpTo(n) == UNION {[1 .. k -> DOMAIN Names] : k \in 1 .. n}

UpToFive == UpTo(5)
=============================================================================
