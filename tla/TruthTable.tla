---------------------------- MODULE TruthTable ----------------------------
(***************************************************************************)
(* The result vector of the linear simplifier: entry i is the value of the *)
(* expression under the truth assignment whose bit v is variable v.        *)
(***************************************************************************)
EXTENDS Integers, Sequences, FiniteSets, SequencesExt

CONSTANTS
  vnumber,   \* the number of variables
  Modulus    \* 2^bitCount

ASSUME SizeAssumption == vnumber \in Nat \ {0} /\ Modulus \in Nat \ {0}

Word == 0 .. Modulus - 1

\* Variable v has the same value in groupsizes[v] entries in a row.  The last of
\* the sizes is that of the result vector.
groupsizes[v \in 0 .. vnumber] == IF v = 0 THEN 1 ELSE 2 * groupsizes[v - 1]

Entries == 0 .. groupsizes[vnumber] - 1

\* The truth value of variable v in entry i.
Bit(i, v) == (i \div groupsizes[v]) % 2 = 1

\* The entry as the set of variables that are 1.
AsSet(i) == {v \in 0 .. vnumber - 1 : Bit(i, v)}

=============================================================================
