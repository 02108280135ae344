----------------------- MODULE MCParallelFastCheck -----------------------
(***************************************************************************)
(* Instances of ParallelFastCheck.                                         *)
(***************************************************************************)
EXTENDS ParallelFastCheck

\* Equivalent expressions, expressions that differ on a corner, on every sample
\* with a given first draw, and on the one sample <<3, 4>> the second thread of
\* a serial execution draws.
SomeDifferences ==
  {{}, {s \in Samples : s[1] = 0}, {s \in Samples : s[1] = 2}, {<<3, 4>>}}
=============================================================================
