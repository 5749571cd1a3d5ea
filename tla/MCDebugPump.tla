----------------------------- MODULE MCDebugPump -----------------------------
(* The model-checking instance of DebugPump.                               *)
EXTENDS DebugPump, TLC

CONSTANTS c1, c2, d1, h1, h2

\* Sound for the safety run, in which both children have an affinity mask:
\* no definition tells two children, or two handle values, apart.
Symmetry == Permutations(Child) \cup Permutations(Handle)
=============================================================================
