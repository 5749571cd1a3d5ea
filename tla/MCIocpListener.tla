---------------------------- MODULE MCIocpListener ----------------------------
(* The model-checking instance of IocpListener.                            *)
EXTENDS IocpListener, TLC

CONSTANTS c1, c2, s1, n1, n2, n3

\* Sound in the safety runs: no definition tells two calls, or two pids, apart.
Symmetry == Permutations(Call) \cup Permutations(Pid)
=============================================================================
