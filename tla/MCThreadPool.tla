---------------------------- MODULE MCThreadPool ----------------------------
(* Small instances of ThreadPool for TLC.                                  *)
EXTENDS ThreadPool, TLC

\* Workers and jobs are interchangeable in every action and invariant.
Symmetry == Permutations(Workers) \cup Permutations(Jobs)
=============================================================================
