--------------------------- MODULE MCSolvePipeline ---------------------------
(***************************************************************************)
(* SolvePipeline on small instances: one session, at most one file of each  *)
(* kind that needs a confirmation, one blocking question.                  *)
(***************************************************************************)
EXTENDS SolvePipeline, TLC

CONSTANTS t1, t2, j1, j2, s1, s2, vans, costs, q1, none

\* Nothing tells two request threads, or two jobs, apart.
ThreadSymmetry == Permutations(Threads)
JobSymmetry == Permutations(Jobs)

=============================================================================
