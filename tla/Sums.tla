-------------------------------- MODULE Sums --------------------------------
(***************************************************************************)
(* The sum that the linear rows and the horizon of the schedules are made  *)
(* of.                                                                     *)
(***************************************************************************)
EXTENDS Integers

\* The sum of f[e] over the members e of S: MapThenSumSet with a function, so that
\* sums can be proved about.
Total(f, S) ==
    LET sum[T \in SUBSET S] == IF T = {} THEN 0
                               ELSE LET e == CHOOSE e \in T : TRUE
                                    IN  f[e] + sum[T \ {e}]
    IN  sum[S]

=============================================================================
