---------------------------- MODULE MCSolveClient ----------------------------
(***************************************************************************)
(* SolveClient on a small instance: two jobs of one session, one lost      *)
(* message, one restart of the backend.                                    *)
(***************************************************************************)
EXTENDS SolveClient

CONSTANTS j1, j2, none

=============================================================================
