---------------------------- MODULE JobLifecycle ----------------------------
(***************************************************************************)
(* What a client of POST /solve, GET /jobs/{id} and POST /jobs/{id}/cancel *)
(* is promised, without sessions, stages or threads: an accepted job       *)
(* starts, decides once whether it heard a cancel, and ends.  A job that   *)
(* was asked to cancel before it committed to its outcome never reports    *)
(* DONE; one that was not asked never reports CANCELLED.                   *)
(***************************************************************************)
EXTENDS SessionStages

CONSTANT Jobs

VARIABLES status,     \* what GET /jobs/{id} answers; "none" before POST /solve
          asked,      \* a cancel was requested
          committed   \* the job has decided to report DONE

vars == <<status, asked, committed>>

Init == /\ status = [j \in Jobs |-> "none"]
        /\ asked = [j \in Jobs |-> FALSE]
        /\ committed = [j \in Jobs |-> FALSE]

Moves(j, from, to) == /\ status[j] = from
                      /\ status' = [status EXCEPT ![j] = to]
                      /\ UNCHANGED <<asked, committed>>

Accept(j) == Moves(j, "none", "pending")
Start(j) == Moves(j, "pending", "running")

Ask(j) == /\ status[j] # "none"
          /\ asked' = [asked EXCEPT ![j] = TRUE]
          /\ UNCHANGED <<status, committed>>

Commit(j) == /\ status[j] = "running"
             /\ ~asked[j]
             /\ committed' = [committed EXCEPT ![j] = TRUE]
             /\ UNCHANGED <<status, asked>>

Finish(j) == committed[j] /\ Moves(j, "running", "done")
Stop(j) == asked[j] /\ ~committed[j] /\ Moves(j, "running", "cancelled")
Fail(j) == ~committed[j] /\ Moves(j, "running", "failed")

Work(j) == Start(j) \/ Commit(j) \/ Finish(j) \/ Stop(j) \/ Fail(j)
Next == \E j \in Jobs : Accept(j) \/ Ask(j) \/ Work(j)

Spec == Init /\ [][Next]_vars /\ \A j \in Jobs : WF_vars(Work(j))

=============================================================================
