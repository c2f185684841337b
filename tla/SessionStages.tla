---------------------------- MODULE SessionStages ----------------------------
(***************************************************************************)
(* The vocabulary shared by the models of the backend: the stages of a     *)
(* session (spec/enums.py, class SessionStage), the statuses of a solve    *)
(* job (api/job_store.py, class JobStatus), the error codes a session can  *)
(* carry (api/errors.py) and the rule by which every request that touches  *)
(* the spec derives the stage again                                        *)
(* (Session.recompute_stage_after_parse).                                  *)
(***************************************************************************)

\* SessionStage.PARSED is declared by the enumeration and assigned nowhere;
\* it stays in the type so that the type invariant does not hide it.
Stages == {"created", "parsed", "awaiting_column_mapping",
           "awaiting_clarification", "ready", "validated", "modeled",
           "solved", "explained", "failed", "cancelled"}

\* Stages that only a running solve job writes and that next_action() reports
\* as "internal" (VALIDATED, MODELED) or that the same job leaves at once.
TransientStages == {"validated", "modeled", "solved"}

JobStatuses == {"pending", "running", "done", "cancelled", "failed"}
TerminalStatuses == {"done", "cancelled", "failed"}

ParseErrorCodes == {"data_ingestion_error", "parse_error", "mapping_error"}
SolveErrorCodes == {"validation_error", "model_build_error", "solver_error"}
ErrorCodes == {"none", "cancelled"} \cup ParseErrorCodes \cup SolveErrorCodes

\* Mutant: the questions are looked at before the tables.
MutRecomputedStage(unconfirmedTables, openQuestions) ==
    IF openQuestions # {} THEN "awaiting_clarification"
    ELSE IF unconfirmedTables # {} THEN "awaiting_column_mapping"
    ELSE "ready"

\* The stage a spec deserves: first its unconfirmed tables, then its blocking
\* questions without an answer, then READY.
RecomputedStage(unconfirmedTables, openQuestions) ==
    IF unconfirmedTables # {} THEN "awaiting_column_mapping"
    ELSE IF openQuestions # {} THEN "awaiting_clarification"
    ELSE "ready"

=============================================================================
