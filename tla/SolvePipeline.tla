---------------------------- MODULE SolvePipeline ----------------------------
(***************************************************************************)
(* One session of the backend under concurrent requests: the request      *)
(* handlers of api/main.py run by a pool of threads, the functions of      *)
(* api/pipeline.py they call, and the daemon threads that run accepted     *)
(* solve jobs.  The session is one shared mutable object without a lock,   *)
(* so a thread may be interrupted between any two of its reads and writes  *)
(* of it; every write of session.stage, session.error_code, session.spec,  *)
(* session.result and job.status is a step of its own.                     *)
(*                                                                         *)
(* What the data of a spec says is abstracted to its gates: the tables     *)
(* that wait for the user's confirmation, the blocking questions without   *)
(* an answer, and a revision that every content change increments.  The    *)
(* verdicts of the LLM, the validator, the model builder and the solver    *)
(* are nondeterministic.                                                   *)
(***************************************************************************)
EXTENDS Naturals, FiniteSets, SessionStages

CONSTANTS Threads,        \* request threads of the server
          Jobs,           \* solve jobs that can be accepted
          Specs,          \* spec objects the parser can allocate
          Mappings,       \* files proposed as entity or parameter tables
          PairwiseTables, \* files proposed as pairwise cost tables
          Ambiguities,    \* blocking questions a spec may ask
          NoSpec,         \* session.spec is None
          MaxRev          \* bound: content revisions of one spec object

ASSUME NoSpecAssumption == NoSpec \notin Specs
ASSUME TablesAssumption == Mappings \cap PairwiseTables = {}
ASSUME MaxRevAssumption == MaxRev \in Nat

Tables == Mappings \cup PairwiseTables

VARIABLES
    stage, spec, errorCode,     \* the session: stage, spec, error_code
    result, explanation,        \* the session: what they were computed from
    allocated,                  \* spec objects built so far
    tables, unconfirmed,        \* per spec object: tables, and those not confirmed
    questions, open,            \* per spec object: questions, and those unanswered
    rev,                        \* per spec object: its content revision
    pc, mySpec, target, code,   \* per request thread: program counter and locals
    jobStatus, cancelEvent,     \* per job: what clients read and set
    jobPc, jobSpec, jobRev, jobCode, \* per job: program counter and locals
    published,                  \* history: the job wrote session.result
    disturbed                   \* history: a request met other work halfway, or raised

sessionVars == <<stage, spec, errorCode, result, explanation>>
specVars == <<allocated, tables, unconfirmed, questions, open, rev>>
threadVars == <<pc, mySpec, target, code>>
jobVars == <<jobStatus, cancelEvent, jobPc, jobSpec, jobRev, jobCode, published>>
vars == <<sessionVars, specVars, threadVars, jobVars, disturbed>>

Nothing == [spec |-> NoSpec, rev |-> 0]
ThreadPcs == {"idle", "parsing", "install", "clear_error", "ingest",
              "recompute", "store_stage", "write_code"}
JobChecks == {"check_start", "check_build", "check_solve", "check_explain"}
JobMarks == {"mark_validated", "mark_modeled", "mark_solved", "mark_explained"}
JobPcs == {"none", "start", "gate", "take", "validate", "build", "solve",
           "explain", "finish", "set_done", "fail", "fail_code", "fail_status",
           "abort", "abort_status", "end"} \cup JobChecks \cup JobMarks

\* The variables and their types.
TypeOK ==
    /\ stage \in Stages
    /\ spec \in Specs \cup {NoSpec}
    /\ errorCode \in ErrorCodes
    /\ result \in [spec : Specs \cup {NoSpec}, rev : Nat]
    /\ explanation \in [spec : Specs \cup {NoSpec}, rev : Nat]
    /\ allocated \in SUBSET Specs
    /\ tables \in [Specs -> SUBSET Tables]
    /\ unconfirmed \in [Specs -> SUBSET Tables]
    /\ questions \in [Specs -> SUBSET Ambiguities]
    /\ open \in [Specs -> SUBSET Ambiguities]
    /\ rev \in [Specs -> Nat]
    /\ pc \in [Threads -> ThreadPcs]
    /\ mySpec \in [Threads -> Specs \cup {NoSpec}]
    /\ target \in [Threads -> Stages]
    /\ code \in [Threads -> ErrorCodes]
    /\ jobStatus \in [Jobs -> JobStatuses \cup {"none"}]
    /\ cancelEvent \in [Jobs -> BOOLEAN]
    /\ jobPc \in [Jobs -> JobPcs]
    /\ jobSpec \in [Jobs -> Specs \cup {NoSpec}]
    /\ jobRev \in [Jobs -> Nat]
    /\ jobCode \in [Jobs -> ErrorCodes]
    /\ published \in [Jobs -> BOOLEAN]
    /\ disturbed \in BOOLEAN

Init ==
    /\ stage = "created"
    /\ spec = NoSpec
    /\ errorCode = "none"
    /\ result = Nothing
    /\ explanation = Nothing
    /\ allocated = {}
    /\ tables = [s \in Specs |-> {}]
    /\ unconfirmed = [s \in Specs |-> {}]
    /\ questions = [s \in Specs |-> {}]
    /\ open = [s \in Specs |-> {}]
    /\ rev = [s \in Specs |-> 0]
    /\ pc = [t \in Threads |-> "idle"]
    /\ mySpec = [t \in Threads |-> NoSpec]
    /\ target = [t \in Threads |-> "created"]
    /\ code = [t \in Threads |-> "none"]
    /\ jobStatus = [j \in Jobs |-> "none"]
    /\ cancelEvent = [j \in Jobs |-> FALSE]
    /\ jobPc = [j \in Jobs |-> "none"]
    /\ jobSpec = [j \in Jobs |-> NoSpec]
    /\ jobRev = [j \in Jobs |-> 0]
    /\ jobCode = [j \in Jobs |-> "none"]
    /\ published = [j \in Jobs |-> FALSE]
    /\ disturbed = FALSE

-----------------------------------------------------------------------------
(* History, for the properties only: was another request or a solve job in  *)
(* the middle of its work when thread t wrote to the session or the spec?   *)
JobActive(j) == jobPc[j] \notin {"none", "end"}
InCompany(t) == \/ \E j \in Jobs : JobActive(j)
                \/ \E u \in Threads \ {t} : pc[u] # "idle"
NoteCompany(t) == disturbed' = (disturbed \/ InCompany(t))

GoTo(t, where) == pc' = [pc EXCEPT ![t] = where]
Bump(s) == rev' = [rev EXCEPT ![s] = @ + 1]
MayEdit == spec # NoSpec /\ rev[spec] < MaxRev

-----------------------------------------------------------------------------
(* POST /parse: run_parse.                                                  *)

\* The request arrives; reading the files and calling the LLM takes seconds
\* and touches none of the state modelled here.
ParseBegin(t) ==
    /\ pc[t] = "idle"
    /\ GoTo(t, "parsing")
    /\ UNCHANGED <<sessionVars, specVars, mySpec, target, code, jobVars, disturbed>>

\* A file, the LLM's answer or a table cannot be read: FAILED, then the code.
\* The old spec, result and explanation stay.
ParseFails(t) ==
    /\ pc[t] = "parsing"
    /\ \E c \in ParseErrorCodes : code' = [code EXCEPT ![t] = c]
    /\ target' = [target EXCEPT ![t] = "failed"]
    /\ GoTo(t, "store_stage")
    /\ UNCHANGED <<sessionVars, specVars, mySpec, jobVars, disturbed>>

\* session.file_rows[name] has no rows for a file uploaded after the reading
\* loop (or the dict changed while it was iterated): the handler raises, the
\* session is as before.
ParseRaises(t) ==
    /\ pc[t] = "parsing"
    /\ GoTo(t, "idle")
    /\ UNCHANGED <<sessionVars, specVars, mySpec, target, code, jobVars, disturbed>>

FreshSpec == CHOOSE s \in Specs : s \notin allocated

\* The parser returns a new spec object with whatever tables and questions;
\* all of them are unconfirmed and unanswered.  Only this thread knows it.
ParseBuildsSpec(t) ==
    /\ pc[t] = "parsing"
    /\ Specs \ allocated # {}
    /\ allocated' = allocated \cup {FreshSpec}
    /\ mySpec' = [mySpec EXCEPT ![t] = FreshSpec]
    /\ \E T \in SUBSET Tables, Q \in SUBSET Ambiguities :
          /\ tables' = [tables EXCEPT ![FreshSpec] = T]
          /\ unconfirmed' = [unconfirmed EXCEPT ![FreshSpec] = T]
          /\ questions' = [questions EXCEPT ![FreshSpec] = Q]
          /\ open' = [open EXCEPT ![FreshSpec] = Q]
    /\ GoTo(t, "install")
    /\ UNCHANGED <<sessionVars, rev, target, code, jobVars, disturbed>>

\* Mutant: a new parse drops the old result at once.
MutInstallSpecDropsResult(t) ==
    /\ pc[t] = "install"
    /\ spec' = mySpec[t]
    /\ mySpec' = [mySpec EXCEPT ![t] = NoSpec]
    /\ result' = Nothing
    /\ GoTo(t, "clear_error")
    /\ NoteCompany(t)
    /\ UNCHANGED <<stage, errorCode, explanation, specVars, target, code, jobVars>>

\* session.spec = spec, while the stage is still that of the old spec.
InstallSpec(t) ==
    /\ pc[t] = "install"
    /\ spec' = mySpec[t]
    /\ mySpec' = [mySpec EXCEPT ![t] = NoSpec]
    /\ GoTo(t, "clear_error")
    /\ NoteCompany(t)
    /\ UNCHANGED <<stage, errorCode, result, explanation, specVars, target, code, jobVars>>

ClearError(t) ==
    /\ pc[t] = "clear_error"
    /\ errorCode' = "none"
    /\ GoTo(t, "recompute")
    /\ NoteCompany(t)
    /\ UNCHANGED <<stage, spec, result, explanation, specVars,
                   mySpec, target, code, jobVars>>

-----------------------------------------------------------------------------
(* recompute_stage_after_parse, shared by every handler that touches the    *)
(* spec: the gates are read first, the stage is assigned afterwards.        *)

Recompute(t) ==
    /\ pc[t] = "recompute"
    /\ target' = [target EXCEPT ![t] = RecomputedStage(unconfirmed[spec], open[spec])]
    /\ GoTo(t, "store_stage")
    /\ UNCHANGED <<sessionVars, specVars, mySpec, code, jobVars, disturbed>>

\* session.stage = ...; a failing or cancelling handler writes error_code next.
StoreStage(t) ==
    /\ pc[t] = "store_stage"
    /\ stage' = target[t]
    /\ target' = [target EXCEPT ![t] = "created"]
    /\ GoTo(t, IF code[t] = "none" THEN "idle" ELSE "write_code")
    /\ NoteCompany(t)
    /\ UNCHANGED <<spec, errorCode, result, explanation, specVars, mySpec, code, jobVars>>

\* Mutant: the handler forgets the code.
MutWriteErrorCode(t) ==
    /\ pc[t] = "write_code"
    /\ code' = [code EXCEPT ![t] = "none"]
    /\ GoTo(t, "idle")
    /\ NoteCompany(t)
    /\ UNCHANGED <<sessionVars, specVars, mySpec, target, jobVars>>

WriteErrorCode(t) ==
    /\ pc[t] = "write_code"
    /\ errorCode' = code[t]
    /\ code' = [code EXCEPT ![t] = "none"]
    /\ GoTo(t, "idle")
    /\ NoteCompany(t)
    /\ UNCHANGED <<stage, spec, result, explanation, specVars, mySpec, target, jobVars>>

-----------------------------------------------------------------------------
(* POST /column-mapping, /pairwise-table, /clarify and /spec.               *)

\* confirm_column_mapping marks the mapping before it ingests the rows.
ConfirmMapping(t, m) ==
    /\ pc[t] = "idle"
    /\ MayEdit
    /\ m \in tables[spec]
    /\ unconfirmed' = [unconfirmed EXCEPT ![spec] = @ \ {m}]
    /\ GoTo(t, "ingest")
    /\ NoteCompany(t)
    /\ UNCHANGED <<sessionVars, allocated, tables, questions, open, rev,
                   mySpec, target, code, jobVars>>

\* The rows go to the spec that is the session's now.
IngestRows(t) ==
    /\ pc[t] = "ingest"
    /\ Bump(spec)
    /\ GoTo(t, "recompute")
    /\ NoteCompany(t)
    /\ UNCHANGED <<sessionVars, allocated, tables, unconfirmed, questions, open,
                   mySpec, target, code, jobVars>>

\* rows_to_entities rejects a duplicate ID after the old rows were dropped:
\* the request ends in a 500 and the stage is not recomputed.
IngestRaises(t) ==
    /\ pc[t] = "ingest"
    /\ Bump(spec)
    /\ GoTo(t, "idle")
    /\ disturbed' = TRUE
    /\ UNCHANGED <<sessionVars, allocated, tables, unconfirmed, questions, open,
                   mySpec, target, code, jobVars>>

ConfirmPairwise(t, p) ==
    /\ pc[t] = "idle"
    /\ MayEdit
    /\ p \in tables[spec]
    /\ unconfirmed' = [unconfirmed EXCEPT ![spec] = @ \ {p}]
    /\ Bump(spec)
    /\ GoTo(t, "recompute")
    /\ NoteCompany(t)
    /\ UNCHANGED <<sessionVars, allocated, tables, questions, open,
                   mySpec, target, code, jobVars>>

Answer(t, A) ==
    /\ pc[t] = "idle"
    /\ MayEdit
    /\ A \subseteq questions[spec]
    /\ open' = [open EXCEPT ![spec] = @ \ A]
    /\ Bump(spec)
    /\ NoteCompany(t)
    /\ UNCHANGED <<sessionVars, allocated, tables, unconfirmed, questions, mySpec, jobVars>>

\* resolve_ambiguities with ordinary answers; answers may be given again.
Clarify(t, A) ==
    /\ Answer(t, A)
    /\ GoTo(t, "recompute")
    /\ UNCHANGED <<target, code>>

\* One answer is "cancel": it counts as the question's resolution, the loop
\* stops at it and the handler returns without recomputing the stage.
ClarifyCancel(t, A) ==
    /\ A # {}
    /\ Answer(t, A)
    /\ target' = [target EXCEPT ![t] = "cancelled"]
    /\ code' = [code EXCEPT ![t] = "cancelled"]
    /\ GoTo(t, "store_stage")

\* Mutant: edit_spec forgets to recompute the stage.
MutEditSpec(t) ==
    /\ pc[t] = "idle"
    /\ MayEdit
    /\ Bump(spec)
    /\ NoteCompany(t)
    /\ UNCHANGED <<sessionVars, allocated, tables, unconfirmed, questions, open,
                   threadVars, jobVars>>

\* edit_spec: changes that all apply, or an edit that raises (an unknown
\* objective sense, any constraint patch) after an earlier one was applied.
EditSpec(t) ==
    /\ pc[t] = "idle"
    /\ MayEdit
    /\ Bump(spec)
    /\ GoTo(t, "recompute")
    /\ NoteCompany(t)
    /\ UNCHANGED <<sessionVars, allocated, tables, unconfirmed, questions, open,
                   mySpec, target, code, jobVars>>

EditRaises(t) ==
    /\ pc[t] = "idle"
    /\ MayEdit
    /\ Bump(spec)
    /\ disturbed' = TRUE
    /\ UNCHANGED <<sessionVars, allocated, tables, unconfirmed, questions, open,
                   threadVars, jobVars>>

-----------------------------------------------------------------------------
(* POST /solve and POST /jobs/{id}/cancel.                                  *)

\* The handler's own gate; a refused request (409) changes nothing.  Creating
\* the job and starting its thread only enables JobStart, so they are one step
\* with the gate.
Solve(t, j) ==
    /\ pc[t] = "idle"
    /\ jobPc[j] = "none"
    /\ stage # "cancelled" /\ spec # NoSpec /\ stage = "ready"
    /\ jobPc' = [jobPc EXCEPT ![j] = "start"]
    /\ jobStatus' = [jobStatus EXCEPT ![j] = "pending"]
    /\ UNCHANGED <<sessionVars, specVars, threadVars, cancelEvent, jobSpec,
                   jobRev, jobCode, published, disturbed>>

\* The event can be set at any time, also when the job has ended.
CancelJob(j) ==
    /\ jobPc[j] # "none"
    /\ ~cancelEvent[j]
    /\ cancelEvent' = [cancelEvent EXCEPT ![j] = TRUE]
    /\ UNCHANGED <<sessionVars, specVars, threadVars, jobStatus, jobPc, jobSpec,
                   jobRev, jobCode, published, disturbed>>

-----------------------------------------------------------------------------
(* The job's thread: _run in api/main.py around pipeline.run_solve.         *)

JobGoTo(j, where) == jobPc' = [jobPc EXCEPT ![j] = where]
JobSets(j, status) == jobStatus' = [jobStatus EXCEPT ![j] = status]
\* Mutants: the final status is lost; a failure is raised without marking the
\* session.
MutJobEndsSilently(j, status) ==
    /\ UNCHANGED jobStatus
    /\ JobGoTo(j, "end")
    /\ jobSpec' = [jobSpec EXCEPT ![j] = NoSpec]
    /\ jobRev' = [jobRev EXCEPT ![j] = 0]
    /\ jobCode' = [jobCode EXCEPT ![j] = "none"]
MutJobFailsUnmarked(j, c) == JobGoTo(j, "fail_status") /\ jobCode' = [jobCode EXCEPT ![j] = c]

\* The thread returns: its locals are gone.
JobEnds(j, status) ==
    /\ JobSets(j, status)
    /\ JobGoTo(j, "end")
    /\ jobSpec' = [jobSpec EXCEPT ![j] = NoSpec]
    /\ jobRev' = [jobRev EXCEPT ![j] = 0]
    /\ jobCode' = [jobCode EXCEPT ![j] = "none"]

\* A step of run_solve fails with error code c.
JobFails(j, c) == JobGoTo(j, "fail") /\ jobCode' = [jobCode EXCEPT ![j] = c]

JobStart(j) ==
    /\ jobPc[j] = "start"
    /\ JobSets(j, "running")
    /\ JobGoTo(j, "gate")
    /\ UNCHANGED <<sessionVars, specVars, threadVars, cancelEvent, jobSpec,
                   jobRev, jobCode, published, disturbed>>

\* run_solve checks the stage again; a GateError fails the job and leaves the
\* session alone.
JobGate(j) ==
    /\ jobPc[j] = "gate"
    /\ \/ /\ stage # "cancelled" /\ spec # NoSpec /\ stage = "ready"
          /\ JobGoTo(j, "take")
          /\ UNCHANGED jobCode
       \/ /\ stage = "cancelled" \/ spec = NoSpec \/ stage # "ready"
          /\ JobGoTo(j, "fail_status")
          /\ jobCode' = [jobCode EXCEPT ![j] = "solver_error"]
    /\ UNCHANGED <<sessionVars, specVars, threadVars, jobStatus, cancelEvent,
                   jobSpec, jobRev, published, disturbed>>

\* spec = session.spec: the job works on this object from here on.
JobTakeSpec(j) ==
    /\ jobPc[j] = "take"
    /\ jobSpec' = [jobSpec EXCEPT ![j] = spec]
    /\ JobGoTo(j, "check_start")
    /\ UNCHANGED <<sessionVars, specVars, threadVars, jobStatus, cancelEvent,
                   jobRev, jobCode, published, disturbed>>

\* Mutants: a check that misses the event in front of the solver, or at the end.
MutHeardCancelNotBeforeSolver(j) == cancelEvent[j] /\ jobPc[j] # "check_solve"
MutHeardCancelNotAtTheEnd(j) == cancelEvent[j] /\ jobPc[j] # "finish"

HeardCancel(j) == cancelEvent[j]

AfterCheck == [check_start |-> "validate", check_build |-> "build",
               check_solve |-> "solve", check_explain |-> "explain"]

\* _check_cancel at the four stage boundaries.
CheckCancel(j) ==
    /\ jobPc[j] \in JobChecks
    /\ JobGoTo(j, IF HeardCancel(j) THEN "abort" ELSE AfterCheck[jobPc[j]])
    /\ UNCHANGED <<sessionVars, specVars, threadVars, jobStatus, cancelEvent,
                   jobSpec, jobRev, jobCode, published, disturbed>>

\* SolveCancelledError: the session, then the job.
JobAbort(j) ==
    /\ jobPc[j] = "abort"
    /\ stage' = "cancelled"
    /\ JobGoTo(j, "abort_status")
    /\ UNCHANGED <<spec, errorCode, result, explanation, specVars, threadVars,
                   jobStatus, cancelEvent, jobSpec, jobRev, jobCode, published, disturbed>>

JobAbortStatus(j) ==
    /\ jobPc[j] = "abort_status"
    /\ JobEnds(j, "cancelled")
    /\ UNCHANGED <<sessionVars, specVars, threadVars, cancelEvent, published, disturbed>>

\* Mutant: validate_spec forgets the gate check.
MutGatePassed(s) == TRUE

GatePassed(s) == open[s] = {}

\* validate_spec rejects every spec with an unanswered blocking question, and
\* any spec its other checks find fault with.
Validate(j) ==
    /\ jobPc[j] = "validate"
    /\ \/ /\ GatePassed(jobSpec[j])
          /\ JobGoTo(j, "mark_validated")
          /\ UNCHANGED jobCode
       \/ JobFails(j, "validation_error")
    /\ UNCHANGED <<sessionVars, specVars, threadVars, jobStatus, cancelEvent,
                   jobSpec, jobRev, published, disturbed>>

\* Nobody in run_solve catches what the adapter, the validator itself or the
\* reading of the confirmed tables raises (an infinite calendar bound): the job
\* fails and the stage stays what it is, VALIDATED in the last case.
JobRaises(j) ==
    /\ jobPc[j] \in {"gate", "validate", "build"}
    /\ JobGoTo(j, "fail_status")
    /\ jobCode' = [jobCode EXCEPT ![j] = "solver_error"]
    /\ disturbed' = (disturbed \/ jobPc[j] = "build")
    /\ UNCHANGED <<sessionVars, specVars, threadVars, jobStatus, cancelEvent,
                   jobSpec, jobRev, published>>

\* The model is built from the content the spec has now.
BuildModel(j) ==
    /\ jobPc[j] = "build"
    /\ \/ /\ jobRev' = [jobRev EXCEPT ![j] = rev[jobSpec[j]]]
          /\ JobGoTo(j, "mark_modeled")
          /\ UNCHANGED jobCode
       \/ /\ JobFails(j, "model_build_error")
          /\ UNCHANGED jobRev
    /\ UNCHANGED <<sessionVars, specVars, threadVars, jobStatus, cancelEvent,
                   jobSpec, published, disturbed>>

\* session.result = route_and_solve(...); its time limit makes it return.
RouteAndSolve(j) ==
    /\ jobPc[j] = "solve"
    /\ \/ /\ result' = [spec |-> jobSpec[j], rev |-> jobRev[j]]
          /\ published' = [published EXCEPT ![j] = TRUE]
          /\ JobGoTo(j, "mark_solved")
          /\ UNCHANGED jobCode
       \/ /\ JobFails(j, "solver_error")
          /\ UNCHANGED <<result, published>>
    /\ UNCHANGED <<stage, spec, errorCode, explanation, specVars, threadVars,
                   jobStatus, cancelEvent, jobSpec, jobRev, disturbed>>

\* The explanation is made from the session's result of the moment; when it
\* fails, the error message and the absent error code tell so.
Explain(j) ==
    /\ jobPc[j] = "explain"
    /\ \/ explanation' = result /\ UNCHANGED errorCode
       \/ explanation' = Nothing /\ errorCode' = "none"
    /\ JobGoTo(j, "mark_explained")
    /\ UNCHANGED <<stage, spec, result, specVars, threadVars, jobStatus, cancelEvent,
                   jobSpec, jobRev, jobCode, published, disturbed>>

\* Mutant: a stage the enumeration does not have.
MutMarked == [mark_validated |-> "validated", mark_modeled |-> "modelled",
              mark_solved |-> "solved", mark_explained |-> "explained"]

Marked == [mark_validated |-> "validated", mark_modeled |-> "modeled",
           mark_solved |-> "solved", mark_explained |-> "explained"]
AfterMark == [mark_validated |-> "check_build", mark_modeled |-> "check_solve",
              mark_solved |-> "check_explain", mark_explained |-> "finish"]

\* session.stage = VALIDATED, MODELED, SOLVED, EXPLAINED after each step.
MarkStage(j) ==
    /\ jobPc[j] \in JobMarks
    /\ stage' = Marked[jobPc[j]]
    /\ JobGoTo(j, AfterMark[jobPc[j]])
    /\ UNCHANGED <<spec, errorCode, result, explanation, specVars, threadVars,
                   jobStatus, cancelEvent, jobSpec, jobRev, jobCode, published, disturbed>>

\* A failing step: session.stage, then session.error_code, then job.status.
MarkFailed(j) ==
    /\ jobPc[j] = "fail"
    /\ stage' = "failed"
    /\ JobGoTo(j, "fail_code")
    /\ UNCHANGED <<spec, errorCode, result, explanation, specVars, threadVars,
                   jobStatus, cancelEvent, jobSpec, jobRev, jobCode, published, disturbed>>

WriteFailureCode(j) ==
    /\ jobPc[j] = "fail_code"
    /\ errorCode' = jobCode[j]
    /\ JobGoTo(j, "fail_status")
    /\ UNCHANGED <<stage, spec, result, explanation, specVars, threadVars, jobStatus,
                   cancelEvent, jobSpec, jobRev, jobCode, published, disturbed>>

JobFailStatus(j) ==
    /\ jobPc[j] = "fail_status"
    /\ JobEnds(j, "failed")
    /\ UNCHANGED <<sessionVars, specVars, threadVars, cancelEvent, published, disturbed>>

\* run_solve returned: one last look at the event decides CANCELLED or DONE.
JobFinish(j) ==
    /\ jobPc[j] = "finish"
    /\ \/ /\ HeardCancel(j)
          /\ JobEnds(j, "cancelled")
       \/ /\ ~HeardCancel(j)
          /\ JobGoTo(j, "set_done")
          /\ UNCHANGED <<jobStatus, jobSpec, jobRev, jobCode>>
    /\ UNCHANGED <<sessionVars, specVars, threadVars, cancelEvent, published, disturbed>>

JobDone(j) ==
    /\ jobPc[j] = "set_done"
    /\ JobEnds(j, "done")
    /\ UNCHANGED <<sessionVars, specVars, threadVars, cancelEvent, published, disturbed>>

-----------------------------------------------------------------------------
Request(t) ==
    \/ ParseBegin(t)
    \/ \E m \in Mappings : ConfirmMapping(t, m)
    \/ \E p \in PairwiseTables : ConfirmPairwise(t, p)
    \/ \E A \in SUBSET Ambiguities : Clarify(t, A) \/ ClarifyCancel(t, A)
    \/ EditSpec(t)
    \/ EditRaises(t)
    \/ \E j \in Jobs : Solve(t, j)

Handle(t) ==
    \/ ParseFails(t) \/ ParseRaises(t) \/ ParseBuildsSpec(t)
    \/ InstallSpec(t) \/ ClearError(t)
    \/ Recompute(t) \/ StoreStage(t) \/ WriteErrorCode(t)
    \/ IngestRows(t) \/ IngestRaises(t)

JobStep(j) ==
    \/ JobStart(j) \/ JobGate(j) \/ JobTakeSpec(j)
    \/ CheckCancel(j) \/ JobAbort(j) \/ JobAbortStatus(j)
    \/ Validate(j) \/ JobRaises(j) \/ BuildModel(j) \/ RouteAndSolve(j)
    \/ Explain(j) \/ MarkStage(j)
    \/ MarkFailed(j) \/ WriteFailureCode(j) \/ JobFailStatus(j)
    \/ JobFinish(j) \/ JobDone(j)

Next == \/ \E t \in Threads : Request(t) \/ Handle(t)
        \/ \E j \in Jobs : CancelJob(j) \/ JobStep(j)

Spec == Init /\ [][Next]_vars

\* A handler that has begun and a job's thread keep running: file reading and
\* validation are finite, LLM calls have an HTTP timeout, solvers a time limit.
\* Nobody has to send a request or to cancel.
FairSpec == /\ Spec
            /\ \A t \in Threads : WF_vars(Handle(t))
            /\ \A j \in Jobs : WF_vars(JobStep(j))

-----------------------------------------------------------------------------
(* Properties.                                                              *)

Quiet == /\ \A t \in Threads : pc[t] = "idle"
         /\ \A j \in Jobs : ~JobActive(j)
         /\ ~disturbed

\* The clarification gate ("mandatory, not UX polish", api/pipeline.py): no
\* model is ever built, and no result or explanation shown, from a spec that
\* still asks a blocking question -- however requests and jobs interleave,
\* even when a parse replaces the spec under a session that is still READY.
ClarificationGate ==
    /\ \A j \in Jobs : jobPc[j] = "mark_modeled" => open[jobSpec[j]] = {}
    /\ result.spec # NoSpec => open[result.spec] = {}
    /\ explanation.spec # NoSpec => open[explanation.spec] = {}

\* What get_job sends with status DONE: the job did write a result, so the
\* session it is sent with holds one, whatever was parsed or edited meanwhile.
DoneJobsHaveResults ==
    \A j \in Jobs : jobStatus[j] = "done" => published[j] /\ result # Nothing

\* When no request met another or a job halfway and none raised, then once
\* everything has returned the stage tells what the session holds: the gates
\* of the spec before a solve, and after it a result and an explanation of the
\* spec as it is now.  Two jobs of the same session may overlap freely, and a
\* cancel may come at any time.
StageTellsTheTruth ==
    Quiet =>
        /\ stage \notin TransientStages
        /\ stage = "created" => spec = NoSpec
        /\ stage = "awaiting_column_mapping" => unconfirmed[spec] # {}
        /\ stage = "awaiting_clarification" => unconfirmed[spec] = {} /\ open[spec] # {}
        /\ stage = "ready" => unconfirmed[spec] = {} /\ open[spec] = {}
        /\ stage = "explained" =>
              /\ result = [spec |-> spec, rev |-> rev[spec]]
              /\ explanation \in {Nothing, result}
              /\ unconfirmed[spec] = {} /\ open[spec] = {}

\* A FAILED session carries an error code once everybody has returned, even
\* after any disturbance: the failing writers assign the stage first and the
\* code second, the clearing writers the code first and the stage second.
FailuresAreExplained ==
    /\ \A t \in Threads : pc[t] = "idle"
    /\ \A j \in Jobs : ~JobActive(j)
    /\ stage = "failed"
    => errorCode # "none"

\* A cancel that reaches the job before its last check in front of the solver
\* keeps the job from ever writing a result into the session.
UpToSolveCheck == {"start", "gate", "take", "check_start", "validate", "mark_validated",
                   "check_build", "build", "mark_modeled", "check_solve"}
EarlyCancelPublishesNothing ==
    \A j \in Jobs :
        [](cancelEvent[j] /\ jobPc[j] \in UpToSolveCheck => [](~published[j]))

\* Every accepted job ends in a status at which the client stops polling.
JobsEnd ==
    \A j \in Jobs : jobStatus[j] = "pending" ~> jobStatus[j] \in TerminalStatuses

\* The stages in which next_action() has nothing to tell the user do not last,
\* unless the thread died of an exception that run_solve does not handle or
\* requests interfered.
TransientStagesPass ==
    stage \in TransientStages ~> (stage \notin TransientStages \/ disturbed)

-----------------------------------------------------------------------------
(* Every behaviour of the pipeline is one of JobLifecycle.                  *)
Lifecycle == INSTANCE JobLifecycle WITH
    status <- jobStatus,
    asked <- cancelEvent,
    committed <- [j \in Jobs |-> jobPc[j] = "set_done" \/ jobStatus[j] = "done"]

\* Job statuses move only as a client is told they do, cancel requests are
\* honoured up to the job's last look at the event, and jobs end.
LifecycleSpec == Lifecycle!Spec

=============================================================================
