# Eigenstate: specifications, model checks and proofs

Eigenstate turns a problem described in plain language, with tables uploaded
as files, into an assignment, allocation or scheduling model and solves it.
What makes it more than a call to a solver is the dialogue in front of the
solver: an LLM proposes how the tables are to be read and which questions are
open, the user confirms and answers, and only then may a job solve.  The
backend keeps that dialogue in one mutable `Session` object per user, which a
pool of request threads and the daemon threads of solve jobs share without a
lock.  Most of this project is about what that sharing can do to the gates and
to the results; the rest is about what the stores keep, what the browser tells the
user, and what becomes of the spec on its way to a model and an answer.

## Inventory

| Part | State | Operations | Modules |
|---|---|---|---|
| Session and stage gates (`api/pipeline.py`, `Session` in `api/session_store.py`) | stage, spec (tables with `confirmed`, ambiguities with `resolution`), result, explanation, error, error_code | `run_parse`, `confirm_column_mapping`, `confirm_pairwise_table`, `resolve_ambiguities`, `edit_spec`, `run_solve`, `recompute_stage_after_parse` | `SolvePipeline`, `SessionStages` |
| Solve jobs (`api/job_store.py`, `solve`/`_run`/`get_job`/`cancel_job` in `api/main.py`) | status, cancel_event, error, error_code | accept, run, cancel, poll | `SolvePipeline`, `JobLifecycle` |
| Session store (`api/session_store.py`) | memory cache, SQLite rows and files | `create`, `get`, `save`, `_preload` | `SessionStore` |
| Feedback log (`feedback/store.py`) | one JSON file | `save_feedback`, `get_relevant_preferences`, `preference_summary` | `FeedbackLog` |
| Error codes (`api/errors.py`) | none | codes and messages | `SessionStages` |
| Validator (`validation/validator.py`) | none | `validate_spec` | `AssignmentModel` |
| Assignment and allocation models (`modeling/assignment_model.py`, `allocation_model.py`, PuLP) | none | `split_categories`, `pair_coefficient`, one row builder per constraint type, `solve_pulp` | `AssignmentModel`, `AllocationModel`, `AssignmentMeaning` |
| Scheduling model (`modeling/scheduling_model.py`, CP-SAT) | none | `init_model`, `set_objective`, one builder per constraint type, `solve_cpsat` | `ScheduleModel` |
| Explainer (`explanation/explainer.py`) | none | `build_groups`, `_binding_constraint_names`, `explain`; the LLM's narration of them | `AssignmentModel`, `AllocationModel` |
| Column mapper (`parser/column_mapper.py`) | none | `read_table`, `classify_table`, `rows_to_entities`, `rows_to_global_params` | `SpecContent` |
| Parser and LLM adapter (`parser/`) | none | `parse_problem`, `_flag_unsupported_constraints`, `_flag_routing`, `complete_json` | `SpecContent` |
| Browser client (`frontend/src/api.js`, `App.jsx`) | session as last answered, busy, solving, abort controller | solve and poll, cancel, dialogue requests | `SolveClient` |
| Views (`frontend/src/components`) | text being edited | rendering | not modelled |

How they interact.  A request handler calls one function of the pipeline,
which reads and writes the session, and then `save()`.  `POST /solve` checks
the stage, creates a job and starts a thread that runs `run_solve` on the same
session object and saves it in the end.  `POST /jobs/{id}/cancel` only sets an
event that the job looks at between its steps.  `GET /jobs/{id}` reads the job
and, when it is DONE, the session.  The upload handler runs on the event loop,
the others in a thread pool; jobs are daemon threads that die with the process.
The tab polls the job, keeps its other requests away from a running solve with
a busy flag, and shows the session as the last answer brought it.

What is hard: handlers and jobs interleave between any two writes (there is no
lock); a parse can replace the spec under a running job; the stage is both the
gate and the progress display; a cancel races the end of the job; `save()`
reads attribute by attribute while a job writes; DONE is visible before the
save; a crash loses jobs but not sessions; the feedback log is rewritten whole;
requests and answers get lost while the job they are about goes on; mappings
are confirmed again, answers come back cancelled, parses fail halfway.
The full list, each with its line, is in `PROJECT.json` under `hazards`.

What makes each part correct:

* gates: nothing is solved from a spec with an open question; a stage tells
  the truth about the session when nothing is going on;
* jobs: they end, they honour a cancel up to a definite point, DONE means
  there is a result;
* session store: what is committed is consistent in itself, and current when
  nothing is in progress; an acknowledged upload survives;
* feedback log: saves that do not overlap lose nothing;
* spec content: the rows of a confirmed table are entities exactly once under its
  category and never twice under any, an
  answer changes the constraint it is about, nothing extracted is dropped
  without a question;
* browser client: every solve returns, a cancel reaches the job it was meant
  for, a tab that shows no error shows the session's stage;
* explainer: groups, unassigned tasks and binding limits are those of the model
  that was solved;
* models: what a solver may answer keeps every constraint in the documented
  sense, nothing that does is better than an optimum, and neither the validator
  nor an infeasible model turns away what can be done.

## Modules

### `SessionStages`
The enumerations shared by the others, and `RecomputedStage`, the rule of
`recompute_stage_after_parse`.

### `SolvePipeline` (core)
One session, request threads `Threads`, jobs `Jobs`.  A spec is an object
(identity matters: a job keeps the object it took while a parse installs
another) with three pieces of content: the set of unconfirmed tables, the set
of open blocking questions, and a revision number that every content change
increments.  What the LLM, the validator, the builder and the solver answer is
nondeterministic; that the validator refuses a spec with open questions is
modelled, because the gate rests on it.

Every write of `session.stage`, `session.spec`, `session.result`,
`session.explanation`, `session.error_code` and `job.status` is a step of its
own, with a program counter per request thread (`pc`) and per job (`jobPc`), but for
`Explain`: reading the result, calling the LLM and writing the explanation are one
step, and so are the two writes of its failing branch.  `Recompute` reads the spec once
where the code looks at `self.spec` three times.
Reads that the code performs as one condition (the gates in `solve` and
`run_solve`) are one step, as are changes inside one spec object that no other
modelled variable depends on.  A handler reads `session.spec` again at each
use, as the code does: rows ingested after a concurrent parse go to the new
spec.  `JobRaises` is an exception of a job that nobody in `run_solve` catches.

| Action | Code |
|---|---|
| `ParseBegin` ... `ClearError` | `run_parse` up to the recompute |
| `Recompute`, `StoreStage` | `recompute_stage_after_parse`: read the gates, then assign |
| `ConfirmMapping`, `IngestRows`, `IngestRaises`, `ConfirmPairwise` | the two confirmations |
| `Clarify`, `ClarifyCancel` | `resolve_ambiguities` |
| `EditSpec`, `EditRaises` | `edit_spec`, which can raise after it has changed the spec |
| `Solve`, `CancelJob` | the handlers |
| `JobStart` ... `JobDone` | `_run` and `run_solve`, one action per write, `CheckCancel` at the four boundaries |

Two history variables: `published[j]` (job j wrote `session.result`) and
`disturbed` (a request wrote while another request or a job was halfway, or a
request raised halfway).  `disturbed` exists because the code promises nothing
about the stage when users race with themselves; the properties about safety
do not use it.

### `JobLifecycle` (abstract)
What a client of the job API is told, in three variables per job: its status,
whether a cancel was asked for, and whether the job has committed to DONE.  A
job that was asked before it committed never reports DONE, one that was not
asked never reports CANCELLED, and every job ends.  `SolvePipeline` implements
it under the mapping `status <- jobStatus`, `asked <- cancelEvent`,
`committed <- the job is past its last look at the event`.

### `SessionStore`
One session as an object and as a row.  `save()` is four steps: read stage and
spec, read rows and result, take the write lock and read the files, commit.
Three processes save concurrently: the upload handler (event loop), a dialogue
handler (thread pool) and the job.  `Restart` is a crash at any point: the
cache is reloaded from the row, jobs are gone.  A spec is the set of files its
tables refer to.  `Unserializable` files hold rows that `json.dumps` rejects
(dates from a spreadsheet); every save after such a parse raises, and the parse
itself need not notice, because its prompt shows a few rows only.  A save also fails
when the write lock is held for too long, and a job may stop without touching the
stage, by an exception that `run_solve` does not handle.  The polling side of the job
API is `SolveClient`'s.

### `FeedbackLog`
The JSON file with load, truncate and write as separate steps, any number of
writers and crashes; and `get_relevant_preferences` as an operator.

### `ScheduleModel`
From a scheduling spec with its calendar rows to a schedule.  A schedule is
the function of start times; `Schedules` are the assignments the CP-SAT model
admits (domains, intervals, cumulative capacity, precedences, the makespan
variable with its domain `0..horizon`), and the solver's answers are the four
statuses `solve_cpsat` maps.  The reference `Good` looks at the time units one
after the other and at which tasks run in each, so it shares no arithmetic with
the interval formulation.

### `SolveClient`
One browser tab that solves one session over a network that may lose requests
and answers, against a backend that may restart.  The jobs take steps of
`JobLifecycle` (`J == INSTANCE JobLifecycle`), which `SolvePipeline` is proved
to implement, so the client is composed with the promises of the job API and
not with the pipeline's program counters.  What the client can tell beyond the
job is added: the session's stage, and the row a restart brings back.  Accepting
`POST /solve` and sending its answer are one step (`PostAccepted`), and a request that
was given up does not arrive later.

| Action | Code |
|---|---|
| `JobBegins` ... `JobSaves` | `_run` and `run_solve` as seen from a client |
| `JobRaises` | what `run_solve` does not catch: the job fails, the stage stays |
| `Restart` | `job_store` is empty, `_preload` brings the sessions back |
| `Dialogue` | confirmations, answers and edits through `guard` |
| `ClickSolve`, `PostAccepted`, `PostRefused`, `PostLost` | `handleSolve` and the first request of `api.solve` |
| `ClickCancel`, `CancelArrives` | the abort controller, its listener and `cancelBackend` |
| `Wakes`, `PollAnswered`, `PollFails` | one round of the polling loop |

Three history variables: `left`, the jobs whose end the tab was not told (a lost
answer, a failed poll, a cancel it did not wait for), `pressed`, at what
point of a job's solve the user pressed Cancel, and `stranded`, the job that an
uncaught exception ended in VALIDATED, for as long as nobody writes the stage.

### `SpecContent`
What the dialogue makes of the spec, one request after the other: which rows
of which file are entities, which constraints and questions the parser left,
what answers, confirmations and edits made of them.  The LLM's replies, the
classification of the tables and what the user uploads come from a `world` the
session lives in.  Two history variables
record what requests did, not what came of it: `named[f]`, the categories table f was
confirmed under since the last good parse and not refused under since, and
`replaced`, the files whose rows a failed parse has replaced since they were
confirmed.  `RowsAreIngestedOnce` says of each file and each category what the
entities must be: in order and none twice, none under a category outside
`named[f]`, and exactly the rows of the file under the one its mapping names, unless a failed parse has replaced them since.  A list
comprehension with a condition is `Selected(s, P)`, with the condition as a set: a recursive function,
so that what it keeps can be proved.

A constraint has one parameter that answers patch, so two questions about one
constraint overwrite each other's patch, as `parameters.update` does for a
shared key.  `AnswersAreApplied` says therefore that the constraint carries an
effect of a question that was answered about it, and of the answer itself when
that question is the one looked at.

| Action | Code |
|---|---|
| `Upload` | `POST /files` |
| `Parse` (`ParseSucceeds`, `ParseFails`) | `run_parse`, `parse_problem`, `classify_table` |
| `ConfirmEntities`, `ConfirmParameters` | `confirm_column_mapping` |
| `ConfirmPairwise` | `confirm_pairwise_table` |
| `Resolve` | `resolve_ambiguities` |
| `EditSpec` | `edit_spec` |
| `Solve` | `run_solve`, as far as the content decides its outcome |

### `AssignmentModel`, `AllocationModel`, `AssignmentMeaning`, `Sums`
From an assignment or allocation spec through the validator and the row builders
to a plan, the set of pairs whose variable is 1, and to what the explainer says
of it.  A spec has categories with
entities and their ids, which `_check_duplicate_ids` keeps apart within a category
only: tables, wide columns and row labels go by id, as in the code, and `last` names
the entity that `entity_by_id` finds under one.  Attributes are numbers, numeric
strings, other strings or missing, constraints are records of a type, a name and
parameters, as in `spec/schema.py`.  CBC answers with a best plan, with INFEASIBLE, or, when its 30
seconds are up, with the plan it has, which `solve_pulp` reports as optimal too, or
with nothing; `finished` is history and tells these apart.  `Report` is `validate_spec`, `Split` is `split_categories`,
and each builder is an operator that returns linear rows.  `AssignmentMeaning`
states what each constraint means for the entities it names, whichever side of
the pairs they are on, and the properties that compare.  `AllocationModel` adds
the continuous mode, an amount for each entity of the one category, with its
own reference.  `Sums` holds the sum over a set that rows, amounts and the horizon
of the schedules are made of.

| Action | Code |
|---|---|
| `Validate` | `validate_spec`; the order of a set of strings is a choice |
| `Build`, `BuildFails` | `build_model` and what makes a builder raise |
| `SolveOptimal`, `SolveIncumbent`, `SolveInfeasible`, `SolveGivesUp` | `solve_pulp` |
| `Explain` | `explain`, `build_groups`, `_binding_constraint_names` |
| `BuildAmounts`, `SolveAmounts`, `ExplainAmounts` | the same in the continuous mode |

## Runs

| Run | Question | Bounds |
|---|---|---|
| `pipeline_requests` | Do gate, results and stage survive parses, edits and answers during a job, and is every failure explained? | 2 request threads, 1 job, 2 spec objects, 1 question |
| `pipeline_two_jobs` | Does the stage tell the truth when `POST /solve` is accepted twice? | 1 thread, 2 jobs, a mapping and a pairwise table, 1 question |
| `pipeline_liveness` | Do jobs end and transient stages pass; is `JobLifecycle` implemented? | 1 thread, 1 job, 1 table, 1 question |
| `store_saves` | Is a row consistent, current when nothing is in progress, and does an acknowledged upload survive? | 2 files, one unserializable, 4 requests, 1 crash |
| `client_tab` | Does every solve return, a cancel reach its job, and a quiet tab show the session? | 2 jobs, 1 lost message or restart |
| `content_dialogue` | Are rows ingested once, answers applied, and no constraint dropped in silence? | 2 files and 3 contents; 2 constraints and up to 3 questions |
| `content_edits` | Is an edit of a constraint applied? (no) | as `content_dialogue` |
| `feedback_writers` | What survives overlapping saves and a crash? | 2 writers, 4 entries, 1 crash |
| `schedule_models` | Do schedules keep all constraints and windows, and is the horizon large enough? | 3 tasks of 1 or 2 time units, 480 specs; 2 tasks, 10368 specs of times |
| `schedule_late_windows` | Does an infeasible model mean that there is no schedule? (no) | the specs with times |
| `assign_models` | Do plans and amounts keep the constraints and are they best; are infeasible models and rejections justified; does the explanation match the model? | 2 vans, 2 packages, a depot; 2 departments with amounts up to 4; 9936 specs, 144 of them with ids that two entities share |
| `assign_swapped` | Do capacities hold when the tasks come first? (no) | the 3456 of them that differ in roles and costs |

The runs that answer "no" are the disagreements listed in `PROJECT.json` under
`findings`, each with the line of the code and the line that says otherwise.

`pipeline_requests` and `pipeline_two_jobs` identify states that differ by an
exchange of the threads, or of the jobs: no definition tells two of them
apart, and both runs check invariants only.

The bounds.  A second thread or a second job is what an interleaving needs; a
third adds no new kind of interference, since all of them communicate through
the one session.  Two spec objects are the old and the new one of a parse.
`MaxRev` bounds how often the content of one spec object changes.
`MaxRequests` and `MaxCrashes` bound the store's histories: upload, parse,
answer and solve are four requests.  `MaxFaults` bounds lost messages and
restarts together: one of either separates the tab from its job, and the
second job is what meets the one that was left behind.  A solve needs a job
left to create, so two solves per behaviour.  `Worlds` are the parts of the
dialogue: `TableWorld` has files of every role with good, duplicate and
unreadable contents and no questions, `QuestionWorld` questions that patch one
or two constraints, a flagged constraint and a routing question over one plain
table, and `SharedWorld` two questions about one constraint, one of them with an
option called cancel; tables and questions meet only in the stage gate, which
`pipeline_requests` covers.

Two entities on each side are what capacities, counts and coverage can
conflict over, and what makes a plan of four pairs interesting; durations of 1
and 2 make intervals touch, overlap and contain each other; values one below,
at and above a limit occur in every family of specs.  `Latest` is beyond every
horizon of the specs without times, so the reference sees later plans than the
model.

`Most` is one above every bound of the amounts, so that a missing upper bound
shows; `BoundsAssumption` says so of any specs.  That neither this bound nor the
whole amounts of the model hide anything is proved (`AmountsBestOfAll`,
`AmountsAreOptima`).

Deadlock is not checked where the modelled computation ends or the bounds let the system run out of requests.

### Known disagreements without a run

Reading the code against its documents, comments and tests met more places
where they disagree, or where it is at odds with itself.  Where the models have such
a case, the property it would refute excepts it by name in its premise; where they
leave it out, the item says so.

The dialogue and its jobs:

* a test says "Answering 'cancel' to an ambiguity sets session to CANCELLED and
  blocks all further solving." (`backend/tests/test_pipeline_edge_cases.py:72`); the
  next answer, edit or confirmation recomputes the stage to READY
  (`pipeline.py:168`);
* the mapping dialog says "The solver will not run until you confirm how each
  file's columns map to model fields." (`ColumnMappingDialog.jsx:71`); a second
  parse assigns its spec while the stage is still READY for the old one
  (`pipeline.py:80`), and a job that starts in between validates the open
  questions again, but not the unconfirmed tables;
* "sessions survive restarts" (`session_store.py:6`); a job's status is DONE
  before the session is saved (`main.py:283`), so a crash in between takes an
  announced result away.  `QuietStoreIsCurrent` is about the moments when
  nothing is in progress;
* a mapping confirmed again under another category leaves the old rows in
  (`pipeline.py:107`), and a table is then there under both: `RowsAreIngestedOnce`
  allows rows under a category the user has named for the table and under no other;
* a duplicate id raises after the mapping was marked confirmed and the old rows were
  removed (`pipeline.py:102`), so the next request makes the session READY without
  that table; `RowsAreIngestedOnce` asks that the rows are gone, no property
  speaks of the READY stage;
* a parse that fails has already replaced the rows under the old spec
  (`pipeline.py:45`); for such a file `RowsAreIngestedOnce` asks only for rows in
  order and none twice, until it is confirmed or parsed again;
* `run_solve` marks the session FAILED for what validation, builder and solver
  report, but not for what the adapter or the reading of the tables raises: an
  infinite calendar bound is an OverflowError at `pipeline.py:243`, the job fails at
  `main.py:287` and the session stays VALIDATED.  `JobRaises` of both modules has
  it; `TransientStagesPass` and `TransientStageHasAJob` except it, the latter as a
  VALIDATED session with a job in `stranded`;
* an answer that is later changed to one without a patch keeps the parameters
  of the earlier one (`pipeline.py:166`);
* an entity the LLM took from the text and a row of a table may share an id and
  a category; the validator refuses the spec, and nothing in the dialogue can
  remove either.

The tab:

* an abort during `POST /solve` never reaches the backend: the tab says
  cancelled, the job runs on (`api.js:63`); `CancelReachesItsJob` is about the
  time from the job's id on;
* the tab does not wait for a job it cancelled, so an edit right after makes the
  session READY and the job then writes CANCELLED; when the answer of
  `POST /solve` is lost, a second click starts a second job;
* a failed job's last save may persist the transient stage of the next job
  (`main.py:293`), and an upload during a job persists that job's
  (`main.py:177`); after a restart no job leaves that stage.
  `TransientStageHasAJob` excepts sessions after a restart;
* nothing calls `getSession`, so a tab whose poll failed keeps an old view;
* the model editor says saved although `guard` swallowed the error
  (`ModelEditor.jsx:88`).

The models:

* the validator's "Infeasible before solving" is also said when no constraint
  obliges the plan to take every item (`validator.py:269`); `RejectionsAreSound`
  is stated for specs that do (`Complete`);
* it warns that a negative capacity is treated as 0 (`validator.py:245`), the
  builders use it as it is (`assignment_model.py:143`, `allocation_model.py:64`), so
  that a model is infeasible for which the announced reading has a plan.  The reference of
  plans follows the warning (`Ceiling`); the specs of the run have negative
  capacities, and `InfeasibleMeansNoPlan` and `PlansAreBest` except them
  (`CapacitiesCount`), the amounts do (`BoundsCount`).  `PlansKeepConstraints` needs no
  exception;
* CBC stops after 30 s; PuLP then sets the status to Optimal for the plan it has,
  only `sol_status` differs, and `solve_pulp` reads `prob.status`
  (`solver_router.py:22`): a plan that is not best is reported "optimal".
  `SolveIncumbent` has it, `PlansAreBest` is about answers that came in time;
* "same ID string in different categories is fine" (`backend/tests/test_validator.py:65`),
  and the builders do keep them apart; the explainer looks the tasks up by id alone (`explainer.py:111`), so a bar may show the demand of an agent, or
  the explanation is unavailable because that is a word.  The run has such specs;
  the part of `ExplanationsMatchTheModel` about bars and binding limits excepts them
  (`IdsAreApart`).  For the same reason tasks of two categories with one id share a
  start, an end and an interval in the schedules (`scheduling_model.py:34`, `:59`);
  `ScheduleModel` has tasks without ids and leaves this out;
* it looks for the durations of a time budget on the agents
  (`validator.py:164`), the builder on the tasks;
* a budget limit of 0 gives way to the budget of the parameter table
  (`allocation_model.py:78`); `BudgetsCount` excepts it;
* a maximum that carries both `min` and `max` is bounded by `min`, a minimum
  with only `max` by `max` (`allocation_model.py:63`); `BoundsCount` excepts them;
* a cost written as a string passes the validator and counts as absent
  (`assignment_model.py:66`); `CostsCount` excepts it;
* a blank cell becomes an empty list of required skills, which is not the
  absence of a requirement (`assignment_model.py:193`);
* the explainer reads pairs back from variable names with a pattern that an id
  with a comma breaks (`explainer.py:117`); ids are model values here.

In the schedules a calendar row takes the place of the task's own release time
and deadline (`scheduling_model.py:50`); the reference does the same.  In the
feedback log overlapping saves lose acknowledged entries (`store.py:56`);
`QuietLogIsComplete` is about saves that do not overlap.

## Fairness

`FairSpec` puts weak fairness on the steps of a handler that has begun and of
a job's thread, and none on clients.  The code justifies it: threads are
preempted by the operating system, reading and validating are finite, the LLM
call has a timeout of 120 s (`llm_adapter.py`), both solvers a limit of 30 s
(`solver_router.py`), and there is no lock to wait for.

`SolveClient` has weak fairness on the steps of a job's thread (for the same
reasons), on the timer of the polling loop, on the arrival of a cancel request,
and on `POST /solve` and a poll being answered or failing: a request to a
server that is gone fails, one to a server that is there is answered.  The user
is free to do nothing, and messages may be lost or not.  `SolveReturns` is
checked under it.

## Proofs

Every theorem is checked to its leaves by the proof system; nothing is assumed
but the named assumptions on the constants, which TLC evaluates on each run.

`SolvePipelineProofs` proves, for any sets of threads, jobs, specs, tables and
questions:

* `TypeCorrect`: `Spec => []TypeOK`;
* `GateIsMandatory`: `Spec => []ClarificationGate`;
* `DoneMeansResult`: `Spec => []DoneJobsHaveResults`;
* `ImplementsLifecycle`: every behaviour of `SolvePipeline` starts in an initial
  state of `JobLifecycle` and takes its steps or stutters, the safety part of
  `LifecycleSpec`.

Assumptions: `NoSpec` is no spec, a file is not both a mapping and a pairwise
table, `MaxRev` is a natural number.

The argument.  The gate is not inductive by itself: that a job about to model
has a spec without open questions follows from the moment it was validated,
so `GateHeld` says it of every program counter past validation, and of the
session's result and explanation.  It stays true because no action reopens a
question of an existing object; a parse only fills an object nobody refers to
yet, which is what `ReferencesAllocated` says.  `SpecsAtHand` says that a spec
is there wherever the code dereferences one.  `ResultsKept` and
`StatusFollows` tie the statuses to the program counters.  Their conjunction
with `TypeOK` is `IInv`.

`SolveClientProofs` proves, for any number of jobs, lost messages and restarts:

* `TypeCorrect`: `Spec => []TypeOK`;
* `QuietTab`, `NoSecondSolve`, `StagesAreHeld`, `CancelsAreTrue`: the four safety
  invariants of the run `client_tab`;
* `JobsKeepPromises`: its jobs take steps of `JobLifecycle` only, so that what
  `SolvePipeline` is proved to implement is what the client relies on.

Assumptions: `None` is no job, `MaxFaults` is a natural number.

The argument.  `OnlyItsJobRuns` is the core: as long as the tab has left no job
behind, the only job that can run is the one it is polling.  It is inductive
together with `KnowsItsJob` (there is a current job exactly while the tab
sleeps or polls).  From it follows that nothing moves the stage while the tab
is idle, hence `QuietTabIsCurrent`, and that a step of the one running job
cannot strand a transient stage another one wrote, hence `StageIsHeld`: the stage is
that of a thread at work past validation (`AtWork`), or the VALIDATED of the job in
`stranded`.  The theorem does not claim that a transient stage always has a job,
because the code does not: an exception that `run_solve` does not catch is the way out.
`PhaseTellsStatus` ties a thread's phase to the status of `JobLifecycle`;
`UnknownBefore` and `SavedBefore` say that before the first job there is nothing
to cancel and a restart changes nothing.

`SolvePipelineProofs` proves further, about the session's stage and error code:

* `StagesAreTrue`: `Spec => []StageTellsTheTruth`;
* `FailuresExplained`: `Spec => []FailuresAreExplained`;
* `CancelsInTime`: `Spec => EarlyCancelPublishesNothing`, a property of whole
  behaviours.

The argument.  A failure without a code is never final: the writer that left it
(`write_code`, `fail_code`) has the code at hand, and the one that cleared a
code still has a stage to store (`CodesAtHand`, `FailuresArePending`).  For the
stage, `Settled` says that nothing is disturbed and no request is between its
first write to the spec and its store; then the stage is what the spec deserves
and every job at work has the spec as it is (`SettledIsTrue`).  Between the two
writes the stage to be stored already is the right one (`TargetsAreCurrent`), and
a transient stage has a job that will replace it (`TransientStagesAreHeld`).  The
conjunction with `IInv` is `SInv`.  `CancelsInTime` follows from `StoppedInTime`, which
no step leaves.

`SessionStoreProofs` proves, for any set of files, requests and crashes:

* `TypeCorrect`: `Spec => []TypeOK`;
* `ResultsArePersisted`, `TablesArePersisted`, `UploadsSurvive`, `QuietStore`: the
  four safety invariants of the run `store_saves`.

Assumption: the bounds are natural numbers.  The argument follows one save from
left to right.  What a session has gained it never loses: rows, files and the
result only grow, in the object.  So an attribute that `save()` reads later covers
those it read before, and each conjunct of `IInv` says so at three places: of the
object, of what a save has read so far (the object lends what is not read yet),
and of the row.  `FilesAreKept` follows a file from the object through a save to
the row and to the answer; the lock makes its last step safe.  `SavesAreCurrent`
says that without disturbance the object rests while it is saved.

`FeedbackLogProofs` proves, for any writers, entries and crashes:

* `TypeCorrect`: `Spec => []TypeOK`;
* `LogsAreSound`: `Spec => []NothingInvented`;
* `QuietLog`: `Spec => []QuietLogIsComplete`;
* `NewestPreferences`: `Spec => []PreferencesAreTheNewest`.

Assumptions: `EntriesAssumption` (finitely many entries, because each is posted
once and the log's length is bounded by them), `PreferencesAssumption` (an entry has a
list of preferences), `Idle` is no entry, `Limit` is positive, `MaxCrashes` is a natural number.
The argument: every list of entries that exists anywhere, in the file or in a
writer's hands, has posted entries only and none twice (`TextsAreSound`), and no
list names the entry of a writer that has not appended it (`EntriesAreTheirThreads`).
`NewestPreferences` is about the loop: what it collected after some entries, in front
of what the others carry, is the list of all preferences, or it is a front of that
list and long enough (`CollectedIsAFront`).  Loop and list are functions from each number to
the next; that they exist (`StepwiseFunction`) and what holds of them rests on there
being no least exception (`NoLeastException`).

`ScheduleModelProofs` proves, for any set of specs:

* `TypeCorrect`: `Spec => []TypeOK`;
* `SchedulesAreGood`: `Spec => []SchedulesKeepConstraints`;
* `HorizonIsEnough`: `Spec => []HorizonSuffices`.

Assumptions: `MarkersAssumption` (a missing cell and a text are told apart and are
no numbers), `SpecsAssumption` (a spec has at least one task and finitely many, its
cells are numbers, texts or missing, the calendar keeps numbers), and
`HorizonAssumption` (the reference looks as far as the horizon of every model).  The arguments:
intervals that do not overlap share no moment (`DisjointNeverMeet`); and where
many tasks run at one moment, all of them run when the last of them starts
(`PeakIsAtAStart`), which is where the cumulative row counts them.  For the horizon: a
plan that takes longer than all durations together has an idle moment
(`IdleMoment`), and everything behind it may begin one moment earlier without
breaking a deadline or a constraint (`PlacedEarlier`); so a plan that cannot be
shortened ends within the horizon (`PlacedWithinDurations`) and is a schedule of the
model (`PlacedIsAdmitted`).  The last step is what release times and windows
take away, as `schedule_late_windows` shows.  The invariant
adds that the model was built from a readable spec whose constraints have
builders (`BuiltSpec`), that an answer is a schedule the model admits
(`AdmittedSchedule`), a best one if it is called optimal, and that a model called
infeasible has none (`HonestAnswer`).

`SpecContentProofs` proves, for any files, tables, constraints, questions and
replies of the LLM:

* `TypeCorrect`: `Spec => []TypeOK`;
* `RowsIngestedOnce`: `Spec => []RowsAreIngestedOnce`;
* `AnswersApplied`: `Spec => []AnswersAreApplied`;
* `NothingDropped`: `Spec => NothingSilentlyDropped`.

Assumptions: `ContentAssumption` and `TypeAssumption` (what files, fields, problem
types and `None` are), `QuestionsAssumption` (constraints and questions are lists, an
effect is a map from answers), `WorldsAssumption` (what a reply and a
classification may be; a parse takes no entity from a table).  The first half of
the module is a small theory of `Selected`: what selecting keeps of an appended
element and of a concatenation, that selecting all or none is the list or
nothing, that selecting twice the same is selecting once.  It rests on an
induction over sequences whose induction hypothesis is a set
(`AllSequences`), because one with an operator cannot be instantiated.  The
second half is the invariant.  `RowsAreIngestedOnce` is inductive since a
confirmation takes away what it puts back (`SelectedTwice`, `SelectedConcat`), and
touches no other file and no other category of the file.  Its premises are what the
user and the parses did (`named`, `replaced`) and not what became of the rows: a
confirmation that left the old rows in (`MutOthers`) has them twice.
For `NothingSilentlyDropped` the invariant carries the dialogue to the solve:
`NothingIsLost` says that an extracted constraint is in the spec or has a
blocking question, and `ReadyIsAnswered` that a READY session has no open one.

`SumProofs` is the theory of `Total`, the sum of a function over a finite set, that
schedules, assignments and allocations share: that it exists, that it does not
matter which member is taken first, what one more member, two sets, a part or an
image make of it, and that it is monotone.  Each is an induction over the subsets
of the set, with the sets that have the property as the induction hypothesis
(`AllSubsets`).

`AssignmentModelProofs` proves, for any specs of the assignment and allocation
families:

* `TypeCorrect`: `AllocationSpec => []AllocationTypeOK`;
* `PlansKeep`, `InfeasibleNoPlan`, `PlansBest`: plans keep the documented
  constraints, also those CBC was left with when its time was up; there is none
  behind an infeasible model, and none is better than one CBC found in time;
* `RejectionsSound`: what the validator calls infeasible before solving is;
* `ExplanationsMatch`: the groups of an explanation are the plan, whatever ids the
  categories share, and bars and binding limits agree with the rows when no task
  shares its id;
* `AmountsKeep`: amounts keep the documented constraints;
* `AmountsBest`: no amounts up to `Most` that keep them yield more than an optimal
  answer, none are behind an infeasible one, and behind an unbounded one any can be
  bettered;
* `AmountsBestOfAll`: the same of all whole amounts, however large;
* `AmountsAreOptima`: the same of all rational amounts that the builders' rows admit,
  counted in k-th parts for every k: an optimal answer is an optimum of the linear
  program.

Assumptions: `SpecsAssumption` (an entity has one category, there are finitely many,
ids may be shared and under each one entity is found that has it,
given attributes and parameters have values, limits and numeric attributes are
numbers, the order of the categories names two; `Absent` is none of these),
`MostAssumption` (`Most` is a natural number), `BoundsAssumption` (no row that is
built for amounts has a bound beyond `Most`).  The module rests on `SumProofs` and has two parts.  The first
translates rows into meanings, one lemma per builder (`RowsMean`): rows of ones count
partners (`PartnersCount`), rows of demands sum what the tasks of an agent demand
(`LoadsSum`).  The second is the invariant `IInv`: errors are those of a report, only a
report without errors goes on, so that the split names categories; plans are
among those the rows admit and best of them when the answer came in time, amounts feasible, and an explanation is computed from the
plan and the spec as they are.  `RejectionsSound` counts twice: every task has an agent,
so the weights of the tasks are at most what the agents carry between them
(`CoveredTasksFit`), with demands as weights for capacities and ones for counts.
`ExplanationsMatch` rests on labels being taken once (`Buildable`): the row of
an agent's capacity is the only one with its label (`BindingLoads`).  That the ids of
a category differ is no assumption: the report says so (`Duplicates`), and a spec that
is solved has passed it.  Only that an id is not that of an entity of another category
is a premise (`IdsAreApart`); the task is then the one found under it (`FoundById`).
For capacities the reference is `Ceiling`, which a number never exceeds and which is
the number when that is not negative (`CeilingBounds`, `Held`): so plans keep it in
any case, and only the two theorems about other plans need `CapacitiesCount`.

The amounts take three steps.  `BestAmounts` are whole amounts up to `Most` that the
rows admit and that none of these better; the rest extends that to all.  Amounts
beyond `Most` are no better (`BeyondIsFree`, `CutPays`): what lies beyond every bound
is not held down by a row, so where it pays the program is unbounded, and where it
does not it may be cut down to `Most`, which keeps every row (`CutFits`).  Where the
program is called unbounded, some amount has only lower bounds and may grow
(`GrowsOn`).  Fractions are no better either (`Rounded`).  Every row is over one amount
or over all of them, and its bound is whole: a single amount that is not whole has
room to either neighbour, because the sum is not whole either (`MendOne`), and two of
them may move against each other until one is whole, because the sum stays
(`MendTwo`).  One of the two directions does not make the value worse.  Fewer amounts
are broken afterwards, so the smallest set of broken amounts that are as good
(`SmallestBad`) is empty.

What the theorems of this module presuppose is what the properties say: that the
constraints name the categories the split makes agents and tasks (`RolesAgree`; where
they do not, `assign_swapped` shows what happens), the known disagreements
about budgets, costs, capacities, ids and bounds (`BudgetsCount`, `CostsCount`,
`CapacitiesCount`, `IdsAreApart`, `BoundsCount`), and for `PlansBest` that CBC answered
before its 30 seconds were up (`finished`): of a plan it was left with the code claims
"optimal" and nothing shows it.  Without one of `finished`, `IdsAreApart` and, in
`InfeasibleMeansNoPlan`, `CapacitiesCount`, TLC finds the property violated on the same
specs.

Proving changed seven things of the models.  `Readable` of `ScheduleModel` bound its
conjuncts otherwise than they were laid out, and so let through a release that is
no number together with a deadline that is one; the proof that starts are
numbers failed there.  `AnswersAreApplied` in its first form was false for two
questions about one constraint and for an effect that names `cancel`; no world
had either, `SharedWorld` now does.  `SelectSeq`, which takes an operator, gave way to
`Selected`, and `MapThenSumSet` to `Total`; the folds of the feedback log are
recursive functions.  The proof of `PreferencesAreTheNewest` needed to know that an
entry carries a list, which is now an assumption.  The reference of `one_per_entity` compared a
sense the builder reads as "at most" with nothing at all, and the properties of the
assignment family were silent about a budget of 0, a cost that is a string and a
bound that names the other end: no spec of the run had one, and the premises now
say so.  The proof of `AmountsBest` found that `AmountsBuildable` stopped at a word
under the resource field of a type that does not read it, and let pass the types of
the schedules, for which the family has no builder; specs of both kinds are in the
run now.

Only model-checked is liveness (`JobsEnd`, `TransientStagesPass`, `SolveReturns`, and the
fairness part of `LifecycleSpec`), which is outside what the proof system does.
Every invariant and every other action property that a passing run checks is a theorem.  What
the three runs that answer "no" check is false and has no proof.

## Not modelled

Prompts and HTTP of the LLM, its narration of the result and the wording of
errors, rendering and the text being edited in the views, the decoding of CSV
and Excel bytes and the coercion of single cells, tokens and upload limits
(pure checks), deployment.  `PROJECT.json` lists them with reasons.  Fractions
are not modelled: specs of the allocation family have whole bounds, durations and
times of the schedules are whole.  Limits, counts and bounds of constraints are
numbers, although the schema admits strings (`schema.py:41`), at which `float()` raises
and the build fails.  Ids are tokens: what commas in variable names or PuLP's clean-up
of row names do to them is left out.  A linear program of amounts that is stopped
midway has no answer in the model.

## Plan

What is left is liveness, which needs a prover for fairness and `ENABLED`, and the
parts named above as not modelled.
