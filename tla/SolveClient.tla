----------------------------- MODULE SolveClient -----------------------------
(***************************************************************************)
(* One browser tab (frontend/src/App.jsx, api.js) solving one session over *)
(* a network that may lose requests and answers, against a backend that    *)
(* may restart.  The jobs keep the promises of JobLifecycle, which         *)
(* SolvePipeline is shown to implement: every step a job takes here is a   *)
(* step of that module.  What is added is what the tab can tell: the       *)
(* session's stage, the row a restart brings back, and the tab's own view. *)
(* A new parse opens a new session, hence another instance of this module. *)
(***************************************************************************)
EXTENDS SessionStages, Naturals

CONSTANTS Jobs,         \* the jobs POST /solve may create
          None,         \* no job id known
          MaxFaults     \* bound: lost requests and answers, and restarts

ASSUME NoneAssumption == None \notin Jobs
ASSUME BoundAssumption == MaxFaults \in Nat

VARIABLES status, asked, committed,     \* the jobs, as in JobLifecycle
          phase,      \* how far the thread of a job has come
          gone,       \* jobs a restart has forgotten
          stage,      \* session.stage in the backend
          saved,      \* session.stage in the store
          ui,         \* what the Solve button of the tab waits for
          aborted,    \* signal.aborted of the current solve
          mine,       \* job_id of the current solve
          view,       \* session.stage as the tab shows it
          error,      \* the banner
          cancels,    \* POST /jobs/{id}/cancel on their way
          lost, restarts,
          left,       \* history: jobs whose end the tab was not told
          pressed,    \* history: when the user cancelled the solve of a job
          stranded    \* history: the job an uncaught exception ended in VALIDATED
                      \* and whose stage nobody has overwritten since

J == INSTANCE JobLifecycle

jobVars == <<status, asked, committed>>
backend == <<jobVars, phase, gone, stage, saved>>
tab == <<ui, aborted, mine, view, error>>
vars == <<backend, tab, cancels, lost, restarts, left, pressed, stranded>>

JobPhases == {"none", "start", "gate", "passed", "validated", "modeled", "solved",
              "explained", "committed", "ended", "over"}
Banners == {"none", "cancelled", "failed", "network"}

TypeOK ==
    /\ status \in [Jobs -> JobStatuses \cup {"none"}]
    /\ asked \in [Jobs -> BOOLEAN]
    /\ committed \in [Jobs -> BOOLEAN]
    /\ phase \in [Jobs -> JobPhases]
    /\ gone \subseteq Jobs
    /\ stage \in Stages
    /\ saved \in Stages
    /\ ui \in {"idle", "posting", "sleeping", "polling"}
    /\ aborted \in BOOLEAN
    /\ mine \in Jobs \cup {None}
    /\ view \in Stages
    /\ error \in Banners
    /\ cancels \subseteq Jobs
    /\ lost \in 0 .. MaxFaults
    /\ restarts \in 0 .. MaxFaults
    /\ left \subseteq Jobs
    /\ pressed \in [Jobs -> {"no", "early", "late"}]
    /\ stranded \in Jobs \cup {None}

Init == /\ J!Init
        /\ phase = [j \in Jobs |-> "none"]
        /\ gone = {}
        /\ stage = "awaiting_clarification" /\ saved = stage /\ view = stage
        /\ ui = "idle" /\ aborted = FALSE /\ mine = None /\ error = "none"
        /\ cancels = {} /\ lost = 0 /\ restarts = 0
        /\ left = {} /\ pressed = [j \in Jobs |-> "no"] /\ stranded = None

MayFail == lost + restarts < MaxFaults
Live(j) == status[j] \in {"pending", "running"} /\ j \notin gone

-----------------------------------------------------------------------------
\* The thread of a job.  Threads of lost jobs died with the process.

Thread(j, from, to) == /\ phase[j] = from /\ phase' = [phase EXCEPT ![j] = to]
                       /\ UNCHANGED <<gone, tab, cancels, lost, restarts, left, pressed>>

KeepsStage == UNCHANGED <<stage, saved, stranded>>
SetsStage(s) == stage' = s /\ stranded' = None /\ UNCHANGED saved

JobBegins(j) == J!Start(j) /\ Thread(j, "start", "gate") /\ KeepsStage

\* run_solve refuses a session that is no longer READY; the GateError ends in
\* FAILED and leaves the stage alone.
JobGate(j) == \/ /\ stage = "ready"
                 /\ Thread(j, "gate", "passed")
                 /\ KeepsStage /\ UNCHANGED jobVars
              \/ /\ stage # "ready"
                 /\ J!Fail(j) /\ Thread(j, "gate", "ended") /\ KeepsStage

Following == [passed |-> "validated", validated |-> "modeled", modeled |-> "solved",
              solved |-> "explained"]

\* A check of the cancel event may have passed long before the stage is
\* written, so a job that was asked meanwhile may still take the step.
JobAdvances(j) == \E p \in DOMAIN Following :
    /\ Thread(j, p, Following[p])
    /\ SetsStage(Following[p])
    /\ UNCHANGED jobVars

JobIsCancelled(j) == \E p \in DOMAIN Following :
    /\ J!Stop(j) /\ Thread(j, p, "ended")
    /\ SetsStage("cancelled")

\* Mutants: a failure writes only the job's status; only the session's stage.
MutFailsStage(j) == \E p \in DOMAIN Following \ {"solved"} :
    J!Fail(j) /\ Thread(j, p, "ended") /\ KeepsStage
MutFailsStatus(j) == \E p \in DOMAIN Following \ {"solved"} :
    Thread(j, p, "ended") /\ SetsStage("failed") /\ UNCHANGED jobVars

\* run_solve catches what validation, the model build and the solver raise.
JobFails(j) == \E p \in DOMAIN Following \ {"solved"} :
    /\ J!Fail(j) /\ Thread(j, p, "ended")
    /\ SetsStage("failed")

\* ... but not what the adapter, the validator itself, or the reading of the
\* cost, calendar and pair rows raises (int(float("inf")) is an
\* OverflowError): the job fails, the stage stays what it is.
JobRaises(j) == \E p \in {"gate", "passed", "validated"} :
    /\ J!Fail(j) /\ Thread(j, p, "ended")
    /\ stranded' = IF p = "validated" THEN j ELSE stranded
    /\ UNCHANGED <<stage, saved>>

\* After run_solve: a late cancel makes the job CANCELLED, the session stays
\* EXPLAINED.
JobDecides(j) == /\ \/ J!Stop(j) /\ Thread(j, "explained", "ended")
                    \/ J!Commit(j) /\ Thread(j, "explained", "committed")
                 /\ KeepsStage

JobAnnounces(j) == J!Finish(j) /\ Thread(j, "committed", "ended") /\ KeepsStage

JobSaves(j) == /\ Thread(j, "ended", "over")
               /\ saved' = stage /\ UNCHANGED <<jobVars, stage, stranded>>

JobStep(j) == \/ JobBegins(j) \/ JobGate(j) \/ JobAdvances(j) \/ JobIsCancelled(j)
              \/ JobFails(j) \/ JobRaises(j) \/ JobDecides(j) \/ JobAnnounces(j)
              \/ JobSaves(j)

\* The process restarts: sessions come back from their rows, jobs do not.
Restart == /\ MayFail /\ restarts' = restarts + 1
           /\ gone' = {j \in Jobs : status[j] # "none"}
           /\ phase' = [j \in Jobs |-> IF j \in gone' THEN "over" ELSE phase[j]]
           /\ stage' = saved /\ stranded' = None
           /\ UNCHANGED <<jobVars, saved, tab, cancels, lost, left, pressed>>

-----------------------------------------------------------------------------
\* The tab.

Loses == MayFail /\ lost' = lost + 1

\* api.solve returns or throws: handleSolve's and guard's finally clauses.
SolveEnds(banner, shown) == /\ ui' = "idle" /\ aborted' = FALSE /\ mine' = None
                            /\ error' = banner /\ view' = shown

\* A confirmation, an answer or an edit; guard's busy flag keeps these and a
\* solve apart.  The handler derives the stage again, or an answer cancels the
\* session, and saves; or it refuses or raises.  Request or answer may get lost.
Dialogue ==
    /\ ui = "idle"
    /\ \/ /\ stage' \in {"awaiting_clarification", "ready", "cancelled"}
          /\ saved' = stage' /\ stranded' = None
          /\ \/ view' = stage' /\ error' = "none" /\ UNCHANGED lost
             \/ Loses /\ error' = "network" /\ UNCHANGED view
       \/ /\ \/ error' = "failed" /\ UNCHANGED lost
             \/ Loses /\ error' = "network"
          /\ UNCHANGED <<stage, saved, view, stranded>>
    /\ UNCHANGED <<jobVars, phase, gone, ui, aborted, mine, cancels, restarts, left, pressed>>

\* Mutant: a second click goes through while the first solve is polled.
MutClickSolve == /\ ui \in {"idle", "sleeping"} /\ view = "ready"
                 /\ \E j \in Jobs : status[j] = "none"
                 /\ ui' = "posting" /\ aborted' = FALSE /\ mine' = None /\ error' = "none"
                 /\ UNCHANGED <<backend, view, cancels, lost, restarts, left, pressed, stranded>>

\* The button shows and is enabled.  Bound: a job is left for the POST.
ClickSolve == /\ ui = "idle" /\ view = "ready"
              /\ \E j \in Jobs : status[j] = "none"
              /\ ui' = "posting" /\ aborted' = FALSE /\ mine' = None /\ error' = "none"
              /\ UNCHANGED <<backend, view, cancels, lost, restarts, left, pressed, stranded>>

\* POST /solve is accepted; its answer brings the job id, or gets lost.
PostAccepted(j) ==
    /\ ui = "posting" /\ stage = "ready"
    /\ J!Accept(j) /\ phase' = [phase EXCEPT ![j] = "start"]
    /\ pressed' = IF aborted THEN [pressed EXCEPT ![j] = "early"] ELSE pressed
    /\ \/ /\ ui' = "sleeping" /\ mine' = j
          /\ UNCHANGED <<aborted, view, error, lost, left>>
       \/ /\ Loses /\ SolveEnds("network", view) /\ left' = left \cup {j}
    /\ UNCHANGED <<gone, stage, saved, cancels, restarts, stranded>>

PostRefused == /\ ui = "posting" /\ stage # "ready"
               /\ SolveEnds("failed", view)
               /\ UNCHANGED <<backend, cancels, lost, restarts, left, pressed, stranded>>

PostLost == /\ ui = "posting"
            /\ Loses /\ SolveEnds("network", view)
            /\ UNCHANGED <<backend, cancels, restarts, left, pressed, stranded>>

\* Mutants: the listener is there before the job id is; an abort during a poll
\* is only seen by the loop.
MutCancelEarly == /\ ui # "idle" /\ ~aborted /\ aborted' = TRUE
                  /\ cancels' = cancels \cup {mine}
                  /\ UNCHANGED <<backend, ui, mine, view, error, lost, restarts, left, pressed, stranded>>
MutCancelPoll == /\ ui # "idle" /\ ~aborted /\ aborted' = TRUE
                 /\ pressed' = IF mine = None THEN pressed ELSE [pressed EXCEPT ![mine] = "late"]
                 /\ cancels' = IF ui = "sleeping" THEN cancels \cup {mine} ELSE cancels
                 /\ UNCHANGED <<backend, ui, mine, view, error, lost, restarts, left, stranded>>

\* controller.abort().  The listener that tells the backend exists only once
\* POST /solve was answered, and fires once.
ClickCancel == /\ ui # "idle" /\ ~aborted
               /\ aborted' = TRUE
               /\ IF ui = "posting" THEN UNCHANGED <<cancels, pressed>>
                  ELSE /\ cancels' = cancels \cup {mine}
                       /\ pressed' = [pressed EXCEPT ![mine] = "late"]
               /\ UNCHANGED <<backend, ui, mine, view, error, lost, restarts, left, stranded>>

\* The checks of signal.aborted before and after the sleep.
Wakes == /\ ui = "sleeping"
         /\ IF aborted THEN SolveEnds("cancelled", view) /\ left' = left \cup {mine}
            ELSE ui' = "polling" /\ UNCHANGED <<aborted, mine, view, error, left>>
         /\ UNCHANGED <<backend, cancels, lost, restarts, pressed, stranded>>

\* Mutant: every terminal answer but a failure makes api.solve return.
MutPollAnswered ==
    /\ ui = "polling" /\ mine \notin gone
    /\ CASE status[mine] = "done" -> SolveEnds("none", stage)
         [] status[mine] = "failed" -> SolveEnds("failed", view)
         [] status[mine] = "cancelled" -> SolveEnds("none", view)
         [] OTHER -> ui' = "sleeping" /\ UNCHANGED <<aborted, mine, view, error>>
    /\ UNCHANGED <<backend, cancels, lost, restarts, left, pressed, stranded>>

\* GET /jobs/{id} is answered; a DONE answer carries the session as it is now.
PollAnswered ==
    /\ ui = "polling" /\ mine \notin gone
    /\ CASE status[mine] = "done" -> SolveEnds("none", stage)
         [] status[mine] = "failed" -> SolveEnds("failed", view)
         [] status[mine] = "cancelled" -> SolveEnds("cancelled", view)
         [] OTHER -> ui' = "sleeping" /\ UNCHANGED <<aborted, mine, view, error>>
    /\ UNCHANGED <<backend, cancels, lost, restarts, left, pressed, stranded>>

\* Any failed poll ends the solve: a 404 after a restart, or a lost answer.
PollFails == /\ ui = "polling"
             /\ \/ mine \in gone /\ SolveEnds("failed", view) /\ UNCHANGED lost
                \/ Loses /\ SolveEnds("network", view)
             /\ left' = left \cup {mine}
             /\ UNCHANGED <<backend, cancels, restarts, pressed, stranded>>

\* The cancel request arrives, finds no job, or gets lost; api.js swallows
\* whatever becomes of it.
CancelArrives(j) == /\ j \in cancels /\ cancels' = cancels \ {j}
                    /\ \/ j \notin gone /\ J!Ask(j) /\ UNCHANGED lost
                       \/ j \in gone /\ UNCHANGED <<jobVars, lost>>
                       \/ Loses /\ UNCHANGED jobVars
                    /\ UNCHANGED <<phase, gone, stage, saved, tab, restarts, left, pressed, stranded>>

PostAnswered == PostRefused \/ \E j \in Jobs : PostAccepted(j)
Next == \/ Dialogue \/ ClickSolve \/ ClickCancel \/ PostAnswered \/ PostLost
        \/ Wakes \/ PollAnswered \/ PollFails \/ Restart
        \/ \E j \in Jobs : JobStep(j) \/ CancelArrives(j)

\* Threads run, timers fire, and a request is answered or fails; the user need
\* not do anything.
Fairness == /\ \A j \in Jobs : WF_vars(JobStep(j)) /\ WF_vars(CancelArrives(j))
            /\ WF_vars(PostAnswered)
            /\ WF_vars(Wakes)
            /\ WF_vars(PollAnswered \/ PollFails)

Spec == Init /\ [][Next]_vars /\ Fairness

-----------------------------------------------------------------------------
\* Properties

\* A tab that waits for nothing and shows no banner shows the stage the
\* session is in: busy (App.jsx) keeps every other request away from a solve,
\* and api.solve returns only what a finished job left.  Excepted are the
\* jobs the tab left behind (a lost answer, a failed poll, a cancel it did not
\* wait for) and a restart.
QuietTabIsCurrent ==
    ui = "idle" /\ error = "none" /\ left = {} /\ gone = {} => view = stage

\* Two solves of one session run at once only after the tab left a job
\* behind; the gate of POST /solve alone (main.py) would let both in.
OneSolveAtATime ==
    \A j, k \in Jobs : Live(j) /\ Live(k) /\ left = {} => j = k

\* A session in a stage that only a running job leaves has such a job.  The one
\* exception of the code itself is VALIDATED: an exception run_solve does not
\* catch ends the job there and nobody takes the stage back (pipeline.py:243,
\* main.py:287).  Otherwise the tab left a job behind or the process restarted
\* (the finally clause of one job may save the stage of the next, main.py:293).
TransientStageHasAJob ==
    stage \in TransientStages /\ left = {} /\ gone = {} =>
        (\E j \in Jobs : Live(j)) \/ (stage = "validated" /\ stranded # None)

\* Once the job id is known, Cancel reaches that job and no other, whatever
\* the tab does meanwhile, unless the network or the backend lost it; and no
\* job is cancelled that the user did not cancel (api.js, cancelBackend).
CancelReachesItsJob ==
    \A j \in Jobs :
        /\ pressed[j] = "late" => asked[j] \/ j \in cancels \/ j \in gone \/ lost > 0
        /\ asked[j] \/ j \in cancels => pressed[j] = "late"

\* Every solve of the tab ends: the polling loop of api.solve has no limit,
\* so it rests on the job reaching an end, or on a 404 after a restart.
SolveReturns == ui # "idle" ~> ui = "idle"

=============================================================================
