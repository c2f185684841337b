-------------------------- MODULE SolveClientProofs --------------------------
(***************************************************************************)
(* Proofs about SolveClient, for any number of jobs, lost messages and     *)
(* restarts: its type invariant and its four safety invariants.  The       *)
(* argument: as long as the tab has left no job behind, the only job that  *)
(* can run is the one it is polling, so nothing moves the session's stage  *)
(* while the tab is idle.                                                  *)
(***************************************************************************)
EXTENDS SolveClient, TLAPS

\* What a job's thread has done tells its status.
Working == {"gate", "passed", "validated", "modeled", "solved", "explained"}
PhaseTellsStatus ==
    \A j \in Jobs :
        /\ phase[j] = "none" <=> status[j] = "none"
        /\ phase[j] = "start" => status[j] = "pending" /\ ~committed[j]
        /\ phase[j] \in Working => status[j] = "running" /\ ~committed[j]
        /\ phase[j] = "committed" => status[j] = "running" /\ committed[j]
        /\ phase[j] = "ended" => status[j] \in TerminalStatuses
        /\ phase[j] = "over" => status[j] \in TerminalStatuses \/ j \in gone
        /\ j \in gone => phase[j] = "over"

\* A job is unknown to everybody until it is accepted.
UnknownBefore ==
    \A j \in Jobs : status[j] = "none" =>
        /\ ~asked[j] /\ ~committed[j] /\ pressed[j] = "no"
        /\ j \notin cancels /\ mine # j

\* The tab knows its job exactly while it waits for it.
KnowsItsJob == mine \in Jobs <=> ui \in {"sleeping", "polling"}

\* As long as the tab left none behind, only its own job can run.
OnlyItsJobRuns == left = {} => \A j \in Jobs : Live(j) => mine = j

\* A transient stage is the one a job past validation has just written, or the
\* VALIDATED an uncaught exception has left.
AtWork(j) == phase[j] \in {"validated", "modeled", "solved"} /\ stage = phase[j]
StageIsHeld ==
    stage \in TransientStages /\ left = {} /\ gone = {} =>
        (\E j \in Jobs : AtWork(j)) \/ (stage = "validated" /\ stranded # None)

\* Before the first job a restart changes nothing.
SavedBefore == (\A j \in Jobs : status[j] = "none") =>
                   /\ saved = stage
                   /\ stage \in {"awaiting_clarification", "ready", "cancelled"}

IInv == /\ TypeOK /\ PhaseTellsStatus /\ UnknownBefore /\ KnowsItsJob
        /\ OnlyItsJobRuns /\ StageIsHeld /\ SavedBefore
        /\ QuietTabIsCurrent /\ CancelReachesItsJob

-----------------------------------------------------------------------------
LEMMA FollowingPhases ==
    /\ DOMAIN Following = {"passed", "validated", "modeled", "solved"}
    /\ Following["passed"] = "validated" /\ Following["validated"] = "modeled"
    /\ Following["modeled"] = "solved" /\ Following["solved"] = "explained"
BY DEF Following

\* Every step keeps the types.
LEMMA TypeStep ==
    ASSUME TypeOK, KnowsItsJob, Next
    PROVE  TypeOK'
<1> USE DEF TypeOK, KnowsItsJob, JobPhases, Banners, Stages, JobStatuses, backend, jobVars, tab,
           KeepsStage, SetsStage
<1>1. ASSUME NEW j \in Jobs, JobBegins(j) PROVE TypeOK'
  BY <1>1 DEF JobBegins, Thread, J!Start, J!Moves
<1>2. ASSUME NEW j \in Jobs, JobGate(j) PROVE TypeOK'
  BY <1>2 DEF JobGate, Thread, J!Fail, J!Moves
<1>3. ASSUME NEW j \in Jobs, JobAdvances(j) PROVE TypeOK'
  BY <1>3, FollowingPhases DEF JobAdvances, Thread
<1>4. ASSUME NEW j \in Jobs, JobIsCancelled(j) PROVE TypeOK'
  BY <1>4, FollowingPhases DEF JobIsCancelled, Thread, J!Stop, J!Moves
<1>5. ASSUME NEW j \in Jobs, JobFails(j) PROVE TypeOK'
  BY <1>5, FollowingPhases DEF JobFails, Thread, J!Fail, J!Moves
<1>20. ASSUME NEW j \in Jobs, JobRaises(j) PROVE TypeOK'
  BY <1>20 DEF JobRaises, Thread, J!Fail, J!Moves
<1>6. ASSUME NEW j \in Jobs, JobDecides(j) PROVE TypeOK'
  <2>1. aborted' \in BOOLEAN /\ asked' \in [Jobs -> BOOLEAN] /\ committed' \in [Jobs -> BOOLEAN]
    BY <1>6 DEF JobDecides, Thread, J!Stop, J!Commit, J!Moves
  <2> QED
    BY <2>1, <1>6 DEF JobDecides, Thread, J!Stop, J!Commit, J!Moves
<1>7. ASSUME NEW j \in Jobs, JobAnnounces(j) PROVE TypeOK'
  BY <1>7 DEF JobAnnounces, Thread, J!Finish, J!Moves
<1>8. ASSUME NEW j \in Jobs, JobSaves(j) PROVE TypeOK'
  BY <1>8 DEF JobSaves, Thread
<1>9. ASSUME NEW j \in Jobs, CancelArrives(j) PROVE TypeOK'
  <2>1. aborted' \in BOOLEAN /\ asked' \in [Jobs -> BOOLEAN] /\ committed' \in [Jobs -> BOOLEAN]
    BY <1>9, BoundAssumption DEF CancelArrives, J!Ask, MayFail, Loses
  <2>2. lost' \in 0 .. MaxFaults /\ restarts' \in 0 .. MaxFaults
    BY <1>9, BoundAssumption DEF CancelArrives, J!Ask, MayFail, Loses
  <2> QED
    BY <2>1, <2>2, <1>9, BoundAssumption DEF CancelArrives, J!Ask, MayFail, Loses
<1>10. ASSUME NEW j \in Jobs, PostAccepted(j) PROVE TypeOK'
  <2>1. aborted' \in BOOLEAN /\ asked' \in [Jobs -> BOOLEAN] /\ committed' \in [Jobs -> BOOLEAN]
    BY <1>10, BoundAssumption DEF PostAccepted, J!Accept, J!Moves, MayFail, Loses, SolveEnds
  <2>2. lost' \in 0 .. MaxFaults /\ restarts' \in 0 .. MaxFaults
    BY <1>10, BoundAssumption DEF PostAccepted, J!Accept, J!Moves, MayFail, Loses, SolveEnds
  <2> QED
    BY <2>1, <2>2, <1>10, BoundAssumption
    DEF PostAccepted, J!Accept, J!Moves, MayFail, Loses, SolveEnds
<1>11. ASSUME PostRefused PROVE TypeOK'
  BY <1>11 DEF PostRefused, SolveEnds
<1>12. ASSUME PostLost PROVE TypeOK'
  <2>1. aborted' \in BOOLEAN /\ asked' \in [Jobs -> BOOLEAN] /\ committed' \in [Jobs -> BOOLEAN]
    BY <1>12, BoundAssumption DEF PostLost, MayFail, Loses, SolveEnds
  <2>2. lost' \in 0 .. MaxFaults /\ restarts' \in 0 .. MaxFaults
    BY <1>12, BoundAssumption DEF PostLost, MayFail, Loses, SolveEnds
  <2> QED
    BY <2>1, <2>2, <1>12, BoundAssumption DEF PostLost, MayFail, Loses, SolveEnds
<1>13. ASSUME Dialogue PROVE TypeOK'
  BY <1>13, BoundAssumption DEF Dialogue, MayFail, Loses
<1>14. ASSUME ClickSolve PROVE TypeOK'
  BY <1>14 DEF ClickSolve
<1>15. ASSUME ClickCancel PROVE TypeOK'
  BY <1>15 DEF ClickCancel
<1>16. ASSUME Wakes PROVE TypeOK'
  <2>1. aborted' \in BOOLEAN /\ asked' \in [Jobs -> BOOLEAN] /\ committed' \in [Jobs -> BOOLEAN]
    BY <1>16 DEF Wakes, SolveEnds
  <2> QED
    BY <2>1, <1>16 DEF Wakes, SolveEnds
<1>17. ASSUME PollAnswered PROVE TypeOK'
  <2>1. aborted' \in BOOLEAN /\ asked' \in [Jobs -> BOOLEAN] /\ committed' \in [Jobs -> BOOLEAN]
    BY <1>17 DEF PollAnswered, SolveEnds
  <2> QED
    BY <2>1, <1>17 DEF PollAnswered, SolveEnds
<1>18. ASSUME PollFails PROVE TypeOK'
  <2>1. aborted' \in BOOLEAN /\ asked' \in [Jobs -> BOOLEAN] /\ committed' \in [Jobs -> BOOLEAN]
    BY <1>18, BoundAssumption DEF PollFails, MayFail, Loses, SolveEnds
  <2>2. lost' \in 0 .. MaxFaults /\ restarts' \in 0 .. MaxFaults
    BY <1>18, BoundAssumption DEF PollFails, MayFail, Loses, SolveEnds
  <2> QED
    BY <2>1, <2>2, <1>18, BoundAssumption DEF PollFails, MayFail, Loses, SolveEnds
<1>19. ASSUME Restart PROVE TypeOK'
  BY <1>19, BoundAssumption DEF Restart, MayFail
<1> QED
  BY <1>1, <1>2, <1>3, <1>4, <1>5, <1>6, <1>7, <1>8, <1>9, <1>10, <1>11, <1>12, <1>13,
     <1>14, <1>15, <1>16, <1>17, <1>18, <1>19, <1>20 DEF Next, JobStep, PostAnswered

\* ... and what the phase of a job tells of its status.
LEMMA PhaseStep ==
    ASSUME TypeOK, PhaseTellsStatus, UnknownBefore, Next
    PROVE  PhaseTellsStatus'
<1> USE DEF TypeOK, PhaseTellsStatus, UnknownBefore, Working, TerminalStatuses, JobStatuses,
           backend, jobVars, tab,
           KeepsStage, SetsStage
<1>1. ASSUME NEW j \in Jobs, JobBegins(j) PROVE PhaseTellsStatus'
  BY <1>1 DEF JobBegins, Thread, J!Start, J!Moves
<1>2. ASSUME NEW j \in Jobs, JobGate(j) PROVE PhaseTellsStatus'
  BY <1>2 DEF JobGate, Thread, J!Fail, J!Moves
<1>3. ASSUME NEW j \in Jobs, JobAdvances(j) PROVE PhaseTellsStatus'
  BY <1>3, FollowingPhases DEF JobAdvances, Thread
<1>4. ASSUME NEW j \in Jobs, JobIsCancelled(j) PROVE PhaseTellsStatus'
  BY <1>4, FollowingPhases DEF JobIsCancelled, Thread, J!Stop, J!Moves
<1>5. ASSUME NEW j \in Jobs, JobFails(j) PROVE PhaseTellsStatus'
  BY <1>5, FollowingPhases DEF JobFails, Thread, J!Fail, J!Moves
<1>20. ASSUME NEW j \in Jobs, JobRaises(j) PROVE PhaseTellsStatus'
  BY <1>20 DEF JobRaises, Thread, J!Fail, J!Moves
<1>6. ASSUME NEW j \in Jobs, JobDecides(j) PROVE PhaseTellsStatus'
  BY <1>6 DEF JobDecides, Thread, J!Stop, J!Commit, J!Moves
<1>7. ASSUME NEW j \in Jobs, JobAnnounces(j) PROVE PhaseTellsStatus'
  BY <1>7 DEF JobAnnounces, Thread, J!Finish, J!Moves
<1>8. ASSUME NEW j \in Jobs, JobSaves(j) PROVE PhaseTellsStatus'
  BY <1>8 DEF JobSaves, Thread
<1>9. ASSUME NEW j \in Jobs, CancelArrives(j) PROVE PhaseTellsStatus'
  BY <1>9 DEF CancelArrives, J!Ask, MayFail, Loses
<1>10. ASSUME NEW j \in Jobs, PostAccepted(j) PROVE PhaseTellsStatus'
  BY <1>10 DEF PostAccepted, J!Accept, J!Moves, MayFail, Loses, SolveEnds
<1>11. ASSUME PostRefused PROVE PhaseTellsStatus'
  BY <1>11 DEF PostRefused, SolveEnds
<1>12. ASSUME PostLost PROVE PhaseTellsStatus'
  BY <1>12 DEF PostLost, MayFail, Loses, SolveEnds
<1>13. ASSUME Dialogue PROVE PhaseTellsStatus'
  BY <1>13 DEF Dialogue, MayFail, Loses
<1>14. ASSUME ClickSolve PROVE PhaseTellsStatus'
  BY <1>14 DEF ClickSolve
<1>15. ASSUME ClickCancel PROVE PhaseTellsStatus'
  BY <1>15 DEF ClickCancel
<1>16. ASSUME Wakes PROVE PhaseTellsStatus'
  BY <1>16 DEF Wakes, SolveEnds
<1>17. ASSUME PollAnswered PROVE PhaseTellsStatus'
  BY <1>17 DEF PollAnswered, SolveEnds
<1>18. ASSUME PollFails PROVE PhaseTellsStatus'
  BY <1>18 DEF PollFails, MayFail, Loses, SolveEnds
<1>19. ASSUME Restart PROVE PhaseTellsStatus'
  BY <1>19 DEF Restart, MayFail
<1> QED
  BY <1>1, <1>2, <1>3, <1>4, <1>5, <1>6, <1>7, <1>8, <1>9, <1>10, <1>11, <1>12, <1>13,
     <1>14, <1>15, <1>16, <1>17, <1>18, <1>19, <1>20 DEF Next, JobStep, PostAnswered

\* ... and that nobody knows a job before it is accepted.
LEMMA UnknownStep ==
    ASSUME TypeOK, UnknownBefore, KnowsItsJob, Next
    PROVE  UnknownBefore'
<1> USE DEF TypeOK, UnknownBefore, KnowsItsJob, JobStatuses, backend, jobVars, tab,
           KeepsStage, SetsStage
<1>1. ASSUME NEW j \in Jobs, JobBegins(j) PROVE UnknownBefore'
  BY <1>1 DEF JobBegins, Thread, J!Start, J!Moves
<1>2. ASSUME NEW j \in Jobs, JobGate(j) PROVE UnknownBefore'
  BY <1>2 DEF JobGate, Thread, J!Fail, J!Moves
<1>3. ASSUME NEW j \in Jobs, JobAdvances(j) PROVE UnknownBefore'
  BY <1>3, FollowingPhases DEF JobAdvances, Thread
<1>4. ASSUME NEW j \in Jobs, JobIsCancelled(j) PROVE UnknownBefore'
  BY <1>4, FollowingPhases DEF JobIsCancelled, Thread, J!Stop, J!Moves
<1>5. ASSUME NEW j \in Jobs, JobFails(j) PROVE UnknownBefore'
  BY <1>5, FollowingPhases DEF JobFails, Thread, J!Fail, J!Moves
<1>20. ASSUME NEW j \in Jobs, JobRaises(j) PROVE UnknownBefore'
  BY <1>20 DEF JobRaises, Thread, J!Fail, J!Moves
<1>6. ASSUME NEW j \in Jobs, JobDecides(j) PROVE UnknownBefore'
  BY <1>6 DEF JobDecides, Thread, J!Stop, J!Commit, J!Moves
<1>7. ASSUME NEW j \in Jobs, JobAnnounces(j) PROVE UnknownBefore'
  BY <1>7 DEF JobAnnounces, Thread, J!Finish, J!Moves
<1>8. ASSUME NEW j \in Jobs, JobSaves(j) PROVE UnknownBefore'
  BY <1>8 DEF JobSaves, Thread
<1>9. ASSUME NEW j \in Jobs, CancelArrives(j) PROVE UnknownBefore'
  BY <1>9 DEF CancelArrives, J!Ask, MayFail, Loses
<1>10. ASSUME NEW j \in Jobs, PostAccepted(j) PROVE UnknownBefore'
  BY <1>10, NoneAssumption DEF PostAccepted, J!Accept, J!Moves, MayFail, Loses, SolveEnds
<1>11. ASSUME PostRefused PROVE UnknownBefore'
  BY <1>11, NoneAssumption DEF PostRefused, SolveEnds
<1>12. ASSUME PostLost PROVE UnknownBefore'
  BY <1>12, NoneAssumption DEF PostLost, MayFail, Loses, SolveEnds
<1>13. ASSUME Dialogue PROVE UnknownBefore'
  BY <1>13 DEF Dialogue, MayFail, Loses
<1>14. ASSUME ClickSolve PROVE UnknownBefore'
  BY <1>14, NoneAssumption DEF ClickSolve
<1>15. ASSUME ClickCancel PROVE UnknownBefore'
  BY <1>15 DEF ClickCancel
<1>16. ASSUME Wakes PROVE UnknownBefore'
  BY <1>16, NoneAssumption DEF Wakes, SolveEnds
<1>17. ASSUME PollAnswered PROVE UnknownBefore'
  BY <1>17, NoneAssumption DEF PollAnswered, SolveEnds
<1>18. ASSUME PollFails PROVE UnknownBefore'
  BY <1>18, NoneAssumption DEF PollFails, MayFail, Loses, SolveEnds
<1>19. ASSUME Restart PROVE UnknownBefore'
  BY <1>19 DEF Restart, MayFail
<1> QED
  BY <1>1, <1>2, <1>3, <1>4, <1>5, <1>6, <1>7, <1>8, <1>9, <1>10, <1>11, <1>12, <1>13,
     <1>14, <1>15, <1>16, <1>17, <1>18, <1>19, <1>20 DEF Next, JobStep, PostAnswered

\* ... and that the tab knows its job while it waits for it.
LEMMA KnowsStep ==
    ASSUME TypeOK, KnowsItsJob, Next
    PROVE  KnowsItsJob'
<1> USE DEF TypeOK, KnowsItsJob, backend, jobVars, tab,
           KeepsStage, SetsStage
<1>1. ASSUME NEW j \in Jobs, JobBegins(j) PROVE KnowsItsJob'
  BY <1>1 DEF JobBegins, Thread, J!Start, J!Moves
<1>2. ASSUME NEW j \in Jobs, JobGate(j) PROVE KnowsItsJob'
  BY <1>2 DEF JobGate, Thread, J!Fail, J!Moves
<1>3. ASSUME NEW j \in Jobs, JobAdvances(j) PROVE KnowsItsJob'
  BY <1>3, FollowingPhases DEF JobAdvances, Thread
<1>4. ASSUME NEW j \in Jobs, JobIsCancelled(j) PROVE KnowsItsJob'
  BY <1>4, FollowingPhases DEF JobIsCancelled, Thread, J!Stop, J!Moves
<1>5. ASSUME NEW j \in Jobs, JobFails(j) PROVE KnowsItsJob'
  BY <1>5, FollowingPhases DEF JobFails, Thread, J!Fail, J!Moves
<1>20. ASSUME NEW j \in Jobs, JobRaises(j) PROVE KnowsItsJob'
  BY <1>20 DEF JobRaises, Thread, J!Fail, J!Moves
<1>6. ASSUME NEW j \in Jobs, JobDecides(j) PROVE KnowsItsJob'
  BY <1>6 DEF JobDecides, Thread, J!Stop, J!Commit, J!Moves
<1>7. ASSUME NEW j \in Jobs, JobAnnounces(j) PROVE KnowsItsJob'
  BY <1>7 DEF JobAnnounces, Thread, J!Finish, J!Moves
<1>8. ASSUME NEW j \in Jobs, JobSaves(j) PROVE KnowsItsJob'
  BY <1>8 DEF JobSaves, Thread
<1>9. ASSUME NEW j \in Jobs, CancelArrives(j) PROVE KnowsItsJob'
  BY <1>9 DEF CancelArrives, J!Ask, MayFail, Loses
<1>10. ASSUME NEW j \in Jobs, PostAccepted(j) PROVE KnowsItsJob'
  BY <1>10, NoneAssumption DEF PostAccepted, J!Accept, J!Moves, MayFail, Loses, SolveEnds
<1>11. ASSUME PostRefused PROVE KnowsItsJob'
  BY <1>11, NoneAssumption DEF PostRefused, SolveEnds
<1>12. ASSUME PostLost PROVE KnowsItsJob'
  BY <1>12, NoneAssumption DEF PostLost, MayFail, Loses, SolveEnds
<1>13. ASSUME Dialogue PROVE KnowsItsJob'
  BY <1>13 DEF Dialogue, MayFail, Loses
<1>14. ASSUME ClickSolve PROVE KnowsItsJob'
  BY <1>14, NoneAssumption DEF ClickSolve
<1>15. ASSUME ClickCancel PROVE KnowsItsJob'
  BY <1>15 DEF ClickCancel
<1>16. ASSUME Wakes PROVE KnowsItsJob'
  BY <1>16, NoneAssumption DEF Wakes, SolveEnds
<1>17. ASSUME PollAnswered PROVE KnowsItsJob'
  BY <1>17, NoneAssumption DEF PollAnswered, SolveEnds
<1>18. ASSUME PollFails PROVE KnowsItsJob'
  BY <1>18, NoneAssumption DEF PollFails, MayFail, Loses, SolveEnds
<1>19. ASSUME Restart PROVE KnowsItsJob'
  BY <1>19 DEF Restart, MayFail
<1> QED
  BY <1>1, <1>2, <1>3, <1>4, <1>5, <1>6, <1>7, <1>8, <1>9, <1>10, <1>11, <1>12, <1>13,
     <1>14, <1>15, <1>16, <1>17, <1>18, <1>19, <1>20 DEF Next, JobStep, PostAnswered

\* ... and that only the tab's own job runs.
LEMMA OnlyStep ==
    ASSUME TypeOK, KnowsItsJob, OnlyItsJobRuns, Next
    PROVE  OnlyItsJobRuns'
<1> USE DEF TypeOK, KnowsItsJob, OnlyItsJobRuns, Live, JobStatuses, backend, jobVars, tab,
           KeepsStage, SetsStage
<1>1. ASSUME NEW j \in Jobs, JobBegins(j) PROVE OnlyItsJobRuns'
  BY <1>1 DEF JobBegins, Thread, J!Start, J!Moves
<1>2. ASSUME NEW j \in Jobs, JobGate(j) PROVE OnlyItsJobRuns'
  BY <1>2 DEF JobGate, Thread, J!Fail, J!Moves
<1>3. ASSUME NEW j \in Jobs, JobAdvances(j) PROVE OnlyItsJobRuns'
  BY <1>3, FollowingPhases DEF JobAdvances, Thread
<1>4. ASSUME NEW j \in Jobs, JobIsCancelled(j) PROVE OnlyItsJobRuns'
  BY <1>4, FollowingPhases DEF JobIsCancelled, Thread, J!Stop, J!Moves
<1>5. ASSUME NEW j \in Jobs, JobFails(j) PROVE OnlyItsJobRuns'
  BY <1>5, FollowingPhases DEF JobFails, Thread, J!Fail, J!Moves
<1>20. ASSUME NEW j \in Jobs, JobRaises(j) PROVE OnlyItsJobRuns'
  BY <1>20 DEF JobRaises, Thread, J!Fail, J!Moves
<1>6. ASSUME NEW j \in Jobs, JobDecides(j) PROVE OnlyItsJobRuns'
  BY <1>6 DEF JobDecides, Thread, J!Stop, J!Commit, J!Moves
<1>7. ASSUME NEW j \in Jobs, JobAnnounces(j) PROVE OnlyItsJobRuns'
  BY <1>7 DEF JobAnnounces, Thread, J!Finish, J!Moves
<1>8. ASSUME NEW j \in Jobs, JobSaves(j) PROVE OnlyItsJobRuns'
  BY <1>8 DEF JobSaves, Thread
<1>9. ASSUME NEW j \in Jobs, CancelArrives(j) PROVE OnlyItsJobRuns'
  BY <1>9 DEF CancelArrives, J!Ask, MayFail, Loses
<1>10. ASSUME NEW j \in Jobs, PostAccepted(j) PROVE OnlyItsJobRuns'
  BY <1>10, NoneAssumption DEF PostAccepted, J!Accept, J!Moves, MayFail, Loses, SolveEnds
<1>11. ASSUME PostRefused PROVE OnlyItsJobRuns'
  BY <1>11, NoneAssumption DEF PostRefused, SolveEnds
<1>12. ASSUME PostLost PROVE OnlyItsJobRuns'
  BY <1>12, NoneAssumption DEF PostLost, MayFail, Loses, SolveEnds
<1>13. ASSUME Dialogue PROVE OnlyItsJobRuns'
  BY <1>13 DEF Dialogue, MayFail, Loses
<1>14. ASSUME ClickSolve PROVE OnlyItsJobRuns'
  BY <1>14, NoneAssumption DEF ClickSolve
<1>15. ASSUME ClickCancel PROVE OnlyItsJobRuns'
  BY <1>15 DEF ClickCancel
<1>16. ASSUME Wakes PROVE OnlyItsJobRuns'
  BY <1>16, NoneAssumption DEF Wakes, SolveEnds
<1>17. ASSUME PollAnswered PROVE OnlyItsJobRuns'
  BY <1>17, NoneAssumption DEF PollAnswered, SolveEnds
<1>18. ASSUME PollFails PROVE OnlyItsJobRuns'
  BY <1>18, NoneAssumption DEF PollFails, MayFail, Loses, SolveEnds
<1>19. ASSUME Restart PROVE OnlyItsJobRuns'
  BY <1>19 DEF Restart, MayFail
<1> QED
  BY <1>1, <1>2, <1>3, <1>4, <1>5, <1>6, <1>7, <1>8, <1>9, <1>10, <1>11, <1>12, <1>13,
     <1>14, <1>15, <1>16, <1>17, <1>18, <1>19, <1>20 DEF Next, JobStep, PostAnswered

\* ... and that a job at work holds a transient stage.
LEMMA HeldStep ==
    ASSUME TypeOK, PhaseTellsStatus, KnowsItsJob,
           OnlyItsJobRuns, StageIsHeld, SavedBefore, Next
    PROVE  StageIsHeld'
<1> USE DEF TypeOK, PhaseTellsStatus, Working, KnowsItsJob, OnlyItsJobRuns, StageIsHeld,
           SavedBefore, AtWork, Live, TransientStages, Stages, backend, jobVars, tab,
           KeepsStage, SetsStage
<1>1. ASSUME NEW j \in Jobs, JobBegins(j) PROVE StageIsHeld'
  BY <1>1 DEF JobBegins, Thread, J!Start, J!Moves
<1>2. ASSUME NEW j \in Jobs, JobGate(j) PROVE StageIsHeld'
  BY <1>2 DEF JobGate, Thread, J!Fail, J!Moves
<1>3. ASSUME NEW j \in Jobs, JobAdvances(j) PROVE StageIsHeld'
  BY <1>3, FollowingPhases DEF JobAdvances, Thread
<1>4. ASSUME NEW j \in Jobs, JobIsCancelled(j) PROVE StageIsHeld'
  BY <1>4, FollowingPhases DEF JobIsCancelled, Thread, J!Stop, J!Moves
<1>5. ASSUME NEW j \in Jobs, JobFails(j) PROVE StageIsHeld'
  BY <1>5, FollowingPhases DEF JobFails, Thread, J!Fail, J!Moves
<1>20. ASSUME NEW j \in Jobs, JobRaises(j) PROVE StageIsHeld'
  BY <1>20, NoneAssumption DEF JobRaises, Thread, J!Fail, J!Moves
<1>6. ASSUME NEW j \in Jobs, JobDecides(j) PROVE StageIsHeld'
  BY <1>6 DEF JobDecides, Thread, J!Stop, J!Commit, J!Moves
<1>7. ASSUME NEW j \in Jobs, JobAnnounces(j) PROVE StageIsHeld'
  BY <1>7 DEF JobAnnounces, Thread, J!Finish, J!Moves
<1>8. ASSUME NEW j \in Jobs, JobSaves(j) PROVE StageIsHeld'
  BY <1>8 DEF JobSaves, Thread
<1>9. ASSUME NEW j \in Jobs, CancelArrives(j) PROVE StageIsHeld'
  BY <1>9 DEF CancelArrives, J!Ask, MayFail, Loses
<1>10. ASSUME NEW j \in Jobs, PostAccepted(j) PROVE StageIsHeld'
  BY <1>10, NoneAssumption DEF PostAccepted, J!Accept, J!Moves, MayFail, Loses, SolveEnds
<1>11. ASSUME PostRefused PROVE StageIsHeld'
  BY <1>11, NoneAssumption DEF PostRefused, SolveEnds
<1>12. ASSUME PostLost PROVE StageIsHeld'
  BY <1>12, NoneAssumption DEF PostLost, MayFail, Loses, SolveEnds
<1>13. ASSUME Dialogue PROVE StageIsHeld'
  BY <1>13 DEF Dialogue, MayFail, Loses
<1>14. ASSUME ClickSolve PROVE StageIsHeld'
  BY <1>14, NoneAssumption DEF ClickSolve
<1>15. ASSUME ClickCancel PROVE StageIsHeld'
  BY <1>15 DEF ClickCancel
<1>16. ASSUME Wakes PROVE StageIsHeld'
  BY <1>16, NoneAssumption DEF Wakes, SolveEnds
<1>17. ASSUME PollAnswered PROVE StageIsHeld'
  BY <1>17, NoneAssumption DEF PollAnswered, SolveEnds
<1>18. ASSUME PollFails PROVE StageIsHeld'
  BY <1>18, NoneAssumption DEF PollFails, MayFail, Loses, SolveEnds
<1>19. ASSUME Restart PROVE StageIsHeld'
  BY <1>19 DEF Restart, MayFail
<1> QED
  BY <1>1, <1>2, <1>3, <1>4, <1>5, <1>6, <1>7, <1>8, <1>9, <1>10, <1>11, <1>12, <1>13,
     <1>14, <1>15, <1>16, <1>17, <1>18, <1>19, <1>20 DEF Next, JobStep, PostAnswered

\* ... and that a restart changes nothing before the first job.
LEMMA SavedStep ==
    ASSUME TypeOK, PhaseTellsStatus, SavedBefore, Next
    PROVE  SavedBefore'
<1> USE DEF TypeOK, PhaseTellsStatus, Working, SavedBefore, TerminalStatuses, JobStatuses,
           backend, jobVars, tab,
           KeepsStage, SetsStage
<1>1. ASSUME NEW j \in Jobs, JobBegins(j) PROVE SavedBefore'
  BY <1>1 DEF JobBegins, Thread, J!Start, J!Moves
<1>2. ASSUME NEW j \in Jobs, JobGate(j) PROVE SavedBefore'
  BY <1>2 DEF JobGate, Thread, J!Fail, J!Moves
<1>3. ASSUME NEW j \in Jobs, JobAdvances(j) PROVE SavedBefore'
  BY <1>3, FollowingPhases DEF JobAdvances, Thread
<1>4. ASSUME NEW j \in Jobs, JobIsCancelled(j) PROVE SavedBefore'
  BY <1>4, FollowingPhases DEF JobIsCancelled, Thread, J!Stop, J!Moves
<1>5. ASSUME NEW j \in Jobs, JobFails(j) PROVE SavedBefore'
  BY <1>5, FollowingPhases DEF JobFails, Thread, J!Fail, J!Moves
<1>20. ASSUME NEW j \in Jobs, JobRaises(j) PROVE SavedBefore'
  BY <1>20 DEF JobRaises, Thread, J!Fail, J!Moves
<1>6. ASSUME NEW j \in Jobs, JobDecides(j) PROVE SavedBefore'
  BY <1>6 DEF JobDecides, Thread, J!Stop, J!Commit, J!Moves
<1>7. ASSUME NEW j \in Jobs, JobAnnounces(j) PROVE SavedBefore'
  BY <1>7 DEF JobAnnounces, Thread, J!Finish, J!Moves
<1>8. ASSUME NEW j \in Jobs, JobSaves(j) PROVE SavedBefore'
  BY <1>8 DEF JobSaves, Thread
<1>9. ASSUME NEW j \in Jobs, CancelArrives(j) PROVE SavedBefore'
  BY <1>9 DEF CancelArrives, J!Ask, MayFail, Loses
<1>10. ASSUME NEW j \in Jobs, PostAccepted(j) PROVE SavedBefore'
  BY <1>10 DEF PostAccepted, J!Accept, J!Moves, MayFail, Loses, SolveEnds
<1>11. ASSUME PostRefused PROVE SavedBefore'
  BY <1>11 DEF PostRefused, SolveEnds
<1>12. ASSUME PostLost PROVE SavedBefore'
  BY <1>12 DEF PostLost, MayFail, Loses, SolveEnds
<1>13. ASSUME Dialogue PROVE SavedBefore'
  BY <1>13 DEF Dialogue, MayFail, Loses
<1>14. ASSUME ClickSolve PROVE SavedBefore'
  BY <1>14 DEF ClickSolve
<1>15. ASSUME ClickCancel PROVE SavedBefore'
  BY <1>15 DEF ClickCancel
<1>16. ASSUME Wakes PROVE SavedBefore'
  BY <1>16 DEF Wakes, SolveEnds
<1>17. ASSUME PollAnswered PROVE SavedBefore'
  BY <1>17 DEF PollAnswered, SolveEnds
<1>18. ASSUME PollFails PROVE SavedBefore'
  BY <1>18 DEF PollFails, MayFail, Loses, SolveEnds
<1>19. ASSUME Restart PROVE SavedBefore'
  BY <1>19 DEF Restart, MayFail
<1> QED
  BY <1>1, <1>2, <1>3, <1>4, <1>5, <1>6, <1>7, <1>8, <1>9, <1>10, <1>11, <1>12, <1>13,
     <1>14, <1>15, <1>16, <1>17, <1>18, <1>19, <1>20 DEF Next, JobStep, PostAnswered

\* ... and that a quiet tab is current.
LEMMA QuietStep ==
    ASSUME TypeOK, PhaseTellsStatus, KnowsItsJob,
           OnlyItsJobRuns, SavedBefore, QuietTabIsCurrent, Next
    PROVE  QuietTabIsCurrent'
<1> USE DEF TypeOK, PhaseTellsStatus, Working, KnowsItsJob, OnlyItsJobRuns, SavedBefore,
           QuietTabIsCurrent, Live, Banners, backend, jobVars, tab,
           KeepsStage, SetsStage
<1>1. ASSUME NEW j \in Jobs, JobBegins(j) PROVE QuietTabIsCurrent'
  BY <1>1 DEF JobBegins, Thread, J!Start, J!Moves
<1>2. ASSUME NEW j \in Jobs, JobGate(j) PROVE QuietTabIsCurrent'
  BY <1>2 DEF JobGate, Thread, J!Fail, J!Moves
<1>3. ASSUME NEW j \in Jobs, JobAdvances(j) PROVE QuietTabIsCurrent'
  BY <1>3, FollowingPhases DEF JobAdvances, Thread
<1>4. ASSUME NEW j \in Jobs, JobIsCancelled(j) PROVE QuietTabIsCurrent'
  BY <1>4, FollowingPhases DEF JobIsCancelled, Thread, J!Stop, J!Moves
<1>5. ASSUME NEW j \in Jobs, JobFails(j) PROVE QuietTabIsCurrent'
  BY <1>5, FollowingPhases DEF JobFails, Thread, J!Fail, J!Moves
<1>20. ASSUME NEW j \in Jobs, JobRaises(j) PROVE QuietTabIsCurrent'
  BY <1>20 DEF JobRaises, Thread, J!Fail, J!Moves
<1>6. ASSUME NEW j \in Jobs, JobDecides(j) PROVE QuietTabIsCurrent'
  BY <1>6 DEF JobDecides, Thread, J!Stop, J!Commit, J!Moves
<1>7. ASSUME NEW j \in Jobs, JobAnnounces(j) PROVE QuietTabIsCurrent'
  BY <1>7 DEF JobAnnounces, Thread, J!Finish, J!Moves
<1>8. ASSUME NEW j \in Jobs, JobSaves(j) PROVE QuietTabIsCurrent'
  BY <1>8 DEF JobSaves, Thread
<1>9. ASSUME NEW j \in Jobs, CancelArrives(j) PROVE QuietTabIsCurrent'
  BY <1>9 DEF CancelArrives, J!Ask, MayFail, Loses
<1>10. ASSUME NEW j \in Jobs, PostAccepted(j) PROVE QuietTabIsCurrent'
  BY <1>10, NoneAssumption DEF PostAccepted, J!Accept, J!Moves, MayFail, Loses, SolveEnds
<1>11. ASSUME PostRefused PROVE QuietTabIsCurrent'
  BY <1>11, NoneAssumption DEF PostRefused, SolveEnds
<1>12. ASSUME PostLost PROVE QuietTabIsCurrent'
  BY <1>12, NoneAssumption DEF PostLost, MayFail, Loses, SolveEnds
<1>13. ASSUME Dialogue PROVE QuietTabIsCurrent'
  BY <1>13 DEF Dialogue, MayFail, Loses
<1>14. ASSUME ClickSolve PROVE QuietTabIsCurrent'
  BY <1>14, NoneAssumption DEF ClickSolve
<1>15. ASSUME ClickCancel PROVE QuietTabIsCurrent'
  BY <1>15 DEF ClickCancel
<1>16. ASSUME Wakes PROVE QuietTabIsCurrent'
  BY <1>16, NoneAssumption DEF Wakes, SolveEnds
<1>17. ASSUME PollAnswered PROVE QuietTabIsCurrent'
  BY <1>17, NoneAssumption DEF PollAnswered, SolveEnds
<1>18. ASSUME PollFails PROVE QuietTabIsCurrent'
  BY <1>18, NoneAssumption DEF PollFails, MayFail, Loses, SolveEnds
<1>19. ASSUME Restart PROVE QuietTabIsCurrent'
  BY <1>19 DEF Restart, MayFail
<1> QED
  BY <1>1, <1>2, <1>3, <1>4, <1>5, <1>6, <1>7, <1>8, <1>9, <1>10, <1>11, <1>12, <1>13,
     <1>14, <1>15, <1>16, <1>17, <1>18, <1>19, <1>20 DEF Next, JobStep, PostAnswered

\* ... and that a cancel reaches its job.
LEMMA CancelStep ==
    ASSUME TypeOK, PhaseTellsStatus, UnknownBefore, KnowsItsJob, CancelReachesItsJob, Next
    PROVE  CancelReachesItsJob'
<1> USE DEF TypeOK, PhaseTellsStatus, UnknownBefore, KnowsItsJob, CancelReachesItsJob,
           JobStatuses, backend, jobVars, tab,
           KeepsStage, SetsStage
<1>1. ASSUME NEW j \in Jobs, JobBegins(j) PROVE CancelReachesItsJob'
  BY <1>1 DEF JobBegins, Thread, J!Start, J!Moves
<1>2. ASSUME NEW j \in Jobs, JobGate(j) PROVE CancelReachesItsJob'
  BY <1>2 DEF JobGate, Thread, J!Fail, J!Moves
<1>3. ASSUME NEW j \in Jobs, JobAdvances(j) PROVE CancelReachesItsJob'
  BY <1>3, FollowingPhases DEF JobAdvances, Thread
<1>4. ASSUME NEW j \in Jobs, JobIsCancelled(j) PROVE CancelReachesItsJob'
  BY <1>4, FollowingPhases DEF JobIsCancelled, Thread, J!Stop, J!Moves
<1>5. ASSUME NEW j \in Jobs, JobFails(j) PROVE CancelReachesItsJob'
  BY <1>5, FollowingPhases DEF JobFails, Thread, J!Fail, J!Moves
<1>20. ASSUME NEW j \in Jobs, JobRaises(j) PROVE CancelReachesItsJob'
  BY <1>20 DEF JobRaises, Thread, J!Fail, J!Moves
<1>6. ASSUME NEW j \in Jobs, JobDecides(j) PROVE CancelReachesItsJob'
  BY <1>6 DEF JobDecides, Thread, J!Stop, J!Commit, J!Moves
<1>7. ASSUME NEW j \in Jobs, JobAnnounces(j) PROVE CancelReachesItsJob'
  BY <1>7 DEF JobAnnounces, Thread, J!Finish, J!Moves
<1>8. ASSUME NEW j \in Jobs, JobSaves(j) PROVE CancelReachesItsJob'
  BY <1>8 DEF JobSaves, Thread
<1>9. ASSUME NEW j \in Jobs, CancelArrives(j) PROVE CancelReachesItsJob'
  BY <1>9 DEF CancelArrives, J!Ask, MayFail, Loses
<1>10. ASSUME NEW j \in Jobs, PostAccepted(j) PROVE CancelReachesItsJob'
  BY <1>10, NoneAssumption DEF PostAccepted, J!Accept, J!Moves, MayFail, Loses, SolveEnds
<1>11. ASSUME PostRefused PROVE CancelReachesItsJob'
  BY <1>11, NoneAssumption DEF PostRefused, SolveEnds
<1>12. ASSUME PostLost PROVE CancelReachesItsJob'
  BY <1>12, NoneAssumption DEF PostLost, MayFail, Loses, SolveEnds
<1>13. ASSUME Dialogue PROVE CancelReachesItsJob'
  BY <1>13 DEF Dialogue, MayFail, Loses
<1>14. ASSUME ClickSolve PROVE CancelReachesItsJob'
  BY <1>14, NoneAssumption DEF ClickSolve
<1>15. ASSUME ClickCancel PROVE CancelReachesItsJob'
  BY <1>15 DEF ClickCancel
<1>16. ASSUME Wakes PROVE CancelReachesItsJob'
  BY <1>16, NoneAssumption DEF Wakes, SolveEnds
<1>17. ASSUME PollAnswered PROVE CancelReachesItsJob'
  BY <1>17, NoneAssumption DEF PollAnswered, SolveEnds
<1>18. ASSUME PollFails PROVE CancelReachesItsJob'
  BY <1>18, NoneAssumption DEF PollFails, MayFail, Loses, SolveEnds
<1>19. ASSUME Restart PROVE CancelReachesItsJob'
  BY <1>19 DEF Restart, MayFail
<1> QED
  BY <1>1, <1>2, <1>3, <1>4, <1>5, <1>6, <1>7, <1>8, <1>9, <1>10, <1>11, <1>12, <1>13,
     <1>14, <1>15, <1>16, <1>17, <1>18, <1>19, <1>20 DEF Next, JobStep, PostAnswered

-----------------------------------------------------------------------------
LEMMA InitInductive == Init => IInv
<1> SUFFICES ASSUME Init PROVE IInv
  OBVIOUS
<1> USE NoneAssumption, BoundAssumption DEF Init, J!Init
<1>1. TypeOK
  <2>1. asked \in [Jobs -> BOOLEAN] /\ committed \in [Jobs -> BOOLEAN] /\ aborted \in BOOLEAN
    OBVIOUS
  <2>2. lost \in 0 .. MaxFaults /\ restarts \in 0 .. MaxFaults
    OBVIOUS
  <2> QED
    BY <2>1, <2>2 DEF TypeOK, JobPhases, Banners, Stages, JobStatuses
<1>2. PhaseTellsStatus /\ UnknownBefore /\ KnowsItsJob
  BY DEF PhaseTellsStatus, UnknownBefore, KnowsItsJob, Working
<1>3. OnlyItsJobRuns /\ StageIsHeld /\ SavedBefore
  BY DEF OnlyItsJobRuns, StageIsHeld, SavedBefore, Live, TransientStages
<1>4. QuietTabIsCurrent /\ CancelReachesItsJob
  BY DEF QuietTabIsCurrent, CancelReachesItsJob
<1> QED
  BY <1>1, <1>2, <1>3, <1>4 DEF IInv

LEMMA StepInductive == IInv /\ [Next]_vars => IInv'
<1> SUFFICES ASSUME IInv, [Next]_vars PROVE IInv'
  OBVIOUS
<1>1. CASE Next
  BY <1>1, TypeStep, PhaseStep, UnknownStep, KnowsStep, OnlyStep, HeldStep, SavedStep,
     QuietStep, CancelStep DEF IInv
<1>2. CASE UNCHANGED vars
  BY <1>2 DEF IInv, TypeOK, PhaseTellsStatus, UnknownBefore, KnowsItsJob, OnlyItsJobRuns,
              Live, StageIsHeld, AtWork, SavedBefore, QuietTabIsCurrent,
              CancelReachesItsJob, vars, backend, jobVars, tab,
           KeepsStage, SetsStage
<1> QED
  BY <1>1, <1>2

THEOREM Inductive == Spec => []IInv
BY InitInductive, StepInductive, PTL DEF Spec

\* The variables keep their types, for every number of jobs and faults.
THEOREM TypeCorrect == Spec => []TypeOK
BY Inductive, PTL DEF IInv

\* A tab that waits for nothing and shows no banner shows the session's stage,
\* unless it left a job behind or the backend restarted.
THEOREM QuietTab == Spec => []QuietTabIsCurrent
BY Inductive, PTL DEF IInv

\* Cancel reaches the job the tab is polling and no other.
THEOREM CancelsAreTrue == Spec => []CancelReachesItsJob
BY Inductive, PTL DEF IInv

\* Two jobs of one session run at once only after the tab left one behind.
THEOREM NoSecondSolve == Spec => []OneSolveAtATime
<1>1. IInv => OneSolveAtATime
  BY DEF IInv, OnlyItsJobRuns, OneSolveAtATime
<1> QED
  BY <1>1, Inductive, PTL

\* A transient stage has a job that will leave it, except a VALIDATED one in
\* which an exception run_solve does not catch has ended the job.
THEOREM StagesAreHeld == Spec => []TransientStageHasAJob
<1>1. IInv => TransientStageHasAJob
  BY DEF IInv, StageIsHeld, AtWork, PhaseTellsStatus, Working, Live, TransientStageHasAJob
<1> QED
  BY <1>1, Inductive, PTL

\* The jobs the client deals with keep the promises that SolvePipeline is proved
\* to keep: every step here is a step of JobLifecycle or leaves its jobs alone.
THEOREM JobsKeepPromises == Spec => J!Init /\ [][J!Next]_(J!vars)
<1>1. Init => J!Init
  BY DEF Init
<1>2. [Next]_vars => [J!Next]_(J!vars)
  <2> SUFFICES ASSUME [Next]_vars PROVE [J!Next]_(J!vars)
    OBVIOUS
  <2> USE DEF backend, jobVars, KeepsStage, SetsStage, J!Next, J!Work, J!vars
  <2>1. CASE UNCHANGED vars
    BY <2>1 DEF vars
  <2>2. ASSUME NEW j \in Jobs, JobStep(j) PROVE [J!Next]_(J!vars)
    BY <2>2 DEF JobStep, JobBegins, JobGate, JobAdvances, JobIsCancelled, JobFails,
                JobRaises, JobDecides, JobAnnounces, JobSaves
  <2>3. ASSUME NEW j \in Jobs, CancelArrives(j) \/ PostAccepted(j) PROVE [J!Next]_(J!vars)
    BY <2>3 DEF CancelArrives, PostAccepted
  <2>4. CASE \/ Dialogue \/ ClickSolve \/ ClickCancel \/ PostRefused \/ PostLost
             \/ Wakes \/ PollAnswered \/ PollFails \/ Restart
    BY <2>4 DEF Dialogue, ClickSolve, ClickCancel, PostRefused, PostLost, Wakes,
                PollAnswered, PollFails, Restart
  <2> QED
    BY <2>1, <2>2, <2>3, <2>4 DEF Next, PostAnswered
<1> QED
  BY <1>1, <1>2, PTL DEF Spec

=============================================================================
