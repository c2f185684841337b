------------------------- MODULE SolvePipelineProofs -------------------------
(***************************************************************************)
(* Proofs about SolvePipeline, for any number of request threads, jobs,    *)
(* spec objects, tables and questions.  The argument for the gate: a job   *)
(* works on the spec object it took from the session; validate_spec lets   *)
(* it pass only when that object has no unanswered question; and nothing   *)
(* reopens a question of an object that has left the parser.               *)
(***************************************************************************)
EXTENDS SolvePipeline, TLAPS

\* The job has taken a spec object and has not returned.
HoldsSpec == JobPcs \ {"none", "start", "gate", "take", "end", "fail_status"}

\* The job's spec object has been through validate_spec.
PastValidation == {"mark_validated", "check_build", "build", "mark_modeled",
                   "check_solve", "solve", "mark_solved", "check_explain",
                   "explain", "mark_explained", "finish", "set_done"}

\* No reference points at a spec object the parser has not built.
ReferencesAllocated ==
    /\ spec \in allocated \cup {NoSpec}
    /\ result.spec \in allocated \cup {NoSpec}
    /\ explanation.spec \in allocated \cup {NoSpec}
    /\ \A t \in Threads : mySpec[t] \in allocated \cup {NoSpec}
    /\ \A j \in Jobs : jobSpec[j] \in allocated \cup {NoSpec}

\* Where the code dereferences session.spec or its local spec, there is one.
SpecsAtHand ==
    /\ \A t \in Threads : pc[t] = "install" => mySpec[t] # NoSpec
    /\ \A t \in Threads : pc[t] \in {"clear_error", "ingest", "recompute"} => spec # NoSpec
    /\ \A j \in Jobs : jobPc[j] = "take" => spec # NoSpec
    /\ \A j \in Jobs : jobPc[j] \in HoldsSpec => jobSpec[j] # NoSpec

\* A job past the solver has written a result, and the session still has one.
ResultsKept ==
    /\ \A j \in Jobs : jobPc[j] \in {"mark_solved", "check_explain", "explain",
                                 "mark_explained", "finish", "set_done"} => published[j]
    /\ \A j \in Jobs : jobStatus[j] = "done" => published[j]
    /\ \A j \in Jobs : published[j] => result.spec # NoSpec

\* The job's status follows its program counter.
StatusFollows ==
    \A j \in Jobs :
        /\ jobPc[j] = "none" <=> jobStatus[j] = "none"
        /\ jobPc[j] = "start" <=> jobStatus[j] = "pending"
        /\ jobPc[j] = "end" => jobStatus[j] \in TerminalStatuses
        /\ jobPc[j] \notin {"none", "start", "end"} => jobStatus[j] = "running"
        /\ jobPc[j] \in {"abort", "abort_status"} => cancelEvent[j]
        /\ cancelEvent[j] => jobPc[j] # "none"

GateHeld ==
    /\ \A j \in Jobs : jobPc[j] \in PastValidation => open[jobSpec[j]] = {}
    /\ result.spec # NoSpec => open[result.spec] = {}
    /\ explanation.spec # NoSpec => open[explanation.spec] = {}

IInv == TypeOK /\ ReferencesAllocated /\ SpecsAtHand /\ GateHeld
        /\ ResultsKept /\ StatusFollows

-----------------------------------------------------------------------------
\* A new spec object is one nobody refers to.
LEMMA FreshSpecIsFresh ==
    ASSUME Specs \ allocated # {}
    PROVE  FreshSpec \in Specs /\ FreshSpec \notin allocated /\ FreshSpec # NoSpec
BY NoSpecAssumption DEF FreshSpec

\* Every step keeps the types.
LEMMA TypeStep ==
    ASSUME TypeOK, ReferencesAllocated, SpecsAtHand, Next
    PROVE  TypeOK'
<1> USE DEF TypeOK, Stages, ErrorCodes, ParseErrorCodes, SolveErrorCodes, ThreadPcs,
           JobPcs, JobChecks, JobMarks, JobStatuses,
           sessionVars, specVars, threadVars, jobVars,
           GoTo, JobGoTo
<1>1. ASSUME NEW t \in Threads, ParseBegin(t)
      PROVE  TypeOK'
  BY <1>1 DEF ParseBegin
<1>2. ASSUME NEW t \in Threads, ParseFails(t)
      PROVE  TypeOK'
  BY <1>2 DEF ParseFails
<1>3. ASSUME NEW t \in Threads, ParseRaises(t)
      PROVE  TypeOK'
  BY <1>3 DEF ParseRaises
<1>4. ASSUME NEW t \in Threads, InstallSpec(t)
      PROVE  TypeOK'
  BY <1>4 DEF InstallSpec, NoteCompany
<1>5. ASSUME NEW t \in Threads, ClearError(t)
      PROVE  TypeOK'
  BY <1>5 DEF ClearError, NoteCompany
<1>6. ASSUME NEW t \in Threads, Recompute(t)
      PROVE  TypeOK'
  BY <1>6 DEF Recompute, RecomputedStage
<1>7. ASSUME NEW t \in Threads, StoreStage(t)
      PROVE  TypeOK'
  BY <1>7 DEF StoreStage, NoteCompany
<1>8. ASSUME NEW t \in Threads, WriteErrorCode(t)
      PROVE  TypeOK'
  BY <1>8 DEF WriteErrorCode, NoteCompany
<1>9. ASSUME NEW t \in Threads, IngestRows(t)
      PROVE  TypeOK'
  BY <1>9 DEF IngestRows, Bump, NoteCompany, SpecsAtHand
<1>10. ASSUME NEW t \in Threads, IngestRaises(t)
      PROVE  TypeOK'
  BY <1>10 DEF IngestRaises, Bump, SpecsAtHand
<1>11. ASSUME NEW t \in Threads, EditSpec(t)
      PROVE  TypeOK'
  BY <1>11 DEF EditSpec, Bump, MayEdit, NoteCompany
<1>12. ASSUME NEW t \in Threads, EditRaises(t)
      PROVE  TypeOK'
  BY <1>12 DEF EditRaises, Bump, MayEdit
<1>13. ASSUME NEW t \in Threads, ParseBuildsSpec(t)
      PROVE  TypeOK'
  BY <1>13, FreshSpecIsFresh DEF ParseBuildsSpec
<1>14. ASSUME NEW t \in Threads, NEW m \in Mappings, ConfirmMapping(t, m)
      PROVE  TypeOK'
  BY <1>14 DEF ConfirmMapping, Bump, MayEdit, NoteCompany
<1>15. ASSUME NEW t \in Threads, NEW p \in PairwiseTables, ConfirmPairwise(t, p)
      PROVE  TypeOK'
  BY <1>15 DEF ConfirmPairwise, Bump, MayEdit, NoteCompany
<1>16. ASSUME NEW t \in Threads, NEW A \in SUBSET Ambiguities, Clarify(t, A)
      PROVE  TypeOK'
  BY <1>16 DEF Clarify, Answer, Bump, MayEdit, NoteCompany
<1>17. ASSUME NEW t \in Threads, NEW A \in SUBSET Ambiguities, ClarifyCancel(t, A)
      PROVE  TypeOK'
  BY <1>17 DEF ClarifyCancel, Answer, Bump, MayEdit, NoteCompany
<1>18. ASSUME NEW t \in Threads, NEW j \in Jobs, Solve(t, j)
      PROVE  TypeOK'
  BY <1>18 DEF Solve
<1>19. ASSUME NEW j \in Jobs, CancelJob(j)
      PROVE  TypeOK'
  BY <1>19 DEF CancelJob
<1>20. ASSUME NEW j \in Jobs, JobStart(j)
      PROVE  TypeOK'
  BY <1>20 DEF JobStart, JobSets
<1>21. ASSUME NEW j \in Jobs, JobGate(j)
      PROVE  TypeOK'
  BY <1>21 DEF JobGate
<1>22. ASSUME NEW j \in Jobs, JobTakeSpec(j)
      PROVE  TypeOK'
  BY <1>22 DEF JobTakeSpec
<1>23. ASSUME NEW j \in Jobs, CheckCancel(j)
      PROVE  TypeOK'
  BY <1>23 DEF CheckCancel, AfterCheck, JobChecks, HeardCancel
<1>24. ASSUME NEW j \in Jobs, JobAbort(j)
      PROVE  TypeOK'
  BY <1>24 DEF JobAbort
<1>25. ASSUME NEW j \in Jobs, JobAbortStatus(j)
      PROVE  TypeOK'
  BY <1>25 DEF JobAbortStatus, JobEnds, JobSets
<1>26. ASSUME NEW j \in Jobs, Validate(j)
      PROVE  TypeOK'
  BY <1>26 DEF Validate, JobFails, GatePassed
<1>27. ASSUME NEW j \in Jobs, JobRaises(j)
      PROVE  TypeOK'
  BY <1>27 DEF JobRaises
<1>28. ASSUME NEW j \in Jobs, BuildModel(j)
      PROVE  TypeOK'
  BY <1>28 DEF BuildModel, JobFails, SpecsAtHand, ReferencesAllocated, HoldsSpec
<1>29. ASSUME NEW j \in Jobs, RouteAndSolve(j)
      PROVE  TypeOK'
  <2>1. result' \in [spec : Specs \cup {NoSpec}, rev : Nat]
    BY <1>29 DEF RouteAndSolve
  <2>2. published' \in [Jobs -> BOOLEAN]
    BY <1>29 DEF RouteAndSolve
  <2>3. jobPc' \in [Jobs -> JobPcs] /\ jobCode' \in [Jobs -> ErrorCodes]
    BY <1>29 DEF RouteAndSolve, JobFails
  <2> QED
    BY <1>29, <2>1, <2>2, <2>3 DEF RouteAndSolve
<1>30. ASSUME NEW j \in Jobs, Explain(j)
      PROVE  TypeOK'
  BY <1>30 DEF Explain, Nothing
<1>31. ASSUME NEW j \in Jobs, MarkStage(j)
      PROVE  TypeOK'
  BY <1>31 DEF MarkStage, AfterMark, Marked, JobMarks
<1>32. ASSUME NEW j \in Jobs, MarkFailed(j)
      PROVE  TypeOK'
  BY <1>32 DEF MarkFailed
<1>33. ASSUME NEW j \in Jobs, WriteFailureCode(j)
      PROVE  TypeOK'
  BY <1>33 DEF WriteFailureCode
<1>34. ASSUME NEW j \in Jobs, JobFailStatus(j)
      PROVE  TypeOK'
  BY <1>34 DEF JobFailStatus, JobEnds, JobSets
<1>35. ASSUME NEW j \in Jobs, JobFinish(j)
      PROVE  TypeOK'
  BY <1>35 DEF JobFinish, JobEnds, JobSets, HeardCancel
<1>36. ASSUME NEW j \in Jobs, JobDone(j)
      PROVE  TypeOK'
  BY <1>36 DEF JobDone, JobEnds, JobSets
<1> QED
  BY <1>1, <1>2, <1>3, <1>4, <1>5, <1>6, <1>7, <1>8, <1>9, <1>10, <1>11,
     <1>12, <1>13, <1>14, <1>15, <1>16, <1>17, <1>18, <1>19, <1>20, <1>21,
     <1>22, <1>23, <1>24, <1>25, <1>26, <1>27, <1>28, <1>29, <1>30, <1>31,
     <1>32, <1>33, <1>34, <1>35, <1>36
  DEF Next, Request, Handle, JobStep

\* References stay within the allocated objects.
LEMMA ReferencesStep ==
    ASSUME TypeOK, ReferencesAllocated, Next
    PROVE  ReferencesAllocated'
<1> USE DEF TypeOK, ReferencesAllocated, sessionVars, specVars, threadVars, jobVars,
           GoTo, JobGoTo
<1>1. ASSUME NEW t \in Threads, ParseBegin(t)
      PROVE  ReferencesAllocated'
  BY <1>1 DEF ParseBegin
<1>2. ASSUME NEW t \in Threads, ParseFails(t)
      PROVE  ReferencesAllocated'
  BY <1>2 DEF ParseFails
<1>3. ASSUME NEW t \in Threads, ParseRaises(t)
      PROVE  ReferencesAllocated'
  BY <1>3 DEF ParseRaises
<1>4. ASSUME NEW t \in Threads, InstallSpec(t)
      PROVE  ReferencesAllocated'
  BY <1>4 DEF InstallSpec, NoteCompany
<1>5. ASSUME NEW t \in Threads, ClearError(t)
      PROVE  ReferencesAllocated'
  BY <1>5 DEF ClearError, NoteCompany
<1>6. ASSUME NEW t \in Threads, Recompute(t)
      PROVE  ReferencesAllocated'
  BY <1>6 DEF Recompute
<1>7. ASSUME NEW t \in Threads, StoreStage(t)
      PROVE  ReferencesAllocated'
  BY <1>7 DEF StoreStage, NoteCompany
<1>8. ASSUME NEW t \in Threads, WriteErrorCode(t)
      PROVE  ReferencesAllocated'
  BY <1>8 DEF WriteErrorCode, NoteCompany
<1>9. ASSUME NEW t \in Threads, IngestRows(t)
      PROVE  ReferencesAllocated'
  BY <1>9 DEF IngestRows, Bump, NoteCompany
<1>10. ASSUME NEW t \in Threads, IngestRaises(t)
      PROVE  ReferencesAllocated'
  BY <1>10 DEF IngestRaises, Bump
<1>11. ASSUME NEW t \in Threads, EditSpec(t)
      PROVE  ReferencesAllocated'
  BY <1>11 DEF EditSpec, Bump, MayEdit, NoteCompany
<1>12. ASSUME NEW t \in Threads, EditRaises(t)
      PROVE  ReferencesAllocated'
  BY <1>12 DEF EditRaises, Bump, MayEdit
<1>13. ASSUME NEW t \in Threads, ParseBuildsSpec(t)
      PROVE  ReferencesAllocated'
  BY <1>13, FreshSpecIsFresh DEF ParseBuildsSpec
<1>14. ASSUME NEW t \in Threads, NEW m \in Mappings, ConfirmMapping(t, m)
      PROVE  ReferencesAllocated'
  BY <1>14 DEF ConfirmMapping, Bump, MayEdit, NoteCompany
<1>15. ASSUME NEW t \in Threads, NEW p \in PairwiseTables, ConfirmPairwise(t, p)
      PROVE  ReferencesAllocated'
  BY <1>15 DEF ConfirmPairwise, Bump, MayEdit, NoteCompany
<1>16. ASSUME NEW t \in Threads, NEW A \in SUBSET Ambiguities, Clarify(t, A)
      PROVE  ReferencesAllocated'
  BY <1>16 DEF Clarify, Answer, Bump, MayEdit, NoteCompany
<1>17. ASSUME NEW t \in Threads, NEW A \in SUBSET Ambiguities, ClarifyCancel(t, A)
      PROVE  ReferencesAllocated'
  BY <1>17 DEF ClarifyCancel, Answer, Bump, MayEdit, NoteCompany
<1>18. ASSUME NEW t \in Threads, NEW j \in Jobs, Solve(t, j)
      PROVE  ReferencesAllocated'
  BY <1>18 DEF Solve
<1>19. ASSUME NEW j \in Jobs, CancelJob(j)
      PROVE  ReferencesAllocated'
  BY <1>19 DEF CancelJob
<1>20. ASSUME NEW j \in Jobs, JobStart(j)
      PROVE  ReferencesAllocated'
  BY <1>20 DEF JobStart, JobSets
<1>21. ASSUME NEW j \in Jobs, JobGate(j)
      PROVE  ReferencesAllocated'
  BY <1>21 DEF JobGate
<1>22. ASSUME NEW j \in Jobs, JobTakeSpec(j)
      PROVE  ReferencesAllocated'
  BY <1>22 DEF JobTakeSpec
<1>23. ASSUME NEW j \in Jobs, CheckCancel(j)
      PROVE  ReferencesAllocated'
  BY <1>23 DEF CheckCancel, AfterCheck, JobChecks, HeardCancel
<1>24. ASSUME NEW j \in Jobs, JobAbort(j)
      PROVE  ReferencesAllocated'
  BY <1>24 DEF JobAbort
<1>25. ASSUME NEW j \in Jobs, JobAbortStatus(j)
      PROVE  ReferencesAllocated'
  BY <1>25 DEF JobAbortStatus, JobEnds, JobSets
<1>26. ASSUME NEW j \in Jobs, Validate(j)
      PROVE  ReferencesAllocated'
  BY <1>26 DEF Validate, JobFails, GatePassed
<1>27. ASSUME NEW j \in Jobs, JobRaises(j)
      PROVE  ReferencesAllocated'
  BY <1>27 DEF JobRaises
<1>28. ASSUME NEW j \in Jobs, BuildModel(j)
      PROVE  ReferencesAllocated'
  BY <1>28 DEF BuildModel, JobFails
<1>29. ASSUME NEW j \in Jobs, RouteAndSolve(j)
      PROVE  ReferencesAllocated'
  BY <1>29 DEF RouteAndSolve, JobFails
<1>30. ASSUME NEW j \in Jobs, Explain(j)
      PROVE  ReferencesAllocated'
  BY <1>30 DEF Explain, Nothing
<1>31. ASSUME NEW j \in Jobs, MarkStage(j)
      PROVE  ReferencesAllocated'
  BY <1>31 DEF MarkStage, AfterMark, Marked, JobMarks
<1>32. ASSUME NEW j \in Jobs, MarkFailed(j)
      PROVE  ReferencesAllocated'
  BY <1>32 DEF MarkFailed
<1>33. ASSUME NEW j \in Jobs, WriteFailureCode(j)
      PROVE  ReferencesAllocated'
  BY <1>33 DEF WriteFailureCode
<1>34. ASSUME NEW j \in Jobs, JobFailStatus(j)
      PROVE  ReferencesAllocated'
  BY <1>34 DEF JobFailStatus, JobEnds, JobSets
<1>35. ASSUME NEW j \in Jobs, JobFinish(j)
      PROVE  ReferencesAllocated'
  BY <1>35 DEF JobFinish, JobEnds, JobSets, HeardCancel
<1>36. ASSUME NEW j \in Jobs, JobDone(j)
      PROVE  ReferencesAllocated'
  BY <1>36 DEF JobDone, JobEnds, JobSets
<1> QED
  BY <1>1, <1>2, <1>3, <1>4, <1>5, <1>6, <1>7, <1>8, <1>9, <1>10, <1>11,
     <1>12, <1>13, <1>14, <1>15, <1>16, <1>17, <1>18, <1>19, <1>20, <1>21,
     <1>22, <1>23, <1>24, <1>25, <1>26, <1>27, <1>28, <1>29, <1>30, <1>31,
     <1>32, <1>33, <1>34, <1>35, <1>36
  DEF Next, Request, Handle, JobStep

\* The specs the code is about to use stay there.
LEMMA SpecsAtHandStep ==
    ASSUME TypeOK, ReferencesAllocated, SpecsAtHand, Next
    PROVE  SpecsAtHand'
<1> USE DEF TypeOK, ReferencesAllocated, SpecsAtHand, HoldsSpec,
           ThreadPcs, JobPcs, JobChecks, JobMarks,
           sessionVars, specVars, threadVars, jobVars,
           GoTo, JobGoTo
<1>1. ASSUME NEW t \in Threads, ParseBegin(t)
      PROVE  SpecsAtHand'
  BY <1>1 DEF ParseBegin
<1>2. ASSUME NEW t \in Threads, ParseFails(t)
      PROVE  SpecsAtHand'
  BY <1>2 DEF ParseFails
<1>3. ASSUME NEW t \in Threads, ParseRaises(t)
      PROVE  SpecsAtHand'
  BY <1>3 DEF ParseRaises
<1>4. ASSUME NEW t \in Threads, InstallSpec(t)
      PROVE  SpecsAtHand'
  BY <1>4 DEF InstallSpec, NoteCompany
<1>5. ASSUME NEW t \in Threads, ClearError(t)
      PROVE  SpecsAtHand'
  BY <1>5 DEF ClearError, NoteCompany
<1>6. ASSUME NEW t \in Threads, Recompute(t)
      PROVE  SpecsAtHand'
  BY <1>6 DEF Recompute
<1>7. ASSUME NEW t \in Threads, StoreStage(t)
      PROVE  SpecsAtHand'
  BY <1>7 DEF StoreStage, NoteCompany
<1>8. ASSUME NEW t \in Threads, WriteErrorCode(t)
      PROVE  SpecsAtHand'
  BY <1>8 DEF WriteErrorCode, NoteCompany
<1>9. ASSUME NEW t \in Threads, IngestRows(t)
      PROVE  SpecsAtHand'
  BY <1>9 DEF IngestRows, Bump, NoteCompany
<1>10. ASSUME NEW t \in Threads, IngestRaises(t)
      PROVE  SpecsAtHand'
  BY <1>10 DEF IngestRaises, Bump
<1>11. ASSUME NEW t \in Threads, EditSpec(t)
      PROVE  SpecsAtHand'
  BY <1>11 DEF EditSpec, Bump, MayEdit, NoteCompany
<1>12. ASSUME NEW t \in Threads, EditRaises(t)
      PROVE  SpecsAtHand'
  BY <1>12 DEF EditRaises, Bump, MayEdit
<1>13. ASSUME NEW t \in Threads, ParseBuildsSpec(t)
      PROVE  SpecsAtHand'
  BY <1>13, FreshSpecIsFresh DEF ParseBuildsSpec
<1>14. ASSUME NEW t \in Threads, NEW m \in Mappings, ConfirmMapping(t, m)
      PROVE  SpecsAtHand'
  BY <1>14 DEF ConfirmMapping, Bump, MayEdit, NoteCompany
<1>15. ASSUME NEW t \in Threads, NEW p \in PairwiseTables, ConfirmPairwise(t, p)
      PROVE  SpecsAtHand'
  BY <1>15 DEF ConfirmPairwise, Bump, MayEdit, NoteCompany
<1>16. ASSUME NEW t \in Threads, NEW A \in SUBSET Ambiguities, Clarify(t, A)
      PROVE  SpecsAtHand'
  BY <1>16 DEF Clarify, Answer, Bump, MayEdit, NoteCompany
<1>17. ASSUME NEW t \in Threads, NEW A \in SUBSET Ambiguities, ClarifyCancel(t, A)
      PROVE  SpecsAtHand'
  BY <1>17 DEF ClarifyCancel, Answer, Bump, MayEdit, NoteCompany
<1>18. ASSUME NEW t \in Threads, NEW j \in Jobs, Solve(t, j)
      PROVE  SpecsAtHand'
  BY <1>18 DEF Solve
<1>19. ASSUME NEW j \in Jobs, CancelJob(j)
      PROVE  SpecsAtHand'
  BY <1>19 DEF CancelJob
<1>20. ASSUME NEW j \in Jobs, JobStart(j)
      PROVE  SpecsAtHand'
  BY <1>20 DEF JobStart, JobSets
<1>21. ASSUME NEW j \in Jobs, JobGate(j)
      PROVE  SpecsAtHand'
  BY <1>21 DEF JobGate
<1>22. ASSUME NEW j \in Jobs, JobTakeSpec(j)
      PROVE  SpecsAtHand'
  BY <1>22 DEF JobTakeSpec
<1>23. ASSUME NEW j \in Jobs, CheckCancel(j)
      PROVE  SpecsAtHand'
  BY <1>23 DEF CheckCancel, AfterCheck, JobChecks, HeardCancel
<1>24. ASSUME NEW j \in Jobs, JobAbort(j)
      PROVE  SpecsAtHand'
  BY <1>24 DEF JobAbort
<1>25. ASSUME NEW j \in Jobs, JobAbortStatus(j)
      PROVE  SpecsAtHand'
  BY <1>25 DEF JobAbortStatus, JobEnds, JobSets
<1>26. ASSUME NEW j \in Jobs, Validate(j)
      PROVE  SpecsAtHand'
  BY <1>26 DEF Validate, JobFails, GatePassed
<1>27. ASSUME NEW j \in Jobs, JobRaises(j)
      PROVE  SpecsAtHand'
  BY <1>27 DEF JobRaises
<1>28. ASSUME NEW j \in Jobs, BuildModel(j)
      PROVE  SpecsAtHand'
  BY <1>28 DEF BuildModel, JobFails
<1>29. ASSUME NEW j \in Jobs, RouteAndSolve(j)
      PROVE  SpecsAtHand'
  BY <1>29 DEF RouteAndSolve, JobFails
<1>30. ASSUME NEW j \in Jobs, Explain(j)
      PROVE  SpecsAtHand'
  BY <1>30 DEF Explain
<1>31. ASSUME NEW j \in Jobs, MarkStage(j)
      PROVE  SpecsAtHand'
  BY <1>31 DEF MarkStage, AfterMark, Marked, JobMarks
<1>32. ASSUME NEW j \in Jobs, MarkFailed(j)
      PROVE  SpecsAtHand'
  BY <1>32 DEF MarkFailed
<1>33. ASSUME NEW j \in Jobs, WriteFailureCode(j)
      PROVE  SpecsAtHand'
  BY <1>33 DEF WriteFailureCode
<1>34. ASSUME NEW j \in Jobs, JobFailStatus(j)
      PROVE  SpecsAtHand'
  BY <1>34 DEF JobFailStatus, JobEnds, JobSets
<1>35. ASSUME NEW j \in Jobs, JobFinish(j)
      PROVE  SpecsAtHand'
  BY <1>35 DEF JobFinish, JobEnds, JobSets, HeardCancel
<1>36. ASSUME NEW j \in Jobs, JobDone(j)
      PROVE  SpecsAtHand'
  BY <1>36 DEF JobDone, JobEnds, JobSets
<1> QED
  BY <1>1, <1>2, <1>3, <1>4, <1>5, <1>6, <1>7, <1>8, <1>9, <1>10, <1>11,
     <1>12, <1>13, <1>14, <1>15, <1>16, <1>17, <1>18, <1>19, <1>20, <1>21,
     <1>22, <1>23, <1>24, <1>25, <1>26, <1>27, <1>28, <1>29, <1>30, <1>31,
     <1>32, <1>33, <1>34, <1>35, <1>36
  DEF Next, Request, Handle, JobStep

\* What was validated stays without open questions.
LEMMA GateStep ==
    ASSUME TypeOK, ReferencesAllocated, SpecsAtHand, GateHeld, Next
    PROVE  GateHeld'
<1> USE DEF TypeOK, ReferencesAllocated, SpecsAtHand, GateHeld,
           HoldsSpec, PastValidation, ThreadPcs, JobPcs, JobChecks, JobMarks,
           sessionVars, specVars, threadVars, jobVars,
           GoTo, JobGoTo
<1>1. ASSUME NEW t \in Threads, ParseBegin(t)
      PROVE  GateHeld'
  BY <1>1 DEF ParseBegin
<1>2. ASSUME NEW t \in Threads, ParseFails(t)
      PROVE  GateHeld'
  BY <1>2 DEF ParseFails
<1>3. ASSUME NEW t \in Threads, ParseRaises(t)
      PROVE  GateHeld'
  BY <1>3 DEF ParseRaises
<1>4. ASSUME NEW t \in Threads, InstallSpec(t)
      PROVE  GateHeld'
  BY <1>4 DEF InstallSpec, NoteCompany
<1>5. ASSUME NEW t \in Threads, ClearError(t)
      PROVE  GateHeld'
  BY <1>5 DEF ClearError, NoteCompany
<1>6. ASSUME NEW t \in Threads, Recompute(t)
      PROVE  GateHeld'
  BY <1>6 DEF Recompute
<1>7. ASSUME NEW t \in Threads, StoreStage(t)
      PROVE  GateHeld'
  BY <1>7 DEF StoreStage, NoteCompany
<1>8. ASSUME NEW t \in Threads, WriteErrorCode(t)
      PROVE  GateHeld'
  BY <1>8 DEF WriteErrorCode, NoteCompany
<1>9. ASSUME NEW t \in Threads, IngestRows(t)
      PROVE  GateHeld'
  BY <1>9 DEF IngestRows, Bump, NoteCompany
<1>10. ASSUME NEW t \in Threads, IngestRaises(t)
      PROVE  GateHeld'
  BY <1>10 DEF IngestRaises, Bump
<1>11. ASSUME NEW t \in Threads, EditSpec(t)
      PROVE  GateHeld'
  BY <1>11 DEF EditSpec, Bump, MayEdit, NoteCompany
<1>12. ASSUME NEW t \in Threads, EditRaises(t)
      PROVE  GateHeld'
  BY <1>12 DEF EditRaises, Bump, MayEdit
<1>13. ASSUME NEW t \in Threads, ParseBuildsSpec(t)
      PROVE  GateHeld'
  <2>1. FreshSpec \in Specs /\ FreshSpec \notin allocated /\ FreshSpec # NoSpec
    BY <1>13, FreshSpecIsFresh DEF ParseBuildsSpec
  <2>2. \A s \in allocated : open'[s] = open[s]
    BY <1>13, <2>1 DEF ParseBuildsSpec
  <2>3. \A j \in Jobs : jobPc[j] \in PastValidation => jobSpec[j] \in allocated
    OBVIOUS
  <2> QED
    BY <1>13, <2>2, <2>3 DEF ParseBuildsSpec
<1>14. ASSUME NEW t \in Threads, NEW m \in Mappings, ConfirmMapping(t, m)
      PROVE  GateHeld'
  BY <1>14 DEF ConfirmMapping, Bump, MayEdit, NoteCompany
<1>15. ASSUME NEW t \in Threads, NEW p \in PairwiseTables, ConfirmPairwise(t, p)
      PROVE  GateHeld'
  BY <1>15 DEF ConfirmPairwise, Bump, MayEdit, NoteCompany
<1>16. ASSUME NEW t \in Threads, NEW A \in SUBSET Ambiguities, Clarify(t, A)
      PROVE  GateHeld'
  BY <1>16 DEF Clarify, Answer, Bump, MayEdit, NoteCompany
<1>17. ASSUME NEW t \in Threads, NEW A \in SUBSET Ambiguities, ClarifyCancel(t, A)
      PROVE  GateHeld'
  BY <1>17 DEF ClarifyCancel, Answer, Bump, MayEdit, NoteCompany
<1>18. ASSUME NEW t \in Threads, NEW j \in Jobs, Solve(t, j)
      PROVE  GateHeld'
  BY <1>18 DEF Solve
<1>19. ASSUME NEW j \in Jobs, CancelJob(j)
      PROVE  GateHeld'
  BY <1>19 DEF CancelJob
<1>20. ASSUME NEW j \in Jobs, JobStart(j)
      PROVE  GateHeld'
  BY <1>20 DEF JobStart, JobSets
<1>21. ASSUME NEW j \in Jobs, JobGate(j)
      PROVE  GateHeld'
  BY <1>21 DEF JobGate
<1>22. ASSUME NEW j \in Jobs, JobTakeSpec(j)
      PROVE  GateHeld'
  BY <1>22 DEF JobTakeSpec
<1>23. ASSUME NEW j \in Jobs, CheckCancel(j)
      PROVE  GateHeld'
  BY <1>23 DEF CheckCancel, AfterCheck, JobChecks, HeardCancel
<1>24. ASSUME NEW j \in Jobs, JobAbort(j)
      PROVE  GateHeld'
  BY <1>24 DEF JobAbort
<1>25. ASSUME NEW j \in Jobs, JobAbortStatus(j)
      PROVE  GateHeld'
  BY <1>25 DEF JobAbortStatus, JobEnds, JobSets
<1>26. ASSUME NEW j \in Jobs, Validate(j)
      PROVE  GateHeld'
  BY <1>26 DEF Validate, JobFails, GatePassed
<1>27. ASSUME NEW j \in Jobs, JobRaises(j)
      PROVE  GateHeld'
  BY <1>27 DEF JobRaises
<1>28. ASSUME NEW j \in Jobs, BuildModel(j)
      PROVE  GateHeld'
  BY <1>28 DEF BuildModel, JobFails
<1>29. ASSUME NEW j \in Jobs, RouteAndSolve(j)
      PROVE  GateHeld'
  BY <1>29 DEF RouteAndSolve, JobFails
<1>30. ASSUME NEW j \in Jobs, Explain(j)
      PROVE  GateHeld'
  BY <1>30 DEF Explain, Nothing
<1>31. ASSUME NEW j \in Jobs, MarkStage(j)
      PROVE  GateHeld'
  BY <1>31 DEF MarkStage, AfterMark, Marked, JobMarks
<1>32. ASSUME NEW j \in Jobs, MarkFailed(j)
      PROVE  GateHeld'
  BY <1>32 DEF MarkFailed
<1>33. ASSUME NEW j \in Jobs, WriteFailureCode(j)
      PROVE  GateHeld'
  BY <1>33 DEF WriteFailureCode
<1>34. ASSUME NEW j \in Jobs, JobFailStatus(j)
      PROVE  GateHeld'
  BY <1>34 DEF JobFailStatus, JobEnds, JobSets
<1>35. ASSUME NEW j \in Jobs, JobFinish(j)
      PROVE  GateHeld'
  BY <1>35 DEF JobFinish, JobEnds, JobSets, HeardCancel
<1>36. ASSUME NEW j \in Jobs, JobDone(j)
      PROVE  GateHeld'
  BY <1>36 DEF JobDone, JobEnds, JobSets
<1> QED
  BY <1>1, <1>2, <1>3, <1>4, <1>5, <1>6, <1>7, <1>8, <1>9, <1>10, <1>11,
     <1>12, <1>13, <1>14, <1>15, <1>16, <1>17, <1>18, <1>19, <1>20, <1>21,
     <1>22, <1>23, <1>24, <1>25, <1>26, <1>27, <1>28, <1>29, <1>30, <1>31,
     <1>32, <1>33, <1>34, <1>35, <1>36
  DEF Next, Request, Handle, JobStep

\* Results are not taken back.
LEMMA ResultsStep ==
    ASSUME TypeOK, SpecsAtHand, ResultsKept, Next
    PROVE  ResultsKept'
<1> USE DEF TypeOK, SpecsAtHand, ResultsKept, HoldsSpec,
           ThreadPcs, JobPcs, JobChecks, JobMarks,
           sessionVars, specVars, threadVars, jobVars,
           GoTo, JobGoTo
<1>1. ASSUME NEW t \in Threads, ParseBegin(t)
      PROVE  ResultsKept'
  BY <1>1 DEF ParseBegin
<1>2. ASSUME NEW t \in Threads, ParseFails(t)
      PROVE  ResultsKept'
  BY <1>2 DEF ParseFails
<1>3. ASSUME NEW t \in Threads, ParseRaises(t)
      PROVE  ResultsKept'
  BY <1>3 DEF ParseRaises
<1>4. ASSUME NEW t \in Threads, InstallSpec(t)
      PROVE  ResultsKept'
  BY <1>4 DEF InstallSpec, NoteCompany
<1>5. ASSUME NEW t \in Threads, ClearError(t)
      PROVE  ResultsKept'
  BY <1>5 DEF ClearError, NoteCompany
<1>6. ASSUME NEW t \in Threads, Recompute(t)
      PROVE  ResultsKept'
  BY <1>6 DEF Recompute
<1>7. ASSUME NEW t \in Threads, StoreStage(t)
      PROVE  ResultsKept'
  BY <1>7 DEF StoreStage, NoteCompany
<1>8. ASSUME NEW t \in Threads, WriteErrorCode(t)
      PROVE  ResultsKept'
  BY <1>8 DEF WriteErrorCode, NoteCompany
<1>9. ASSUME NEW t \in Threads, IngestRows(t)
      PROVE  ResultsKept'
  BY <1>9 DEF IngestRows, Bump, NoteCompany
<1>10. ASSUME NEW t \in Threads, IngestRaises(t)
      PROVE  ResultsKept'
  BY <1>10 DEF IngestRaises, Bump
<1>11. ASSUME NEW t \in Threads, EditSpec(t)
      PROVE  ResultsKept'
  BY <1>11 DEF EditSpec, Bump, MayEdit, NoteCompany
<1>12. ASSUME NEW t \in Threads, EditRaises(t)
      PROVE  ResultsKept'
  BY <1>12 DEF EditRaises, Bump, MayEdit
<1>13. ASSUME NEW t \in Threads, ParseBuildsSpec(t)
      PROVE  ResultsKept'
  BY <1>13, FreshSpecIsFresh DEF ParseBuildsSpec
<1>14. ASSUME NEW t \in Threads, NEW m \in Mappings, ConfirmMapping(t, m)
      PROVE  ResultsKept'
  BY <1>14 DEF ConfirmMapping, Bump, MayEdit, NoteCompany
<1>15. ASSUME NEW t \in Threads, NEW p \in PairwiseTables, ConfirmPairwise(t, p)
      PROVE  ResultsKept'
  BY <1>15 DEF ConfirmPairwise, Bump, MayEdit, NoteCompany
<1>16. ASSUME NEW t \in Threads, NEW A \in SUBSET Ambiguities, Clarify(t, A)
      PROVE  ResultsKept'
  BY <1>16 DEF Clarify, Answer, Bump, MayEdit, NoteCompany
<1>17. ASSUME NEW t \in Threads, NEW A \in SUBSET Ambiguities, ClarifyCancel(t, A)
      PROVE  ResultsKept'
  BY <1>17 DEF ClarifyCancel, Answer, Bump, MayEdit, NoteCompany
<1>18. ASSUME NEW t \in Threads, NEW j \in Jobs, Solve(t, j)
      PROVE  ResultsKept'
  BY <1>18 DEF Solve
<1>19. ASSUME NEW j \in Jobs, CancelJob(j)
      PROVE  ResultsKept'
  BY <1>19 DEF CancelJob
<1>20. ASSUME NEW j \in Jobs, JobStart(j)
      PROVE  ResultsKept'
  BY <1>20 DEF JobStart, JobSets
<1>21. ASSUME NEW j \in Jobs, JobGate(j)
      PROVE  ResultsKept'
  BY <1>21 DEF JobGate
<1>22. ASSUME NEW j \in Jobs, JobTakeSpec(j)
      PROVE  ResultsKept'
  BY <1>22 DEF JobTakeSpec
<1>23. ASSUME NEW j \in Jobs, CheckCancel(j)
      PROVE  ResultsKept'
  BY <1>23 DEF CheckCancel, AfterCheck, JobChecks, HeardCancel
<1>24. ASSUME NEW j \in Jobs, JobAbort(j)
      PROVE  ResultsKept'
  BY <1>24 DEF JobAbort
<1>25. ASSUME NEW j \in Jobs, JobAbortStatus(j)
      PROVE  ResultsKept'
  BY <1>25 DEF JobAbortStatus, JobEnds, JobSets
<1>26. ASSUME NEW j \in Jobs, Validate(j)
      PROVE  ResultsKept'
  BY <1>26 DEF Validate, JobFails, GatePassed
<1>27. ASSUME NEW j \in Jobs, JobRaises(j)
      PROVE  ResultsKept'
  BY <1>27 DEF JobRaises
<1>28. ASSUME NEW j \in Jobs, BuildModel(j)
      PROVE  ResultsKept'
  BY <1>28 DEF BuildModel, JobFails
<1>29. ASSUME NEW j \in Jobs, RouteAndSolve(j)
      PROVE  ResultsKept'
  BY <1>29 DEF RouteAndSolve, JobFails
<1>30. ASSUME NEW j \in Jobs, Explain(j)
      PROVE  ResultsKept'
  BY <1>30 DEF Explain, Nothing
<1>31. ASSUME NEW j \in Jobs, MarkStage(j)
      PROVE  ResultsKept'
  BY <1>31 DEF MarkStage, AfterMark, Marked, JobMarks
<1>32. ASSUME NEW j \in Jobs, MarkFailed(j)
      PROVE  ResultsKept'
  BY <1>32 DEF MarkFailed
<1>33. ASSUME NEW j \in Jobs, WriteFailureCode(j)
      PROVE  ResultsKept'
  BY <1>33 DEF WriteFailureCode
<1>34. ASSUME NEW j \in Jobs, JobFailStatus(j)
      PROVE  ResultsKept'
  BY <1>34 DEF JobFailStatus, JobEnds, JobSets
<1>35. ASSUME NEW j \in Jobs, JobFinish(j)
      PROVE  ResultsKept'
  BY <1>35 DEF JobFinish, JobEnds, JobSets, HeardCancel
<1>36. ASSUME NEW j \in Jobs, JobDone(j)
      PROVE  ResultsKept'
  BY <1>36 DEF JobDone, JobEnds, JobSets
<1> QED
  BY <1>1, <1>2, <1>3, <1>4, <1>5, <1>6, <1>7, <1>8, <1>9, <1>10, <1>11,
     <1>12, <1>13, <1>14, <1>15, <1>16, <1>17, <1>18, <1>19, <1>20, <1>21,
     <1>22, <1>23, <1>24, <1>25, <1>26, <1>27, <1>28, <1>29, <1>30, <1>31,
     <1>32, <1>33, <1>34, <1>35, <1>36
  DEF Next, Request, Handle, JobStep

\* Status and program counter move together.
LEMMA StatusStep ==
    ASSUME TypeOK, StatusFollows, Next
    PROVE  StatusFollows'
<1> USE DEF TypeOK, StatusFollows, TerminalStatuses, JobStatuses,
           ThreadPcs, JobPcs, JobChecks, JobMarks,
           sessionVars, specVars, threadVars, jobVars,
           GoTo, JobGoTo
<1>1. ASSUME NEW t \in Threads, ParseBegin(t)
      PROVE  StatusFollows'
  BY <1>1 DEF ParseBegin
<1>2. ASSUME NEW t \in Threads, ParseFails(t)
      PROVE  StatusFollows'
  BY <1>2 DEF ParseFails
<1>3. ASSUME NEW t \in Threads, ParseRaises(t)
      PROVE  StatusFollows'
  BY <1>3 DEF ParseRaises
<1>4. ASSUME NEW t \in Threads, InstallSpec(t)
      PROVE  StatusFollows'
  BY <1>4 DEF InstallSpec, NoteCompany
<1>5. ASSUME NEW t \in Threads, ClearError(t)
      PROVE  StatusFollows'
  BY <1>5 DEF ClearError, NoteCompany
<1>6. ASSUME NEW t \in Threads, Recompute(t)
      PROVE  StatusFollows'
  BY <1>6 DEF Recompute
<1>7. ASSUME NEW t \in Threads, StoreStage(t)
      PROVE  StatusFollows'
  BY <1>7 DEF StoreStage, NoteCompany
<1>8. ASSUME NEW t \in Threads, WriteErrorCode(t)
      PROVE  StatusFollows'
  BY <1>8 DEF WriteErrorCode, NoteCompany
<1>9. ASSUME NEW t \in Threads, IngestRows(t)
      PROVE  StatusFollows'
  BY <1>9 DEF IngestRows, Bump, NoteCompany
<1>10. ASSUME NEW t \in Threads, IngestRaises(t)
      PROVE  StatusFollows'
  BY <1>10 DEF IngestRaises, Bump
<1>11. ASSUME NEW t \in Threads, EditSpec(t)
      PROVE  StatusFollows'
  BY <1>11 DEF EditSpec, Bump, MayEdit, NoteCompany
<1>12. ASSUME NEW t \in Threads, EditRaises(t)
      PROVE  StatusFollows'
  BY <1>12 DEF EditRaises, Bump, MayEdit
<1>13. ASSUME NEW t \in Threads, ParseBuildsSpec(t)
      PROVE  StatusFollows'
  BY <1>13, FreshSpecIsFresh DEF ParseBuildsSpec
<1>14. ASSUME NEW t \in Threads, NEW m \in Mappings, ConfirmMapping(t, m)
      PROVE  StatusFollows'
  BY <1>14 DEF ConfirmMapping, Bump, MayEdit, NoteCompany
<1>15. ASSUME NEW t \in Threads, NEW p \in PairwiseTables, ConfirmPairwise(t, p)
      PROVE  StatusFollows'
  BY <1>15 DEF ConfirmPairwise, Bump, MayEdit, NoteCompany
<1>16. ASSUME NEW t \in Threads, NEW A \in SUBSET Ambiguities, Clarify(t, A)
      PROVE  StatusFollows'
  BY <1>16 DEF Clarify, Answer, Bump, MayEdit, NoteCompany
<1>17. ASSUME NEW t \in Threads, NEW A \in SUBSET Ambiguities, ClarifyCancel(t, A)
      PROVE  StatusFollows'
  BY <1>17 DEF ClarifyCancel, Answer, Bump, MayEdit, NoteCompany
<1>18. ASSUME NEW t \in Threads, NEW j \in Jobs, Solve(t, j)
      PROVE  StatusFollows'
  BY <1>18 DEF Solve
<1>19. ASSUME NEW j \in Jobs, CancelJob(j)
      PROVE  StatusFollows'
  BY <1>19 DEF CancelJob
<1>20. ASSUME NEW j \in Jobs, JobStart(j)
      PROVE  StatusFollows'
  BY <1>20 DEF JobStart, JobSets
<1>21. ASSUME NEW j \in Jobs, JobGate(j)
      PROVE  StatusFollows'
  BY <1>21 DEF JobGate
<1>22. ASSUME NEW j \in Jobs, JobTakeSpec(j)
      PROVE  StatusFollows'
  BY <1>22 DEF JobTakeSpec
<1>23. ASSUME NEW j \in Jobs, CheckCancel(j)
      PROVE  StatusFollows'
  BY <1>23 DEF CheckCancel, AfterCheck, JobChecks, HeardCancel
<1>24. ASSUME NEW j \in Jobs, JobAbort(j)
      PROVE  StatusFollows'
  BY <1>24 DEF JobAbort
<1>25. ASSUME NEW j \in Jobs, JobAbortStatus(j)
      PROVE  StatusFollows'
  BY <1>25 DEF JobAbortStatus, JobEnds, JobSets
<1>26. ASSUME NEW j \in Jobs, Validate(j)
      PROVE  StatusFollows'
  BY <1>26 DEF Validate, JobFails, GatePassed
<1>27. ASSUME NEW j \in Jobs, JobRaises(j)
      PROVE  StatusFollows'
  BY <1>27 DEF JobRaises
<1>28. ASSUME NEW j \in Jobs, BuildModel(j)
      PROVE  StatusFollows'
  BY <1>28 DEF BuildModel, JobFails
<1>29. ASSUME NEW j \in Jobs, RouteAndSolve(j)
      PROVE  StatusFollows'
  BY <1>29 DEF RouteAndSolve, JobFails
<1>30. ASSUME NEW j \in Jobs, Explain(j)
      PROVE  StatusFollows'
  BY <1>30 DEF Explain
<1>31. ASSUME NEW j \in Jobs, MarkStage(j)
      PROVE  StatusFollows'
  BY <1>31 DEF MarkStage, AfterMark, Marked, JobMarks
<1>32. ASSUME NEW j \in Jobs, MarkFailed(j)
      PROVE  StatusFollows'
  BY <1>32 DEF MarkFailed
<1>33. ASSUME NEW j \in Jobs, WriteFailureCode(j)
      PROVE  StatusFollows'
  BY <1>33 DEF WriteFailureCode
<1>34. ASSUME NEW j \in Jobs, JobFailStatus(j)
      PROVE  StatusFollows'
  BY <1>34 DEF JobFailStatus, JobEnds, JobSets
<1>35. ASSUME NEW j \in Jobs, JobFinish(j)
      PROVE  StatusFollows'
  BY <1>35 DEF JobFinish, JobEnds, JobSets, HeardCancel
<1>36. ASSUME NEW j \in Jobs, JobDone(j)
      PROVE  StatusFollows'
  BY <1>36 DEF JobDone, JobEnds, JobSets
<1> QED
  BY <1>1, <1>2, <1>3, <1>4, <1>5, <1>6, <1>7, <1>8, <1>9, <1>10, <1>11,
     <1>12, <1>13, <1>14, <1>15, <1>16, <1>17, <1>18, <1>19, <1>20, <1>21,
     <1>22, <1>23, <1>24, <1>25, <1>26, <1>27, <1>28, <1>29, <1>30, <1>31,
     <1>32, <1>33, <1>34, <1>35, <1>36
  DEF Next, Request, Handle, JobStep

\* Every step is a step of JobLifecycle or leaves its variables alone.
LEMMA LifecycleStep ==
    ASSUME TypeOK, StatusFollows, Next
    PROVE  [Lifecycle!Next]_(Lifecycle!vars)
<1> USE DEF TypeOK, StatusFollows, TerminalStatuses, JobStatuses,
           ThreadPcs, JobPcs, JobChecks, JobMarks,
           sessionVars, specVars, threadVars, jobVars,
           GoTo, JobGoTo,
           Lifecycle!Next, Lifecycle!vars, Lifecycle!Work, Lifecycle!Moves,
           Lifecycle!Accept, Lifecycle!Start, Lifecycle!Ask, Lifecycle!Commit,
           Lifecycle!Finish, Lifecycle!Stop, Lifecycle!Fail
<1>1. ASSUME NEW t \in Threads, ParseBegin(t)
      PROVE  [Lifecycle!Next]_(Lifecycle!vars)
  BY <1>1 DEF ParseBegin
<1>2. ASSUME NEW t \in Threads, ParseFails(t)
      PROVE  [Lifecycle!Next]_(Lifecycle!vars)
  BY <1>2 DEF ParseFails
<1>3. ASSUME NEW t \in Threads, ParseRaises(t)
      PROVE  [Lifecycle!Next]_(Lifecycle!vars)
  BY <1>3 DEF ParseRaises
<1>4. ASSUME NEW t \in Threads, InstallSpec(t)
      PROVE  [Lifecycle!Next]_(Lifecycle!vars)
  BY <1>4 DEF InstallSpec, NoteCompany
<1>5. ASSUME NEW t \in Threads, ClearError(t)
      PROVE  [Lifecycle!Next]_(Lifecycle!vars)
  BY <1>5 DEF ClearError, NoteCompany
<1>6. ASSUME NEW t \in Threads, Recompute(t)
      PROVE  [Lifecycle!Next]_(Lifecycle!vars)
  BY <1>6 DEF Recompute
<1>7. ASSUME NEW t \in Threads, StoreStage(t)
      PROVE  [Lifecycle!Next]_(Lifecycle!vars)
  BY <1>7 DEF StoreStage, NoteCompany
<1>8. ASSUME NEW t \in Threads, WriteErrorCode(t)
      PROVE  [Lifecycle!Next]_(Lifecycle!vars)
  BY <1>8 DEF WriteErrorCode, NoteCompany
<1>9. ASSUME NEW t \in Threads, IngestRows(t)
      PROVE  [Lifecycle!Next]_(Lifecycle!vars)
  BY <1>9 DEF IngestRows, Bump, NoteCompany
<1>10. ASSUME NEW t \in Threads, IngestRaises(t)
      PROVE  [Lifecycle!Next]_(Lifecycle!vars)
  BY <1>10 DEF IngestRaises, Bump
<1>11. ASSUME NEW t \in Threads, EditSpec(t)
      PROVE  [Lifecycle!Next]_(Lifecycle!vars)
  BY <1>11 DEF EditSpec, Bump, MayEdit, NoteCompany
<1>12. ASSUME NEW t \in Threads, EditRaises(t)
      PROVE  [Lifecycle!Next]_(Lifecycle!vars)
  BY <1>12 DEF EditRaises, Bump, MayEdit
<1>13. ASSUME NEW t \in Threads, ParseBuildsSpec(t)
      PROVE  [Lifecycle!Next]_(Lifecycle!vars)
  BY <1>13, FreshSpecIsFresh DEF ParseBuildsSpec
<1>14. ASSUME NEW t \in Threads, NEW m \in Mappings, ConfirmMapping(t, m)
      PROVE  [Lifecycle!Next]_(Lifecycle!vars)
  BY <1>14 DEF ConfirmMapping, Bump, MayEdit, NoteCompany
<1>15. ASSUME NEW t \in Threads, NEW p \in PairwiseTables, ConfirmPairwise(t, p)
      PROVE  [Lifecycle!Next]_(Lifecycle!vars)
  BY <1>15 DEF ConfirmPairwise, Bump, MayEdit, NoteCompany
<1>16. ASSUME NEW t \in Threads, NEW A \in SUBSET Ambiguities, Clarify(t, A)
      PROVE  [Lifecycle!Next]_(Lifecycle!vars)
  BY <1>16 DEF Clarify, Answer, Bump, MayEdit, NoteCompany
<1>17. ASSUME NEW t \in Threads, NEW A \in SUBSET Ambiguities, ClarifyCancel(t, A)
      PROVE  [Lifecycle!Next]_(Lifecycle!vars)
  BY <1>17 DEF ClarifyCancel, Answer, Bump, MayEdit, NoteCompany
<1>18. ASSUME NEW t \in Threads, NEW j \in Jobs, Solve(t, j)
      PROVE  [Lifecycle!Next]_(Lifecycle!vars)
  BY <1>18 DEF Solve
<1>19. ASSUME NEW j \in Jobs, CancelJob(j)
      PROVE  [Lifecycle!Next]_(Lifecycle!vars)
  BY <1>19 DEF CancelJob
<1>20. ASSUME NEW j \in Jobs, JobStart(j)
      PROVE  [Lifecycle!Next]_(Lifecycle!vars)
  BY <1>20 DEF JobStart, JobSets
<1>21. ASSUME NEW j \in Jobs, JobGate(j)
      PROVE  [Lifecycle!Next]_(Lifecycle!vars)
  <2>1. /\ jobPc'[j] \notin {"set_done"} /\ jobPc[j] # "set_done"
        /\ \A k \in Jobs \ {j} : jobPc'[k] = jobPc[k]
    BY <1>21 DEF JobGate
  <2>2. UNCHANGED <<jobStatus, cancelEvent>>
    BY <1>21 DEF JobGate
  <2> QED
    BY <2>1, <2>2
<1>22. ASSUME NEW j \in Jobs, JobTakeSpec(j)
      PROVE  [Lifecycle!Next]_(Lifecycle!vars)
  BY <1>22 DEF JobTakeSpec
<1>23. ASSUME NEW j \in Jobs, CheckCancel(j)
      PROVE  [Lifecycle!Next]_(Lifecycle!vars)
  BY <1>23 DEF CheckCancel, AfterCheck, JobChecks, HeardCancel
<1>24. ASSUME NEW j \in Jobs, JobAbort(j)
      PROVE  [Lifecycle!Next]_(Lifecycle!vars)
  BY <1>24 DEF JobAbort
<1>25. ASSUME NEW j \in Jobs, JobAbortStatus(j)
      PROVE  [Lifecycle!Next]_(Lifecycle!vars)
  BY <1>25 DEF JobAbortStatus, JobEnds, JobSets
<1>26. ASSUME NEW j \in Jobs, Validate(j)
      PROVE  [Lifecycle!Next]_(Lifecycle!vars)
  BY <1>26 DEF Validate, JobFails, GatePassed
<1>27. ASSUME NEW j \in Jobs, JobRaises(j)
      PROVE  [Lifecycle!Next]_(Lifecycle!vars)
  BY <1>27 DEF JobRaises
<1>28. ASSUME NEW j \in Jobs, BuildModel(j)
      PROVE  [Lifecycle!Next]_(Lifecycle!vars)
  BY <1>28 DEF BuildModel, JobFails
<1>29. ASSUME NEW j \in Jobs, RouteAndSolve(j)
      PROVE  [Lifecycle!Next]_(Lifecycle!vars)
  BY <1>29 DEF RouteAndSolve, JobFails
<1>30. ASSUME NEW j \in Jobs, Explain(j)
      PROVE  [Lifecycle!Next]_(Lifecycle!vars)
  BY <1>30 DEF Explain
<1>31. ASSUME NEW j \in Jobs, MarkStage(j)
      PROVE  [Lifecycle!Next]_(Lifecycle!vars)
  BY <1>31 DEF MarkStage, AfterMark, Marked, JobMarks
<1>32. ASSUME NEW j \in Jobs, MarkFailed(j)
      PROVE  [Lifecycle!Next]_(Lifecycle!vars)
  BY <1>32 DEF MarkFailed
<1>33. ASSUME NEW j \in Jobs, WriteFailureCode(j)
      PROVE  [Lifecycle!Next]_(Lifecycle!vars)
  BY <1>33 DEF WriteFailureCode
<1>34. ASSUME NEW j \in Jobs, JobFailStatus(j)
      PROVE  [Lifecycle!Next]_(Lifecycle!vars)
  BY <1>34 DEF JobFailStatus, JobEnds, JobSets
<1>35. ASSUME NEW j \in Jobs, JobFinish(j)
      PROVE  [Lifecycle!Next]_(Lifecycle!vars)
  <2>1. CASE cancelEvent[j]
    <3>1. /\ jobPc' = [jobPc EXCEPT ![j] = "end"]
          /\ jobStatus' = [jobStatus EXCEPT ![j] = "cancelled"]
          /\ jobPc[j] = "finish" /\ jobStatus[j] = "running"
          /\ UNCHANGED cancelEvent
      BY <1>35, <2>1 DEF JobFinish, JobEnds, JobSets, HeardCancel
    <3>2. Lifecycle!Stop(j)
      BY <2>1, <3>1
    <3> QED
      BY <3>2
  <2>2. CASE ~cancelEvent[j]
    <3>1. /\ jobPc' = [jobPc EXCEPT ![j] = "set_done"]
          /\ UNCHANGED <<jobStatus, cancelEvent>>
          /\ jobPc[j] = "finish" /\ jobStatus[j] = "running"
      BY <1>35, <2>2 DEF JobFinish, HeardCancel
    <3>2. [k \in Jobs |-> jobPc'[k] = "set_done" \/ jobStatus'[k] = "done"]
            = [[k \in Jobs |-> jobPc[k] = "set_done" \/ jobStatus[k] = "done"]
                 EXCEPT ![j] = TRUE]
      BY <3>1
    <3>3. Lifecycle!Commit(j)
      BY <2>2, <3>1, <3>2
    <3> QED
      BY <3>3
  <2> QED
    BY <2>1, <2>2
<1>36. ASSUME NEW j \in Jobs, JobDone(j)
      PROVE  [Lifecycle!Next]_(Lifecycle!vars)
  BY <1>36 DEF JobDone, JobEnds, JobSets
<1> QED
  BY <1>1, <1>2, <1>3, <1>4, <1>5, <1>6, <1>7, <1>8, <1>9, <1>10, <1>11,
     <1>12, <1>13, <1>14, <1>15, <1>16, <1>17, <1>18, <1>19, <1>20, <1>21,
     <1>22, <1>23, <1>24, <1>25, <1>26, <1>27, <1>28, <1>29, <1>30, <1>31,
     <1>32, <1>33, <1>34, <1>35, <1>36
  DEF Next, Request, Handle, JobStep

-----------------------------------------------------------------------------
\* The invariant holds at the start.
LEMMA InitInductive == Init => IInv
<1> SUFFICES ASSUME Init PROVE IInv
  OBVIOUS
<1>1. TypeOK
  BY DEF Init, TypeOK, Nothing, Stages, ErrorCodes, ThreadPcs, JobPcs
<1>2. ReferencesAllocated /\ SpecsAtHand /\ GateHeld
  BY DEF Init, ReferencesAllocated, SpecsAtHand, GateHeld, Nothing, HoldsSpec, PastValidation
<1>3. ResultsKept /\ StatusFollows
  BY DEF Init, ResultsKept, StatusFollows
<1> QED
  BY <1>1, <1>2, <1>3 DEF IInv

\* Every step keeps it.
LEMMA StepInductive == IInv /\ [Next]_vars => IInv'
<1> SUFFICES ASSUME IInv, [Next]_vars PROVE IInv'
  OBVIOUS
<1>1. CASE Next
  BY <1>1, TypeStep, ReferencesStep, SpecsAtHandStep, GateStep, ResultsStep, StatusStep
  DEF IInv
<1>2. CASE UNCHANGED vars
  BY <1>2 DEF IInv, TypeOK, ReferencesAllocated, SpecsAtHand, GateHeld, ResultsKept,
              StatusFollows, vars, sessionVars, specVars, threadVars, jobVars
<1> QED
  BY <1>1, <1>2

\* The invariant always holds.
THEOREM Inductive == Spec => []IInv
BY InitInductive, StepInductive, PTL DEF Spec

\* The variables keep their types, for every number of threads, jobs and specs.
THEOREM TypeCorrect == Spec => []TypeOK
BY Inductive, PTL DEF IInv

\* The clarification gate holds under every interleaving of requests and jobs:
\* no model, result or explanation comes from a spec with an open question.
THEOREM GateIsMandatory == Spec => []ClarificationGate
<1>1. IInv => ClarificationGate
  BY DEF IInv, GateHeld, ClarificationGate, PastValidation
<1> QED
  BY <1>1, Inductive, PTL

\* A DONE job's session holds a result.
THEOREM DoneMeansResult == Spec => []DoneJobsHaveResults
<1>1. IInv => DoneJobsHaveResults
  BY DEF IInv, ResultsKept, DoneJobsHaveResults, Nothing
<1> QED
  BY <1>1, Inductive, PTL

\* The safety part of the refinement: the pipeline's steps, seen through
\* jobStatus and cancelEvent, are steps of JobLifecycle.
THEOREM ImplementsLifecycle == Spec => Lifecycle!Init /\ [][Lifecycle!Next]_(Lifecycle!vars)
<1>1. Init => Lifecycle!Init
  BY DEF Init, Lifecycle!Init
<1>2. IInv /\ [Next]_vars => [Lifecycle!Next]_(Lifecycle!vars)
  <2> SUFFICES ASSUME IInv, [Next]_vars PROVE [Lifecycle!Next]_(Lifecycle!vars)
    OBVIOUS
  <2>1. CASE Next
    BY <2>1, LifecycleStep DEF IInv
  <2>2. CASE UNCHANGED vars
    BY <2>2 DEF vars, jobVars, Lifecycle!vars
  <2> QED
    BY <2>1, <2>2
<1> QED
  BY <1>1, <1>2, Inductive, PTL DEF Spec

-----------------------------------------------------------------------------
(* What the session's stage and error code say once everybody has returned: *)
(* every writer that leaves FAILED without a code has a write before it     *)
(* that will repair this; and as long as nothing is disturbed, between the  *)
(* first and the last write of a request no other request writes, so it     *)
(* stores the stage that the spec still deserves, and the jobs it finds     *)
(* running work on the spec as it is.  At the end: what a cancel in time    *)
(* prevents.                                                                *)

\* Whoever is about to write an error code has one.
CodesAtHand ==
    /\ \A t \in Threads : pc[t] = "write_code" => code[t] # "none"
    /\ \A t \in Threads : pc[t] = "store_stage" /\ target[t] = "failed" => code[t] # "none"
    /\ \A j \in Jobs : jobPc[j] \in {"fail", "fail_code"} => jobCode[j] # "none"

\* A failure without a code has a writer that is not done with it: one that will
\* write the code, or one that cleared it and will write another stage.
FailuresArePending ==
    stage = "failed" /\ errorCode = "none" =>
        \/ \E t \in Threads : pc[t] \in {"recompute", "store_stage", "write_code"}
        \/ \E j \in Jobs : jobPc[j] \in {"fail_code", "mark_explained"}

\* A thread that changed the spec, or what it says, and has not stored the stage.
Mid(t) == \/ pc[t] \in {"clear_error", "ingest", "recompute"}
          \/ pc[t] = "store_stage" /\ target[t] # "failed"

\* The stage a thread is about to store.
TargetsAreCurrent ==
    /\ \A t \in Threads : pc[t] = "store_stage" =>
          target[t] \in {"failed", "cancelled", "awaiting_column_mapping",
                         "awaiting_clarification", "ready"}
    /\ ~disturbed => \A t \in Threads :
          pc[t] = "store_stage" /\ target[t] \notin {"failed", "cancelled"} =>
             /\ spec # NoSpec
             /\ target[t] = RecomputedStage(unconfirmed[spec], open[spec])

\* A transient stage has a job that will write the next one.
HoldsStage == {"check_build", "build", "mark_modeled", "check_solve", "solve",
               "mark_solved", "check_explain", "explain", "mark_explained",
               "abort", "fail"}
TransientStagesAreHeld ==
    ~disturbed /\ stage \in TransientStages => \E j \in Jobs : jobPc[j] \in HoldsStage

\* What the stage says, and the jobs that run find the spec they took.
StageIsTrue ==
    /\ stage = "created" => spec = NoSpec
    /\ stage = "awaiting_column_mapping" => spec # NoSpec /\ unconfirmed[spec] # {}
    /\ stage = "awaiting_clarification" =>
          spec # NoSpec /\ unconfirmed[spec] = {} /\ open[spec] # {}
    /\ stage = "ready" => spec # NoSpec /\ unconfirmed[spec] = {} /\ open[spec] = {}
    /\ stage = "explained" =>
          /\ spec # NoSpec /\ unconfirmed[spec] = {} /\ open[spec] = {}
          /\ result = [spec |-> spec, rev |-> rev[spec]]
          /\ explanation \in {Nothing, result}

JobsAreCurrent ==
    \A j \in Jobs : JobActive(j) =>
        /\ spec # NoSpec /\ unconfirmed[spec] = {} /\ open[spec] = {}
        /\ jobPc[j] \in HoldsSpec => jobSpec[j] = spec
        /\ jobPc[j] \in {"mark_modeled", "check_solve", "solve"} => jobRev[j] = rev[spec]
        /\ jobPc[j] \in {"mark_solved", "check_explain", "explain", "mark_explained"} =>
              result = [spec |-> spec, rev |-> rev[spec]]
        /\ jobPc[j] = "mark_explained" => explanation \in {Nothing, result}

Settled == ~disturbed /\ \A t \in Threads : ~Mid(t)
SettledIsTrue == Settled => StageIsTrue /\ JobsAreCurrent

SInv == IInv /\ CodesAtHand /\ FailuresArePending /\ TargetsAreCurrent
        /\ TransientStagesAreHeld /\ SettledIsTrue

-----------------------------------------------------------------------------
\* A job on its way to the solver has written nothing.
Unpublished(j) == jobPc[j] \in {"none", "solve"} \cup UpToSolveCheck => ~published[j]

\* A cancel came in time: the job has not entered the solver.
StoppedInTime(j) == cancelEvent[j] /\ ~published[j] /\ jobPc[j] # "solve"

-----------------------------------------------------------------------------
\* Every step keeps that a writer of an error code has one.
LEMMA CodesStep ==
    ASSUME TypeOK, CodesAtHand, Next
    PROVE  CodesAtHand'
<1> USE DEF TypeOK, CodesAtHand, sessionVars, specVars, threadVars, jobVars, GoTo,
           JobGoTo
<1>1. ASSUME NEW t \in Threads, ParseBegin(t) PROVE CodesAtHand'
  BY <1>1 DEF ParseBegin
<1>2. ASSUME NEW t \in Threads, ParseFails(t) PROVE CodesAtHand'
  BY <1>2 DEF ParseFails, ParseErrorCodes
<1>3. ASSUME NEW t \in Threads, ParseRaises(t) PROVE CodesAtHand'
  BY <1>3 DEF ParseRaises
<1>4. ASSUME NEW t \in Threads, InstallSpec(t) PROVE CodesAtHand'
  BY <1>4 DEF InstallSpec, NoteCompany
<1>5. ASSUME NEW t \in Threads, ClearError(t) PROVE CodesAtHand'
  BY <1>5 DEF ClearError, NoteCompany
<1>6. ASSUME NEW t \in Threads, Recompute(t) PROVE CodesAtHand'
  BY <1>6 DEF Recompute, RecomputedStage
<1>7. ASSUME NEW t \in Threads, StoreStage(t) PROVE CodesAtHand'
  BY <1>7 DEF StoreStage, NoteCompany
<1>8. ASSUME NEW t \in Threads, WriteErrorCode(t) PROVE CodesAtHand'
  BY <1>8 DEF WriteErrorCode, NoteCompany
<1>9. ASSUME NEW t \in Threads, IngestRows(t) PROVE CodesAtHand'
  BY <1>9 DEF IngestRows, Bump, NoteCompany
<1>10. ASSUME NEW t \in Threads, IngestRaises(t) PROVE CodesAtHand'
  BY <1>10 DEF IngestRaises, Bump
<1>11. ASSUME NEW t \in Threads, EditSpec(t) PROVE CodesAtHand'
  BY <1>11 DEF EditSpec, Bump, MayEdit, NoteCompany
<1>12. ASSUME NEW t \in Threads, EditRaises(t) PROVE CodesAtHand'
  BY <1>12 DEF EditRaises, Bump, MayEdit
<1>13. ASSUME NEW t \in Threads, ParseBuildsSpec(t) PROVE CodesAtHand'
  BY <1>13 DEF ParseBuildsSpec
<1>14. ASSUME NEW t \in Threads, NEW m \in Mappings, ConfirmMapping(t, m)
       PROVE  CodesAtHand'
  BY <1>14 DEF ConfirmMapping, MayEdit, NoteCompany
<1>15. ASSUME NEW t \in Threads, NEW p \in PairwiseTables, ConfirmPairwise(t, p)
       PROVE  CodesAtHand'
  BY <1>15 DEF ConfirmPairwise, Bump, MayEdit, NoteCompany
<1>16. ASSUME NEW t \in Threads, NEW A \in SUBSET Ambiguities, Clarify(t, A)
       PROVE  CodesAtHand'
  BY <1>16 DEF Clarify, Answer, Bump, MayEdit, NoteCompany
<1>17. ASSUME NEW t \in Threads, NEW A \in SUBSET Ambiguities, ClarifyCancel(t, A)
       PROVE  CodesAtHand'
  BY <1>17 DEF ClarifyCancel, Answer, Bump, MayEdit, NoteCompany
<1>18. ASSUME NEW t \in Threads, NEW j \in Jobs, Solve(t, j) PROVE CodesAtHand'
  BY <1>18 DEF Solve
<1>19. ASSUME NEW j \in Jobs, CancelJob(j) PROVE CodesAtHand'
  BY <1>19 DEF CancelJob
<1>20. ASSUME NEW j \in Jobs, JobStart(j) PROVE CodesAtHand'
  BY <1>20 DEF JobStart, JobSets
<1>21. ASSUME NEW j \in Jobs, JobGate(j) PROVE CodesAtHand'
  BY <1>21 DEF JobGate
<1>22. ASSUME NEW j \in Jobs, JobTakeSpec(j) PROVE CodesAtHand'
  BY <1>22 DEF JobTakeSpec
<1>23. ASSUME NEW j \in Jobs, CheckCancel(j) PROVE CodesAtHand'
  BY <1>23 DEF CheckCancel, AfterCheck, JobChecks, HeardCancel
<1>24. ASSUME NEW j \in Jobs, JobAbort(j) PROVE CodesAtHand'
  BY <1>24 DEF JobAbort
<1>25. ASSUME NEW j \in Jobs, JobAbortStatus(j) PROVE CodesAtHand'
  BY <1>25 DEF JobAbortStatus, JobEnds, JobSets
<1>26. ASSUME NEW j \in Jobs, Validate(j) PROVE CodesAtHand'
  BY <1>26 DEF Validate, JobFails
<1>27. ASSUME NEW j \in Jobs, JobRaises(j) PROVE CodesAtHand'
  BY <1>27 DEF JobRaises
<1>28. ASSUME NEW j \in Jobs, BuildModel(j) PROVE CodesAtHand'
  BY <1>28 DEF BuildModel, JobFails
<1>29. ASSUME NEW j \in Jobs, RouteAndSolve(j) PROVE CodesAtHand'
  BY <1>29 DEF RouteAndSolve, JobFails
<1>30. ASSUME NEW j \in Jobs, Explain(j) PROVE CodesAtHand'
  BY <1>30 DEF Explain
<1>31. ASSUME NEW j \in Jobs, MarkStage(j) PROVE CodesAtHand'
  BY <1>31 DEF MarkStage, AfterMark, Marked, JobMarks
<1>32. ASSUME NEW j \in Jobs, MarkFailed(j) PROVE CodesAtHand'
  BY <1>32 DEF MarkFailed
<1>33. ASSUME NEW j \in Jobs, WriteFailureCode(j) PROVE CodesAtHand'
  BY <1>33 DEF WriteFailureCode
<1>34. ASSUME NEW j \in Jobs, JobFailStatus(j) PROVE CodesAtHand'
  BY <1>34 DEF JobFailStatus, JobEnds, JobSets
<1>35. ASSUME NEW j \in Jobs, JobFinish(j) PROVE CodesAtHand'
  BY <1>35 DEF JobFinish, JobEnds, JobSets, HeardCancel
<1>36. ASSUME NEW j \in Jobs, JobDone(j) PROVE CodesAtHand'
  BY <1>36 DEF JobDone, JobEnds, JobSets
<1> QED
  BY <1>1, <1>2, <1>3, <1>4, <1>5, <1>6, <1>7, <1>8, <1>9, <1>10, <1>11, <1>12, <1>13,
     <1>14, <1>15, <1>16, <1>17, <1>18, <1>19, <1>20, <1>21, <1>22, <1>23, <1>24, <1>25,
     <1>26, <1>27, <1>28, <1>29, <1>30, <1>31, <1>32, <1>33, <1>34, <1>35, <1>36
  DEF Next, Request, Handle, JobStep

\* ... and that a failure without a code is not finished.
LEMMA PendingStep ==
    ASSUME TypeOK, CodesAtHand, FailuresArePending, Next
    PROVE  FailuresArePending'
<1> USE DEF TypeOK, CodesAtHand, FailuresArePending, sessionVars, specVars, threadVars,
           jobVars, GoTo, JobGoTo
<1>1. ASSUME NEW t \in Threads, ParseBegin(t) PROVE FailuresArePending'
  BY <1>1 DEF ParseBegin
<1>2. ASSUME NEW t \in Threads, ParseFails(t) PROVE FailuresArePending'
  BY <1>2 DEF ParseFails
<1>3. ASSUME NEW t \in Threads, ParseRaises(t) PROVE FailuresArePending'
  BY <1>3 DEF ParseRaises
<1>4. ASSUME NEW t \in Threads, InstallSpec(t) PROVE FailuresArePending'
  BY <1>4 DEF InstallSpec, NoteCompany
<1>5. ASSUME NEW t \in Threads, ClearError(t) PROVE FailuresArePending'
  BY <1>5 DEF ClearError, NoteCompany
<1>6. ASSUME NEW t \in Threads, Recompute(t) PROVE FailuresArePending'
  BY <1>6 DEF Recompute
<1>7. ASSUME NEW t \in Threads, StoreStage(t) PROVE FailuresArePending'
  BY <1>7 DEF StoreStage, NoteCompany
<1>8. ASSUME NEW t \in Threads, WriteErrorCode(t) PROVE FailuresArePending'
  BY <1>8 DEF WriteErrorCode, NoteCompany
<1>9. ASSUME NEW t \in Threads, IngestRows(t) PROVE FailuresArePending'
  BY <1>9 DEF IngestRows, Bump, NoteCompany
<1>10. ASSUME NEW t \in Threads, IngestRaises(t) PROVE FailuresArePending'
  BY <1>10 DEF IngestRaises, Bump
<1>11. ASSUME NEW t \in Threads, EditSpec(t) PROVE FailuresArePending'
  BY <1>11 DEF EditSpec, Bump, MayEdit, NoteCompany
<1>12. ASSUME NEW t \in Threads, EditRaises(t) PROVE FailuresArePending'
  BY <1>12 DEF EditRaises, Bump, MayEdit
<1>13. ASSUME NEW t \in Threads, ParseBuildsSpec(t) PROVE FailuresArePending'
  BY <1>13 DEF ParseBuildsSpec
<1>14. ASSUME NEW t \in Threads, NEW m \in Mappings, ConfirmMapping(t, m)
       PROVE  FailuresArePending'
  BY <1>14 DEF ConfirmMapping, MayEdit, NoteCompany
<1>15. ASSUME NEW t \in Threads, NEW p \in PairwiseTables, ConfirmPairwise(t, p)
       PROVE  FailuresArePending'
  BY <1>15 DEF ConfirmPairwise, Bump, MayEdit, NoteCompany
<1>16. ASSUME NEW t \in Threads, NEW A \in SUBSET Ambiguities, Clarify(t, A)
       PROVE  FailuresArePending'
  BY <1>16 DEF Clarify, Answer, Bump, MayEdit, NoteCompany
<1>17. ASSUME NEW t \in Threads, NEW A \in SUBSET Ambiguities, ClarifyCancel(t, A)
       PROVE  FailuresArePending'
  BY <1>17 DEF ClarifyCancel, Answer, Bump, MayEdit, NoteCompany
<1>18. ASSUME NEW t \in Threads, NEW j \in Jobs, Solve(t, j) PROVE FailuresArePending'
  BY <1>18 DEF Solve
<1>19. ASSUME NEW j \in Jobs, CancelJob(j) PROVE FailuresArePending'
  BY <1>19 DEF CancelJob
<1>20. ASSUME NEW j \in Jobs, JobStart(j) PROVE FailuresArePending'
  BY <1>20 DEF JobStart, JobSets
<1>21. ASSUME NEW j \in Jobs, JobGate(j) PROVE FailuresArePending'
  BY <1>21 DEF JobGate
<1>22. ASSUME NEW j \in Jobs, JobTakeSpec(j) PROVE FailuresArePending'
  BY <1>22 DEF JobTakeSpec
<1>23. ASSUME NEW j \in Jobs, CheckCancel(j) PROVE FailuresArePending'
  BY <1>23 DEF CheckCancel, AfterCheck, JobChecks, HeardCancel
<1>24. ASSUME NEW j \in Jobs, JobAbort(j) PROVE FailuresArePending'
  BY <1>24 DEF JobAbort
<1>25. ASSUME NEW j \in Jobs, JobAbortStatus(j) PROVE FailuresArePending'
  BY <1>25 DEF JobAbortStatus, JobEnds, JobSets
<1>26. ASSUME NEW j \in Jobs, Validate(j) PROVE FailuresArePending'
  BY <1>26 DEF Validate, JobFails
<1>27. ASSUME NEW j \in Jobs, JobRaises(j) PROVE FailuresArePending'
  BY <1>27 DEF JobRaises
<1>28. ASSUME NEW j \in Jobs, BuildModel(j) PROVE FailuresArePending'
  BY <1>28 DEF BuildModel, JobFails
<1>29. ASSUME NEW j \in Jobs, RouteAndSolve(j) PROVE FailuresArePending'
  BY <1>29 DEF RouteAndSolve, JobFails
<1>30. ASSUME NEW j \in Jobs, Explain(j) PROVE FailuresArePending'
  BY <1>30 DEF Explain
<1>31. ASSUME NEW j \in Jobs, MarkStage(j) PROVE FailuresArePending'
  BY <1>31 DEF MarkStage, AfterMark, Marked, JobMarks
<1>32. ASSUME NEW j \in Jobs, MarkFailed(j) PROVE FailuresArePending'
  BY <1>32 DEF MarkFailed
<1>33. ASSUME NEW j \in Jobs, WriteFailureCode(j) PROVE FailuresArePending'
  BY <1>33 DEF WriteFailureCode
<1>34. ASSUME NEW j \in Jobs, JobFailStatus(j) PROVE FailuresArePending'
  BY <1>34 DEF JobFailStatus, JobEnds, JobSets
<1>35. ASSUME NEW j \in Jobs, JobFinish(j) PROVE FailuresArePending'
  BY <1>35 DEF JobFinish, JobEnds, JobSets, HeardCancel
<1>36. ASSUME NEW j \in Jobs, JobDone(j) PROVE FailuresArePending'
  BY <1>36 DEF JobDone, JobEnds, JobSets
<1> QED
  BY <1>1, <1>2, <1>3, <1>4, <1>5, <1>6, <1>7, <1>8, <1>9, <1>10, <1>11, <1>12, <1>13,
     <1>14, <1>15, <1>16, <1>17, <1>18, <1>19, <1>20, <1>21, <1>22, <1>23, <1>24, <1>25,
     <1>26, <1>27, <1>28, <1>29, <1>30, <1>31, <1>32, <1>33, <1>34, <1>35, <1>36
  DEF Next, Request, Handle, JobStep

\* ... and that a stage about to be stored is the one the spec deserves.
LEMMA TargetsStep ==
    ASSUME TypeOK, ReferencesAllocated, SpecsAtHand, TargetsAreCurrent, Next
    PROVE  TargetsAreCurrent'
<1> USE DEF TypeOK, TargetsAreCurrent, JobActive, sessionVars, specVars, threadVars,
           jobVars, GoTo, JobGoTo
<1>1. ASSUME NEW t \in Threads, ParseBegin(t) PROVE TargetsAreCurrent'
  BY <1>1 DEF ParseBegin
<1>2. ASSUME NEW t \in Threads, ParseFails(t) PROVE TargetsAreCurrent'
  BY <1>2 DEF ParseFails
<1>3. ASSUME NEW t \in Threads, ParseRaises(t) PROVE TargetsAreCurrent'
  BY <1>3 DEF ParseRaises
<1>4. ASSUME NEW t \in Threads, InstallSpec(t) PROVE TargetsAreCurrent'
  BY <1>4 DEF InstallSpec, NoteCompany, InCompany
<1>5. ASSUME NEW t \in Threads, ClearError(t) PROVE TargetsAreCurrent'
  BY <1>5 DEF ClearError, NoteCompany, InCompany
<1>6. ASSUME NEW t \in Threads, Recompute(t) PROVE TargetsAreCurrent'
  BY <1>6 DEF Recompute, SpecsAtHand, RecomputedStage
<1>7. ASSUME NEW t \in Threads, StoreStage(t) PROVE TargetsAreCurrent'
  BY <1>7 DEF StoreStage, NoteCompany, InCompany
<1>8. ASSUME NEW t \in Threads, WriteErrorCode(t) PROVE TargetsAreCurrent'
  BY <1>8 DEF WriteErrorCode, NoteCompany, InCompany
<1>9. ASSUME NEW t \in Threads, IngestRows(t) PROVE TargetsAreCurrent'
  BY <1>9 DEF IngestRows, Bump, NoteCompany, InCompany
<1>10. ASSUME NEW t \in Threads, IngestRaises(t) PROVE TargetsAreCurrent'
  BY <1>10 DEF IngestRaises, Bump
<1>11. ASSUME NEW t \in Threads, EditSpec(t) PROVE TargetsAreCurrent'
  BY <1>11 DEF EditSpec, Bump, MayEdit, NoteCompany, InCompany
<1>12. ASSUME NEW t \in Threads, EditRaises(t) PROVE TargetsAreCurrent'
  BY <1>12 DEF EditRaises, Bump, MayEdit
<1>13. ASSUME NEW t \in Threads, ParseBuildsSpec(t) PROVE TargetsAreCurrent'
  BY <1>13, FreshSpecIsFresh DEF ParseBuildsSpec, ReferencesAllocated
<1>14. ASSUME NEW t \in Threads, NEW m \in Mappings, ConfirmMapping(t, m)
       PROVE  TargetsAreCurrent'
  BY <1>14 DEF ConfirmMapping, MayEdit, NoteCompany, InCompany
<1>15. ASSUME NEW t \in Threads, NEW p \in PairwiseTables, ConfirmPairwise(t, p)
       PROVE  TargetsAreCurrent'
  BY <1>15 DEF ConfirmPairwise, Bump, MayEdit, NoteCompany, InCompany
<1>16. ASSUME NEW t \in Threads, NEW A \in SUBSET Ambiguities, Clarify(t, A)
       PROVE  TargetsAreCurrent'
  BY <1>16 DEF Clarify, Answer, Bump, MayEdit, NoteCompany, InCompany
<1>17. ASSUME NEW t \in Threads, NEW A \in SUBSET Ambiguities, ClarifyCancel(t, A)
       PROVE  TargetsAreCurrent'
  BY <1>17 DEF ClarifyCancel, Answer, Bump, MayEdit, NoteCompany, InCompany
<1>18. ASSUME NEW t \in Threads, NEW j \in Jobs, Solve(t, j) PROVE TargetsAreCurrent'
  BY <1>18 DEF Solve
<1>19. ASSUME NEW j \in Jobs, CancelJob(j) PROVE TargetsAreCurrent'
  BY <1>19 DEF CancelJob
<1>20. ASSUME NEW j \in Jobs, JobStart(j) PROVE TargetsAreCurrent'
  BY <1>20 DEF JobStart, JobSets
<1>21. ASSUME NEW j \in Jobs, JobGate(j) PROVE TargetsAreCurrent'
  BY <1>21 DEF JobGate
<1>22. ASSUME NEW j \in Jobs, JobTakeSpec(j) PROVE TargetsAreCurrent'
  BY <1>22 DEF JobTakeSpec
<1>23. ASSUME NEW j \in Jobs, CheckCancel(j) PROVE TargetsAreCurrent'
  BY <1>23 DEF CheckCancel, AfterCheck, JobChecks, HeardCancel
<1>24. ASSUME NEW j \in Jobs, JobAbort(j) PROVE TargetsAreCurrent'
  BY <1>24 DEF JobAbort
<1>25. ASSUME NEW j \in Jobs, JobAbortStatus(j) PROVE TargetsAreCurrent'
  BY <1>25 DEF JobAbortStatus, JobEnds, JobSets
<1>26. ASSUME NEW j \in Jobs, Validate(j) PROVE TargetsAreCurrent'
  BY <1>26 DEF Validate, JobFails
<1>27. ASSUME NEW j \in Jobs, JobRaises(j) PROVE TargetsAreCurrent'
  BY <1>27 DEF JobRaises
<1>28. ASSUME NEW j \in Jobs, BuildModel(j) PROVE TargetsAreCurrent'
  BY <1>28 DEF BuildModel, JobFails
<1>29. ASSUME NEW j \in Jobs, RouteAndSolve(j) PROVE TargetsAreCurrent'
  BY <1>29 DEF RouteAndSolve, JobFails
<1>30. ASSUME NEW j \in Jobs, Explain(j) PROVE TargetsAreCurrent'
  BY <1>30 DEF Explain
<1>31. ASSUME NEW j \in Jobs, MarkStage(j) PROVE TargetsAreCurrent'
  BY <1>31 DEF MarkStage, AfterMark, Marked, JobMarks
<1>32. ASSUME NEW j \in Jobs, MarkFailed(j) PROVE TargetsAreCurrent'
  BY <1>32 DEF MarkFailed
<1>33. ASSUME NEW j \in Jobs, WriteFailureCode(j) PROVE TargetsAreCurrent'
  BY <1>33 DEF WriteFailureCode
<1>34. ASSUME NEW j \in Jobs, JobFailStatus(j) PROVE TargetsAreCurrent'
  BY <1>34 DEF JobFailStatus, JobEnds, JobSets
<1>35. ASSUME NEW j \in Jobs, JobFinish(j) PROVE TargetsAreCurrent'
  BY <1>35 DEF JobFinish, JobEnds, JobSets, HeardCancel
<1>36. ASSUME NEW j \in Jobs, JobDone(j) PROVE TargetsAreCurrent'
  BY <1>36 DEF JobDone, JobEnds, JobSets
<1> QED
  BY <1>1, <1>2, <1>3, <1>4, <1>5, <1>6, <1>7, <1>8, <1>9, <1>10, <1>11, <1>12, <1>13,
     <1>14, <1>15, <1>16, <1>17, <1>18, <1>19, <1>20, <1>21, <1>22, <1>23, <1>24, <1>25,
     <1>26, <1>27, <1>28, <1>29, <1>30, <1>31, <1>32, <1>33, <1>34, <1>35, <1>36
  DEF Next, Request, Handle, JobStep

\* ... and that a transient stage is held by a job.
LEMMA HeldStep ==
    ASSUME TypeOK, TargetsAreCurrent, TransientStagesAreHeld, Next
    PROVE  TransientStagesAreHeld'
<1> USE DEF TypeOK, TargetsAreCurrent, TransientStages, HoldsStage,
           TransientStagesAreHeld, sessionVars, specVars, threadVars, jobVars, GoTo,
           JobGoTo
<1>1. ASSUME NEW t \in Threads, ParseBegin(t) PROVE TransientStagesAreHeld'
  BY <1>1 DEF ParseBegin
<1>2. ASSUME NEW t \in Threads, ParseFails(t) PROVE TransientStagesAreHeld'
  BY <1>2 DEF ParseFails
<1>3. ASSUME NEW t \in Threads, ParseRaises(t) PROVE TransientStagesAreHeld'
  BY <1>3 DEF ParseRaises
<1>4. ASSUME NEW t \in Threads, InstallSpec(t) PROVE TransientStagesAreHeld'
  BY <1>4 DEF InstallSpec, NoteCompany
<1>5. ASSUME NEW t \in Threads, ClearError(t) PROVE TransientStagesAreHeld'
  BY <1>5 DEF ClearError, NoteCompany
<1>6. ASSUME NEW t \in Threads, Recompute(t) PROVE TransientStagesAreHeld'
  BY <1>6 DEF Recompute
<1>7. ASSUME NEW t \in Threads, StoreStage(t) PROVE TransientStagesAreHeld'
  BY <1>7 DEF StoreStage, NoteCompany
<1>8. ASSUME NEW t \in Threads, WriteErrorCode(t) PROVE TransientStagesAreHeld'
  BY <1>8 DEF WriteErrorCode, NoteCompany
<1>9. ASSUME NEW t \in Threads, IngestRows(t) PROVE TransientStagesAreHeld'
  BY <1>9 DEF IngestRows, Bump, NoteCompany
<1>10. ASSUME NEW t \in Threads, IngestRaises(t) PROVE TransientStagesAreHeld'
  BY <1>10 DEF IngestRaises, Bump
<1>11. ASSUME NEW t \in Threads, EditSpec(t) PROVE TransientStagesAreHeld'
  BY <1>11 DEF EditSpec, Bump, MayEdit, NoteCompany
<1>12. ASSUME NEW t \in Threads, EditRaises(t) PROVE TransientStagesAreHeld'
  BY <1>12 DEF EditRaises, Bump, MayEdit
<1>13. ASSUME NEW t \in Threads, ParseBuildsSpec(t) PROVE TransientStagesAreHeld'
  BY <1>13 DEF ParseBuildsSpec
<1>14. ASSUME NEW t \in Threads, NEW m \in Mappings, ConfirmMapping(t, m)
       PROVE  TransientStagesAreHeld'
  BY <1>14 DEF ConfirmMapping, MayEdit, NoteCompany
<1>15. ASSUME NEW t \in Threads, NEW p \in PairwiseTables, ConfirmPairwise(t, p)
       PROVE  TransientStagesAreHeld'
  BY <1>15 DEF ConfirmPairwise, Bump, MayEdit, NoteCompany
<1>16. ASSUME NEW t \in Threads, NEW A \in SUBSET Ambiguities, Clarify(t, A)
       PROVE  TransientStagesAreHeld'
  BY <1>16 DEF Clarify, Answer, Bump, MayEdit, NoteCompany
<1>17. ASSUME NEW t \in Threads, NEW A \in SUBSET Ambiguities, ClarifyCancel(t, A)
       PROVE  TransientStagesAreHeld'
  BY <1>17 DEF ClarifyCancel, Answer, Bump, MayEdit, NoteCompany
<1>18. ASSUME NEW t \in Threads, NEW j \in Jobs, Solve(t, j) PROVE TransientStagesAreHeld'
  BY <1>18 DEF Solve
<1>19. ASSUME NEW j \in Jobs, CancelJob(j) PROVE TransientStagesAreHeld'
  BY <1>19 DEF CancelJob
<1>20. ASSUME NEW j \in Jobs, JobStart(j) PROVE TransientStagesAreHeld'
  BY <1>20 DEF JobStart, JobSets
<1>21. ASSUME NEW j \in Jobs, JobGate(j) PROVE TransientStagesAreHeld'
  BY <1>21 DEF JobGate
<1>22. ASSUME NEW j \in Jobs, JobTakeSpec(j) PROVE TransientStagesAreHeld'
  BY <1>22 DEF JobTakeSpec
<1>23. ASSUME NEW j \in Jobs, CheckCancel(j) PROVE TransientStagesAreHeld'
  BY <1>23 DEF CheckCancel, AfterCheck, JobChecks, HeardCancel
<1>24. ASSUME NEW j \in Jobs, JobAbort(j) PROVE TransientStagesAreHeld'
  BY <1>24 DEF JobAbort
<1>25. ASSUME NEW j \in Jobs, JobAbortStatus(j) PROVE TransientStagesAreHeld'
  BY <1>25 DEF JobAbortStatus, JobEnds, JobSets
<1>26. ASSUME NEW j \in Jobs, Validate(j) PROVE TransientStagesAreHeld'
  BY <1>26 DEF Validate, JobFails
<1>27. ASSUME NEW j \in Jobs, JobRaises(j) PROVE TransientStagesAreHeld'
  BY <1>27 DEF JobRaises
<1>28. ASSUME NEW j \in Jobs, BuildModel(j) PROVE TransientStagesAreHeld'
  BY <1>28 DEF BuildModel, JobFails
<1>29. ASSUME NEW j \in Jobs, RouteAndSolve(j) PROVE TransientStagesAreHeld'
  BY <1>29 DEF RouteAndSolve, JobFails
<1>30. ASSUME NEW j \in Jobs, Explain(j) PROVE TransientStagesAreHeld'
  BY <1>30 DEF Explain
<1>31. ASSUME NEW j \in Jobs, MarkStage(j) PROVE TransientStagesAreHeld'
  BY <1>31 DEF MarkStage, AfterMark, Marked, JobMarks
<1>32. ASSUME NEW j \in Jobs, MarkFailed(j) PROVE TransientStagesAreHeld'
  BY <1>32 DEF MarkFailed
<1>33. ASSUME NEW j \in Jobs, WriteFailureCode(j) PROVE TransientStagesAreHeld'
  BY <1>33 DEF WriteFailureCode
<1>34. ASSUME NEW j \in Jobs, JobFailStatus(j) PROVE TransientStagesAreHeld'
  BY <1>34 DEF JobFailStatus, JobEnds, JobSets
<1>35. ASSUME NEW j \in Jobs, JobFinish(j) PROVE TransientStagesAreHeld'
  BY <1>35 DEF JobFinish, JobEnds, JobSets, HeardCancel
<1>36. ASSUME NEW j \in Jobs, JobDone(j) PROVE TransientStagesAreHeld'
  BY <1>36 DEF JobDone, JobEnds, JobSets
<1> QED
  BY <1>1, <1>2, <1>3, <1>4, <1>5, <1>6, <1>7, <1>8, <1>9, <1>10, <1>11, <1>12, <1>13,
     <1>14, <1>15, <1>16, <1>17, <1>18, <1>19, <1>20, <1>21, <1>22, <1>23, <1>24, <1>25,
     <1>26, <1>27, <1>28, <1>29, <1>30, <1>31, <1>32, <1>33, <1>34, <1>35, <1>36
  DEF Next, Request, Handle, JobStep

\* ... and that a settled stage is true.
LEMMA StageStep ==
    ASSUME TypeOK, ReferencesAllocated, SpecsAtHand, TargetsAreCurrent, SettledIsTrue,
           Next
    PROVE  (Settled => StageIsTrue)'
<1> USE DEF TypeOK, SpecsAtHand, TargetsAreCurrent, SettledIsTrue, Settled, StageIsTrue,
           JobsAreCurrent, Mid, JobActive, sessionVars, specVars, threadVars, jobVars,
           GoTo, JobGoTo
<1>1. ASSUME NEW t \in Threads, ParseBegin(t) PROVE (Settled => StageIsTrue)'
  BY <1>1 DEF ParseBegin
<1>2. ASSUME NEW t \in Threads, ParseFails(t) PROVE (Settled => StageIsTrue)'
  BY <1>2 DEF ParseFails
<1>3. ASSUME NEW t \in Threads, ParseRaises(t) PROVE (Settled => StageIsTrue)'
  BY <1>3 DEF ParseRaises
<1>4. ASSUME NEW t \in Threads, InstallSpec(t) PROVE (Settled => StageIsTrue)'
  BY <1>4 DEF InstallSpec, NoteCompany, InCompany
<1>5. ASSUME NEW t \in Threads, ClearError(t) PROVE (Settled => StageIsTrue)'
  BY <1>5 DEF ClearError, NoteCompany, InCompany
<1>6. ASSUME NEW t \in Threads, Recompute(t) PROVE (Settled => StageIsTrue)'
  BY <1>6 DEF Recompute, RecomputedStage
<1>7. ASSUME NEW t \in Threads, StoreStage(t) PROVE (Settled => StageIsTrue)'
  BY <1>7 DEF StoreStage, NoteCompany, InCompany, RecomputedStage
<1>8. ASSUME NEW t \in Threads, WriteErrorCode(t) PROVE (Settled => StageIsTrue)'
  BY <1>8 DEF WriteErrorCode, NoteCompany, InCompany
<1>9. ASSUME NEW t \in Threads, IngestRows(t) PROVE (Settled => StageIsTrue)'
  BY <1>9 DEF IngestRows, Bump, NoteCompany, InCompany
<1>10. ASSUME NEW t \in Threads, IngestRaises(t) PROVE (Settled => StageIsTrue)'
  BY <1>10 DEF IngestRaises, Bump
<1>11. ASSUME NEW t \in Threads, EditSpec(t) PROVE (Settled => StageIsTrue)'
  BY <1>11 DEF EditSpec, Bump, MayEdit, NoteCompany, InCompany
<1>12. ASSUME NEW t \in Threads, EditRaises(t) PROVE (Settled => StageIsTrue)'
  BY <1>12 DEF EditRaises, Bump, MayEdit
<1>13. ASSUME NEW t \in Threads, ParseBuildsSpec(t) PROVE (Settled => StageIsTrue)'
  BY <1>13, FreshSpecIsFresh DEF ParseBuildsSpec, ReferencesAllocated
<1>14. ASSUME NEW t \in Threads, NEW m \in Mappings, ConfirmMapping(t, m)
       PROVE  (Settled => StageIsTrue)'
  BY <1>14 DEF ConfirmMapping, MayEdit, NoteCompany, InCompany
<1>15. ASSUME NEW t \in Threads, NEW p \in PairwiseTables, ConfirmPairwise(t, p)
       PROVE  (Settled => StageIsTrue)'
  BY <1>15 DEF ConfirmPairwise, Bump, MayEdit, NoteCompany, InCompany
<1>16. ASSUME NEW t \in Threads, NEW A \in SUBSET Ambiguities, Clarify(t, A)
       PROVE  (Settled => StageIsTrue)'
  BY <1>16 DEF Clarify, Answer, Bump, MayEdit, NoteCompany, InCompany
<1>17. ASSUME NEW t \in Threads, NEW A \in SUBSET Ambiguities, ClarifyCancel(t, A)
       PROVE  (Settled => StageIsTrue)'
  BY <1>17 DEF ClarifyCancel, Answer, Bump, MayEdit, NoteCompany, InCompany
<1>18. ASSUME NEW t \in Threads, NEW j \in Jobs, Solve(t, j)
       PROVE  (Settled => StageIsTrue)'
  BY <1>18 DEF Solve
<1>19. ASSUME NEW j \in Jobs, CancelJob(j) PROVE (Settled => StageIsTrue)'
  BY <1>19 DEF CancelJob
<1>20. ASSUME NEW j \in Jobs, JobStart(j) PROVE (Settled => StageIsTrue)'
  BY <1>20 DEF JobStart, JobSets
<1>21. ASSUME NEW j \in Jobs, JobGate(j) PROVE (Settled => StageIsTrue)'
  BY <1>21 DEF JobGate
<1>22. ASSUME NEW j \in Jobs, JobTakeSpec(j) PROVE (Settled => StageIsTrue)'
  BY <1>22 DEF JobTakeSpec
<1>23. ASSUME NEW j \in Jobs, CheckCancel(j) PROVE (Settled => StageIsTrue)'
  BY <1>23 DEF CheckCancel, AfterCheck, JobChecks, HeardCancel
<1>24. ASSUME NEW j \in Jobs, JobAbort(j) PROVE (Settled => StageIsTrue)'
  BY <1>24 DEF JobAbort
<1>25. ASSUME NEW j \in Jobs, JobAbortStatus(j) PROVE (Settled => StageIsTrue)'
  BY <1>25 DEF JobAbortStatus, JobEnds, JobSets
<1>26. ASSUME NEW j \in Jobs, Validate(j) PROVE (Settled => StageIsTrue)'
  BY <1>26 DEF Validate, JobFails
<1>27. ASSUME NEW j \in Jobs, JobRaises(j) PROVE (Settled => StageIsTrue)'
  BY <1>27 DEF JobRaises
<1>28. ASSUME NEW j \in Jobs, BuildModel(j) PROVE (Settled => StageIsTrue)'
  BY <1>28 DEF BuildModel, JobFails
<1>29. ASSUME NEW j \in Jobs, RouteAndSolve(j) PROVE (Settled => StageIsTrue)'
  BY <1>29 DEF RouteAndSolve, JobFails, HoldsSpec, JobPcs
<1>30. ASSUME NEW j \in Jobs, Explain(j) PROVE (Settled => StageIsTrue)'
  BY <1>30 DEF Explain
<1>31. ASSUME NEW j \in Jobs, MarkStage(j) PROVE (Settled => StageIsTrue)'
  BY <1>31 DEF MarkStage, AfterMark, Marked, JobMarks
<1>32. ASSUME NEW j \in Jobs, MarkFailed(j) PROVE (Settled => StageIsTrue)'
  BY <1>32 DEF MarkFailed
<1>33. ASSUME NEW j \in Jobs, WriteFailureCode(j) PROVE (Settled => StageIsTrue)'
  BY <1>33 DEF WriteFailureCode
<1>34. ASSUME NEW j \in Jobs, JobFailStatus(j) PROVE (Settled => StageIsTrue)'
  BY <1>34 DEF JobFailStatus, JobEnds, JobSets
<1>35. ASSUME NEW j \in Jobs, JobFinish(j) PROVE (Settled => StageIsTrue)'
  BY <1>35 DEF JobFinish, JobEnds, JobSets, HeardCancel
<1>36. ASSUME NEW j \in Jobs, JobDone(j) PROVE (Settled => StageIsTrue)'
  BY <1>36 DEF JobDone, JobEnds, JobSets
<1> QED
  BY <1>1, <1>2, <1>3, <1>4, <1>5, <1>6, <1>7, <1>8, <1>9, <1>10, <1>11, <1>12, <1>13,
     <1>14, <1>15, <1>16, <1>17, <1>18, <1>19, <1>20, <1>21, <1>22, <1>23, <1>24, <1>25,
     <1>26, <1>27, <1>28, <1>29, <1>30, <1>31, <1>32, <1>33, <1>34, <1>35, <1>36
  DEF Next, Request, Handle, JobStep

\* ... and that the jobs of a settled session are current.
LEMMA JobsStep ==
    ASSUME TypeOK, ReferencesAllocated, SpecsAtHand, TargetsAreCurrent, SettledIsTrue,
           Next
    PROVE  (Settled => JobsAreCurrent)'
<1> USE DEF TypeOK, SpecsAtHand, TargetsAreCurrent, SettledIsTrue, Settled, StageIsTrue,
           JobsAreCurrent, Mid, HoldsSpec, JobPcs, JobActive, sessionVars, specVars,
           threadVars, jobVars, GoTo, JobGoTo
<1>1. ASSUME NEW t \in Threads, ParseBegin(t) PROVE (Settled => JobsAreCurrent)'
  BY <1>1 DEF ParseBegin
<1>2. ASSUME NEW t \in Threads, ParseFails(t) PROVE (Settled => JobsAreCurrent)'
  BY <1>2 DEF ParseFails
<1>3. ASSUME NEW t \in Threads, ParseRaises(t) PROVE (Settled => JobsAreCurrent)'
  BY <1>3 DEF ParseRaises
<1>4. ASSUME NEW t \in Threads, InstallSpec(t) PROVE (Settled => JobsAreCurrent)'
  BY <1>4 DEF InstallSpec, NoteCompany, InCompany
<1>5. ASSUME NEW t \in Threads, ClearError(t) PROVE (Settled => JobsAreCurrent)'
  BY <1>5 DEF ClearError, NoteCompany, InCompany
<1>6. ASSUME NEW t \in Threads, Recompute(t) PROVE (Settled => JobsAreCurrent)'
  BY <1>6 DEF Recompute, RecomputedStage
<1>7. ASSUME NEW t \in Threads, StoreStage(t) PROVE (Settled => JobsAreCurrent)'
  BY <1>7 DEF StoreStage, NoteCompany, InCompany
<1>8. ASSUME NEW t \in Threads, WriteErrorCode(t) PROVE (Settled => JobsAreCurrent)'
  BY <1>8 DEF WriteErrorCode, NoteCompany, InCompany
<1>9. ASSUME NEW t \in Threads, IngestRows(t) PROVE (Settled => JobsAreCurrent)'
  BY <1>9 DEF IngestRows, Bump, NoteCompany, InCompany
<1>10. ASSUME NEW t \in Threads, IngestRaises(t) PROVE (Settled => JobsAreCurrent)'
  BY <1>10 DEF IngestRaises, Bump
<1>11. ASSUME NEW t \in Threads, EditSpec(t) PROVE (Settled => JobsAreCurrent)'
  BY <1>11 DEF EditSpec, Bump, MayEdit, NoteCompany, InCompany
<1>12. ASSUME NEW t \in Threads, EditRaises(t) PROVE (Settled => JobsAreCurrent)'
  BY <1>12 DEF EditRaises, Bump, MayEdit
<1>13. ASSUME NEW t \in Threads, ParseBuildsSpec(t) PROVE (Settled => JobsAreCurrent)'
  BY <1>13, FreshSpecIsFresh DEF ParseBuildsSpec, ReferencesAllocated
<1>14. ASSUME NEW t \in Threads, NEW m \in Mappings, ConfirmMapping(t, m)
       PROVE  (Settled => JobsAreCurrent)'
  BY <1>14 DEF ConfirmMapping, MayEdit, NoteCompany, InCompany
<1>15. ASSUME NEW t \in Threads, NEW p \in PairwiseTables, ConfirmPairwise(t, p)
       PROVE  (Settled => JobsAreCurrent)'
  BY <1>15 DEF ConfirmPairwise, Bump, MayEdit, NoteCompany, InCompany
<1>16. ASSUME NEW t \in Threads, NEW A \in SUBSET Ambiguities, Clarify(t, A)
       PROVE  (Settled => JobsAreCurrent)'
  BY <1>16 DEF Clarify, Answer, Bump, MayEdit, NoteCompany, InCompany
<1>17. ASSUME NEW t \in Threads, NEW A \in SUBSET Ambiguities, ClarifyCancel(t, A)
       PROVE  (Settled => JobsAreCurrent)'
  BY <1>17 DEF ClarifyCancel, Answer, Bump, MayEdit, NoteCompany, InCompany
<1>18. ASSUME NEW t \in Threads, NEW j \in Jobs, Solve(t, j)
       PROVE  (Settled => JobsAreCurrent)'
  BY <1>18 DEF Solve
<1>19. ASSUME NEW j \in Jobs, CancelJob(j) PROVE (Settled => JobsAreCurrent)'
  BY <1>19 DEF CancelJob
<1>20. ASSUME NEW j \in Jobs, JobStart(j) PROVE (Settled => JobsAreCurrent)'
  BY <1>20 DEF JobStart, JobSets
<1>21. ASSUME NEW j \in Jobs, JobGate(j) PROVE (Settled => JobsAreCurrent)'
  BY <1>21 DEF JobGate
<1>22. ASSUME NEW j \in Jobs, JobTakeSpec(j) PROVE (Settled => JobsAreCurrent)'
  BY <1>22 DEF JobTakeSpec
<1>23. ASSUME NEW j \in Jobs, CheckCancel(j) PROVE (Settled => JobsAreCurrent)'
  BY <1>23 DEF CheckCancel, AfterCheck, JobChecks, HeardCancel
<1>24. ASSUME NEW j \in Jobs, JobAbort(j) PROVE (Settled => JobsAreCurrent)'
  BY <1>24 DEF JobAbort
<1>25. ASSUME NEW j \in Jobs, JobAbortStatus(j) PROVE (Settled => JobsAreCurrent)'
  BY <1>25 DEF JobAbortStatus, JobEnds, JobSets
<1>26. ASSUME NEW j \in Jobs, Validate(j) PROVE (Settled => JobsAreCurrent)'
  BY <1>26 DEF Validate, JobFails
<1>27. ASSUME NEW j \in Jobs, JobRaises(j) PROVE (Settled => JobsAreCurrent)'
  BY <1>27 DEF JobRaises
<1>28. ASSUME NEW j \in Jobs, BuildModel(j) PROVE (Settled => JobsAreCurrent)'
  BY <1>28 DEF BuildModel, JobFails
<1>29. ASSUME NEW j \in Jobs, RouteAndSolve(j) PROVE (Settled => JobsAreCurrent)'
  BY <1>29 DEF RouteAndSolve, JobFails
<1>30. ASSUME NEW j \in Jobs, Explain(j) PROVE (Settled => JobsAreCurrent)'
  BY <1>30 DEF Explain
<1>31. ASSUME NEW j \in Jobs, MarkStage(j) PROVE (Settled => JobsAreCurrent)'
  BY <1>31 DEF MarkStage, AfterMark, Marked, JobMarks
<1>32. ASSUME NEW j \in Jobs, MarkFailed(j) PROVE (Settled => JobsAreCurrent)'
  BY <1>32 DEF MarkFailed
<1>33. ASSUME NEW j \in Jobs, WriteFailureCode(j) PROVE (Settled => JobsAreCurrent)'
  BY <1>33 DEF WriteFailureCode
<1>34. ASSUME NEW j \in Jobs, JobFailStatus(j) PROVE (Settled => JobsAreCurrent)'
  BY <1>34 DEF JobFailStatus, JobEnds, JobSets
<1>35. ASSUME NEW j \in Jobs, JobFinish(j) PROVE (Settled => JobsAreCurrent)'
  BY <1>35 DEF JobFinish, JobEnds, JobSets, HeardCancel
<1>36. ASSUME NEW j \in Jobs, JobDone(j) PROVE (Settled => JobsAreCurrent)'
  BY <1>36 DEF JobDone, JobEnds, JobSets
<1> QED
  BY <1>1, <1>2, <1>3, <1>4, <1>5, <1>6, <1>7, <1>8, <1>9, <1>10, <1>11, <1>12, <1>13,
     <1>14, <1>15, <1>16, <1>17, <1>18, <1>19, <1>20, <1>21, <1>22, <1>23, <1>24, <1>25,
     <1>26, <1>27, <1>28, <1>29, <1>30, <1>31, <1>32, <1>33, <1>34, <1>35, <1>36
  DEF Next, Request, Handle, JobStep

\* ... and that a job on its way to the solver has written nothing.
LEMMA UnpublishedStep ==
    ASSUME NEW k \in Jobs, TypeOK, Unpublished(k), Next
    PROVE  Unpublished(k)'
<1> USE DEF TypeOK, Unpublished, UpToSolveCheck, sessionVars, specVars, threadVars,
           jobVars, GoTo, JobGoTo
<1>1. ASSUME NEW t \in Threads, ParseBegin(t) PROVE Unpublished(k)'
  BY <1>1 DEF ParseBegin
<1>2. ASSUME NEW t \in Threads, ParseFails(t) PROVE Unpublished(k)'
  BY <1>2 DEF ParseFails
<1>3. ASSUME NEW t \in Threads, ParseRaises(t) PROVE Unpublished(k)'
  BY <1>3 DEF ParseRaises
<1>4. ASSUME NEW t \in Threads, InstallSpec(t) PROVE Unpublished(k)'
  BY <1>4 DEF InstallSpec, NoteCompany
<1>5. ASSUME NEW t \in Threads, ClearError(t) PROVE Unpublished(k)'
  BY <1>5 DEF ClearError, NoteCompany
<1>6. ASSUME NEW t \in Threads, Recompute(t) PROVE Unpublished(k)'
  BY <1>6 DEF Recompute
<1>7. ASSUME NEW t \in Threads, StoreStage(t) PROVE Unpublished(k)'
  BY <1>7 DEF StoreStage, NoteCompany
<1>8. ASSUME NEW t \in Threads, WriteErrorCode(t) PROVE Unpublished(k)'
  BY <1>8 DEF WriteErrorCode, NoteCompany
<1>9. ASSUME NEW t \in Threads, IngestRows(t) PROVE Unpublished(k)'
  BY <1>9 DEF IngestRows, Bump, NoteCompany
<1>10. ASSUME NEW t \in Threads, IngestRaises(t) PROVE Unpublished(k)'
  BY <1>10 DEF IngestRaises, Bump
<1>11. ASSUME NEW t \in Threads, EditSpec(t) PROVE Unpublished(k)'
  BY <1>11 DEF EditSpec, Bump, MayEdit, NoteCompany
<1>12. ASSUME NEW t \in Threads, EditRaises(t) PROVE Unpublished(k)'
  BY <1>12 DEF EditRaises, Bump, MayEdit
<1>13. ASSUME NEW t \in Threads, ParseBuildsSpec(t) PROVE Unpublished(k)'
  BY <1>13 DEF ParseBuildsSpec
<1>14. ASSUME NEW t \in Threads, NEW m \in Mappings, ConfirmMapping(t, m)
       PROVE  Unpublished(k)'
  BY <1>14 DEF ConfirmMapping, MayEdit, NoteCompany
<1>15. ASSUME NEW t \in Threads, NEW p \in PairwiseTables, ConfirmPairwise(t, p)
       PROVE  Unpublished(k)'
  BY <1>15 DEF ConfirmPairwise, Bump, MayEdit, NoteCompany
<1>16. ASSUME NEW t \in Threads, NEW A \in SUBSET Ambiguities, Clarify(t, A)
       PROVE  Unpublished(k)'
  BY <1>16 DEF Clarify, Answer, Bump, MayEdit, NoteCompany
<1>17. ASSUME NEW t \in Threads, NEW A \in SUBSET Ambiguities, ClarifyCancel(t, A)
       PROVE  Unpublished(k)'
  BY <1>17 DEF ClarifyCancel, Answer, Bump, MayEdit, NoteCompany
<1>18. ASSUME NEW t \in Threads, NEW j \in Jobs, Solve(t, j) PROVE Unpublished(k)'
  BY <1>18 DEF Solve
<1>19. ASSUME NEW j \in Jobs, CancelJob(j) PROVE Unpublished(k)'
  BY <1>19 DEF CancelJob
<1>20. ASSUME NEW j \in Jobs, JobStart(j) PROVE Unpublished(k)'
  BY <1>20 DEF JobStart, JobSets
<1>21. ASSUME NEW j \in Jobs, JobGate(j) PROVE Unpublished(k)'
  BY <1>21 DEF JobGate
<1>22. ASSUME NEW j \in Jobs, JobTakeSpec(j) PROVE Unpublished(k)'
  BY <1>22 DEF JobTakeSpec
<1>23. ASSUME NEW j \in Jobs, CheckCancel(j) PROVE Unpublished(k)'
  BY <1>23 DEF CheckCancel, AfterCheck, JobChecks, HeardCancel
<1>24. ASSUME NEW j \in Jobs, JobAbort(j) PROVE Unpublished(k)'
  BY <1>24 DEF JobAbort
<1>25. ASSUME NEW j \in Jobs, JobAbortStatus(j) PROVE Unpublished(k)'
  BY <1>25 DEF JobAbortStatus, JobEnds, JobSets
<1>26. ASSUME NEW j \in Jobs, Validate(j) PROVE Unpublished(k)'
  BY <1>26 DEF Validate, JobFails
<1>27. ASSUME NEW j \in Jobs, JobRaises(j) PROVE Unpublished(k)'
  BY <1>27 DEF JobRaises
<1>28. ASSUME NEW j \in Jobs, BuildModel(j) PROVE Unpublished(k)'
  BY <1>28 DEF BuildModel, JobFails
<1>29. ASSUME NEW j \in Jobs, RouteAndSolve(j) PROVE Unpublished(k)'
  BY <1>29 DEF RouteAndSolve, JobFails
<1>30. ASSUME NEW j \in Jobs, Explain(j) PROVE Unpublished(k)'
  BY <1>30 DEF Explain
<1>31. ASSUME NEW j \in Jobs, MarkStage(j) PROVE Unpublished(k)'
  BY <1>31 DEF MarkStage, AfterMark, Marked, JobMarks
<1>32. ASSUME NEW j \in Jobs, MarkFailed(j) PROVE Unpublished(k)'
  BY <1>32 DEF MarkFailed
<1>33. ASSUME NEW j \in Jobs, WriteFailureCode(j) PROVE Unpublished(k)'
  BY <1>33 DEF WriteFailureCode
<1>34. ASSUME NEW j \in Jobs, JobFailStatus(j) PROVE Unpublished(k)'
  BY <1>34 DEF JobFailStatus, JobEnds, JobSets
<1>35. ASSUME NEW j \in Jobs, JobFinish(j) PROVE Unpublished(k)'
  BY <1>35 DEF JobFinish, JobEnds, JobSets, HeardCancel
<1>36. ASSUME NEW j \in Jobs, JobDone(j) PROVE Unpublished(k)'
  BY <1>36 DEF JobDone, JobEnds, JobSets
<1> QED
  BY <1>1, <1>2, <1>3, <1>4, <1>5, <1>6, <1>7, <1>8, <1>9, <1>10, <1>11, <1>12, <1>13,
     <1>14, <1>15, <1>16, <1>17, <1>18, <1>19, <1>20, <1>21, <1>22, <1>23, <1>24, <1>25,
     <1>26, <1>27, <1>28, <1>29, <1>30, <1>31, <1>32, <1>33, <1>34, <1>35, <1>36
  DEF Next, Request, Handle, JobStep

\* Once a cancel is in time, it stays so.
LEMMA StoppedStep ==
    ASSUME NEW k \in Jobs, TypeOK, StoppedInTime(k), Next
    PROVE  StoppedInTime(k)'
<1> USE DEF TypeOK, StoppedInTime, sessionVars, specVars, threadVars, jobVars, GoTo,
           JobGoTo
<1>1. ASSUME NEW t \in Threads, ParseBegin(t) PROVE StoppedInTime(k)'
  BY <1>1 DEF ParseBegin
<1>2. ASSUME NEW t \in Threads, ParseFails(t) PROVE StoppedInTime(k)'
  BY <1>2 DEF ParseFails
<1>3. ASSUME NEW t \in Threads, ParseRaises(t) PROVE StoppedInTime(k)'
  BY <1>3 DEF ParseRaises
<1>4. ASSUME NEW t \in Threads, InstallSpec(t) PROVE StoppedInTime(k)'
  BY <1>4 DEF InstallSpec, NoteCompany
<1>5. ASSUME NEW t \in Threads, ClearError(t) PROVE StoppedInTime(k)'
  BY <1>5 DEF ClearError, NoteCompany
<1>6. ASSUME NEW t \in Threads, Recompute(t) PROVE StoppedInTime(k)'
  BY <1>6 DEF Recompute
<1>7. ASSUME NEW t \in Threads, StoreStage(t) PROVE StoppedInTime(k)'
  BY <1>7 DEF StoreStage, NoteCompany
<1>8. ASSUME NEW t \in Threads, WriteErrorCode(t) PROVE StoppedInTime(k)'
  BY <1>8 DEF WriteErrorCode, NoteCompany
<1>9. ASSUME NEW t \in Threads, IngestRows(t) PROVE StoppedInTime(k)'
  BY <1>9 DEF IngestRows, Bump, NoteCompany
<1>10. ASSUME NEW t \in Threads, IngestRaises(t) PROVE StoppedInTime(k)'
  BY <1>10 DEF IngestRaises, Bump
<1>11. ASSUME NEW t \in Threads, EditSpec(t) PROVE StoppedInTime(k)'
  BY <1>11 DEF EditSpec, Bump, MayEdit, NoteCompany
<1>12. ASSUME NEW t \in Threads, EditRaises(t) PROVE StoppedInTime(k)'
  BY <1>12 DEF EditRaises, Bump, MayEdit
<1>13. ASSUME NEW t \in Threads, ParseBuildsSpec(t) PROVE StoppedInTime(k)'
  BY <1>13 DEF ParseBuildsSpec
<1>14. ASSUME NEW t \in Threads, NEW m \in Mappings, ConfirmMapping(t, m)
       PROVE  StoppedInTime(k)'
  BY <1>14 DEF ConfirmMapping, MayEdit, NoteCompany
<1>15. ASSUME NEW t \in Threads, NEW p \in PairwiseTables, ConfirmPairwise(t, p)
       PROVE  StoppedInTime(k)'
  BY <1>15 DEF ConfirmPairwise, Bump, MayEdit, NoteCompany
<1>16. ASSUME NEW t \in Threads, NEW A \in SUBSET Ambiguities, Clarify(t, A)
       PROVE  StoppedInTime(k)'
  BY <1>16 DEF Clarify, Answer, Bump, MayEdit, NoteCompany
<1>17. ASSUME NEW t \in Threads, NEW A \in SUBSET Ambiguities, ClarifyCancel(t, A)
       PROVE  StoppedInTime(k)'
  BY <1>17 DEF ClarifyCancel, Answer, Bump, MayEdit, NoteCompany
<1>18. ASSUME NEW t \in Threads, NEW j \in Jobs, Solve(t, j) PROVE StoppedInTime(k)'
  BY <1>18 DEF Solve
<1>19. ASSUME NEW j \in Jobs, CancelJob(j) PROVE StoppedInTime(k)'
  BY <1>19 DEF CancelJob
<1>20. ASSUME NEW j \in Jobs, JobStart(j) PROVE StoppedInTime(k)'
  BY <1>20 DEF JobStart, JobSets
<1>21. ASSUME NEW j \in Jobs, JobGate(j) PROVE StoppedInTime(k)'
  BY <1>21 DEF JobGate
<1>22. ASSUME NEW j \in Jobs, JobTakeSpec(j) PROVE StoppedInTime(k)'
  BY <1>22 DEF JobTakeSpec
<1>23. ASSUME NEW j \in Jobs, CheckCancel(j) PROVE StoppedInTime(k)'
  BY <1>23 DEF CheckCancel, AfterCheck, JobChecks, HeardCancel
<1>24. ASSUME NEW j \in Jobs, JobAbort(j) PROVE StoppedInTime(k)'
  BY <1>24 DEF JobAbort
<1>25. ASSUME NEW j \in Jobs, JobAbortStatus(j) PROVE StoppedInTime(k)'
  BY <1>25 DEF JobAbortStatus, JobEnds, JobSets
<1>26. ASSUME NEW j \in Jobs, Validate(j) PROVE StoppedInTime(k)'
  BY <1>26 DEF Validate, JobFails
<1>27. ASSUME NEW j \in Jobs, JobRaises(j) PROVE StoppedInTime(k)'
  BY <1>27 DEF JobRaises
<1>28. ASSUME NEW j \in Jobs, BuildModel(j) PROVE StoppedInTime(k)'
  BY <1>28 DEF BuildModel, JobFails
<1>29. ASSUME NEW j \in Jobs, RouteAndSolve(j) PROVE StoppedInTime(k)'
  BY <1>29 DEF RouteAndSolve, JobFails
<1>30. ASSUME NEW j \in Jobs, Explain(j) PROVE StoppedInTime(k)'
  BY <1>30 DEF Explain
<1>31. ASSUME NEW j \in Jobs, MarkStage(j) PROVE StoppedInTime(k)'
  BY <1>31 DEF MarkStage, AfterMark, Marked, JobMarks
<1>32. ASSUME NEW j \in Jobs, MarkFailed(j) PROVE StoppedInTime(k)'
  BY <1>32 DEF MarkFailed
<1>33. ASSUME NEW j \in Jobs, WriteFailureCode(j) PROVE StoppedInTime(k)'
  BY <1>33 DEF WriteFailureCode
<1>34. ASSUME NEW j \in Jobs, JobFailStatus(j) PROVE StoppedInTime(k)'
  BY <1>34 DEF JobFailStatus, JobEnds, JobSets
<1>35. ASSUME NEW j \in Jobs, JobFinish(j) PROVE StoppedInTime(k)'
  BY <1>35 DEF JobFinish, JobEnds, JobSets, HeardCancel
<1>36. ASSUME NEW j \in Jobs, JobDone(j) PROVE StoppedInTime(k)'
  BY <1>36 DEF JobDone, JobEnds, JobSets
<1> QED
  BY <1>1, <1>2, <1>3, <1>4, <1>5, <1>6, <1>7, <1>8, <1>9, <1>10, <1>11, <1>12, <1>13,
     <1>14, <1>15, <1>16, <1>17, <1>18, <1>19, <1>20, <1>21, <1>22, <1>23, <1>24, <1>25,
     <1>26, <1>27, <1>28, <1>29, <1>30, <1>31, <1>32, <1>33, <1>34, <1>35, <1>36
  DEF Next, Request, Handle, JobStep

-----------------------------------------------------------------------------
\* The invariant of the stages holds at the start ...
LEMMA InitTrue == Init => SInv
<1> SUFFICES ASSUME Init PROVE SInv
  OBVIOUS
<1>1. IInv
  BY InitInductive
<1>2. CodesAtHand /\ FailuresArePending /\ TransientStagesAreHeld
  BY DEF Init, CodesAtHand, FailuresArePending, TransientStagesAreHeld, TransientStages
<1>3. TargetsAreCurrent
  BY DEF Init, TargetsAreCurrent
<1>4. SettledIsTrue
  BY DEF Init, SettledIsTrue, StageIsTrue, JobsAreCurrent, JobActive
<1> QED
  BY <1>1, <1>2, <1>3, <1>4 DEF SInv

\* ... and every step keeps it.
LEMMA StepTrue == SInv /\ [Next]_vars => SInv'
<1> SUFFICES ASSUME SInv, [Next]_vars PROVE SInv'
  OBVIOUS
<1>1. IInv'
  BY StepInductive DEF SInv
<1>2. CASE Next
  <2>1. TypeOK /\ ReferencesAllocated /\ SpecsAtHand
    BY DEF SInv, IInv
  <2>2. CodesAtHand' /\ FailuresArePending' /\ TargetsAreCurrent' /\ TransientStagesAreHeld'
    BY <1>2, <2>1, CodesStep, PendingStep, TargetsStep, HeldStep DEF SInv
  <2>3. SettledIsTrue'
    BY <1>2, <2>1, StageStep, JobsStep DEF SInv, SettledIsTrue
  <2> QED
    BY <1>1, <2>2, <2>3 DEF SInv
<1>3. CASE UNCHANGED vars
  BY <1>1, <1>3 DEF SInv, CodesAtHand, FailuresArePending, TargetsAreCurrent,
                   TransientStagesAreHeld, SettledIsTrue, Settled, Mid, StageIsTrue,
                   JobsAreCurrent, JobActive, vars, sessionVars, specVars, threadVars,
                   jobVars
<1> QED
  BY <1>2, <1>3

\* The strengthened invariant, from which the theorems below follow.
THEOREM AlwaysTrue == Spec => []SInv
BY InitTrue, StepTrue, PTL DEF Spec

\* Once everybody has returned, a FAILED session carries an error code, whatever
\* requests and jobs did to each other.
THEOREM FailuresExplained == Spec => []FailuresAreExplained
<1>1. SInv => FailuresAreExplained
  <2> SUFFICES ASSUME SInv, stage = "failed", errorCode = "none",
                      \A t \in Threads : pc[t] = "idle", \A j \in Jobs : ~JobActive(j)
               PROVE  FALSE
    BY DEF FailuresAreExplained, SInv, IInv, TypeOK
  <2> QED
    BY DEF SInv, FailuresArePending, JobActive
<1> QED
  BY <1>1, AlwaysTrue, PTL

\* Once everybody has returned and nothing was disturbed, the stage tells what
\* the session holds, however many jobs overlapped.
THEOREM StagesAreTrue == Spec => []StageTellsTheTruth
<1>1. SInv => StageTellsTheTruth
  <2> SUFFICES ASSUME SInv, Quiet PROVE StageTellsTheTruth
    BY DEF StageTellsTheTruth
  <2>1. StageIsTrue
    BY DEF SInv, SettledIsTrue, Settled, Mid, Quiet
  <2>2. stage \notin TransientStages
    BY DEF SInv, TransientStagesAreHeld, HoldsStage, Quiet, JobActive
  <2> QED
    BY <2>1, <2>2 DEF StageTellsTheTruth, StageIsTrue
<1> QED
  BY <1>1, AlwaysTrue, PTL

\* A cancel that reaches a job before its last check in front of the solver keeps
\* it from ever writing a result.
THEOREM CancelsInTime == Spec => EarlyCancelPublishesNothing
<1> SUFFICES ASSUME NEW j \in Jobs
             PROVE  Spec => [](cancelEvent[j] /\ jobPc[j] \in UpToSolveCheck
                                  => [](~published[j]))
  BY DEF EarlyCancelPublishesNothing
<1>1. TypeOK /\ StoppedInTime(j) /\ [Next]_vars => StoppedInTime(j)'
  BY StoppedStep DEF StoppedInTime, vars, jobVars
<1>2. TypeOK /\ Unpublished(j) /\ [Next]_vars => Unpublished(j)'
  BY UnpublishedStep DEF Unpublished, vars, jobVars
<1>3. Init => Unpublished(j)
  BY DEF Init, Unpublished
<1>4. StoppedInTime(j) => ~published[j]
  BY DEF StoppedInTime
<1>5. Unpublished(j) => (cancelEvent[j] /\ jobPc[j] \in UpToSolveCheck => StoppedInTime(j))
  BY DEF StoppedInTime, Unpublished, UpToSolveCheck
<1>6. Spec => []TypeOK
  BY TypeCorrect
<1> QED
  BY <1>1, <1>2, <1>3, <1>4, <1>5, <1>6, PTL DEF Spec

=============================================================================
