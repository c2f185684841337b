------------------------- MODULE SessionStoreProofs -------------------------
(***************************************************************************)
(* Proofs about SessionStore, for any set of files and any number of       *)
(* requests and crashes.  The argument follows one save from left to       *)
(* right: what it has read so far is true of the object it read it from,   *)
(* and what the object gains meanwhile it never loses (rows, files and the *)
(* result only grow), so each attribute read later covers those read       *)
(* before.                                                                 *)
(***************************************************************************)
EXTENDS SessionStore, TLAPS

Finished == {"solved", "explained"}

\* The result is there before the stage that promises it: in the object, in the
\* attributes a save has read, and in the row.
ResultComesFirst ==
    /\ session.stage \in Finished => session.result
    /\ pc["job"] \in {"mark_solved", "explain", "finish"} => session.result
    /\ \A p \in Procs : snap[p].stage \in Finished =>
          IF pc[p] = "read_more" THEN session.result ELSE snap[p].result
    /\ PersistedStageHasResult

\* The tables of a spec have their rows and files, in the same three places; of
\* a save in progress the object lends what has not been read yet.
TablesHaveRows ==
    /\ \A T \in session.spec : T \subseteq session.rows /\ T \subseteq session.files
    /\ \A p \in Procs : \A T \in snap[p].spec :
          /\ T \subseteq IF pc[p] = "read_more" THEN session.rows ELSE snap[p].rows
          /\ T \subseteq IF pc[p] = "commit" THEN snap[p].files ELSE session.files
    /\ PersistedTablesHaveRows

\* A file is in the object before it is in a save, in a save before it is in the
\* database, and there before its upload is answered.
FilesAreKept ==
    /\ db.files \subseteq session.files
    /\ \A p \in Procs : snap[p].files \subseteq session.files
    /\ uploading \subseteq session.files
    /\ pc["upload"] = "commit" => uploading \subseteq snap["upload"].files
    /\ acked \subseteq db.files

\* While nothing is disturbed at most one process is at work, the object rests
\* during its save, and the save has read it as it is.
SavesAreCurrent ==
    ~disturbed =>
        /\ \A p, q \in Procs : pc[p] # "idle" /\ pc[q] # "idle" => p = q
        /\ \A p \in Procs :
              /\ pc[p] \in {"read_more", "write_row", "commit"} =>
                    snap[p].stage = session.stage /\ snap[p].spec = session.spec
              /\ pc[p] \in {"write_row", "commit"} =>
                    snap[p].rows = session.rows /\ snap[p].result = session.result
              /\ pc[p] = "commit" => snap[p].files = session.files
        /\ QuietStoreIsCurrent

IInv == /\ TypeOK /\ ResultComesFirst /\ TablesHaveRows /\ FilesAreKept /\ SavesAreCurrent

-----------------------------------------------------------------------------
\* What reading the uploads does to the object and to the handler.
LEMMA ParseReadEffect ==
    ASSUME TypeOK, ParseRead
    PROVE  /\ session' \in SessionType
           /\ session.rows \subseteq session'.rows
           /\ session'.spec = session.spec /\ session'.files = session.files
           /\ session'.result = session.result /\ session'.stage \in {session.stage, "failed"}
           /\ pc' \in [Procs -> {"idle"} \cup SavePcs \cup WorkPcs]
           /\ \A p \in Procs \ {"dialogue"} : pc'[p] = pc[p]
           /\ pc'["dialogue"] \in {"install", "read"}
<1> USE DEF TypeOK, SessionType
<1>1. \A R \in SUBSET Files : [session EXCEPT !.rows = session.rows \cup R] \in SessionType
  OBVIOUS
<1>2. \A R \in SUBSET Files :
         [session EXCEPT !.rows = session.rows \cup R, !.stage = "failed"] \in SessionType
  BY DEF Stages
<1>3. pc' = [pc EXCEPT !["dialogue"] = "install"] \/ pc' = [pc EXCEPT !["dialogue"] = "read"]
  BY DEF ParseRead, GoTo
<1>4. \/ session' = [session EXCEPT !.rows = session.rows \cup session.files]
      \/ session' = [session EXCEPT !.rows = session.rows \cup session.files, !.stage = "failed"]
  BY DEF ParseRead
<1>5. session' \in SessionType
  BY <1>1, <1>2, <1>4
<1>6. /\ session.rows \subseteq session'.rows
      /\ session'.spec = session.spec /\ session'.files = session.files
      /\ session'.result = session.result /\ session'.stage \in {session.stage, "failed"}
  BY <1>4
<1>7. /\ pc' \in [Procs -> {"idle"} \cup SavePcs \cup WorkPcs]
      /\ \A p \in Procs \ {"dialogue"} : pc'[p] = pc[p]
      /\ pc'["dialogue"] \in {"install", "read"}
  BY <1>3 DEF Procs, SavePcs, WorkPcs
<1> QED
  BY <1>5, <1>6, <1>7

\* Every step keeps the types.
LEMMA TypeStep ==
    ASSUME TypeOK, Next
    PROVE  TypeOK'
<1> USE DEF TypeOK, Procs, SavePcs, WorkPcs, JobStatuses
<1>1. ASSUME NEW f \in Files, Upload(f) PROVE TypeOK'
  <2>1. session' \in SessionType
    BY <1>1, BoundsAssumption DEF Upload, Enter, GoTo, SessionType, Stages, NewSession
  <2>2. db' \in SessionType /\ snap' \in [Procs -> SessionType]
    BY <1>1, BoundsAssumption DEF Upload, Enter, GoTo, SessionType, Stages, NewSession
  <2>3. pc' \in [Procs -> {"idle"} \cup SavePcs \cup WorkPcs]
    BY <1>1, BoundsAssumption DEF Upload, Enter, GoTo
  <2>4. disturbed' \in BOOLEAN /\ requests' \in 0..MaxRequests
    BY <1>1, BoundsAssumption DEF Upload, Enter, GoTo
  <2> QED
    BY <2>1, <2>2, <2>3, <2>4, <1>1, BoundsAssumption DEF Upload, Enter, GoTo
<1>2. ASSUME ParseRead PROVE TypeOK'
  <2>1. session' \in SessionType /\ pc' \in [Procs -> {"idle"} \cup SavePcs \cup WorkPcs]
    BY <1>2, ParseReadEffect
  <2>2. disturbed' \in BOOLEAN /\ requests' \in 0..MaxRequests
    BY <1>2, BoundsAssumption DEF ParseRead, Enter
  <2> QED
    BY <2>1, <2>2, <1>2 DEF ParseRead
<1>3. ASSUME ParseInstall PROVE TypeOK'
  <2>1. session' \in SessionType
    BY <1>3 DEF ParseInstall, GoTo, History, SessionType, Stages, NewSession
  <2>2. db' \in SessionType /\ snap' \in [Procs -> SessionType]
    BY <1>3 DEF ParseInstall, GoTo, History, SessionType, Stages, NewSession
  <2>3. pc' \in [Procs -> {"idle"} \cup SavePcs \cup WorkPcs]
    BY <1>3 DEF ParseInstall, GoTo, History
  <2>4. disturbed' \in BOOLEAN /\ requests' \in 0..MaxRequests
    BY <1>3 DEF ParseInstall, GoTo, History
  <2> QED
    BY <2>1, <2>2, <2>3, <2>4, <1>3 DEF ParseInstall, GoTo, History
<1>4. ASSUME Amend PROVE TypeOK'
  BY <1>4, BoundsAssumption DEF Amend, Enter, GoTo
<1>5. ASSUME Restage PROVE TypeOK'
  <2>1. session' \in SessionType
    BY <1>5 DEF Restage, GoTo, History, SessionType, Stages, NewSession
  <2>2. db' \in SessionType /\ snap' \in [Procs -> SessionType]
    BY <1>5 DEF Restage, GoTo, History, SessionType, Stages, NewSession
  <2>3. pc' \in [Procs -> {"idle"} \cup SavePcs \cup WorkPcs]
    BY <1>5 DEF Restage, GoTo, History
  <2>4. disturbed' \in BOOLEAN /\ requests' \in 0..MaxRequests
    BY <1>5 DEF Restage, GoTo, History
  <2> QED
    BY <2>1, <2>2, <2>3, <2>4, <1>5 DEF Restage, GoTo, History
<1>6. ASSUME Solve PROVE TypeOK'
  <2>1. session' \in SessionType
    BY <1>6, BoundsAssumption DEF Solve, Enter, GoTo, SessionType, Stages, NewSession
  <2>2. db' \in SessionType /\ snap' \in [Procs -> SessionType]
    BY <1>6, BoundsAssumption DEF Solve, Enter, GoTo, SessionType, Stages, NewSession
  <2>3. pc' \in [Procs -> {"idle"} \cup SavePcs \cup WorkPcs]
    BY <1>6, BoundsAssumption DEF Solve, Enter, GoTo
  <2>4. disturbed' \in BOOLEAN /\ requests' \in 0..MaxRequests
    BY <1>6, BoundsAssumption DEF Solve, Enter, GoTo
  <2> QED
    BY <2>1, <2>2, <2>3, <2>4, <1>6, BoundsAssumption DEF Solve, Enter, GoTo
<1>7. ASSUME JobAdvances PROVE TypeOK'
  <2>1. \/ \E s \in {"validated", "modeled", "solved", "explained"} :
               session' = [session EXCEPT !.stage = s]
        \/ session' = [session EXCEPT !.result = TRUE]
    BY <1>7 DEF JobAdvances, JobWrites
  <2>2. session' \in SessionType
    BY <2>1 DEF SessionType, Stages
  <2>3. pc' \in [Procs -> {"idle"} \cup SavePcs \cup WorkPcs]
    BY <1>7 DEF JobAdvances, JobWrites, GoTo
  <2> QED
    BY <2>2, <2>3, <1>7 DEF JobAdvances, JobWrites, History
<1>8. ASSUME JobStops PROVE TypeOK'
  <2>1. session' \in SessionType
    BY <1>8 DEF JobStops, GoTo, History, SessionType, Stages, NewSession
  <2>2. db' \in SessionType /\ snap' \in [Procs -> SessionType]
    BY <1>8 DEF JobStops, GoTo, History, SessionType, Stages, NewSession
  <2>3. pc' \in [Procs -> {"idle"} \cup SavePcs \cup WorkPcs]
    BY <1>8 DEF JobStops, GoTo, History
  <2>4. disturbed' \in BOOLEAN /\ requests' \in 0..MaxRequests
    BY <1>8 DEF JobStops, GoTo, History
  <2> QED
    BY <2>1, <2>2, <2>3, <2>4, <1>8 DEF JobStops, GoTo, History
<1>9. ASSUME JobFinishes PROVE TypeOK'
  BY <1>9 DEF JobFinishes, GoTo, History
<1>10. ASSUME NEW p \in Procs, ReadStageAndSpec(p, "read", "read_more") PROVE TypeOK'
  <2>1. session' \in SessionType
    BY <1>10 DEF ReadStageAndSpec, GoTo, History, SessionType, Stages, NewSession
  <2>2. db' \in SessionType /\ snap' \in [Procs -> SessionType]
    <3>1. [snap[p] EXCEPT !.stage = session.stage, !.spec = session.spec] \in SessionType
      BY DEF SessionType
    <3>2. /\ db' = db
          /\ snap' =
               [snap EXCEPT ![p] = [snap[p] EXCEPT !.stage = session.stage, !.spec = session.spec]]
      BY <1>10 DEF ReadStageAndSpec
    <3> QED
      BY <3>1, <3>2
  <2>3. pc' \in [Procs -> {"idle"} \cup SavePcs \cup WorkPcs]
    BY <1>10 DEF ReadStageAndSpec, GoTo, History
  <2>4. disturbed' \in BOOLEAN /\ requests' \in 0..MaxRequests
    BY <1>10 DEF ReadStageAndSpec, GoTo, History
  <2> QED
    BY <2>1, <2>2, <2>3, <2>4, <1>10 DEF ReadStageAndSpec, GoTo, History
<1>11. ASSUME NEW p \in Procs, ReadRowsAndResult(p, "read_more", "write_row") PROVE TypeOK'
  <2>1. session' \in SessionType
    BY <1>11 DEF ReadRowsAndResult, GoTo, History, SessionType, Stages, NewSession
  <2>2. db' \in SessionType /\ snap' \in [Procs -> SessionType]
    <3>1. [snap[p] EXCEPT !.rows = session.rows, !.result = session.result] \in SessionType
      BY DEF SessionType
    <3>2. /\ db' = db
          /\ snap' =
               [snap EXCEPT ![p] = [snap[p] EXCEPT !.rows = session.rows, !.result = session.result]]
      BY <1>11 DEF ReadRowsAndResult
    <3> QED
      BY <3>1, <3>2
  <2>3. pc' \in [Procs -> {"idle"} \cup SavePcs \cup WorkPcs]
    BY <1>11 DEF ReadRowsAndResult, GoTo, History
  <2>4. disturbed' \in BOOLEAN /\ requests' \in 0..MaxRequests
    BY <1>11 DEF ReadRowsAndResult, GoTo, History
  <2> QED
    BY <2>1, <2>2, <2>3, <2>4, <1>11 DEF ReadRowsAndResult, GoTo, History
<1>12. ASSUME NEW p \in Procs, WriteRow(p) PROVE TypeOK'
  <2>1. session' \in SessionType
    BY <1>12 DEF WriteRow, GoTo, History, SessionType, Stages, NewSession
  <2>2. db' \in SessionType /\ snap' \in [Procs -> SessionType]
    <3>1. [snap[p] EXCEPT !.files = session.files] \in SessionType
      BY DEF SessionType
    <3>2. db' = db /\ snap' = [snap EXCEPT ![p] = [snap[p] EXCEPT !.files = session.files]]
      BY <1>12 DEF WriteRow
    <3> QED
      BY <3>1, <3>2
  <2>3. pc' \in [Procs -> {"idle"} \cup SavePcs \cup WorkPcs]
    BY <1>12 DEF WriteRow, GoTo, History
  <2>4. disturbed' \in BOOLEAN /\ requests' \in 0..MaxRequests
    BY <1>12 DEF WriteRow, GoTo, History
  <2> QED
    BY <2>1, <2>2, <2>3, <2>4, <1>12 DEF WriteRow, GoTo, History
<1>13. ASSUME NEW p \in Procs, Commit(p) PROVE TypeOK'
  <2>1. [snap[p] EXCEPT !.files = db.files \cup snap[p].files] \in SessionType
    BY DEF SessionType
  <2>2. db' = [snap[p] EXCEPT !.files = db.files \cup snap[p].files]
    BY <1>13 DEF Commit
  <2>3. NewSession \in SessionType /\ snap' = [snap EXCEPT ![p] = NewSession]
    BY <1>13 DEF Commit, NewSession, SessionType, Stages
  <2>4. db' \in SessionType
    BY <2>1, <2>2
  <2>5. snap' \in [Procs -> SessionType]
    BY <2>3
  <2>6. pc' \in [Procs -> {"idle"} \cup SavePcs \cup WorkPcs]
    BY <1>13 DEF Commit, GoTo
  <2> QED
    BY <2>4, <2>5, <2>6, <1>13 DEF Commit
<1>14. ASSUME NEW p \in Procs, SaveRaises(p) PROVE TypeOK'
  <2>1. session' \in SessionType
    BY <1>14 DEF SaveRaises, GoTo, History, SessionType, Stages, NewSession
  <2>2. db' \in SessionType /\ snap' \in [Procs -> SessionType]
    BY <1>14 DEF SaveRaises, GoTo, History, SessionType, Stages, NewSession
  <2>3. pc' \in [Procs -> {"idle"} \cup SavePcs \cup WorkPcs]
    BY <1>14 DEF SaveRaises, GoTo, History
  <2>4. disturbed' \in BOOLEAN /\ requests' \in 0..MaxRequests
    BY <1>14 DEF SaveRaises, GoTo, History
  <2> QED
    BY <2>1, <2>2, <2>3, <2>4, <1>14 DEF SaveRaises, GoTo, History
<1>15. ASSUME Restart PROVE TypeOK'
  <2>1. session' \in SessionType
    BY <1>15, BoundsAssumption DEF Restart, SessionType, Stages, NewSession
  <2>2. db' \in SessionType /\ snap' \in [Procs -> SessionType]
    BY <1>15, BoundsAssumption DEF Restart, SessionType, Stages, NewSession
  <2>3. pc' \in [Procs -> {"idle"} \cup SavePcs \cup WorkPcs]
    BY <1>15, BoundsAssumption DEF Restart
  <2>4. crashes' \in 0..MaxCrashes
    BY <1>15, BoundsAssumption DEF Restart
  <2> QED
    BY <2>1, <2>2, <2>3, <2>4, <1>15, BoundsAssumption DEF Restart
<1> QED
  BY <1>1, <1>2, <1>3, <1>4, <1>5, <1>6, <1>7, <1>8, <1>9, <1>10, <1>11, <1>12, <1>13,
     <1>14, <1>15
  DEF Next, Save, ReadSnapshot

\* ... and that the result comes before the stage.
LEMMA ResultStep ==
    ASSUME TypeOK, ResultComesFirst, Next
    PROVE  ResultComesFirst'
<1> USE DEF TypeOK, SessionType, Procs, NewSession, ResultComesFirst,
           PersistedStageHasResult, Finished
<1>1. ASSUME NEW f \in Files, Upload(f) PROVE ResultComesFirst'
  BY <1>1 DEF Upload, Enter, GoTo
<1>2. ASSUME ParseRead PROVE ResultComesFirst'
  <2>1. snap' = snap /\ db' = db /\ session'.result = session.result
    BY <1>2, ParseReadEffect DEF ParseRead
  <2>2. session'.stage \in {session.stage, "failed"}
    BY <1>2, ParseReadEffect
  <2>3. /\ pc["dialogue"] = "idle" /\ pc'["dialogue"] \in {"install", "read"}
        /\ \A p \in Procs \ {"dialogue"} : pc'[p] = pc[p]
    BY <1>2, ParseReadEffect DEF ParseRead, Enter
  <2> QED
    BY <2>1, <2>2, <2>3
<1>3. ASSUME ParseInstall PROVE ResultComesFirst'
  BY <1>3 DEF ParseInstall, GoTo, History
<1>4. ASSUME Amend PROVE ResultComesFirst'
  BY <1>4 DEF Amend, Enter, GoTo
<1>5. ASSUME Restage PROVE ResultComesFirst'
  BY <1>5 DEF Restage, GoTo, History
<1>6. ASSUME Solve PROVE ResultComesFirst'
  BY <1>6 DEF Solve, Enter, GoTo
<1>7. ASSUME JobAdvances PROVE ResultComesFirst'
  BY <1>7 DEF JobAdvances, JobWrites, GoTo, History
<1>8. ASSUME JobStops PROVE ResultComesFirst'
  BY <1>8 DEF JobStops, GoTo, History
<1>9. ASSUME JobFinishes PROVE ResultComesFirst'
  BY <1>9 DEF JobFinishes, GoTo, History
<1>10. ASSUME NEW p \in Procs, ReadStageAndSpec(p, "read", "read_more")
       PROVE  ResultComesFirst'
  BY <1>10 DEF ReadStageAndSpec, GoTo, History
<1>11. ASSUME NEW p \in Procs, ReadRowsAndResult(p, "read_more", "write_row")
       PROVE  ResultComesFirst'
  BY <1>11 DEF ReadRowsAndResult, GoTo, History
<1>12. ASSUME NEW p \in Procs, WriteRow(p) PROVE ResultComesFirst'
  BY <1>12 DEF WriteRow, GoTo, History
<1>13. ASSUME NEW p \in Procs, Commit(p) PROVE ResultComesFirst'
  BY <1>13 DEF Commit, GoTo
<1>14. ASSUME NEW p \in Procs, SaveRaises(p) PROVE ResultComesFirst'
  BY <1>14 DEF SaveRaises, GoTo, History
<1>15. ASSUME Restart PROVE ResultComesFirst'
  BY <1>15 DEF Restart
<1> QED
  BY <1>1, <1>2, <1>3, <1>4, <1>5, <1>6, <1>7, <1>8, <1>9, <1>10, <1>11, <1>12, <1>13,
     <1>14, <1>15
  DEF Next, Save, ReadSnapshot

\* ... and that the tables of a spec have their rows and files.
LEMMA TablesStep ==
    ASSUME TypeOK, FilesAreKept, TablesHaveRows, Next
    PROVE  TablesHaveRows'
<1> USE DEF TypeOK, SessionType, Procs, NewSession, FilesAreKept, TablesHaveRows,
           PersistedTablesHaveRows
<1>1. ASSUME NEW f \in Files, Upload(f) PROVE TablesHaveRows'
  BY <1>1 DEF Upload, Enter, GoTo
<1>2. ASSUME ParseRead PROVE TablesHaveRows'
  <2>1. snap' = snap /\ db' = db
    BY <1>2 DEF ParseRead
  <2>2. /\ session.rows \subseteq session'.rows
        /\ session'.spec = session.spec /\ session'.files = session.files
        /\ session'.result = session.result
        /\ pc'["dialogue"] \in {"install", "read"}
        /\ \A p \in Procs \ {"dialogue"} : pc'[p] = pc[p]
    BY <1>2, ParseReadEffect
  <2>3. pc["dialogue"] = "idle"
    BY <1>2 DEF ParseRead, Enter
  <2>4. \A T \in session'.spec : T \subseteq session'.rows /\ T \subseteq session'.files
    BY <2>2
  <2>5. ASSUME NEW p \in Procs, NEW T \in snap'[p].spec
        PROVE  /\ T \subseteq IF pc'[p] = "read_more" THEN session'.rows ELSE snap'[p].rows
               /\ T \subseteq IF pc'[p] = "commit" THEN snap'[p].files ELSE session'.files
    BY <2>1, <2>2, <2>3
  <2> QED
    BY <2>1, <2>4, <2>5
<1>3. ASSUME ParseInstall PROVE TablesHaveRows'
  BY <1>3 DEF ParseInstall, GoTo, History
<1>4. ASSUME Amend PROVE TablesHaveRows'
  BY <1>4 DEF Amend, Enter, GoTo
<1>5. ASSUME Restage PROVE TablesHaveRows'
  BY <1>5 DEF Restage, GoTo, History
<1>6. ASSUME Solve PROVE TablesHaveRows'
  BY <1>6 DEF Solve, Enter, GoTo
<1>7. ASSUME JobAdvances PROVE TablesHaveRows'
  BY <1>7 DEF JobAdvances, JobWrites, GoTo, History
<1>8. ASSUME JobStops PROVE TablesHaveRows'
  BY <1>8 DEF JobStops, GoTo, History
<1>9. ASSUME JobFinishes PROVE TablesHaveRows'
  BY <1>9 DEF JobFinishes, GoTo, History
<1>10. ASSUME NEW p \in Procs, ReadStageAndSpec(p, "read", "read_more")
       PROVE  TablesHaveRows'
  BY <1>10 DEF ReadStageAndSpec, GoTo, History
<1>11. ASSUME NEW p \in Procs, ReadRowsAndResult(p, "read_more", "write_row")
       PROVE  TablesHaveRows'
  BY <1>11 DEF ReadRowsAndResult, GoTo, History
<1>12. ASSUME NEW p \in Procs, WriteRow(p) PROVE TablesHaveRows'
  BY <1>12 DEF WriteRow, GoTo, History
<1>13. ASSUME NEW p \in Procs, Commit(p) PROVE TablesHaveRows'
  BY <1>13 DEF Commit, GoTo
<1>14. ASSUME NEW p \in Procs, SaveRaises(p) PROVE TablesHaveRows'
  BY <1>14 DEF SaveRaises, GoTo, History
<1>15. ASSUME Restart PROVE TablesHaveRows'
  BY <1>15 DEF Restart
<1> QED
  BY <1>1, <1>2, <1>3, <1>4, <1>5, <1>6, <1>7, <1>8, <1>9, <1>10, <1>11, <1>12, <1>13,
     <1>14, <1>15
  DEF Next, Save, ReadSnapshot

\* ... and that files are kept on their way to the database.
LEMMA FilesStep ==
    ASSUME TypeOK, FilesAreKept, Next
    PROVE  FilesAreKept'
<1> USE DEF TypeOK, SessionType, Procs, NewSession, FilesAreKept
<1>1. ASSUME NEW f \in Files, Upload(f) PROVE FilesAreKept'
  BY <1>1 DEF Upload, Enter, GoTo
<1>2. ASSUME ParseRead PROVE FilesAreKept'
  BY <1>2 DEF ParseRead, Enter, GoTo
<1>3. ASSUME ParseInstall PROVE FilesAreKept'
  BY <1>3 DEF ParseInstall, GoTo, History
<1>4. ASSUME Amend PROVE FilesAreKept'
  BY <1>4 DEF Amend, Enter, GoTo
<1>5. ASSUME Restage PROVE FilesAreKept'
  BY <1>5 DEF Restage, GoTo, History
<1>6. ASSUME Solve PROVE FilesAreKept'
  BY <1>6 DEF Solve, Enter, GoTo
<1>7. ASSUME JobAdvances PROVE FilesAreKept'
  BY <1>7 DEF JobAdvances, JobWrites, GoTo, History
<1>8. ASSUME JobStops PROVE FilesAreKept'
  BY <1>8 DEF JobStops, GoTo, History
<1>9. ASSUME JobFinishes PROVE FilesAreKept'
  BY <1>9 DEF JobFinishes, GoTo, History
<1>10. ASSUME NEW p \in Procs, ReadStageAndSpec(p, "read", "read_more") PROVE FilesAreKept'
  BY <1>10 DEF ReadStageAndSpec, GoTo, History
<1>11. ASSUME NEW p \in Procs, ReadRowsAndResult(p, "read_more", "write_row")
       PROVE  FilesAreKept'
  BY <1>11 DEF ReadRowsAndResult, GoTo, History
<1>12. ASSUME NEW p \in Procs, WriteRow(p) PROVE FilesAreKept'
  BY <1>12 DEF WriteRow, GoTo, History
<1>13. ASSUME NEW p \in Procs, Commit(p) PROVE FilesAreKept'
  BY <1>13 DEF Commit, GoTo
<1>14. ASSUME NEW p \in Procs, SaveRaises(p) PROVE FilesAreKept'
  BY <1>14 DEF SaveRaises, GoTo, History
<1>15. ASSUME Restart PROVE FilesAreKept'
  BY <1>15 DEF Restart
<1> QED
  BY <1>1, <1>2, <1>3, <1>4, <1>5, <1>6, <1>7, <1>8, <1>9, <1>10, <1>11, <1>12, <1>13,
     <1>14, <1>15
  DEF Next, Save, ReadSnapshot

\* ... and that an undisturbed save is current.
LEMMA CurrentStep ==
    ASSUME TypeOK, FilesAreKept, SavesAreCurrent, Next
    PROVE  SavesAreCurrent'
<1> USE DEF TypeOK, SessionType, Procs, NewSession, FilesAreKept, SavesAreCurrent,
           QuietStoreIsCurrent
<1>1. ASSUME NEW f \in Files, Upload(f) PROVE SavesAreCurrent'
  BY <1>1 DEF Upload, Enter, GoTo
<1>2. ASSUME ParseRead PROVE SavesAreCurrent'
  <2>1. snap' = snap /\ db' = db /\ pc["dialogue"] = "idle"
    BY <1>2 DEF ParseRead, Enter
  <2>2. disturbed' = (disturbed \/ \E q \in Procs \ {"dialogue"} : pc[q] # "idle")
    BY <1>2 DEF ParseRead, Enter
  <2>3. /\ session.rows \subseteq session'.rows
        /\ session'.spec = session.spec /\ session'.files = session.files
        /\ session'.result = session.result
        /\ pc'["dialogue"] \in {"install", "read"}
        /\ \A p \in Procs \ {"dialogue"} : pc'[p] = pc[p]
    BY <1>2, ParseReadEffect
  <2> SUFFICES ASSUME ~disturbed' PROVE SavesAreCurrent'
    OBVIOUS
  <2>4. \A q \in Procs \ {"dialogue"} : pc'[q] = "idle"
    BY <2>2, <2>3
  <2> QED
    BY <2>3, <2>4
<1>3. ASSUME ParseInstall PROVE SavesAreCurrent'
  BY <1>3 DEF ParseInstall, GoTo, History
<1>4. ASSUME Amend PROVE SavesAreCurrent'
  BY <1>4 DEF Amend, Enter, GoTo
<1>5. ASSUME Restage PROVE SavesAreCurrent'
  BY <1>5 DEF Restage, GoTo, History
<1>6. ASSUME Solve PROVE SavesAreCurrent'
  BY <1>6 DEF Solve, Enter, GoTo
<1>7. ASSUME JobAdvances PROVE SavesAreCurrent'
  BY <1>7 DEF JobAdvances, JobWrites, GoTo, History
<1>8. ASSUME JobStops PROVE SavesAreCurrent'
  BY <1>8 DEF JobStops, GoTo, History
<1>9. ASSUME JobFinishes PROVE SavesAreCurrent'
  BY <1>9 DEF JobFinishes, GoTo, History
<1>10. ASSUME NEW p \in Procs, ReadStageAndSpec(p, "read", "read_more")
       PROVE  SavesAreCurrent'
  BY <1>10 DEF ReadStageAndSpec, GoTo, History
<1>11. ASSUME NEW p \in Procs, ReadRowsAndResult(p, "read_more", "write_row")
       PROVE  SavesAreCurrent'
  BY <1>11 DEF ReadRowsAndResult, GoTo, History
<1>12. ASSUME NEW p \in Procs, WriteRow(p) PROVE SavesAreCurrent'
  BY <1>12 DEF WriteRow, GoTo, History
<1>13. ASSUME NEW p \in Procs, Commit(p) PROVE SavesAreCurrent'
  BY <1>13 DEF Commit, GoTo
<1>14. ASSUME NEW p \in Procs, SaveRaises(p) PROVE SavesAreCurrent'
  BY <1>14 DEF SaveRaises, GoTo, History
<1>15. ASSUME Restart PROVE SavesAreCurrent'
  BY <1>15 DEF Restart
<1> QED
  BY <1>1, <1>2, <1>3, <1>4, <1>5, <1>6, <1>7, <1>8, <1>9, <1>10, <1>11, <1>12, <1>13,
     <1>14, <1>15
  DEF Next, Save, ReadSnapshot

-----------------------------------------------------------------------------
LEMMA InitInductive == Init => IInv
<1> SUFFICES ASSUME Init PROVE IInv
  OBVIOUS
<1> USE DEF Init
<1>1. TypeOK
  <2>1. NewSession \in SessionType
    BY DEF NewSession, SessionType, Stages
  <2>2. requests \in 0..MaxRequests /\ crashes \in 0..MaxCrashes
    BY BoundsAssumption
  <2> QED
    BY <2>1, <2>2 DEF TypeOK
<1>2. ResultComesFirst
  BY DEF NewSession, ResultComesFirst, PersistedStageHasResult, Finished, Procs
<1>3. TablesHaveRows
  BY DEF NewSession, TablesHaveRows, PersistedTablesHaveRows
<1>4. FilesAreKept
  BY DEF NewSession, FilesAreKept, Procs
<1>5. SavesAreCurrent
  BY DEF SavesAreCurrent, QuietStoreIsCurrent
<1> QED
  BY <1>1, <1>2, <1>3, <1>4, <1>5 DEF IInv

LEMMA StepInductive == IInv /\ [Next]_vars => IInv'
<1> SUFFICES ASSUME IInv, [Next]_vars PROVE IInv'
  OBVIOUS
<1>1. CASE Next
  BY <1>1, TypeStep, ResultStep, TablesStep, FilesStep, CurrentStep DEF IInv
<1>2. CASE UNCHANGED vars
  BY <1>2 DEF IInv, TypeOK, ResultComesFirst, PersistedStageHasResult, TablesHaveRows,
              PersistedTablesHaveRows, FilesAreKept, SavesAreCurrent, QuietStoreIsCurrent,
              vars
<1> QED
  BY <1>1, <1>2

\* The strengthened invariant, from which the theorems below follow.
THEOREM Inductive == Spec => []IInv
BY InitInductive, StepInductive, PTL DEF Spec

\* The variables keep their types, for every set of files and every bound.
THEOREM TypeCorrect == Spec => []TypeOK
BY Inductive, PTL DEF IInv

\* A row that says SOLVED or EXPLAINED holds the result, wherever a save met the
\* job and whenever the process died.
THEOREM ResultsArePersisted == Spec => []PersistedStageHasResult
<1>1. IInv => PersistedStageHasResult
  BY DEF IInv, ResultComesFirst
<1> QED
  BY <1>1, Inductive, PTL

\* A persisted spec has the rows and the files of its tables.
THEOREM TablesArePersisted == Spec => []PersistedTablesHaveRows
<1>1. IInv => PersistedTablesHaveRows
  BY DEF IInv, TablesHaveRows
<1> QED
  BY <1>1, Inductive, PTL

\* An upload that was answered with ok is never lost.
THEOREM UploadsSurvive == Spec => []AckedUploadsSurvive
<1>1. IInv => AckedUploadsSurvive
  BY DEF IInv, FilesAreKept, AckedUploadsSurvive
<1> QED
  BY <1>1, Inductive, PTL

\* Undisturbed, the row equals the object whenever nothing is in progress.
THEOREM QuietStore == Spec => []QuietStoreIsCurrent
<1>1. IInv => QuietStoreIsCurrent
  BY DEF IInv, SavesAreCurrent, QuietStoreIsCurrent
<1> QED
  BY <1>1, Inductive, PTL

=============================================================================
