---------------------------- MODULE SessionStore ----------------------------
(***************************************************************************)
(* SQLiteSessionStore: one session as an object in the memory cache and as *)
(* a row (with its files) in SQLite.  Handlers and the solve job change    *)
(* the object and then call save(), which reads the object's attributes    *)
(* one after the other, without a lock, before it takes the database's     *)
(* write lock; the uploaded files are read under that lock.  The process   *)
(* may die at any moment; on start the cache is loaded from the database   *)
(* and the jobs, which live in memory only, are gone.                      *)
(*                                                                         *)
(* A spec stands for the set of files its tables refer to; session.spec is *)
(* {} for None and {T} for a spec with tables T.  Unserializable files are *)
(* those whose rows json.dumps rejects (dates read from an Excel sheet).   *)
(***************************************************************************)
EXTENDS Naturals, SessionStages

CONSTANTS Files,            \* names of files a client uploads
          Unserializable,   \* those whose rows cannot be written as JSON
          Nobody,           \* nobody holds the database's write lock
          MaxRequests,      \* bound: requests that change the session
          MaxCrashes        \* bound: times the process dies

ASSUME UnserializableAssumption == Unserializable \subseteq Files
ASSUME BoundsAssumption == MaxCrashes \in Nat /\ MaxRequests \in Nat

\* The upload handler runs on the event loop, the other handlers in the thread
\* pool (one of them here), the job in its daemon thread.
Procs == {"upload", "dialogue", "job"}

VARIABLES session,    \* the object in the cache
          db,         \* the committed row and files
          snap,       \* per process: the attributes its save() has read so far
          lock,       \* who is inside a write transaction
          pc,         \* per process: where it is
          status,     \* job.status of the last job, "none" when unknown
          uploading,  \* the file of the upload in progress, as a set
          acked,      \* files whose upload was answered with ok
          requests,   \* how many requests came
          crashes,    \* how often the process died
          disturbed   \* history, since the start: two of the processes overlapped,
                      \* or a handler or a save raised

vars == <<session, db, snap, lock, pc, status, uploading, acked,
          requests, crashes, disturbed>>

SavePcs == {"read", "read_more", "write_row", "commit"}
WorkPcs == {"install", "restage", "validate", "model", "solve", "mark_solved",
            "explain", "finish"}

SessionType == [stage : Stages, spec : {{}} \cup {{T} : T \in SUBSET Files},
                rows : SUBSET Files, result : BOOLEAN, files : SUBSET Files]

\* The variables and their types.
TypeOK ==
    /\ session \in SessionType /\ db \in SessionType
    /\ snap \in [Procs -> SessionType]
    /\ lock \in Procs \cup {Nobody}
    /\ pc \in [Procs -> {"idle"} \cup SavePcs \cup WorkPcs]
    /\ status \in JobStatuses \cup {"none"}
    /\ uploading \subseteq Files /\ acked \subseteq Files
    /\ requests \in 0..MaxRequests /\ crashes \in 0..MaxCrashes
    /\ disturbed \in BOOLEAN

\* What create() inserts.
NewSession == [stage |-> "created", spec |-> {}, rows |-> {},
               result |-> FALSE, files |-> {}]

Init ==
    /\ session = NewSession /\ db = NewSession
    /\ snap = [p \in Procs |-> NewSession]
    /\ lock = Nobody
    /\ pc = [p \in Procs |-> "idle"]
    /\ status = "none"
    /\ uploading = {} /\ acked = {}
    /\ requests = 0 /\ crashes = 0 /\ disturbed = FALSE

GoTo(p, where) == pc' = [pc EXCEPT ![p] = where]
\* A request is taken up while its process is idle.
Enter(p) == /\ pc[p] = "idle"
            /\ requests < MaxRequests
            /\ requests' = requests + 1
            /\ disturbed' = (disturbed \/ \E q \in Procs \ {p} : pc[q] # "idle")
History == <<acked, requests, crashes>>

-----------------------------------------------------------------------------
(* save(session).                                                           *)

\* The parameters of the INSERT are evaluated from left to right: the stage and
\* the spec, then the rows and the result.  (Two steps; within each the order
\* does not matter to the properties.)
ReadStageAndSpec(p, from, to) ==
    /\ pc[p] = from
    /\ snap' = [snap EXCEPT ![p].stage = session.stage, ![p].spec = session.spec]
    /\ GoTo(p, to)
    /\ UNCHANGED <<session, db, lock, status, uploading, History, disturbed>>

ReadRowsAndResult(p, from, to) ==
    /\ pc[p] = from
    /\ session.rows \cap Unserializable = {}
    /\ snap' = [snap EXCEPT ![p].rows = session.rows, ![p].result = session.result]
    /\ GoTo(p, to)
    /\ UNCHANGED <<session, db, lock, status, uploading, History, disturbed>>

\* Mutant: the rows and the result are read first.
MutReadSnapshot(p) ==
    \/ ReadRowsAndResult(p, "read", "read_more")
    \/ ReadStageAndSpec(p, "read_more", "write_row")

ReadSnapshot(p) ==
    \/ ReadStageAndSpec(p, "read", "read_more")
    \/ ReadRowsAndResult(p, "read_more", "write_row")

\* The INSERT takes the write lock; then the loop reads session.files.
WriteRow(p) ==
    /\ pc[p] = "write_row"
    /\ lock = Nobody
    /\ lock' = p
    /\ snap' = [snap EXCEPT ![p].files = session.files]
    /\ GoTo(p, "commit")
    /\ UNCHANGED <<session, db, status, uploading, History, disturbed>>

\* Mutant: the loop over the files is forgotten.
MutCommitRowOnly(p) ==
    /\ pc[p] = "commit"
    /\ db' = [snap[p] EXCEPT !.files = db.files]
    /\ lock' = Nobody
    /\ acked' = IF p = "upload" THEN acked \cup uploading ELSE acked
    /\ uploading' = IF p = "upload" THEN {} ELSE uploading
    /\ snap' = [snap EXCEPT ![p] = NewSession]
    /\ GoTo(p, "idle")
    /\ UNCHANGED <<session, status, requests, crashes, disturbed>>

\* One transaction: the row is replaced, the files are replaced or added.  The
\* upload handler answers ok afterwards.
Commit(p) ==
    /\ pc[p] = "commit"
    /\ db' = [snap[p] EXCEPT !.files = db.files \cup @]
    /\ lock' = Nobody
    /\ acked' = IF p = "upload" THEN acked \cup uploading ELSE acked
    /\ uploading' = IF p = "upload" THEN {} ELSE uploading
    /\ snap' = [snap EXCEPT ![p] = NewSession]
    /\ GoTo(p, "idle")
    /\ UNCHANGED <<session, status, requests, crashes, disturbed>>

\* json.dumps rejects a row, the write lock is held for too long ("database is
\* locked"), or session.files grew while the loop ran over it: the transaction
\* is rolled back and the request ends in a 500.
SaveRaises(p) ==
    /\ \/ pc[p] = "read_more" /\ session.rows \cap Unserializable # {}
       \/ pc[p] = "write_row" /\ lock # Nobody
       \/ pc[p] = "commit" /\ session.files # snap[p].files
    /\ lock' = IF lock = p THEN Nobody ELSE lock
    /\ uploading' = IF p = "upload" THEN {} ELSE uploading
    /\ snap' = [snap EXCEPT ![p] = NewSession]
    /\ disturbed' = TRUE
    /\ GoTo(p, "idle")
    /\ UNCHANGED <<session, db, status, History>>

Save(p) == ReadSnapshot(p) \/ WriteRow(p) \/ Commit(p) \/ SaveRaises(p)

-----------------------------------------------------------------------------
(* The handlers' writes to the object, each followed by save().             *)

\* POST /files
Upload(f) ==
    /\ Enter("upload")
    /\ session' = [session EXCEPT !.files = @ \cup {f}]
    /\ uploading' = {f}
    /\ GoTo("upload", "read")
    /\ UNCHANGED <<db, snap, lock, status, acked, crashes>>

\* POST /parse: the rows of every file are stored before anything else.  The
\* parse may fail for any reason; a row that is no JSON is one only when it is
\* among the few the prompt shows, otherwise nobody minds it before save().
ParseRead ==
    /\ Enter("dialogue")
    /\ LET rows == session.rows \cup session.files IN
         \/ /\ session' = [session EXCEPT !.rows = rows]
            /\ GoTo("dialogue", "install")
         \/ /\ session' = [session EXCEPT !.rows = rows, !.stage = "failed"]
            /\ GoTo("dialogue", "read")
    /\ UNCHANGED <<db, snap, lock, status, uploading, acked, crashes>>

\* Each file gets its table: one that was uploaded after the reading loop has
\* no rows and the handler raises.
ParseInstall ==
    /\ pc["dialogue"] = "install"
    /\ \/ /\ session.files \subseteq session.rows
          /\ session' = [session EXCEPT !.spec = {session.files}]
          /\ GoTo("dialogue", "restage")
          /\ UNCHANGED disturbed
       \/ /\ ~(session.files \subseteq session.rows)
          /\ GoTo("dialogue", "idle")
          /\ disturbed' = TRUE
          /\ UNCHANGED session
    /\ UNCHANGED <<db, snap, lock, status, uploading, History>>

\* A confirmation, an answer or an edit: the gates close or stay open.
Amend ==
    /\ Enter("dialogue")
    /\ session.spec # {}
    /\ GoTo("dialogue", "restage")
    /\ UNCHANGED <<session, db, snap, lock, status, uploading, acked, crashes>>

\* Which of the two waiting stages it is makes no difference here.
Restage ==
    /\ pc["dialogue"] = "restage"
    /\ \E stage \in {"awaiting_clarification", "ready"} :
          session' = [session EXCEPT !.stage = stage]
    /\ GoTo("dialogue", "read")
    /\ UNCHANGED <<db, snap, lock, status, uploading, History, disturbed>>

-----------------------------------------------------------------------------
(* The solve job.                                                           *)

Solve ==
    /\ Enter("job")
    /\ session.stage = "ready"
    /\ status' = "running"
    /\ GoTo("job", "validate")
    /\ UNCHANGED <<session, db, snap, lock, uploading, acked, crashes>>

JobWrites(from, to, change) ==
    /\ pc["job"] = from
    /\ session' = change
    /\ GoTo("job", to)
    /\ UNCHANGED <<db, snap, lock, status, uploading, History, disturbed>>

JobAdvances ==
    \/ JobWrites("validate", "model", [session EXCEPT !.stage = "validated"])
    \/ JobWrites("model", "solve", [session EXCEPT !.stage = "modeled"])
    \/ JobWrites("solve", "mark_solved", [session EXCEPT !.result = TRUE])
    \/ JobWrites("mark_solved", "explain", [session EXCEPT !.stage = "solved"])
    \/ JobWrites("explain", "finish", [session EXCEPT !.stage = "explained"])

\* Mutant: only a job that succeeded saves the session.
MutJobStops ==
    /\ pc["job"] \in {"validate", "model", "solve", "explain"}
    /\ \/ session' = [session EXCEPT !.stage = "failed"] /\ status' = "failed"
       \/ session' = [session EXCEPT !.stage = "cancelled"] /\ status' = "cancelled"
    /\ GoTo("job", "idle")
    /\ UNCHANGED <<db, snap, lock, uploading, History, disturbed>>

\* A failed step, a cancel, or an exception run_solve does not handle, which
\* leaves the stage alone; "finally" saves the session all the same.
JobStops ==
    /\ \/ /\ pc["job"] \in {"validate", "model", "solve", "explain"}
          /\ \/ session' = [session EXCEPT !.stage = "failed"] /\ status' = "failed"
             \/ session' = [session EXCEPT !.stage = "cancelled"] /\ status' = "cancelled"
       \/ /\ pc["job"] \in {"validate", "model"}
          /\ status' = "failed" /\ UNCHANGED session
    /\ GoTo("job", "read")
    /\ UNCHANGED <<db, snap, lock, uploading, History, disturbed>>

\* Mutant: a status JobStatus does not have.
MutJobFinishes ==
    /\ pc["job"] = "finish"
    /\ status' = "finished"
    /\ GoTo("job", "read")
    /\ UNCHANGED <<session, db, snap, lock, uploading, History, disturbed>>

\* job.status = DONE comes before the save.
JobFinishes ==
    /\ pc["job"] = "finish"
    /\ status' = "done"
    /\ GoTo("job", "read")
    /\ UNCHANGED <<session, db, snap, lock, uploading, History, disturbed>>

-----------------------------------------------------------------------------
\* The process dies and is started again: an open transaction is rolled back,
\* _preload fills the cache, job_store is empty.
Restart ==
    /\ crashes < MaxCrashes
    /\ crashes' = crashes + 1
    /\ session' = db
    /\ snap' = [p \in Procs |-> NewSession]
    /\ lock' = Nobody
    /\ pc' = [p \in Procs |-> "idle"]
    /\ status' = "none"
    /\ uploading' = {}
    /\ disturbed' = FALSE
    /\ UNCHANGED <<db, acked, requests>>

Next == \/ \E f \in Files : Upload(f)
        \/ ParseRead \/ ParseInstall \/ Amend \/ Restage
        \/ Solve \/ JobAdvances \/ JobStops \/ JobFinishes
        \/ \E p \in Procs : Save(p)
        \/ Restart

Spec == Init /\ [][Next]_vars

-----------------------------------------------------------------------------
(* Properties.                                                              *)

\* A row never says SOLVED or EXPLAINED without the result: save() reads the
\* stage before the result and the job writes the result before the stage, so a
\* save in the middle of a job errs on the safe side only.
PersistedStageHasResult ==
    db.stage \in {"solved", "explained"} => db.result

\* A persisted spec never refers to a file whose rows or bytes are missing:
\* after a restart a mapping can still be confirmed (file_rows[file_name]).
PersistedTablesHaveRows ==
    \A T \in db.spec : T \subseteq db.rows /\ T \subseteq db.files

\* An upload that was answered with ok survives every crash and every other
\* save that overlaps with it, even one whose row is older.
AckedUploadsSurvive == acked \subseteq db.files /\ acked \subseteq session.files

\* When no two processes overlapped and none raised since the start, the row
\* equals the object whenever nothing is in progress: a crash then loses
\* nothing, whichever way the requests and the job ended.
QuietStoreIsCurrent ==
    (\A p \in Procs : pc[p] = "idle") /\ ~disturbed => db = session

=============================================================================
