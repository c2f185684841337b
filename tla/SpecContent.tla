----------------------------- MODULE SpecContent -----------------------------
(***************************************************************************)
(* What the spec of one session contains: the rows of its confirmed        *)
(* tables, the constraints the parser extracted, the questions it asked    *)
(* and what answers and edits made of them (parser/parser.py,              *)
(* parser/column_mapper.py and the dialogue functions of api/pipeline.py). *)
(* Requests come one after the other here; how they interleave with each   *)
(* other and with a job is SolvePipeline's.                                *)
(***************************************************************************)
EXTENDS SessionStages, Naturals, Sequences

CONSTANTS Files,         \* names of uploaded files
          Contents,      \* what can be uploaded under such a name
          Cells,         \* the id cells of the rows, for contents read_table can read
          NoCell,        \* a cell that is None: an empty one of a sheet
          Categories,    \* what the rows of an entity table may represent
          Fields,        \* what the rows of a parameter table may set
          ProblemTypes,
          Supported,     \* SUPPORTED_CONSTRAINTS, by problem type
          Constraints,   \* the constraints the LLM may extract, in spec order
          Ambiguities,   \* the ambiguities it may raise, in spec order
          Routing,       \* the ambiguity _flag_routing adds
          Worlds,        \* what the user may upload and the LLM may reply in a session
          Answers,       \* texts a user may answer with, "cancel" among them
          None

Rows(s) == {s[i] : i \in DOMAIN s}

ASSUME ContentAssumption ==
    /\ DOMAIN Cells \subseteq Contents /\ None \notin Contents
    /\ \A c \in DOMAIN Cells : Cells[c] \in Seq(Rows(Cells[c]))
ASSUME TypeAssumption == None \notin ProblemTypes /\ DOMAIN Supported = ProblemTypes

\* A question as the parser hands it over: without an answer.
Asked(q) == q \in [about : {q.about}, target : {q.target}, effect : {q.effect},
                   resolution : {None}, blocking : BOOLEAN]
ASSUME QuestionsAssumption ==
    /\ Constraints \in Seq(Rows(Constraints)) /\ Ambiguities \in Seq(Rows(Ambiguities))
    /\ None \notin Answers
    /\ \A q \in Rows(Ambiguities) \cup {Routing} :
          Asked(q) /\ None \notin DOMAIN q.effect

VARIABLES files,       \* session.files
          fileRows,    \* session.file_rows, by the content they were read from
          type,        \* spec.problem_type; None while there is no spec
          entities,    \* spec.entities
          params,      \* spec.global_params, by the content that set them
          tables,      \* the five kinds of tables of the spec, by file
          constraints, \* spec.constraints: the parameter that answers patch
          questions,   \* spec.ambiguities with their resolutions
          stage,
          world,       \* the member of Worlds this session lives in
          extracted,   \* history: the constraints of the last good parse
          named,       \* history: the categories a file was confirmed under, since
                       \* the last good parse, the last time without raising
          replaced     \* history: files whose rows a failed parse has replaced since
                       \* they were confirmed

data == <<entities, params, tables>>
dialogue == <<constraints, questions>>
history == <<extracted, named, replaced>>
vars == <<files, fileRows, type, data, dialogue, stage, world, history>>

\* The tables of a spec.  Those that only link or time entities need no
\* confirmation (run_parse).
Tables ==
    [role : {"entity"}, category : Categories, byId : BOOLEAN, confirmed : BOOLEAN]
    \cup [role : {"parameter"}, field : Fields, confirmed : BOOLEAN]
    \cup [role : {"cost_matrix"}, confirmed : BOOLEAN]
    \cup [role : {"relationship", "calendar"}, confirmed : {TRUE}]

\* What classify_table makes of the LLM's answer about a file.
Classifications == {t \in Tables : t.confirmed = (t.role \in {"relationship", "calendar"})}

\* Entities the LLM finds in the text come from no file.
ASSUME WorldsAssumption ==
    \A w \in Worlds :
        /\ \A f \in Files : w.uploads[f] \subseteq Contents
        /\ \A r \in w.replies :
              /\ r.type \in ProblemTypes /\ r.found \subseteq Rows(Constraints)
              /\ r.entities \in Seq(Rows(r.entities))
              /\ \A e \in Rows(r.entities) :
                    e.category \in Categories /\ e.source \notin Files

\* The members of s that are in P, in the order of s: SelectSeq with a set as the
\* test, so that what it selects can be proved about.
Selected(s, P) ==
    LET kept[i \in 0..Len(s)] ==
            IF i = 0 THEN <<>>
            ELSE IF s[i] \in P THEN Append(kept[i - 1], s[i]) ELSE kept[i - 1]
    IN  kept[Len(s)]

NotRead == [f \in Files |-> None]

Init == /\ world \in Worlds
        /\ files = NotRead /\ fileRows = NotRead
        /\ type = None /\ entities = <<>> /\ tables = <<>> /\ questions = <<>>
        /\ params = [p \in Fields |-> None]
        /\ constraints = <<>>
        /\ stage = "created"
        /\ extracted = {}
        /\ named = [f \in Files |-> {}] /\ replaced = {}

TypeOK ==
    /\ files \in [Files -> Contents \cup {None}]
    /\ fileRows \in [Files -> DOMAIN Cells \cup {None}]
    /\ type \in ProblemTypes \cup {None}
    /\ \A i \in DOMAIN entities : entities[i].category \in Categories
    /\ params \in [Fields -> DOMAIN Cells \cup {None}]
    /\ \A f \in DOMAIN tables : f \in Files /\ tables[f] \in Tables /\ fileRows[f] # None
    /\ DOMAIN constraints \subseteq extracted /\ extracted \subseteq Rows(Constraints)
    /\ \A i \in DOMAIN questions : questions[i].resolution \in Answers \cup {None}
    /\ stage \in Stages
    /\ named \in [Files -> SUBSET Categories] /\ replaced \subseteq Files

Unconfirmed(t) == {f \in DOMAIN t : ~t[f].confirmed}
Open(q) == {i \in DOMAIN q : q[i].blocking /\ q[i].resolution = None}

\* recompute_stage_after_parse
Recompute == stage' = RecomputedStage(Unconfirmed(tables'), Open(questions'))

-----------------------------------------------------------------------------
\* Rows

Upload(f, c) == /\ files' = [files EXCEPT ![f] = c]
                /\ UNCHANGED <<fileRows, type, data, dialogue, stage, world, history>>

\* rows_to_entities: the id cell, or a generated id where there is none.
EntityOf(f, t, cell, i) ==
    [id |-> IF t.byId /\ cell # NoCell THEN cell ELSE <<t.category, i>>,
     category |-> t.category, source |-> f, row |-> i]
RowsToEntities(f, t, cells) == [i \in DOMAIN cells |-> EntityOf(f, t, cells[i], i)]

HasDuplicate(s) == \E i, k \in DOMAIN s :
    i # k /\ s[i].id = s[k].id /\ s[i].category = s[k].category

\* Mutant: the rows of an earlier confirmation stay.
MutOthers(f, category) == entities

\* The entities but those of the category that came from f.
Others(f, category) ==
    Selected(entities, {e \in Rows(entities) : ~(e.category = category /\ e.source = f)})

\* confirm_column_mapping for an entity table: the user may change the category
\* and name an id column, or none ("").  The old rows of the category go before
\* the new ones are looked at, so a duplicate id raises after they went and
\* after the mapping was marked confirmed; the stage stays.
ConfirmEntities(f, category, byId) ==
    /\ type # None /\ f \in DOMAIN tables /\ tables[f].role = "entity"
    /\ LET new == [tables[f] EXCEPT !.category = category, !.byId = byId,
                                    !.confirmed = TRUE]
           others == Others(f, category)
           rows == RowsToEntities(f, new, Cells[fileRows[f]])
       IN /\ tables' = [tables EXCEPT ![f] = new]
          /\ IF HasDuplicate(rows)
             THEN /\ entities' = others
                  /\ named' = [named EXCEPT ![f] = @ \ {category}]
                  /\ UNCHANGED <<stage, replaced>>
             ELSE /\ entities' = others \o rows
                  /\ named' = [named EXCEPT ![f] = @ \cup {category}]
                  /\ replaced' = replaced \ {f}
                  /\ stage' = RecomputedStage(Unconfirmed(tables'), Open(questions))
    /\ UNCHANGED <<files, fileRows, type, params, dialogue, world, extracted>>

\* confirm_column_mapping for a parameter table: later rows overwrite earlier
\* ones, and the fields of an earlier confirmation stay.
ConfirmParameters(f, field) ==
    /\ type # None /\ f \in DOMAIN tables /\ tables[f].role = "parameter"
    /\ tables' = [tables EXCEPT ![f].field = field, ![f].confirmed = TRUE]
    /\ params' = IF Cells[fileRows[f]] = <<>> THEN params
                 ELSE [params EXCEPT ![field] = fileRows[f]]
    /\ stage' = RecomputedStage(Unconfirmed(tables'), Open(questions))
    /\ UNCHANGED <<files, fileRows, type, entities, dialogue, world, history>>

ConfirmPairwise(f) ==
    /\ type # None /\ f \in DOMAIN tables /\ tables[f].role = "cost_matrix"
    /\ tables' = [tables EXCEPT ![f].confirmed = TRUE]
    /\ stage' = RecomputedStage(Unconfirmed(tables'), Open(questions))
    /\ UNCHANGED <<files, fileRows, type, entities, params, dialogue, world, history>>

-----------------------------------------------------------------------------
\* run_parse

Uploaded == {f \in Files : files[f] # None}
MutReadable == Uploaded    \* mutant: a file that cannot be read has rows
Readable == {f \in Uploaded : files[f] \in DOMAIN Cells}

\* The rows of the files in read replace the old ones, also those an older
\* spec was built on.
ReadFiles(read) ==
    fileRows' = [f \in Files |-> IF f \in read THEN files[f] ELSE fileRows[f]]

\* A file that cannot be read, an LLM that fails or returns no valid JSON three
\* times, or a failing classification: what was read stays, the old spec too.
ParseFails ==
    /\ \/ Readable # Uploaded /\ \E read \in SUBSET Readable : ReadFiles(read)
       \/ Readable = Uploaded /\ ReadFiles(Uploaded)
    /\ stage' = "failed"
    /\ replaced' = replaced \cup {f \in Files : fileRows'[f] # fileRows[f]}
    /\ UNCHANGED <<files, type, data, dialogue, world, extracted, named>>

\* _flag_unsupported_constraints: a constraint outside the family's map becomes
\* a blocking question.
Flagged(c) == [about |-> c, target |-> None, effect |-> <<>>, resolution |-> None,
               blocking |-> TRUE]

NewQuestions(reply) ==
    LET raised == {a \in Rows(Ambiguities) : a.about \in reply.raised}
        dropped == Selected(Constraints, reply.found \ Supported[reply.type])
    IN  Selected(Ambiguities, raised) \o (IF reply.routing THEN <<Routing>> ELSE <<>>)
        \o [i \in DOMAIN dropped |-> Flagged(dropped[i])]

ParseSucceeds(reply, classes) ==
    /\ Readable = Uploaded /\ ReadFiles(Uploaded)
    /\ type' = reply.type
    /\ entities' = reply.entities
    /\ params' = [p \in Fields |-> None]
    /\ tables' = classes
    /\ extracted' = reply.found
    /\ constraints' = [c \in reply.found \cap Supported[reply.type] |-> "extracted"]
    /\ questions' = NewQuestions(reply)
    /\ named' = [f \in Files |-> {}] /\ replaced' = {}
    /\ Recompute
    /\ UNCHANGED <<files, world>>

Parse == \/ ParseFails
         \/ \E reply \in world.replies :
               \E classes \in [Uploaded -> Classifications] :
                  /\ \A f \in Uploaded : classes[f] \in world.classes[f]
                  /\ ParseSucceeds(reply, classes)

-----------------------------------------------------------------------------
\* Questions and edits

\* Mutant: all answers are stored before they are looked at one by one.
MutResolve(answers) ==
    LET cancelled == {i \in DOMAIN answers : answers[i] = "cancel"}
        patches(c) == {i \in DOMAIN answers :
                          /\ \A k \in cancelled : i < k
                          /\ questions[i].target = c
                          /\ answers[i] \in DOMAIN questions[i].effect}
    IN /\ type # None
       /\ questions' = [i \in DOMAIN questions |->
              IF i \in DOMAIN answers THEN [questions[i] EXCEPT !.resolution = answers[i]]
              ELSE questions[i]]
       /\ constraints' = [c \in DOMAIN constraints |->
              IF patches(c) = {} THEN constraints[c]
              ELSE LET i == CHOOSE i \in patches(c) : TRUE
                   IN questions[i].effect[answers[i]]]
       /\ stage' = IF cancelled # {} THEN "cancelled"
                   ELSE RecomputedStage(Unconfirmed(tables), Open(questions'))
       /\ UNCHANGED <<files, fileRows, type, data, world, history>>

\* resolve_ambiguities, in the order of the questions: an answer is stored and
\* its patch applied; a "cancel" ends the request before its own patch and
\* before the questions behind it.
Resolve(answers) ==
    LET cancelled == {i \in DOMAIN answers : answers[i] = "cancel"}
        taken == {i \in DOMAIN answers : \A k \in cancelled : i <= k}
        patches(c) == {i \in taken \ cancelled :
                          questions[i].target = c /\ answers[i] \in DOMAIN questions[i].effect}
        last(S) == CHOOSE i \in S : \A k \in S : k <= i
    IN /\ type # None
       /\ questions' = [i \in DOMAIN questions |->
              IF i \in taken THEN [questions[i] EXCEPT !.resolution = answers[i]]
              ELSE questions[i]]
       /\ constraints' = [c \in DOMAIN constraints |->
              IF patches(c) = {} THEN constraints[c]
              ELSE LET i == last(patches(c)) IN questions[i].effect[answers[i]]]
       /\ stage' = IF cancelled # {} THEN "cancelled"
                   ELSE RecomputedStage(Unconfirmed(tables), Open(questions'))
       /\ UNCHANGED <<files, fileRows, type, data, world, history>>

\* edit_spec.  A constraint patch is a model object without the method get, so
\* a request that carries one raises once problem type and objective were set.
EditSpec(t, patched) ==
    /\ type # None
    /\ type' = t
    /\ stage' = IF patched # {} THEN stage
                ELSE RecomputedStage(Unconfirmed(tables), Open(questions))
    /\ UNCHANGED <<files, fileRows, data, dialogue, world, history>>

-----------------------------------------------------------------------------
\* run_solve, as far as the spec's content decides its outcome.  The other
\* checks of the validator may refuse any spec; builder and solver likewise.
MutBuildable == TRUE    \* mutant: the builder skips what it does not know
Buildable == DOMAIN constraints \subseteq Supported[type]
Solve == /\ stage = "ready"
         /\ \/ /\ entities # <<>> /\ ~HasDuplicate(entities) /\ Buildable
               /\ stage' = "explained"
            \/ stage' = "failed"
         /\ UNCHANGED <<files, fileRows, type, data, dialogue, world, history>>

Next == \/ \E f \in Files :
              \/ \E c \in world.uploads[f] : Upload(f, c)
              \/ \E c \in Categories, b \in BOOLEAN : ConfirmEntities(f, c, b)
              \/ \E p \in Fields : ConfirmParameters(f, p)
              \/ ConfirmPairwise(f)
        \/ Parse
        \/ \E S \in SUBSET (DOMAIN questions) \ {{}} :
              \E answers \in [S -> Answers] : Resolve(answers)
        \/ \E t \in ProblemTypes, patched \in SUBSET DOMAIN constraints : EditSpec(t, patched)
        \/ Solve

Spec == Init /\ [][Next]_vars

-----------------------------------------------------------------------------
\* Properties

\* The entities of a category that came from f.
FromFile(s, f, category) ==
    Selected(s, {e \in Rows(s) : e.source = f /\ e.category = category})

\* Whatever was parsed, confirmed again, uploaded or refused in between: no row
\* of an entity table is there twice under one category, and each category has
\* the rows from the first on and in order; a category the table was not
\* confirmed under, or the last time raised, has none; and the one it is
\* confirmed under has exactly the rows of the file as they were read last,
\* unless a failed parse has read them after the confirmation (pipeline.py:45).
\* A table that was confirmed under two categories has its rows under both.
RowsAreIngestedOnce ==
    \A f \in DOMAIN tables, c \in Categories : tables[f].role = "entity" =>
        LET s == FromFile(entities, f, c)
        IN  /\ \A i \in DOMAIN s : s[i].row = i
            /\ c \notin named[f] => s = <<>>
            /\ c \in named[f] /\ c = tables[f].category /\ f \notin replaced =>
                  s = RowsToEntities(f, tables[f], Cells[fileRows[f]])

\* A session becomes EXPLAINED only with every extracted constraint in the
\* model, or with an answer to the question that asked to leave it out
\* (docs/modeling_scope.md: "it is never silently dropped").
NothingSilentlyDropped ==
    [][stage = "ready" /\ stage' = "explained" =>
         \A c \in extracted :
            \/ c \in DOMAIN constraints /\ c \in Supported[type]
            \/ \E i \in DOMAIN questions :
                  questions[i].about = c /\ questions[i].resolution # None]_vars

\* A recorded answer that maps to a parameter has changed the constraint it is
\* about, also when another answer of the same request cancelled the session,
\* unless an answer to another question about that constraint changed it later.
AnswersAreApplied ==
    \A i \in DOMAIN questions :
        LET q == questions[i]
        IN q.target \in DOMAIN constraints /\ q.resolution \in DOMAIN q.effect \ {"cancel"} =>
            \E k \in DOMAIN questions : \E answer \in DOMAIN questions[k].effect :
                /\ questions[k].target = q.target /\ questions[k].resolution # None
                /\ constraints[q.target] = questions[k].effect[answer]
                /\ k = i => answer = q.resolution

\* What an edit asks for happens (edit_spec: "Apply user edits to the extracted
\* spec (problem_type, objective, constraint params)"); a patch is abstracted
\* to the value "edited", and the step is told from one without patches.
EditsAreApplied ==
    [][\A t \in ProblemTypes, patched \in SUBSET DOMAIN constraints :
         EditSpec(t, patched) /\ ~EditSpec(t, {}) =>
            \A c \in patched : constraints'[c] = "edited"]_vars

=============================================================================
