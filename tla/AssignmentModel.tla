--------------------------- MODULE AssignmentModel ---------------------------
(***************************************************************************)
(* The assignment family and the dispatch mode of the allocation family:   *)
(* from a spec with two or more categories of entities through the         *)
(* pre-solve validator (validation/validator.py) and the row builders      *)
(* (modeling/assignment_model.py, allocation_model.py) to a plan           *)
(* (solvers/solver_router.py) and its explanation                          *)
(* (explanation/explainer.py).                                             *)
(*                                                                         *)
(* The builders write linear rows over one binary variable per pair of an  *)
(* agent and a task; a plan is the set of the pairs whose variable is 1.   *)
(* CBC is external: it answers with a best plan or with INFEASIBLE, and    *)
(* when its 30 seconds are up with the plan it has, which PuLP calls       *)
(* optimal all the same, or with nothing.  AssignmentMeaning says what     *)
(* plans and answers are compared with.                                    *)
(*                                                                         *)
(* An entity is one of spec.entities; its id may be that of another, in    *)
(* the same category until the validator has looked.  The clarification    *)
(* gate at the head of the validator is part of SolvePipeline; every       *)
(* category has entities.                                                  *)
(***************************************************************************)
EXTENDS Integers, FiniteSets, FiniteSetsExt, Sums

CONSTANTS Specs,    \* the specs to validate, build and solve
          Absent    \* a parameter or field that is not given

VARIABLES spec,     \* session.spec with the confirmed tables' rows
          pc,       \* the next step of run_solve, or "explained" or "failed"
          errors,   \* the kinds of the report's errors
          status,   \* SolveResult.status, "none" before
          plan,     \* the pairs in variable_values
          finished, \* history: CBC answered before its time was up
          shown     \* session.explanation, NotShown for None

vars == <<spec, pc, errors, status, plan, finished, shown>>

-----------------------------------------------------------------------------
(* Attributes: dict[str, str | float | int].                                *)

Number(n) == [kind |-> "number", n |-> n]
Quoted(n) == [kind |-> "quoted", n |-> n]      \* a string that float() reads
Word      == [kind |-> "word", n |-> 0]        \* any other string
Missing   == [kind |-> "missing", n |-> 0]

\* _to_float: None for what is missing and for words.
IsNumeric(v) == v.kind \in {"number", "quoted"}

Attr(s, e, f) ==
    IF f \in DOMAIN s.attributes[e] THEN s.attributes[e][f] ELSE Missing
AttrOr(s, e, f, default) ==
    IF Attr(s, e, f) = Missing THEN default ELSE Attr(s, e, f).n

Param(c, key) == IF key \in DOMAIN c.parameters THEN c.parameters[key] ELSE Absent
ParamOr(c, key, default) == IF Param(c, key) = Absent THEN default ELSE Param(c, key)

Categories(s) == DOMAIN s.members
Entities(s) == UNION {s.members[cat] : cat \in Categories(s)}

\* What relationship tables and the builders know a pair by.
Key(s, p) == <<s.id[p[1]], s.id[p[2]]>>

\* What the parser and the column mapper hand on: finitely many entities, each of
\* one category, numbers where the schema asks for numbers, and with every id the
\* last entity in spec.entities that has it.
Values == [kind : {"number", "quoted"}, n : Int] \cup {Word, Missing}
ASSUME SpecsAssumption ==
    /\ Absent \notin Int
    /\ \A s \in Specs :
          /\ IsFiniteSet(Categories(s)) /\ Absent \notin Categories(s)
          /\ Cardinality(Categories(s)) >= 2 =>
                {s.order[1], s.order[2]} \subseteq Categories(s) /\ s.order[1] # s.order[2]
          /\ \A k \in Categories(s) :
                /\ IsFiniteSet(s.members[k])
                /\ \A l \in Categories(s) \ {k} : s.members[k] \cap s.members[l] = {}
          /\ \A e \in Entities(s) :
                /\ Absent \notin DOMAIN s.attributes[e]
                /\ \A f \in DOMAIN s.attributes[e] : s.attributes[e][f] \in Values \ {Missing}
                /\ s.last[s.id[e]] \in Entities(s) /\ s.id[s.last[s.id[e]]] = s.id[e]
          /\ \A p \in DOMAIN s.wide : s.wide[p] \in Values
          /\ \A p \in DOMAIN s.table : s.table[p] \in Int
          /\ s.globalLimit \in Int /\ Absent \notin s.constraints
          /\ \A c \in s.constraints :
                /\ \A key \in DOMAIN c.parameters : c.parameters[key] # Absent
                /\ {Param(c, key) : key \in {"limit", "count", "min", "max"}}
                      \subseteq Int \cup {Absent}

-----------------------------------------------------------------------------
(* The validator.                                                           *)

\* _check_duplicate_ids: within a category.
Duplicates(s) == \E cat \in Categories(s) :
                    \E d, e \in s.members[cat] : d # e /\ s.id[d] = s.id[e]

\* _check_objective_field: numeric somewhere and a word nowhere; a task with
\* wide columns (field_agent) counts as numeric.
HasWide(s, e) == \E p \in DOMAIN s.wide : p[2] = e
BadObjective(s) ==
    /\ s.field # Absent
    /\ LET value(e) == Attr(s, e, s.field)
       IN  \/ \A e \in Entities(s) :
                 ~IsNumeric(value(e)) /\ ~(value(e) = Missing /\ HasWide(s, e))
           \/ \E e \in Entities(s) : value(e) = Word

UnknownIndex(s) == s.indexedBy # Absent /\ ~(s.indexedBy[1] \in Categories(s)
                                               /\ s.indexedBy[2] \in Categories(s))

UnknownCategory(s, c) ==
    \E key \in {"entity_category", "demand_category"} :
        Param(c, key) \notin Categories(s) \cup {Absent}

\* _check_constraint_refs: a field is looked up on the category it is paired
\* with, the duration on the category of the budgets.
BadField(s, c) ==
    \E pair \in {<<"resource_field", "entity_category">>,
                 <<"demand_field", "demand_category">>,
                 <<"duration_field", "entity_category">>} :
        LET f == Param(c, pair[1])
            cat == Param(c, pair[2])
        IN  /\ f # Absent /\ cat # Absent
            /\ \/ \A e \in s.members[cat] : Attr(s, e, f) = Missing
               \/ \E e \in s.members[cat] : Attr(s, e, f) = Word

\* A capacity constraint that says which fields of which entities it is about.
FullyNamed(c) ==
    /\ c.type = "capacity"
    /\ {"entity_category", "resource_field", "demand_category", "demand_field"}
          \subseteq DOMAIN c.parameters

\* Mutant: an item is too large when some resource cannot hold it.
MutCannotFit(s, c) ==
    /\ FullyNamed(c)
    /\ \E e \in s.members[c.parameters["demand_category"]] :
         \E h \in s.members[c.parameters["entity_category"]] :
             Attr(s, e, c.parameters["demand_field"]).n > Attr(s, h, c.parameters["resource_field"]).n

\* _check_capacity, where all four parameters are given: total and single
\* demands against the capacities, negative capacities counting as 0.
CannotFit(s, c) ==
    /\ FullyNamed(c)
    /\ LET f == c.parameters["resource_field"]
           g == c.parameters["demand_field"]
           holders == {e \in s.members[c.parameters["entity_category"]] :
                         IsNumeric(Attr(s, e, f))}
           items == {e \in s.members[c.parameters["demand_category"]] :
                       IsNumeric(Attr(s, e, g))}
           cap == [e \in holders |-> Max({0, Attr(s, e, f).n})]
           dem == [e \in items |-> Attr(s, e, g).n]
       IN  /\ holders # {} /\ items # {}
           /\ \/ Total(dem, items) > Total(cap, holders)
              \/ \E e \in items : \A h \in holders : dem[e] > cap[h]

\* _check_one_per_entity_coverage: the tasks are taken to be the first other
\* category in the order of a set of strings, which is any order.
NotEnough(s, c, hashed) ==
    LET cat == Param(c, "entity_category")
        other == IF hashed[1] = cat THEN hashed[2] ELSE hashed[1]
    IN  /\ c.type = "one_per_entity" /\ ParamOr(c, "sense", "<=") \in {"<=", "=="}
        /\ cat \in Categories(s) /\ other # cat
        /\ Cardinality(s.members[other]) >
             Cardinality(s.members[cat]) * ParamOr(c, "count", ParamOr(c, "limit", 1))

Report(s, hashed) ==
    LET known == {c \in s.constraints : ~UnknownCategory(s, c)}
        kinds == [duplicate |-> Duplicates(s),
                  objective |-> BadObjective(s),
                  index     |-> UnknownIndex(s),
                  category  |-> known # s.constraints,
                  field     |-> \E c \in known : BadField(s, c),
                  capacity  |-> \E c \in known : CannotFit(s, c),
                  count     |-> \E c \in known : NotEnough(s, c, hashed)]
    IN  {k \in DOMAIN kinds : kinds[k]}

-----------------------------------------------------------------------------
(* The model.                                                               *)

\* split_categories: the categories of the agents and of the tasks.
Split(s) ==
    LET targeted == {c \in s.constraints :
                       /\ c.type = "one_per_entity"
                       /\ Param(c, "entity_category") \in Categories(s)}
        agent == Param(CHOOSE c \in targeted : TRUE, "entity_category")
    IN  IF s.roles # Absent
           /\ s.roles[1] \in Categories(s) /\ s.roles[2] \in Categories(s)
        THEN s.roles
        ELSE IF s.indexedBy # Absent THEN s.indexedBy
        ELSE IF targeted # {}
             THEN <<agent, IF s.order[1] = agent THEN s.order[2] ELSE s.order[1]>>
        ELSE <<s.order[1], s.order[2]>>

Agents(s) == s.members[Split(s)[1]]
Tasks(s) == s.members[Split(s)[2]]
Pairs(s) == Agents(s) \X Tasks(s)

\* The column of a task that is named for the agent's id.
Wide(s, p) ==
    LET column == <<s.id[p[1]], p[2]>>
    IN  IF column \in DOMAIN s.wide THEN s.wide[column] ELSE Missing

\* Mutant: the task's own cost comes before the column for the agent.
MutPairCoefficient(s, p, field, table) ==
    IF Key(s, p) \in DOMAIN table THEN table[Key(s, p)]
    ELSE IF field # Absent /\ Attr(s, p[2], field).kind = "number" THEN Attr(s, p[2], field).n
    ELSE 1

\* pair_coefficient: cost table, wide column on the task, field on the task,
\* field on the agent, 1; an attribute counts when it is a number, not a string.
PairCoefficient(s, p, field, table) ==
    LET sources == <<Wide(s, p), Attr(s, p[2], field), Attr(s, p[1], field)>>
        found == {i \in 1..3 : sources[i].kind = "number"}
    IN  IF Key(s, p) \in DOMAIN table THEN table[Key(s, p)]
        ELSE IF field = Absent \/ found = {} THEN 1 ELSE sources[Min(found)].n

\* A row: sum of coef[p] over the chosen pairs, compared with a bound.
Row(c, tag, coef, sense, bound) ==
    [label |-> <<c.name, tag>>, coef |-> coef, sense |-> sense, bound |-> bound]
OneWhere(s, S) == [p \in Pairs(s) |-> IF p \in S THEN 1 ELSE 0]
Of(s, k, e) == {p \in Pairs(s) : p[k] = e}

\* Mutant: "at most" is built as "exactly".
MutOnePerEntity(s, c) ==
    {Row(c, s.id[g], OneWhere(s, Of(s, 1, g)), "==", ParamOr(c, "count", 1)) : g \in Agents(s)}

\* build_one_per_entity_assignment: any other category than the agents' means
\* the tasks.
OnePerEntity(s, c) ==
    LET forAgents == ParamOr(c, "entity_category", Split(s)[1]) = Split(s)[1]
        asked == ParamOr(c, "sense", "<=")
        sense == IF asked \in {">=", "=="} THEN asked ELSE "<="
        n == ParamOr(c, "count", ParamOr(c, "limit", 1))
    IN  {Row(c, s.id[g], OneWhere(s, Of(s, IF forAgents THEN 1 ELSE 2, g)), sense, n) :
            g \in IF forAgents THEN Agents(s) ELSE Tasks(s)}

\* Mutant: the count only bounds from below.
MutDemandCoverage(s, c) ==
    {Row(c, s.id[t], OneWhere(s, Of(s, 2, t)), ">=", ParamOr(c, "count", 1)) :
        t \in Tasks(s)}

DemandCoverage(s, c) ==
    {Row(c, s.id[t], OneWhere(s, Of(s, 2, t)),
         IF Param(c, "sense") = ">=" THEN ">=" ELSE "==", ParamOr(c, "count", 1)) :
        t \in Tasks(s)}

Load(s, c, demand, bound) ==
    {Row(c, s.id[a], [p \in Pairs(s) |-> IF p[1] = a THEN AttrOr(s, p[2], demand, 0) ELSE 0],
         "<=", bound[a]) : a \in Agents(s)}

\* Mutant: an absent capacity does not limit the agent.
MutCapacity(s, c) ==
    LET f == ParamOr(c, "resource_field", "capacity")
    IN  Load(s, c, ParamOr(c, "demand_field", "demand"),
             [a \in Agents(s) |-> AttrOr(s, a, f, ParamOr(c, "limit", 99))])

\* build_capacity_assignment: the fields of the parameters, whatever the
\* categories they name.
Capacity(s, c) ==
    LET f == ParamOr(c, "resource_field", "capacity")
    IN  Load(s, c, ParamOr(c, "demand_field", "demand"),
             [a \in Agents(s) |-> AttrOr(s, a, f, ParamOr(c, "limit", 0))])

TimeBudget(s, c) ==
    LET f == Param(c, "resource_field")
        scalar == ParamOr(c, "limit", 0)
        duration == ParamOr(c, "duration_field", ParamOr(c, "demand_field", "duration"))
    IN  Load(s, c, duration,
             [a \in Agents(s) |-> IF f = Absent THEN scalar ELSE AttrOr(s, a, f, scalar)])

\* build_compatibility_assignment: pairs outside the relationship table, and
\* tasks with a requirement none of the agent's skills meets.
Compatibility(s, c) ==
    {Row(c, Key(s, p), OneWhere(s, {p}), "==", 0) :
        p \in {p \in Pairs(s) :
                 \/ s.allowed # {} /\ Key(s, p) \notin s.allowed
                 \/ s.needs[p[2]] # Absent /\ s.skills[p[1]] \cap s.needs[p[2]] = {}}}

\* build_budget_limit: a limit of 0 counts as none and gives way to the global.
BudgetLimit(s, c) ==
    LET field == ParamOr(c, "demand_field", Param(c, "resource_field"))
        limit == IF ParamOr(c, "limit", 0) = 0 THEN s.globalLimit ELSE Param(c, "limit")
    IN  {Row(c, "total", [p \in Pairs(s) |-> PairCoefficient(s, p, field, <<>>)],
             "<=", limit)}

\* CONSTRAINT_BUILDERS for the two families.
Supported(s, c) ==
    c.type \in {"one_per_entity", "demand_coverage", "capacity", "time_budget",
                "compatibility"}
               \cup (IF s.problem = "allocation" THEN {"budget_limit"} ELSE {})

Rows(s, c) ==
    CASE c.type = "one_per_entity"  -> OnePerEntity(s, c)
      [] c.type = "demand_coverage" -> DemandCoverage(s, c)
      [] c.type = "capacity"        -> Capacity(s, c)
      [] c.type = "time_budget"     -> TimeBudget(s, c)
      [] c.type = "compatibility"   -> Compatibility(s, c)
      [] c.type = "budget_limit"    -> BudgetLimit(s, c)

Satisfies(x, row) ==
    LET sum == Total(row.coef, x)
    IN  CASE row.sense = "<=" -> sum <= row.bound
          [] row.sense = ">=" -> sum >= row.bound
          [] row.sense = "==" -> sum = row.bound

Admitted(s) ==
    LET rows == UNION {Rows(s, c) : c \in s.constraints}
    IN  {x \in SUBSET Pairs(s) : \A row \in rows : Satisfies(x, row)}

Objective(s, x) == Total([p \in x |-> PairCoefficient(s, p, s.field, s.table)], x)

\* _binding_constraint_names: the rows without slack.
Binding(s, x) ==
    {row.label : row \in {row \in UNION {Rows(s, c) : c \in s.constraints} :
                             Total(row.coef, x) = row.bound}}

BestOf(s, admitted) ==
    LET values == {Objective(s, x) : x \in admitted}
        best == IF s.maximize THEN Max(values) ELSE Min(values)
    IN  {x \in admitted : Objective(s, x) = best}

\* The attributes a builder reads with float(): of the agents and of the tasks.
Reads(s, c) ==
    CASE c.type = "capacity" ->
           (Agents(s) \X {ParamOr(c, "resource_field", "capacity")})
             \cup (Tasks(s) \X {ParamOr(c, "demand_field", "demand")})
      [] c.type = "time_budget" ->
           (Agents(s) \X ({Param(c, "resource_field")} \ {Absent}))
             \cup (Tasks(s) \X {ParamOr(c, "duration_field",
                                        ParamOr(c, "demand_field", "duration"))})
      [] OTHER -> {}

\* An allocation over one category divides amounts: AllocationModel has these.
Continuous(s) == s.problem = "allocation" /\ Cardinality(Categories(s)) = 1

\* build_model raises for fewer than two categories, a constraint without a
\* builder, a word where a number is read, and a row label that is taken.
Buildable(s) ==
    /\ Cardinality(Categories(s)) >= 2
    /\ \A c \in s.constraints :
          Supported(s, c) /\ \A r \in Reads(s, c) : Attr(s, r[1], r[2]) # Word
    /\ \A c, d \in s.constraints :
          c # d => {r.label : r \in Rows(s, c)} \cap {r.label : r \in Rows(s, d)} = {}

-----------------------------------------------------------------------------
(* The explanation.                                                         *)

\* What the bar of agent a shows: the capacity constraint cap is the first of
\* the spec, Absent if there is none.  Demands are looked up by id among all
\* entities (entity_by_id), where the last with an id stands for the others.
Nothing == [tasks |-> {}, used |-> Absent, capacity |-> Absent]
ById(s, t) == s.last[s.id[t]]
\* Mutant: a task without a demand counts as one.
MutGroup(s, x, cap, a) ==
    LET tasks == {t \in Tasks(s) : <<a, t>> \in x}
        f == ParamOr(cap, "resource_field", "capacity")
        g == ParamOr(cap, "demand_field", "demand")
    IN  IF cap = Absent \/ Attr(s, a, f) = Missing THEN [Nothing EXCEPT !.tasks = tasks]
        ELSE [tasks |-> tasks, capacity |-> Attr(s, a, f).n,
              used |-> Total([t \in tasks |-> AttrOr(s, ById(s, t), g, 1)], tasks)]
Group(s, x, cap, a) ==
    LET tasks == {t \in Tasks(s) : <<a, t>> \in x}
        f == ParamOr(cap, "resource_field", "capacity")
        g == ParamOr(cap, "demand_field", "demand")
    IN  IF cap = Absent \/ Attr(s, a, f) = Missing THEN [Nothing EXCEPT !.tasks = tasks]
        ELSE [tasks |-> tasks, capacity |-> Attr(s, a, f).n,
              used |-> Total([t \in tasks |-> AttrOr(s, ById(s, t), g, 0)], tasks)]

\* float() of a word raises, and the explanation is unavailable.
GroupRaises(s, x, cap, a) ==
    /\ cap # Absent
    /\ Attr(s, a, ParamOr(cap, "resource_field", "capacity")) # Missing
    /\ \/ Attr(s, a, ParamOr(cap, "resource_field", "capacity")) = Word
       \/ \E p \in x :
             p[1] = a /\ Attr(s, ById(s, p[2]), ParamOr(cap, "demand_field", "demand")) = Word

\* No explanation: before, and when explain raises.
NotShown == [given |-> FALSE, groups |-> <<>>, unassigned |-> {}, by |-> Absent, binding |-> {}]

-----------------------------------------------------------------------------
\* The variables and their types; spec never changes.
TypeOK ==
    /\ pc \in {"validate", "build", "solve", "allocate", "solved", "explained", "failed"}
    /\ errors \subseteq {"duplicate", "objective", "index", "category", "field",
                          "capacity", "count"}
    /\ status \in {"none", "optimal", "infeasible", "unbounded", "error"}
    /\ Continuous(spec) \/ plan \subseteq Entities(spec) \X Entities(spec)
    /\ finished \in BOOLEAN
    /\ shown.given \in BOOLEAN /\ shown.by \in spec.constraints \cup {Absent}
    /\ DOMAIN shown.groups \subseteq Entities(spec)
    /\ shown.unassigned \subseteq Entities(spec)

Init == /\ spec \in Specs
        /\ pc = "validate" /\ errors = {} /\ status = "none" /\ plan = {}
        /\ finished = FALSE /\ shown = NotShown

\* validate_spec: the first failing check does not hide the others.
Validate ==
    /\ pc = "validate"
    /\ \E hashed \in Categories(spec) \X Categories(spec) :
          /\ hashed[1] = hashed[2] => Categories(spec) = {hashed[1]}
          /\ errors' = Report(spec, hashed)
    /\ pc' = IF errors' = {} THEN "build" ELSE "failed"
    /\ UNCHANGED <<spec, status, plan, finished, shown>>

Build == /\ pc = "build" /\ ~Continuous(spec) /\ Buildable(spec)
         /\ pc' = "solve"
         /\ UNCHANGED <<spec, errors, status, plan, finished, shown>>

BuildFails == /\ pc = "build" /\ ~Continuous(spec) /\ ~Buildable(spec)
              /\ pc' = "failed"
              /\ UNCHANGED <<spec, errors, status, plan, finished, shown>>

\* solve_pulp
Answer(outcome, x, inTime) == /\ pc = "solve"
                              /\ status' = outcome /\ plan' = x /\ finished' = inTime
                              /\ pc' = "solved"
                              /\ UNCHANGED <<spec, errors, shown>>

SolveOptimal ==
    pc = "solve" /\ \E x \in BestOf(spec, Admitted(spec)) : Answer("optimal", x, TRUE)

\* Stopped at timeLimit with some plan: only sol_status, which is not read, tells it
\* from a best one.
SolveIncumbent ==
    pc = "solve" /\ \E x \in Admitted(spec) : Answer("optimal", x, FALSE)

\* Mutant: a problem without a solution is handed on under a status of its own.
MutSolveInfeasible == Answer("unsolved", {}, TRUE)

SolveInfeasible == pc = "solve" /\ Admitted(spec) = {} /\ Answer("infeasible", {}, TRUE)
SolveGivesUp == Answer("error", {}, FALSE)

\* explain: an infeasible result names all constraints as binding and shows no
\* groups, an error shows nothing; a failure leaves no explanation.
Explain ==
    /\ pc = "solved" /\ ~Continuous(spec) /\ pc' = "explained"
    /\ LET caps == {c \in spec.constraints : c.type = "capacity"}
           assigned == {p[2] : p \in plan}
       IN  \E cap \in IF caps = {} THEN {Absent} ELSE caps :
              shown' =
                IF status # "optimal"
                THEN [NotShown EXCEPT !.given = TRUE, !.binding =
                        IF status = "infeasible" THEN {c.name : c \in spec.constraints} ELSE {}]
                ELSE IF \E a \in Agents(spec) : GroupRaises(spec, plan, cap, a) THEN NotShown
                ELSE [given |-> TRUE, by |-> cap,
                      groups |-> [a \in Agents(spec) |-> Group(spec, plan, cap, a)],
                      unassigned |-> Tasks(spec) \ assigned,
                      binding |-> Binding(spec, plan)]
    /\ UNCHANGED <<spec, errors, status, plan, finished>>

Next == \/ Validate \/ Build \/ BuildFails
        \/ SolveOptimal \/ SolveIncumbent \/ SolveInfeasible \/ SolveGivesUp
        \/ Explain

Spec == Init /\ [][Next]_vars

=============================================================================
