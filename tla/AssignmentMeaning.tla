-------------------------- MODULE AssignmentMeaning --------------------------
(***************************************************************************)
(* What the constraints of the assignment family are documented to mean    *)
(* for the entities they name, on plans instead of rows, and the           *)
(* properties that compare AssignmentModel's answers with it.              *)
(***************************************************************************)
EXTENDS AssignmentModel

Partners(x, e) == {p[2] : p \in {q \in x : q[1] = e}} \cup {p[1] : p \in {q \in x : q[2] = e}}

\* The category a constraint is about: the one it names, or the agents.
Subject(s, c) == ParamOr(c, "entity_category", Split(s)[1])

Compare(n, sense, m) == CASE sense = ">=" -> n >= m [] sense = "==" -> n = m [] OTHER -> n <= m

\* What the tasks of e demand of it, and what e has to offer.
Demanded(s, x, e, f) ==
    Total([i \in Partners(x, e) |-> AttrOr(s, i, f, 0)], Partners(x, e))
Offered(s, c, e, f) == IF f = Absent THEN ParamOr(c, "limit", 0)
                       ELSE AttrOr(s, e, f, ParamOr(c, "limit", 0))

\* What a resource takes: its number, a negative one standing for 0 (validator.py:
\* "has negative capacity. Treating as 0"), or else the limit.
Ceiling(s, e, f, limit) == IF Attr(s, e, f) = Missing THEN limit ELSE Max({0, Attr(s, e, f).n})

\* docs/modeling_scope.md: "each worker/van does at most (or exactly) N tasks",
\* "each task/shift/package must be covered by exactly one agent", "resource/
\* worker capacity ceiling", "max hours per entity", "x = 0 when agent and task
\* fields don't match", "total spend must not exceed a budget ceiling".
Means(s, c, x) ==
    CASE c.type = "one_per_entity" ->
           \A e \in s.members[Subject(s, c)] :
               Compare(Cardinality(Partners(x, e)), ParamOr(c, "sense", "<="),
                       ParamOr(c, "count", ParamOr(c, "limit", 1)))
      [] c.type = "demand_coverage" ->
           \A t \in Tasks(s) :
               IF Param(c, "sense") = ">="
               THEN Cardinality(Partners(x, t)) >= ParamOr(c, "count", 1)
               ELSE Cardinality(Partners(x, t)) = ParamOr(c, "count", 1)
      [] c.type = "capacity" ->
           \A e \in s.members[Subject(s, c)] :
               Demanded(s, x, e, ParamOr(c, "demand_field", "demand"))
                 <= Ceiling(s, e, ParamOr(c, "resource_field", "capacity"), ParamOr(c, "limit", 0))
      [] c.type = "time_budget" ->
           \A e \in s.members[Subject(s, c)] :
               Demanded(s, x, e, ParamOr(c, "duration_field",
                                         ParamOr(c, "demand_field", "duration")))
                 <= Offered(s, c, e, Param(c, "resource_field"))
      [] c.type = "compatibility" ->
           \A p \in x : /\ s.allowed # {} => Key(s, p) \in s.allowed
                        /\ s.needs[p[2]] # Absent => s.skills[p[1]] \cap s.needs[p[2]] # {}
      [] c.type = "budget_limit" ->
           LET field == ParamOr(c, "demand_field", Param(c, "resource_field"))
           IN  Total([p \in x |-> PairCoefficient(s, p, field, <<>>)], x)
                 <= ParamOr(c, "limit", s.globalLimit)

Keeps(s, x) == \A c \in s.constraints : Means(s, c, x)

-----------------------------------------------------------------------------
\* There are pairs, and the constraints that name categories name those that the
\* split makes agents and tasks.
RolesAgree(s) ==
    /\ ~Continuous(s) /\ Split(s)[1] # Split(s)[2]
    /\ \A c \in s.constraints :
        /\ c.type = "one_per_entity" => Subject(s, c) \in {Split(s)[1], Split(s)[2]}
        /\ c.type \in {"capacity", "time_budget"} =>
              /\ Subject(s, c) = Split(s)[1]
              /\ ParamOr(c, "demand_category", Split(s)[2]) = Split(s)[2]

\* Where the builders are known to go their own way: a budget of 0 gives way to
\* the global one, a cost written as a string is passed over, and a negative
\* capacity, which not even an empty load keeps, is not taken for 0.
BudgetsCount(s) == \A c \in s.constraints : c.type = "budget_limit" => Param(c, "limit") # 0
CostsCount(s) ==
    \A p \in Pairs(s) :
        \A cost \in {Wide(s, p), Attr(s, p[2], s.field), Attr(s, p[1], s.field)} :
            cost.kind # "quoted"
CapacitiesCount(s) ==
    \A c \in s.constraints : c.type = "capacity" =>
        \A e \in s.members[Subject(s, c)] : Attr(s, e, ParamOr(c, "resource_field", "capacity")).n >= 0

\* Where the explainer is known to: a task is looked up under its id alone, which an
\* entity of another category may share.
IdsAreApart(s) == \A t \in Tasks(s) : \A e \in Entities(s) : s.id[e] = s.id[t] => e = t

\* Every task has to be done, demands are not negative and what a constraint
\* counts on is in the fields it names.
Complete(s) ==
    /\ RolesAgree(s) /\ Cardinality(Categories(s)) = 2
    /\ \E c \in s.constraints : c.type = "demand_coverage" /\ ParamOr(c, "count", 1) > 0
    /\ \A c \in s.constraints :
          /\ c.type = "one_per_entity" => Subject(s, c) = Split(s)[1]
          /\ c.type = "capacity" =>
                /\ Param(c, "limit") = Absent
                /\ \A t \in Tasks(s) : AttrOr(s, t, ParamOr(c, "demand_field", "demand"), 0) >= 0

\* The reference for costs: a number counts, also one written as a string.
Cost(s, p) ==
    LET task == Attr(s, p[2], s.field)
        agent == Attr(s, p[1], s.field)
    IN  IF Key(s, p) \in DOMAIN s.table THEN s.table[Key(s, p)]
        ELSE IF s.field = Absent THEN 1
        ELSE IF IsNumeric(Wide(s, p)) THEN Wide(s, p).n
        ELSE IF IsNumeric(task) THEN task.n
        ELSE IF IsNumeric(agent) THEN agent.n ELSE 1
TotalCost(s, x) == Total([p \in x |-> Cost(s, p)], x)
Better(s, x, y) == IF s.maximize THEN TotalCost(s, x) > TotalCost(s, y)
                                 ELSE TotalCost(s, x) < TotalCost(s, y)

-----------------------------------------------------------------------------
\* A plan keeps every constraint in the sense of the documentation, when the
\* constraints and the split agree about who is an agent: also one that CBC was
\* left with when its time was up.
PlansKeepConstraints ==
    status = "optimal" /\ RolesAgree(spec) /\ BudgetsCount(spec) => Keeps(spec, plan)

\* No plan that keeps the constraints has a better total than one CBC found optimal
\* in time, with the costs resolved in the documented order: the coefficients and
\* the rows leave out no better plan.
PlansAreBest ==
    /\ status = "optimal" /\ finished /\ RolesAgree(spec)
    /\ BudgetsCount(spec) /\ CostsCount(spec) /\ CapacitiesCount(spec)
    => \A x \in SUBSET Pairs(spec) : Better(spec, x, plan) => ~Keeps(spec, x)

\* A model without a solution stands for constraints that cannot be kept.
InfeasibleMeansNoPlan ==
    status = "infeasible" /\ RolesAgree(spec) /\ BudgetsCount(spec) /\ CapacitiesCount(spec) =>
        \A x \in SUBSET Pairs(spec) : ~Keeps(spec, x)

\* "Infeasible before solving", "not enough agents": right when every task has
\* to be done.
RejectionsAreSound ==
    errors # {} /\ errors \subseteq {"capacity", "count"} /\ Complete(spec)
        => \A x \in SUBSET Pairs(spec) : ~Keeps(spec, x)

\* The explanation of a plan reads ids and attributes again and agrees with the rows:
\* the groups are the plan, whatever ids the categories share, and nothing that must
\* be covered is left unassigned.  When no task shares its id there always is one, no
\* agent is shown above its capacity, and it is shown at its capacity exactly when
\* that row is listed as binding.
ExplanationsMatchTheModel ==
    pc = "explained" /\ status = "optimal" /\ ~Continuous(spec) =>
        /\ shown.given =>
              /\ plan = {p \in Pairs(spec) : p[2] \in shown.groups[p[1]].tasks}
              /\ shown.unassigned # {} =>
                    \A c \in spec.constraints :
                        c.type = "demand_coverage" => ParamOr(c, "count", 1) <= 0
        /\ IdsAreApart(spec) =>
              /\ shown.given
              /\ \A a \in Agents(spec) :
                    LET g == shown.groups[a]
                    IN  g.capacity # Absent =>
                          /\ g.used <= g.capacity
                          /\ g.used = g.capacity
                                <=> <<shown.by.name, spec.id[a]>> \in shown.binding

\* "sum(task demand assigned to agent) <= agent capacity" (assignment_model.py):
\* not when the decision variable names the tasks first, because the builder reads
\* the capacities from whatever the split calls agents.
CapacitiesHold ==
    status = "optimal" => \A c \in spec.constraints :
                              c.type = "capacity" => Means(spec, c, plan)

=============================================================================
