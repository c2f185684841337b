------------------------- MODULE MCAssignmentModel -------------------------
(***************************************************************************)
(* AssignmentModel on vans and packages: combinations of constraints,      *)
(* ways of telling agents from tasks, and values of the attributes; and    *)
(* AllocationModel on two departments.                                     *)
(***************************************************************************)
EXTENDS AllocationModel

CONSTANT absent

Two == [van |-> {"v1", "v2"}, package |-> {"p1", "p2"}]
Three == [van |-> {"v1", "v2"}, package |-> {"p1", "p2"}, depot |-> {"d1"}]
Ids == {"v1", "v2", "p1", "p2", "d1"}

Coverage(sense) == [type |-> "demand_coverage", name |-> "cover",
                    parameters |-> [sense |-> sense]]
FullCapacity == [type |-> "capacity", name |-> "cap",
                 parameters |-> [entity_category |-> "van", resource_field |-> "capacity",
                                 demand_category |-> "package", demand_field |-> "demand"]]
AnyCapacity == [type |-> "capacity", name |-> "cap", parameters |-> [limit |-> 2]]
Each(cat, sense, n) == [type |-> "one_per_entity", name |-> "each",
                        parameters |-> [entity_category |-> cat, sense |-> sense, count |-> n]]
Hours(name) == [type |-> "time_budget", name |-> name,
                parameters |-> [duration_field |-> "demand", limit |-> 2]]
Skills == [type |-> "compatibility", name |-> "skills", parameters |-> <<>>]
Budget(n) == [type |-> "budget_limit", name |-> "budget",
              parameters |-> [limit |-> n, demand_field |-> "cost"]]
GlobalBudget == [type |-> "budget_limit", name |-> "budget",
                 parameters |-> [resource_field |-> "cost"]]

Plain(members) ==
    [problem |-> "assignment", members |-> members, order |-> <<"van", "package">>,
     roles |-> absent, indexedBy |-> absent, id |-> [e \in Ids |-> e], last |-> [e \in Ids |-> e],
     attributes |-> [e \in Ids |-> <<>>], wide |-> <<>>, table |-> <<>>,
     skills |-> [e \in Ids |-> {}], needs |-> [e \in Ids |-> absent], allowed |-> {},
     field |-> absent, maximize |-> FALSE, globalLimit |-> 0, constraints |-> {}]

\* The fields that are given.
Given(r) == [f \in {f \in DOMAIN r : r[f] # Missing} |-> r[f]]

Loads(c1, c2, d1, d2) ==
    [e \in Ids |-> CASE e = "v1" -> [capacity |-> c1]
                     [] e = "v2" -> Given([capacity |-> c2])
                     [] e = "p1" -> [demand |-> d1, cost |-> Number(3)]
                     [] e = "p2" -> Given([demand |-> d2, cost |-> Number(1)])
                     [] OTHER -> <<>>]

\* Capacities, demands, coverage and counts, with the vans as agents.
LoadSpecs ==
    {[Plain(Two) EXCEPT !.attributes = Loads(c1, c2, d1, d2), !.constraints = cs \cup k \cup n,
                        !.field = "cost", !.maximize = best] :
        c1 \in {Number(1), Quoted(2)}, c2 \in {Missing, Number(1), Number(-1)},
        d1 \in {Number(1), Number(2)}, d2 \in {Missing, Number(1), Word},
        cs \in {{}, {Coverage("==")}, {Coverage(">=")}},
        k \in {{FullCapacity}, {AnyCapacity}},
        n \in {{}, {Each("van", "<=", 1)}, {Each("van", "==", 0)}, {Each("package", ">=", 2)}},
        best \in BOOLEAN}

\* Which category is the agents', cost sources, skills and the other constraints.
RoleSpecs ==
    {[Plain(m) EXCEPT !.roles = r, !.indexedBy = i, !.order = o, !.problem = problem,
        !.attributes = Loads(Number(1), Number(2), Number(1), Number(2)),
        !.constraints = {Coverage("==")} \cup cs, !.maximize = best,
        !.field = "cost", !.wide = w, !.table = tab, !.globalLimit = 3,
        !.skills = [@ EXCEPT !["v1"] = {"lift"}],
        !.needs = [@ EXCEPT !["p1"] = need], !.allowed = pairs] :
        m \in {Two, Three}, r \in {absent, <<"van", "package">>},
        i \in {absent, <<"van", "package">>, <<"package", "van">>},
        o \in {<<"van", "package">>, <<"package", "van">>},
        problem \in {"assignment", "allocation"}, best \in {FALSE, TRUE},
        w \in {<<>>, [p \in {<<"v1", "p1">>} |-> Number(5)]},
        tab \in {<<>>, [p \in {<<"v2", "p2">>} |-> 4]},
        <<cs, need, pairs>> \in
            {<<{FullCapacity}, absent, {}>>,
             <<{Each("van", "<=", 1)}, absent, {}>>,
             <<{Skills}, {"lift"}, {}>>, <<{Skills}, {"lift"}, {<<"v1", "p1">>}>>,
             <<{Budget(4)}, absent, {}>>, <<{GlobalBudget}, absent, {}>>,
             <<{Hours("hours")}, absent, {}>>, <<{Hours("cap"), FullCapacity}, absent, {}>>,
             <<{Each("truck", "<=", 1)}, absent, {}>>}}

\* Ids that a category has twice, or two categories have: the second package is called
\* like the first, or the first like a van, before or after it in the entities.
SharedSpecs ==
    {[Plain(Two) EXCEPT
        !.attributes = [Loads(Number(2), Number(1), Number(1), Number(2)) EXCEPT
                          !["v1"] = Given([capacity |-> Number(2), demand |-> other])],
        !.id = [@ EXCEPT ![name[1]] = name[2]], !.last = [@ EXCEPT ![name[2]] = last],
        !.constraints = {FullCapacity} \cup cs, !.field = "cost",
        !.wide = w, !.table = tab] :
        <<name, last>> \in {<<<<"p2", "p1">>, "p2">>, <<<<"v2", "v1">>, "v1">>,
                           <<<<"p1", "v1">>, "v1">>, <<<<"p1", "v1">>, "p1">>},
        other \in {Missing, Number(2), Word},
        cs \in {{}, {Coverage("==")}, {[Coverage(">=") EXCEPT !.name = "cap"]}},
        w \in {<<>>, [p \in {<<"v1", "p1">>} |-> Number(5)]},
        tab \in {<<>>, [p \in {<<"v2", "v1">>} |-> 4]}}

\* Amounts for two departments.
Bound(type, parameters) == [type |-> type, name |-> type, parameters |-> parameters]
AmountSpecs ==
    {[Plain([department |-> {"v1", "v2"}]) EXCEPT
        !.problem = "allocation", !.field = "roi", !.maximize = best, !.globalLimit = 3,
        !.attributes = [e \in Ids |-> CASE e = "v1" -> Given([roi |-> v1, cap |-> c1])
                                        [] e = "v2" -> [cap |-> c2, min |-> Number(1)]
                                        [] OTHER -> <<>>],
        !.constraints = budget \cup low \cup high] :
        best \in BOOLEAN, v1 \in {Number(2), Number(0), Number(-1), Quoted(3)},
        c1 \in {Number(1), Quoted(2), Missing, Word}, c2 \in {Number(2), Number(0)},
        budget \in {{}, {Bound("budget_limit", [limit |-> 2])},
                    {Bound("budget_limit", [resource_field |-> "spend"])}},
        low \in {{}, {Bound("min_allocation", [limit |-> 1])},
                 {Bound("min_allocation", [resource_field |-> "min"])},
                 {Bound("demand_coverage", [min |-> 3, resource_field |-> "cap"]), Bound("compatibility", <<>>)}},
        high \in {{}, {Bound("max_allocation", [resource_field |-> "cap"])},
                  {Bound("capacity", [max |-> 2]),
                   [Bound("time_budget", [limit |-> 1]) EXCEPT !.name = "capacity"]},
                  {Bound("time_budget", [resource_field |-> "cap", limit |-> 1])},
                  {Bound("one_per_entity", <<>>)}, {Bound("no_overlap", <<>>)}}}

ModelSpecs == LoadSpecs \cup RoleSpecs \cup SharedSpecs \cup AmountSpecs

=============================================================================
