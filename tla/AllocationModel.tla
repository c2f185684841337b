--------------------------- MODULE AllocationModel ---------------------------
(***************************************************************************)
(* The continuous mode of the allocation family (modeling/                 *)
(* allocation_model.py): an amount for each entity of the one category.    *)
(* AssignmentModel has the validator before it and the dispatch mode.      *)
(*                                                                         *)
(* Every row bounds one amount or the sum of all, so whole amounts stand   *)
(* for all those of the linear program when the bounds are whole           *)
(* (AmountsAreOptima in AssignmentModelProofs).                            *)
(***************************************************************************)
EXTENDS AssignmentMeaning

CONSTANT Most    \* bound: the amounts looked at, beyond every bound of the specs

ASSUME MostAssumption == Most \in Nat

Amounts(s) == [Entities(s) -> 0 .. Most]
Sum(x) == Total(x, DOMAIN x)

\* Bounds on the sum of the amounts of some entities.
AmountRow(c, tag, who, sense, bound) ==
    [label |-> <<c.name, tag>>, who |-> who, sense |-> sense, bound |-> bound]

\* Mutant: an entity without the field is not bounded.
MutPerEntity(s, c, sense) ==
    LET f == Param(c, "resource_field")
    IN  {AmountRow(c, s.id[e], {e}, sense,
                   IF f = Absent THEN ParamOr(c, "limit", 0) ELSE AttrOr(s, e, f, Most)) :
            e \in Entities(s)}

\* _per_entity_bound: the first of limit, min and max, whichever bound it is;
\* an entity's own field comes before it.
PerEntity(s, c, sense) ==
    LET f == Param(c, "resource_field")
        scalar == ParamOr(c, "limit", ParamOr(c, "min", ParamOr(c, "max", 0)))
    IN  {AmountRow(c, s.id[e], {e}, sense,
                   IF f = Absent THEN scalar ELSE AttrOr(s, e, f, scalar)) :
            e \in Entities(s)}

TotalBudget(s, c) ==
    LET limit == IF ParamOr(c, "limit", 0) = 0 THEN s.globalLimit ELSE Param(c, "limit")
    IN  {AmountRow(c, "total", Entities(s), "<=", limit)}

DemandFloor(s, c) ==
    {AmountRow(c, "total", Entities(s), ">=", ParamOr(c, "limit", ParamOr(c, "min", 0)))}

\* The types that bound the sum of the amounts, or nothing, and those that bound each.
OnTotals == {"budget_limit", "demand_coverage", "compatibility"}
OnEach == {"min_allocation", "max_allocation", "capacity", "time_budget"}

AmountRows(s, c) ==
    CASE c.type = "budget_limit"    -> TotalBudget(s, c)
      [] c.type = "demand_coverage" -> DemandFloor(s, c)
      [] c.type = "min_allocation"  -> PerEntity(s, c, ">=")
      [] c.type \in {"max_allocation", "capacity", "time_budget"} -> PerEntity(s, c, "<=")
      [] c.type = "compatibility"   -> {}
AllRows(s) == UNION {AmountRows(s, c) : c \in s.constraints}

Fits(x, row) ==
    LET sum == Total(x, row.who)
    IN  IF row.sense = "<=" THEN sum <= row.bound ELSE sum >= row.bound
Feasible(s) == {x \in Amounts(s) : \A row \in AllRows(s) : Fits(x, row)}

\* Mutant: an entity without the objective's field is worth nothing.
MutWorth(s, e) == IF s.field = Absent THEN 1 ELSE AttrOr(s, e, s.field, 0)
Worth(s, e) == IF s.field = Absent THEN 1 ELSE AttrOr(s, e, s.field, 1)
Value(s, x) == Total([e \in DOMAIN x |-> Worth(s, e) * x[e]], DOMAIN x)

\* An amount that pays and that no row bounds from above.
Unlimited(s) ==
    \E e \in Entities(s) :
        /\ IF s.maximize THEN Worth(s, e) > 0 ELSE Worth(s, e) < 0
        /\ \A row \in AllRows(s) : e \in row.who => row.sense = ">="

\* one_per_entity raises in this mode and the types of the schedules have no builder;
\* so does a word where a number is read and a row label that is taken.
AmountsBuildable(s) ==
    /\ \A c \in s.constraints :
          /\ c.type \in OnTotals \cup OnEach
          /\ c.type \in OnEach /\ Param(c, "resource_field") # Absent =>
                \A e \in Entities(s) : Attr(s, e, Param(c, "resource_field")) # Word
    /\ \A c, d \in s.constraints :
          c # d => {r.label : r \in AmountRows(s, c)} \cap {r.label : r \in AmountRows(s, d)} = {}

\* Most is beyond every bound of the specs.
ASSUME BoundsAssumption ==
    \A s \in Specs : Continuous(s) /\ AmountsBuildable(s) =>
        \A row \in AllRows(s) : row.bound <= Most

-----------------------------------------------------------------------------
BuildAmounts == /\ pc = "build" /\ Continuous(spec)
                /\ pc' = IF AmountsBuildable(spec) THEN "allocate" ELSE "failed"
                /\ UNCHANGED <<spec, errors, status, plan, finished, shown>>

\* variable_values keeps the amounts that are not 0.
SolveAmounts ==
    /\ pc = "allocate" /\ pc' = "solved"
    /\ \/ /\ Feasible(spec) # {} /\ ~Unlimited(spec) /\ status' = "optimal"
          /\ LET values == {Value(spec, x) : x \in Feasible(spec)}
                 best == IF spec.maximize THEN Max(values) ELSE Min(values)
             IN  \E x \in Feasible(spec) :
                    /\ Value(spec, x) = best
                    /\ plan' = {<<e, x[e]>> : e \in {e \in DOMAIN x : x[e] # 0}}
       \/ Feasible(spec) # {} /\ Unlimited(spec) /\ status' = "unbounded" /\ plan' = {}
       \/ Feasible(spec) = {} /\ status' = "infeasible" /\ plan' = {}
       \/ status' = "error" /\ plan' = {}
    /\ finished' = (status' # "error")
    /\ UNCHANGED <<spec, errors, shown>>

Amount(e) == IF \E p \in plan : p[1] = e THEN (CHOOSE p \in plan : p[1] = e)[2] ELSE 0

\* build_groups has no pairs to show.
ExplainAmounts ==
    /\ pc = "solved" /\ Continuous(spec) /\ pc' = "explained"
    /\ shown' = [NotShown EXCEPT !.given = TRUE, !.binding =
                    CASE status = "infeasible" -> {c.name : c \in spec.constraints}
                      [] status = "optimal" ->
                           {row.label : row \in {row \in AllRows(spec) :
                                Total([e \in row.who |-> Amount(e)], row.who) = row.bound}}
                      [] OTHER -> {}]
    /\ UNCHANGED <<spec, errors, status, plan, finished>>

AllocationNext == Next \/ BuildAmounts \/ SolveAmounts \/ ExplainAmounts
AllocationSpec == Init /\ [][AllocationNext]_vars

\* The type invariant, with the amounts.
AllocationTypeOK ==
    /\ TypeOK
    /\ Continuous(spec) => plan \subseteq Entities(spec) \X (1 .. Most)

-----------------------------------------------------------------------------
(* What the constraints mean for amounts (docs/modeling_scope.md).          *)

MeansFor(s, c, x) ==
    LET own(e, key) == Offered(s, [c EXCEPT !.parameters =
                                     [k \in {"limit"} |-> ParamOr(c, "limit", ParamOr(c, key, 0))]],
                               e, Param(c, "resource_field"))
    IN  CASE c.type = "budget_limit" -> Sum(x) <= ParamOr(c, "limit", s.globalLimit)
          [] c.type = "demand_coverage" -> Sum(x) >= ParamOr(c, "limit", ParamOr(c, "min", 0))
          [] c.type = "min_allocation" -> \A e \in DOMAIN x : x[e] >= own(e, "min")
          [] c.type \in {"max_allocation", "capacity", "time_budget"} ->
                \A e \in DOMAIN x : x[e] <= own(e, "max")
          [] OTHER -> TRUE
KeepsAmounts(s, x) == \A c \in s.constraints : MeansFor(s, c, x)

\* What a unit for e brings: its number in the objective's field, 1 without one
\* (validator.py: "Their coefficient will default to 1.0").
Brings(s, e) == IF s.field \in DOMAIN s.attributes[e] THEN s.attributes[e][s.field].n ELSE 1
Yield(s, x) == Total([e \in DOMAIN x |-> Brings(s, e) * x[e]], DOMAIN x)
YieldsMore(s, x, y) == IF s.maximize THEN Yield(s, x) > Yield(s, y) ELSE Yield(s, x) < Yield(s, y)

\* Where the builder is known to go its own way, besides BudgetsCount: a bound from
\* below takes the maximum when there is no minimum, one from above the minimum first,
\* and a negative capacity is not taken for 0.
BoundsCount(s) ==
    \A c \in s.constraints :
        /\ c.type = "min_allocation" => Param(c, "max") = Absent
        /\ c.type \in {"max_allocation", "capacity", "time_budget"} => Param(c, "min") = Absent
        /\ c.type = "capacity" => \A e \in Entities(s) : Attr(s, e, Param(c, "resource_field")).n >= 0

\* The amounts of an optimal answer keep every constraint in the documented
\* sense, for all entities at once.
AmountsKeepConstraints ==
    Continuous(spec) /\ status = "optimal" /\ BudgetsCount(spec) /\ BoundsCount(spec) =>
        KeepsAmounts(spec, [e \in Entities(spec) |-> Amount(e)])

\* No amounts that keep the constraints bring more than an optimal answer,
\* there are none behind an infeasible one, and behind an unbounded one any can
\* be bettered.
AmountsAreBest ==
    Continuous(spec) /\ pc = "solved" /\ BudgetsCount(spec) /\ BoundsCount(spec) =>
        LET kept(n) == {x \in [Entities(spec) -> 0 .. n] : KeepsAmounts(spec, x)}
            answer == [e \in Entities(spec) |-> Amount(e)]
        IN  CASE status = "optimal" -> \A x \in kept(Most + 1) : ~YieldsMore(spec, x, answer)
              [] status = "infeasible" -> kept(Most + 1) = {}
              [] status = "unbounded" ->
                   /\ kept(Most) # {}
                   /\ \A x \in kept(Most) : \E y \in kept(Most + 1) : YieldsMore(spec, y, x)
              [] OTHER -> TRUE

=============================================================================
