---------------------------- MODULE ScheduleModel ----------------------------
(***************************************************************************)
(* The scheduling family (modeling/scheduling_model.py): from a validated  *)
(* spec and the rows of its calendar tables to a CP-SAT model, and from    *)
(* the model to a schedule (solvers/solver_router.py).  CP-SAT itself is   *)
(* external: it answers with any schedule the model admits, with a best    *)
(* one when it claims an optimum, with INFEASIBLE only when there is none, *)
(* and with nothing when its time is up.                                   *)
(*                                                                         *)
(* What the model admits is compared with what the constraints are         *)
(* documented to mean, looked at one time unit after the other.            *)
(***************************************************************************)
EXTENDS Integers, FiniteSets, FiniteSetsExt, Sums

CONSTANTS Specs,    \* the specs to build models from
          Absent,   \* an attribute, column or parameter that is not given
          Text,     \* an attribute that is no number, such as a blank cell
          Latest    \* the reference looks at schedules that end by then

ASSUME LatestAssumption == Latest \in Nat
ASSUME MarkersAssumption == Absent # Text /\ Absent \notin Int /\ Text \notin Int

Limits == Int \cup {Absent}
Constraints ==
    [type : {"no_overlap"}, grouped : BOOLEAN]
    \cup [type : {"precedence"}, before : STRING, after : STRING]
    \cup [type : {"time_budget", "capacity"}, limit : Limits]
    \cup [type : {"demand_coverage"}]

VARIABLES spec,      \* the spec, with the calendar rows read for it
          pc,        \* "build", "solve", "solved" or "failed"
          horizon,   \* of the model
          status,    \* SolveResult.status, "none" before
          start      \* variable_values: start[task]; <<>> when there are none

vars == <<spec, pc, horizon, status, start>>

-----------------------------------------------------------------------------
(* The builder.                                                             *)

\* The ids of the entities to be placed in time, each of one entity.
Tasks(s) == DOMAIN s.duration

\* What an attribute of an entity may be; calendar_windows keeps numbers only.
Cells == Int \cup {Absent, Text}
ASSUME SpecsAssumption ==
    \A s \in Specs :
        /\ IsFiniteSet(Tasks(s)) /\ Tasks(s) # {}
        /\ {s.duration, s.release, s.deadline} \subseteq [Tasks(s) -> Cells]
        /\ {s.from, s.to} \subseteq [Tasks(s) -> Cells \ {Text}]

\* _duration: at least one time unit, also when the attribute is no number.
Duration(s, t) ==
    IF s.duration[t] \in {Absent, Text} THEN 1 ELSE Max({1, s.duration[t]})

\* Mutant: the longest task instead of all of them.
MutHorizon(s) ==
    LET longest == Max({Duration(s, t) : t \in Tasks(s)})
        deadlines == {s.deadline[t] : t \in Tasks(s)} \ {Absent}
    IN  Max({longest} \cup deadlines)

\* "at least sum-of-durations, but also cover any explicit deadlines"
Horizon(s) ==
    LET total == Total([t \in Tasks(s) |-> Duration(s, t)], Tasks(s))
        deadlines == {s.deadline[t] : t \in Tasks(s)} \ {Absent}
    IN  Max({total} \cup deadlines)

\* calendar_windows: a row with numbers in the start or the end column; the
\* bound whose column the table does not have is 0.
HasWindow(s, t) == s.from[t] # Absent \/ s.to[t] # Absent
OrZero(n) == IF n = Absent THEN 0 ELSE n

\* A window replaces the task's own release time and deadline; 0 as its end
\* means the horizon.
Release(s, t) == IF HasWindow(s, t) THEN OrZero(s.from[t]) ELSE OrZero(s.release[t])
Due(s, t, h) ==
    IF HasWindow(s, t)
    THEN IF OrZero(s.to[t]) = 0 THEN h ELSE s.to[t]
    ELSE IF s.deadline[t] = Absent THEN h ELSE s.deadline[t]

\* Mutant: the start variable may be as late as the deadline.
MutStartDomain(s, t, h) == Release(s, t)..Due(s, t, h)

StartDomain(s, t, h) == Release(s, t)..(Due(s, t, h) - Duration(s, t))

End(s, x, t) == x[t] + Duration(s, t)

Disjoint(s, x, t, u) == End(s, x, t) <= x[u] \/ End(s, x, u) <= x[t]

\* build_no_overlap_cpsat: per value of the resource field, or all together.
NoOverlap(s, grouped, x) ==
    \A t, u \in Tasks(s) :
        t # u /\ (grouped => s.machine[t] = s.machine[u]) => Disjoint(s, x, t, u)

\* Mutant: only the tasks that start at the same moment are counted.
MutRunningWith(s, x, t) == {u \in Tasks(s) : x[u] = x[t]}

\* AddCumulative: enough to look at the moments at which a task starts.
RunningWith(s, x, t) == {u \in Tasks(s) : x[u] <= x[t] /\ x[t] < End(s, x, u)}

\* What the builder function of a constraint adds to the model.
Admits(s, c, h, x) ==
    \/ c.type = "no_overlap" /\ NoOverlap(s, c.grouped, x)
    \/ c.type = "precedence" /\ End(s, x, c.before) <= x[c.after]
    \/ c.type = "time_budget"
       /\ \A t \in Tasks(s) : End(s, x, t) <= (IF c.limit = Absent THEN h ELSE c.limit)
    \/ c.type = "capacity"
       /\ \A t \in Tasks(s) : Cardinality(RunningWith(s, x, t))
                              <= (IF c.limit = Absent THEN 1 ELSE c.limit)
    \/ c.type = "demand_coverage"

Makespan(s, x) == Max({End(s, x, t) : t \in Tasks(s)})

\* set_objective: weighted completion when some task has the coefficient, else
\* a makespan variable with the domain 0..horizon.
Weighted(s) == \E t \in Tasks(s) : s.weight[t] # Absent
Weight(s, t) == IF s.weight[t] = Absent THEN 1 ELSE s.weight[t]
Objective(s, x) ==
    IF Weighted(s) THEN Total([t \in Tasks(s) |-> Weight(s, t) * End(s, x, t)], Tasks(s))
    ELSE Makespan(s, x)

\* All assignments to the start variables that satisfy the model.
Schedules(s, h) ==
    LET domains == [t \in Tasks(s) |-> StartDomain(s, t, h)]
        all == [Tasks(s) -> UNION {domains[t] : t \in Tasks(s)}]
    IN  {x \in all : /\ \A t \in Tasks(s) : x[t] \in domains[t]
                     /\ \A c \in s.constraints : Admits(s, c, h, x)
                     /\ Weighted(s) \/ Makespan(s, x) \in 0..h}

BestOf(s, admitted) ==
    LET values == {Objective(s, x) : x \in admitted}
        best == IF s.maximize THEN Max(values) ELSE Min(values)
    IN  {x \in admitted : Objective(s, x) = best}

-----------------------------------------------------------------------------
\* The variables and their types; spec never changes.
TypeOK ==
    /\ pc \in {"build", "solve", "solved", "failed"}
    /\ horizon \in Nat
    /\ status \in {"none", "optimal", "feasible", "infeasible", "error"}
    /\ start = <<>> \/ start \in [Tasks(spec) -> Int]

Init == /\ spec \in Specs
        /\ pc = "build" /\ horizon = 0 /\ status = "none" /\ start = <<>>

\* A constraint of another family has no builder, and a precedence must name
\* two tasks.
Buildable(s, c) == /\ c \in Constraints
                   /\ c.type = "precedence" => {c.before, c.after} \subseteq Tasks(s)

\* int(float(...)): every deadline, and the release time and the coefficient
\* where they are used.
Readable(s) == \A t \in Tasks(s) :
    /\ s.deadline[t] # Text
    /\ s.release[t] = Text => HasWindow(s, t)
    /\ s.weight[t] # Text

\* The reference looks as far as the horizon of every model.
ASSUME HorizonAssumption == \A s \in Specs : Readable(s) => Horizon(s) \in 0..Latest

\* build_model: init_model, then one builder per constraint.
Build == /\ pc = "build"
         /\ Readable(spec) /\ \A c \in spec.constraints : Buildable(spec, c)
         /\ horizon' = Horizon(spec)
         /\ pc' = "solve"
         /\ UNCHANGED <<spec, status, start>>

BuildFails == /\ pc = "build"
              /\ ~Readable(spec) \/ \E c \in spec.constraints : ~Buildable(spec, c)
              /\ pc' = "failed"
              /\ UNCHANGED <<spec, horizon, status, start>>

\* solve_cpsat
Answer(outcome, x) == /\ pc = "solve"
                      /\ status' = outcome /\ start' = x
                      /\ pc' = "solved"
                      /\ UNCHANGED <<spec, horizon>>

SolveOptimal ==
    /\ pc = "solve"
    /\ \E x \in BestOf(spec, Schedules(spec, horizon)) : Answer("optimal", x)

\* The time limit was reached with a schedule, or without one.
SolveFeasible ==
    /\ pc = "solve"
    /\ \E x \in Schedules(spec, horizon) : Answer("feasible", x)

\* Mutant: a status that _CPSAT_STATUS does not map is handed on.
MutSolveUnknown == Answer("unknown", <<>>)

SolveUnknown == Answer("error", <<>>)

\* A variable without a value in its domain makes the model invalid instead.
SolveInfeasible ==
    /\ pc = "solve"
    /\ Schedules(spec, horizon) = {}
    /\ \A t \in Tasks(spec) : StartDomain(spec, t, horizon) # {}
    /\ Answer("infeasible", <<>>)

Next == \/ Build \/ BuildFails
        \/ SolveOptimal \/ SolveFeasible \/ SolveUnknown \/ SolveInfeasible

Spec == Init /\ [][Next]_vars

-----------------------------------------------------------------------------
(* What the constraints mean (docs/modeling_scope.md), without intervals.   *)

\* The tasks running during the time unit that begins at moment n.
During(s, x, n) == {t \in Tasks(s) : x[t] <= n /\ n < x[t] + Duration(s, t)}
Moments(s, x) == Min({x[t] : t \in Tasks(s)})..Makespan(s, x)

\* "No two tasks may run at the same time on the same resource", "Task A must
\* end before task B starts", "a global finish deadline", "limits concurrent
\* tasks".
Means(s, c, x) ==
    CASE c.type = "no_overlap" ->
           \A n \in Moments(s, x) : \A t, u \in During(s, x, n) :
               t # u => c.grouped /\ s.machine[t] # s.machine[u]
      [] c.type = "precedence" ->
           \A n \in Moments(s, x) : c.after \in During(s, x, n)
                                       => x[c.before] + Duration(s, c.before) <= n
      [] c.type = "time_budget" ->
           c.limit # Absent => \A n \in Moments(s, x) : During(s, x, n) # {} => n < c.limit
      [] c.type = "capacity" ->
           \A n \in Moments(s, x) :
               Cardinality(During(s, x, n)) <= (IF c.limit = Absent THEN 1 ELSE c.limit)
      [] OTHER -> TRUE

\* A plan within the windows that keeps every constraint.
Good(s, x) ==
    /\ \A t \in Tasks(s) :
          /\ x[t] >= Release(s, t)
          /\ \A n \in Moments(s, x) : t \in During(s, x, n) => n < Due(s, t, Latest)
    /\ \A c \in s.constraints : Means(s, c, x)

\* Every way of placing the tasks that is over by Latest.
Plans == {x \in [Tasks(spec) -> 0..(Latest - 1)] : Makespan(spec, x) <= Latest}

Timed(s) == \E t \in Tasks(s) : HasWindow(s, t) \/ s.release[t] # Absent

-----------------------------------------------------------------------------
\* Every schedule the solver may answer with keeps every constraint of the spec
\* at every moment, and no task runs outside its window.
SchedulesKeepConstraints == status \in {"optimal", "feasible"} => Good(spec, start)

\* Without release times and windows the horizon never costs a solution: when
\* the model has none, no plan exists however late it may end, and an optimal
\* minimal makespan is minimal among all plans.
HorizonSuffices ==
    /\ ~Timed(spec)
    /\ \/ status = "infeasible"
       \/ status = "optimal" /\ ~Weighted(spec) /\ ~spec.maximize
    => \A x \in Plans :
           (status = "optimal" => Makespan(spec, x) < Makespan(spec, start))
               => ~Good(spec, x)

\* "No solution satisfies all constraints simultaneously" (explainer.py) is what
\* the user reads of an infeasible model: not so when a calendar window reaches
\* beyond the horizon, which the makespan must not exceed.
InfeasibleMeansNoPlan ==
    status = "infeasible" => \A x \in Plans : ~Good(spec, x)

=============================================================================
