-------------------------- MODULE MCScheduleModel --------------------------
(***************************************************************************)
(* ScheduleModel on two families of small specs: three tasks without       *)
(* release times under combinations of constraints, and two tasks with     *)
(* release times, deadlines and calendar windows.                          *)
(***************************************************************************)
EXTENDS ScheduleModel

CONSTANTS absent, text, m1, m2

Triple == {"a", "b", "c"}
Nowhere == [t \in Triple |-> absent]

Overlaps == {{}, {[type |-> "no_overlap", grouped |-> FALSE]},
             {[type |-> "no_overlap", grouped |-> TRUE]}}
Orders == {{}, {[type |-> "precedence", before |-> "a", after |-> "b"]},
           {[type |-> "precedence", before |-> "a", after |-> "b"],
            [type |-> "precedence", before |-> "b", after |-> "c"]},
           {[type |-> "precedence", before |-> "a", after |-> "nobody"]}}
Ceilings == {{}, {[type |-> "capacity", limit |-> absent]},
           {[type |-> "capacity", limit |-> 2], [type |-> "demand_coverage"],
            [type |-> "time_budget", limit |-> absent]},
           {[type |-> "time_budget", limit |-> 3]},
           {[type |-> "budget_limit", limit |-> 3]}}

\* Three tasks of one or two time units, a deadline for one of them.
ConstraintSpecs ==
    {[duration |-> d, release |-> Nowhere, deadline |-> [Nowhere EXCEPT !["c"] = due],
      from |-> Nowhere, to |-> Nowhere,
      machine |-> [t \in Triple |-> IF t = "a" THEN m2 ELSE m1],
      weight |-> [Nowhere EXCEPT !["b"] = w], maximize |-> FALSE,
      constraints |-> o \cup p \cup l] :
        d \in {[t \in Triple |-> IF t = "a" THEN 2 ELSE IF t = "b" THEN k ELSE 0] :
                  k \in {text, 2}},
        due \in {absent, 3},
        w \in {absent, 2},
        o \in Overlaps, p \in Orders, l \in Ceilings}

\* Two tasks with all combinations of times.
Pair == {"a", "b"}
NoWeight == [t \in Pair |-> absent]
TimedSpecs ==
    {[duration |-> [t \in Pair |-> IF t = "a" THEN 2 ELSE 1],
      release |-> r, deadline |-> d, from |-> f, to |-> e,
      machine |-> [t \in Pair |-> m1], weight |-> w, maximize |-> best,
      constraints |-> c] :
        r \in [Pair -> {absent, text, 1}], d \in [Pair -> {absent, 4}],
        f \in [Pair -> {absent, 2}], e \in [Pair -> {absent, 0, 5}],
        w \in {NoWeight, [NoWeight EXCEPT !["a"] = 2]}, best \in BOOLEAN,
        c \in {{[type |-> "no_overlap", grouped |-> FALSE]},
               {[type |-> "precedence", before |-> "a", after |-> "b"]}}}

ModelSpecs == ConstraintSpecs \cup TimedSpecs

=============================================================================
