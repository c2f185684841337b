------------------------ MODULE ScheduleModelProofs ------------------------
(***************************************************************************)
(* Proofs about ScheduleModel, for every set of specs: that the variables  *)
(* keep their types, that every schedule the solver may answer with keeps  *)
(* every constraint at every moment, and that the horizon costs nothing    *)
(* without release times.  The arguments: two intervals that do not        *)
(* overlap share no moment; where many tasks run at one moment, all of     *)
(* them run when the last of them starts, which is where the model counts  *)
(* them; and a plan longer than all tasks one after the other has an idle  *)
(* moment, so that it can be made shorter.                                 *)
(***************************************************************************)
EXTENDS ScheduleModel, SumProofs

\* What the builder let through, and which horizon it gave the model.
BuiltSpec ==
    /\ spec \in Specs
    /\ pc \in {"build", "failed"} => status = "none"
    /\ pc \in {"solve", "solved"} =>
          /\ Readable(spec) /\ \A c \in spec.constraints : Buildable(spec, c)
          /\ horizon = Horizon(spec)

\* A schedule is one the model admits.
AdmittedSchedule ==
    status \in {"optimal", "feasible"} =>
        /\ pc = "solved"
        /\ start \in Schedules(spec, horizon)

\* An optimum is a best schedule, and "infeasible" is said of empty models only.
HonestAnswer ==
    /\ status \in {"optimal", "infeasible"} => pc = "solved"
    /\ status = "optimal" => start \in BestOf(spec, Schedules(spec, horizon))
    /\ status = "infeasible" => Schedules(spec, horizon) = {}

IInv == TypeOK /\ BuiltSpec /\ AdmittedSchedule /\ HonestAnswer

-----------------------------------------------------------------------------
(* Numbers and finite sets.                                                 *)

\* Of finitely many starts one is the latest: the one with the fewest above it.
LEMMA SomeStartIsLatest ==
    ASSUME NEW S, IsFiniteSet(S), S # {}, NEW f, \A u \in S : f[u] \in Int
    PROVE  \E m \in S : \A u \in S : f[u] <= f[m]
<1> DEFINE Above(u) == {v \in S : f[v] > f[u]}
           Count(u) == Cardinality(Above(u))
           Counts == {Count(u) : u \in S}
<1>1. \A u \in S : IsFiniteSet(Above(u)) /\ Count(u) \in Nat
  <2> SUFFICES ASSUME NEW u \in S PROVE IsFiniteSet(Above(u)) /\ Count(u) \in Nat
    OBVIOUS
  <2>1. Above(u) \in SUBSET S
    OBVIOUS
  <2>2. IsFiniteSet(Above(u))
    BY <2>1, FS_Subset, Zenon
  <2> QED
    BY <2>2, FS_CardinalityType, Zenon
<1>2. Counts \subseteq Nat /\ Counts # {}
  <2> HIDE DEF Count
  <2> QED
    BY <1>1
<1>3. PICK k \in Counts : \A l \in Counts : <<l, k>> \notin OpToRel(<, Nat)
  <2> HIDE DEF Counts
  <2> QED
    BY <1>2, WFMin, NatLessThanWellFounded, Zenon
<1>4. PICK m \in S : k = Count(m)
  OBVIOUS
<1>5. ASSUME NEW u \in S PROVE f[u] <= f[m]
  <2> SUFFICES ASSUME f[u] > f[m] PROVE FALSE
    OBVIOUS
  <2>1. /\ Above(u) \in SUBSET Above(m)
        /\ u \in Above(m) /\ u \notin Above(u)
    OBVIOUS
  <2>2. Count(u) <= Count(m) /\ (Count(u) = Count(m) => Above(u) = Above(m))
    <3> HIDE DEF Above
    <3>1. /\ Cardinality(Above(u)) <= Cardinality(Above(m))
          /\ Cardinality(Above(m)) = Cardinality(Above(u)) => Above(m) = Above(u)
      BY <1>1, <2>1, FS_Subset, Zenon
    <3> QED
      BY <3>1
  <2> HIDE DEF Above, Count
  <2>3. Count(u) < Count(m) /\ Count(u) \in Nat /\ Count(m) \in Nat
    BY <1>1, <2>1, <2>2
  <2>4. <<Count(u), Count(m)>> \in OpToRel(<, Nat)
    BY <2>3 DEF OpToRel
  <2> QED
    BY <1>3, <1>4, <2>4, Zenon
<1> QED
  BY <1>5

\* A larger of two numbers exists, so Max picks one.
LEMMA MaxOfTwo ==
    ASSUME NEW n \in Int
    PROVE  Max({1, n}) \in Int /\ Max({1, n}) >= 1
<1>1. \E m \in {1, n} : \A k \in {1, n} : m >= k
  <2>1. CASE n >= 1
    BY <2>1
  <2>2. CASE ~(n >= 1)
    BY <2>2
  <2> QED
    BY <2>1, <2>2
<1>2. Max({1, n}) \in {1, n} /\ \A k \in {1, n} : Max({1, n}) >= k
  BY <1>1 DEF Max
<1> QED
  BY <1>2

\* Every task takes at least one time unit.
LEMMA DurationType ==
    ASSUME NEW s \in Specs, NEW t \in Tasks(s)
    PROVE  Duration(s, t) \in Int /\ Duration(s, t) >= 1
<1>1. s.duration[t] \in Int \cup {Absent, Text}
  BY SpecsAssumption DEF Cells, Tasks
<1>2. CASE s.duration[t] \in {Absent, Text}
  BY <1>2 DEF Duration
<1>3. CASE s.duration[t] \notin {Absent, Text}
  BY <1>1, <1>3, MaxOfTwo DEF Duration
<1> QED
  BY <1>2, <1>3

\* The window of a task of a readable spec is made of numbers, and a longer
\* horizon only makes it longer.
LEMMA WindowType ==
    ASSUME NEW s \in Specs, Readable(s), NEW t \in Tasks(s),
           NEW h \in Int, NEW k \in Int, h <= k
    PROVE  /\ Release(s, t) \in Int
           /\ Due(s, t, h) \in Int /\ Due(s, t, k) \in Int
           /\ Due(s, t, h) <= Due(s, t, k)
<1>1. /\ s.from[t] \in Int \cup {Absent}
      /\ s.to[t] \in Int \cup {Absent}
      /\ s.release[t] \in Int \cup {Absent, Text}
      /\ s.deadline[t] \in Int \cup {Absent}
  BY SpecsAssumption DEF Cells, Readable, Tasks
<1>2. s.release[t] = Text => HasWindow(s, t)
  BY DEF Readable
<1>3. Release(s, t) \in Int
  BY <1>1, <1>2, MarkersAssumption DEF Release, OrZero, HasWindow
<1>4. OrZero(s.to[t]) # 0 => s.to[t] \in Int
  BY <1>1 DEF OrZero
<1>5. Due(s, t, h) \in Int /\ Due(s, t, k) \in Int /\ Due(s, t, h) <= Due(s, t, k)
  BY <1>1, <1>4 DEF Due
<1> QED
  BY <1>3, <1>5

-----------------------------------------------------------------------------
(* The schedules the model admits.                                          *)

\* What membership in Schedules says, task by task and constraint by constraint.
LEMMA ScheduleType ==
    ASSUME NEW s \in Specs, Readable(s), NEW h \in Int, NEW x \in Schedules(s, h)
    PROVE  /\ \A t \in Tasks(s) : /\ x[t] \in Int /\ Release(s, t) <= x[t]
                                  /\ End(s, x, t) \in Int /\ End(s, x, t) > x[t]
                                  /\ End(s, x, t) <= Due(s, t, h)
           /\ x \in [Tasks(s) -> Int]
           /\ \A c \in s.constraints : Admits(s, c, h, x)
<1>1. ASSUME NEW t \in Tasks(s)
      PROVE  /\ x[t] \in Int /\ Release(s, t) <= x[t]
             /\ End(s, x, t) \in Int /\ End(s, x, t) > x[t]
             /\ End(s, x, t) <= Due(s, t, h)
  <2>1. x[t] \in StartDomain(s, t, h)
    BY DEF Schedules
  <2>2. Release(s, t) \in Int /\ Due(s, t, h) \in Int
    BY WindowType
  <2>3. Duration(s, t) \in Int /\ Duration(s, t) >= 1
    BY DurationType
  <2> QED
    BY <2>1, <2>2, <2>3 DEF StartDomain, End
<1>2. x \in [Tasks(s) -> Int]
  <2>1. DOMAIN x = Tasks(s) /\ x = [t \in DOMAIN x |-> x[t]]
    BY DEF Schedules
  <2> QED
    BY <1>1, <2>1
<1>3. \A c \in s.constraints : Admits(s, c, h, x)
  BY DEF Schedules
<1> QED
  BY <1>1, <1>2, <1>3

\* Two tasks whose intervals do not overlap run at no common moment.
LEMMA DisjointNeverMeet ==
    ASSUME NEW s, NEW x, NEW n \in Int, NEW t \in Tasks(s), NEW u \in Tasks(s),
           x[t] \in Int, x[u] \in Int, End(s, x, t) \in Int, End(s, x, u) \in Int,
           Disjoint(s, x, t, u), t \in During(s, x, n)
    PROVE  u \notin During(s, x, n)
BY DEF Disjoint, During, End

\* The tasks of one moment all run when the last of them starts.
LEMMA PeakIsAtAStart ==
    ASSUME NEW s \in Specs, NEW x \in [Tasks(s) -> Int], NEW n \in Int,
           NEW limit \in Int, \A t \in Tasks(s) : End(s, x, t) \in Int /\ End(s, x, t) > x[t],
           \A t \in Tasks(s) : Cardinality(RunningWith(s, x, t)) <= limit
    PROVE  Cardinality(During(s, x, n)) <= limit
<1>1. IsFiniteSet(Tasks(s)) /\ Tasks(s) # {}
  BY SpecsAssumption
<1>2. \A t \in Tasks(s) : /\ IsFiniteSet(RunningWith(s, x, t))
                          /\ Cardinality(RunningWith(s, x, t)) \in Nat
  <2> SUFFICES ASSUME NEW t \in Tasks(s)
               PROVE  /\ IsFiniteSet(RunningWith(s, x, t))
                      /\ Cardinality(RunningWith(s, x, t)) \in Nat
    OBVIOUS
  <2>1. RunningWith(s, x, t) \in SUBSET Tasks(s)
    BY DEF RunningWith
  <2>2. IsFiniteSet(RunningWith(s, x, t))
    BY <1>1, <2>1, FS_Subset, Zenon
  <2> QED
    BY <2>2, FS_CardinalityType, Zenon
<1>3. During(s, x, n) \in SUBSET Tasks(s)
  BY DEF During
<1>4. IsFiniteSet(During(s, x, n))
  BY <1>1, <1>3, FS_Subset, Zenon
<1>5. CASE During(s, x, n) = {}
  <2>1. PICK t \in Tasks(s) : TRUE
    BY <1>1
  <2>2. Cardinality(During(s, x, n)) = 0
    BY <1>5, FS_EmptySet, Zenon
  <2> QED
    BY <1>2, <2>1, <2>2
<1>6. CASE During(s, x, n) # {}
  <2>1. \A u \in During(s, x, n) : x[u] \in Int
    BY <1>3
  <2>2. PICK t \in During(s, x, n) : \A u \in During(s, x, n) : x[u] <= x[t]
    BY <1>4, <1>6, <2>1, SomeStartIsLatest, Zenon
  <2>3. During(s, x, n) \in SUBSET RunningWith(s, x, t)
    BY <1>3, <2>2 DEF During, RunningWith, End
  <2>4. t \in Tasks(s)
    BY <1>3
  <2>5. Cardinality(During(s, x, n)) <= Cardinality(RunningWith(s, x, t))
    BY <1>2, <2>3, <2>4, FS_Subset, Zenon
  <2>6. Cardinality(During(s, x, n)) \in Nat
    BY <1>4, FS_CardinalityType, Zenon
  <2> QED
    BY <1>2, <2>4, <2>5, <2>6
<1> QED
  BY <1>5, <1>6

\* An admitted constraint means what its documentation says.
LEMMA AdmittedIsMeant ==
    ASSUME NEW s \in Specs, Readable(s), NEW h \in Int, NEW x \in Schedules(s, h),
           NEW c \in s.constraints, Buildable(s, c)
    PROVE  Means(s, c, x)
<1>1. Admits(s, c, h, x) /\ x \in [Tasks(s) -> Int]
  BY ScheduleType
<1>2. \A t \in Tasks(s) : /\ x[t] \in Int
                          /\ End(s, x, t) \in Int /\ End(s, x, t) > x[t]
  BY ScheduleType
<1>3. \A n \in Moments(s, x) : n \in Int
  BY DEF Moments
<1>4. \A n : During(s, x, n) \subseteq Tasks(s)
  BY DEF During
<1>5. c \in Constraints
  BY DEF Buildable
<1>6. CASE c.type = "no_overlap"
  <2>1. NoOverlap(s, c.grouped, x)
    BY <1>1, <1>6 DEF Admits
  <2>2. ASSUME NEW n \in Moments(s, x), NEW t \in During(s, x, n),
               NEW u \in During(s, x, n), t # u,
               ~(c.grouped /\ s.machine[t] # s.machine[u])
        PROVE  FALSE
    <3>1. t \in Tasks(s) /\ u \in Tasks(s)
      BY <1>4
    <3>2. Disjoint(s, x, t, u)
      BY <2>1, <2>2, <3>1, Zenon DEF NoOverlap
    <3> QED
      BY <1>2, <1>3, <3>1, <3>2, DisjointNeverMeet
  <2>3. \A n \in Moments(s, x) : \A t, u \in During(s, x, n) :
            t # u => c.grouped /\ s.machine[t] # s.machine[u]
    BY <2>2, Zenon
  <2> QED
    BY <1>6, <2>3, Zenon DEF Means
<1>7. CASE c.type = "precedence"
  <2>1. End(s, x, c.before) <= x[c.after]
    BY <1>1, <1>7 DEF Admits
  <2>2. c.before \in Tasks(s) /\ c.after \in Tasks(s)
    BY <1>7 DEF Buildable
  <2>3. \A n \in Moments(s, x) : c.after \in During(s, x, n)
            => x[c.before] + Duration(s, c.before) <= n
    BY <1>2, <1>3, <2>1, <2>2 DEF During, End
  <2> QED
    BY <1>7, <2>3 DEF Means
<1>8. CASE c.type = "time_budget"
  <2>1. SUFFICES ASSUME c.limit # Absent, NEW n \in Moments(s, x),
                        NEW t \in During(s, x, n)
                 PROVE  n < c.limit
    BY <1>8 DEF Means
  <2>2. t \in Tasks(s) /\ n < End(s, x, t)
    BY DEF During, End
  <2>3. End(s, x, t) <= c.limit
    BY <1>1, <1>8, <2>1, <2>2 DEF Admits
  <2>4. c.limit \in Int
    BY <1>5, <1>8, <2>1 DEF Constraints, Limits
  <2> QED
    BY <1>2, <1>3, <2>2, <2>3, <2>4
<1>9. CASE c.type = "capacity"
  <2> DEFINE limit == IF c.limit = Absent THEN 1 ELSE c.limit
  <2>1. limit \in Int
    BY <1>5, <1>9 DEF Constraints, Limits
  <2>2. \A t \in Tasks(s) : Cardinality(RunningWith(s, x, t)) <= limit
    BY <1>1, <1>9 DEF Admits
  <2> HIDE DEF limit
  <2>3. \A n \in Moments(s, x) : Cardinality(During(s, x, n)) <= limit
    BY <1>1, <1>2, <1>3, <2>1, <2>2, PeakIsAtAStart
  <2> QED
    BY <1>9, <2>3 DEF Means, limit
<1>10. CASE c.type \notin {"no_overlap", "precedence", "time_budget", "capacity"}
  BY <1>10 DEF Means
<1> QED
  BY <1>6, <1>7, <1>8, <1>9, <1>10

\* A schedule the model admits is a good plan.
LEMMA AdmittedIsGood ==
    ASSUME NEW s \in Specs, Readable(s), \A c \in s.constraints : Buildable(s, c),
           NEW x \in Schedules(s, Horizon(s))
    PROVE  Good(s, x)
<1> DEFINE h == Horizon(s)
<1>1. h \in Int /\ Latest \in Int /\ h <= Latest
  BY HorizonAssumption, LatestAssumption
<1> HIDE DEF h
<1>2. x \in Schedules(s, h)
  BY DEF h
<1>3. \A c \in s.constraints : Means(s, c, x)
  BY <1>1, <1>2, AdmittedIsMeant
<1>4. ASSUME NEW t \in Tasks(s)
      PROVE  /\ x[t] >= Release(s, t)
             /\ \A n \in Moments(s, x) : t \in During(s, x, n) => n < Due(s, t, Latest)
  <2>1. /\ x[t] \in Int /\ Release(s, t) <= x[t]
        /\ End(s, x, t) \in Int /\ End(s, x, t) <= Due(s, t, h)
    BY <1>1, <1>2, ScheduleType
  <2>2. /\ Release(s, t) \in Int
        /\ Due(s, t, h) \in Int /\ Due(s, t, Latest) \in Int
        /\ Due(s, t, h) <= Due(s, t, Latest)
    BY <1>1, WindowType
  <2>3. ASSUME NEW n \in Moments(s, x), t \in During(s, x, n)
        PROVE  n < Due(s, t, Latest)
    <3>1. n \in Int
      BY DEF Moments
    <3>2. n < End(s, x, t)
      BY <2>3 DEF During, End
    <3> QED
      BY <2>1, <2>2, <3>1, <3>2
  <2> QED
    BY <2>1, <2>2, <2>3
<1> QED
  BY <1>3, <1>4 DEF Good

-----------------------------------------------------------------------------
(* Plans fit into the horizon.                                              *)

Durations(s) == [t \in Tasks(s) |-> Duration(s, t)]

\* The horizon of a spec the reference reaches is a natural number.
LEMMA HorizonType ==
    ASSUME NEW s \in Specs, Readable(s)
    PROVE  Horizon(s) \in Nat
BY HorizonAssumption, LatestAssumption

\* Tasks placed without release times: every deadline and constraint is kept, and
\* everything is over by k.
Placed(s, x, k) ==
    /\ x \in [Tasks(s) -> Nat]
    /\ \A t \in Tasks(s) : /\ End(s, x, t) <= k
                           /\ s.deadline[t] # Absent => End(s, x, t) <= s.deadline[t]
    /\ \A c \in s.constraints : Admits(s, c, k, x)

\* Tasks that take less than k moments together leave one of k moments idle.
LEMMA IdleMoment ==
    ASSUME NEW T, IsFiniteSet(T), NEW x \in [T -> Nat], NEW d, \A t \in T : d[t] \in Nat,
           NEW k \in Nat, Total(d, T) < k
    PROVE  \E n \in 0..(k - 1) : \A t \in T : ~(x[t] <= n /\ n < x[t] + d[t])
<1> DEFINE Busy(U) == {n \in 0..(k - 1) : \E t \in U : x[t] <= n /\ n < x[t] + d[t]}
           Fits(U) == IsFiniteSet(Busy(U)) /\ Cardinality(Busy(U)) <= Total(d, U)
           Fine == {U \in SUBSET T : Fits(U)}
<1>1. IsFiniteSet(0..(k - 1)) /\ Cardinality(0..(k - 1)) = k
  BY FS_Interval
<1>2. \A U \in SUBSET T : IsFiniteSet(Busy(U)) /\ Cardinality(Busy(U)) \in Nat
  <2> SUFFICES ASSUME NEW U \in SUBSET T
               PROVE  IsFiniteSet(Busy(U)) /\ Cardinality(Busy(U)) \in Nat
    OBVIOUS
  <2>1. Busy(U) \in SUBSET (0..(k - 1))
    OBVIOUS
  <2> HIDE DEF Busy
  <2>2. IsFiniteSet(Busy(U))
    BY <1>1, <2>1, FS_Subset, Zenon
  <2> QED
    BY <2>2, FS_CardinalityType, Zenon
<1>3. Fits({})
  <2>1. Busy({}) = {}
    OBVIOUS
  <2> HIDE DEF Busy
  <2>2. Cardinality(Busy({})) = 0 /\ IsFiniteSet(Busy({}))
    BY <2>1, FS_EmptySet
  <2> QED
    BY <2>2, TotalOfNothing
<1>4. ASSUME NEW U \in SUBSET T, NEW e \in T \ U, Fits(U) PROVE Fits(U \cup {e})
  <2>1. Busy(U \cup {e}) = Busy(U) \cup Busy({e})
    OBVIOUS
  <2>2. Busy({e}) \in SUBSET (x[e]..(x[e] + d[e] - 1))
    <3>1. x[e] \in Nat /\ d[e] \in Nat
      OBVIOUS
    <3> QED
      BY <3>1
  <2>3. /\ IsFiniteSet(x[e]..(x[e] + d[e] - 1))
        /\ Cardinality(x[e]..(x[e] + d[e] - 1)) = d[e]
    <3>1. x[e] \in Int /\ x[e] + d[e] - 1 \in Int /\ d[e] \in Nat
      OBVIOUS
    <3>2. /\ IsFiniteSet(x[e]..(x[e] + d[e] - 1))
          /\ Cardinality(x[e]..(x[e] + d[e] - 1))
                 = IF x[e] > x[e] + d[e] - 1 THEN 0 ELSE (x[e] + d[e] - 1) - x[e] + 1
      BY <3>1, FS_Interval
    <3> QED
      BY <3>1, <3>2
  <2> HIDE DEF Busy
  <2>4. Cardinality(Busy({e})) <= d[e]
    BY <2>2, <2>3, FS_Subset
  <2>5. /\ IsFiniteSet(Busy(U) \cup Busy({e}))
        /\ Cardinality(Busy(U) \cup Busy({e})) <= Cardinality(Busy(U)) + Cardinality(Busy({e}))
    <3>1. IsFiniteSet(Busy(U)) /\ IsFiniteSet(Busy({e})) /\ {e} \in SUBSET T
      BY <1>2
    <3>2. /\ IsFiniteSet(Busy(U) \cup Busy({e}))
          /\ Cardinality(Busy(U) \cup Busy({e}))
                 = Cardinality(Busy(U)) + Cardinality(Busy({e}))
                       - Cardinality(Busy(U) \cap Busy({e}))
      BY <3>1, FS_Union
    <3>3. IsFiniteSet(Busy(U) \cap Busy({e}))
      BY <3>1, FS_Intersection
    <3>4. Cardinality(Busy(U) \cap Busy({e})) \in Nat
      BY <3>3, FS_CardinalityType
    <3>5. Cardinality(Busy(U)) \in Nat /\ Cardinality(Busy({e})) \in Nat
      BY <1>2, <3>1
    <3> QED
      BY <3>2, <3>4, <3>5
  <2>6. IsFiniteSet(U) /\ \A t \in U \cup {e} : d[t] \in Int
    BY FS_Subset
  <2>7. Total(d, U \cup {e}) = d[e] + Total(d, U) /\ Total(d, U) \in Int
    BY <2>6, TotalAdd, TotalAny
  <2>8. /\ Cardinality(Busy(U)) \in Nat /\ Cardinality(Busy({e})) \in Nat
        /\ Cardinality(Busy(U \cup {e})) \in Nat /\ d[e] \in Int
    <3>1. {e} \in SUBSET T /\ U \cup {e} \in SUBSET T
      OBVIOUS
    <3> QED
      BY <1>2, <3>1
  <2>9. IsFiniteSet(Busy(U \cup {e}))
    BY <2>1, <2>5
  <2>10. Cardinality(Busy(U \cup {e})) <= Cardinality(Busy(U)) + Cardinality(Busy({e}))
    BY <2>1, <2>5
  <2>11. Cardinality(Busy(U)) <= Total(d, U)
    BY <1>4
  <2>12. Cardinality(Busy(U \cup {e})) <= Total(d, U \cup {e})
    BY <2>4, <2>7, <2>8, <2>10, <2>11
  <2> QED
    BY <2>9, <2>12
<1>5. Fits(T)
  <2> HIDE DEF Fits
  <2>1. {} \in Fine /\ \A U \in SUBSET T : \A e \in T \ U : U \in Fine => U \cup {e} \in Fine
    BY <1>3, <1>4
  <2> HIDE DEF Fine
  <2>2. T \in Fine
    BY <2>1, AllSubsets
  <2> QED
    BY <2>2 DEF Fine
<1>6. Busy(T) # 0..(k - 1)
  <2> HIDE DEF Busy
  <2>1. Total(d, T) \in Int /\ Cardinality(Busy(T)) \in Nat
    BY <1>2, TotalAny
  <2> QED
    BY <1>1, <1>5, <2>1
<1> QED
  BY <1>6

\* Where a moment is idle, everything later may begin one moment earlier.
LEMMA PlacedEarlier ==
    ASSUME NEW s \in Specs, Readable(s), \A c \in s.constraints : Buildable(s, c),
           NEW x, NEW k \in Nat, Placed(s, x, k), Total(Durations(s), Tasks(s)) < k
    PROVE  \E y : Placed(s, y, k - 1)
<1>1. \A t \in Tasks(s) : /\ x[t] \in Nat /\ Duration(s, t) \in Nat /\ Duration(s, t) >= 1
                          /\ End(s, x, t) = x[t] + Duration(s, t) /\ End(s, x, t) <= k
                          /\ s.deadline[t] # Absent => /\ s.deadline[t] \in Int
                                                       /\ End(s, x, t) <= s.deadline[t]
  <2> SUFFICES ASSUME NEW t \in Tasks(s)
               PROVE  /\ x[t] \in Nat /\ Duration(s, t) \in Nat /\ Duration(s, t) >= 1
                      /\ End(s, x, t) = x[t] + Duration(s, t) /\ End(s, x, t) <= k
                      /\ s.deadline[t] # Absent => /\ s.deadline[t] \in Int
                                                   /\ End(s, x, t) <= s.deadline[t]
    OBVIOUS
  <2>1. Duration(s, t) \in Int /\ Duration(s, t) >= 1
    BY DurationType
  <2>2. s.deadline[t] \in Int \cup {Absent}
    BY SpecsAssumption DEF Cells, Readable, Tasks
  <2> QED
    BY <2>1, <2>2 DEF Placed, End
<1>2. PICK n \in 0..(k - 1) : \A t \in Tasks(s) : ~(x[t] <= n /\ n < End(s, x, t))
  <2> DEFINE d == Durations(s)
  <2>1. IsFiniteSet(Tasks(s)) /\ x \in [Tasks(s) -> Nat] /\ Total(d, Tasks(s)) < k
    BY SpecsAssumption DEF Placed
  <2>2. \A t \in Tasks(s) : d[t] = Duration(s, t) /\ d[t] \in Nat
    BY <1>1 DEF Durations
  <2> HIDE DEF d
  <2>3. \E n \in 0..(k - 1) : \A t \in Tasks(s) : ~(x[t] <= n /\ n < x[t] + d[t])
    BY <2>1, <2>2, IdleMoment
  <2> QED
    BY <1>1, <2>2, <2>3
<1> DEFINE y == [t \in Tasks(s) |-> IF x[t] > n THEN x[t] - 1 ELSE x[t]]
<1>3. ASSUME NEW t \in Tasks(s)
      PROVE  \/ /\ x[t] > n /\ y[t] = x[t] - 1 /\ End(s, y, t) = End(s, x, t) - 1
             \/ /\ x[t] < n /\ y[t] = x[t] /\ End(s, y, t) = End(s, x, t)
                /\ End(s, x, t) <= n
  <2>1. End(s, y, t) = y[t] + Duration(s, t)
    BY DEF End
  <2> QED
    BY <1>1, <1>2, <2>1
<1>4. y \in [Tasks(s) -> Nat]
  BY <1>1
<1> HIDE DEF y
<1>5. \A t \in Tasks(s) : /\ y[t] \in Nat /\ End(s, y, t) \in Int
                          /\ End(s, y, t) <= k - 1 /\ End(s, y, t) <= End(s, x, t)
  BY <1>1, <1>3, <1>4
<1>6. \A t \in Tasks(s) : s.deadline[t] # Absent => End(s, y, t) <= s.deadline[t]
  BY <1>1, <1>5
<1>7. \A t, u \in Tasks(s) : End(s, x, t) <= x[u] => End(s, y, t) <= y[u]
  BY <1>1, <1>3
<1>8. \A t, u \in Tasks(s) : y[t] <= y[u] => x[t] <= x[u]
  BY <1>1, <1>3
<1>9. \A t \in Tasks(s) : RunningWith(s, y, t) \in SUBSET RunningWith(s, x, t)
  BY <1>1, <1>5, <1>7, <1>8 DEF RunningWith
<1>10. ASSUME NEW c \in s.constraints PROVE Admits(s, c, k - 1, y)
  <2>1. Admits(s, c, k, x) /\ Buildable(s, c) /\ c \in Constraints
    BY DEF Placed, Buildable
  <2>2. CASE c.type = "no_overlap"
    <3>1. \A t, u \in Tasks(s) : Disjoint(s, x, t, u) => Disjoint(s, y, t, u)
      BY <1>7 DEF Disjoint
    <3>2. NoOverlap(s, c.grouped, x)
      BY <2>1, <2>2 DEF Admits
    <3>3. NoOverlap(s, c.grouped, y)
      BY <3>1, <3>2, Zenon DEF NoOverlap
    <3> QED
      BY <2>2, <3>3 DEF Admits
  <2>3. CASE c.type = "precedence"
    <3>1. c.before \in Tasks(s) /\ c.after \in Tasks(s)
      BY <2>1, <2>3 DEF Buildable
    <3> QED
      BY <1>7, <2>1, <2>3, <3>1 DEF Admits
  <2>4. CASE c.type = "time_budget"
    <3>1. CASE c.limit = Absent
      BY <1>5, <2>4, <3>1 DEF Admits
    <3>2. CASE c.limit # Absent
      <4>1. c.limit \in Int
        BY <2>1, <2>4, <3>2 DEF Constraints, Limits
      <4>2. \A t \in Tasks(s) : End(s, x, t) <= c.limit
        BY <2>1, <2>4, <3>2 DEF Admits
      <4>3. \A t \in Tasks(s) : End(s, y, t) <= c.limit
        BY <1>1, <1>5, <4>1, <4>2
      <4> QED
        BY <2>4, <3>2, <4>3 DEF Admits
    <3> QED
      BY <3>1, <3>2
  <2>5. CASE c.type = "capacity"
    <3> DEFINE limit == IF c.limit = Absent THEN 1 ELSE c.limit
    <3>1. limit \in Int
      BY <2>1, <2>5 DEF Constraints, Limits
    <3>2. \A t \in Tasks(s) : Cardinality(RunningWith(s, x, t)) <= limit
      BY <2>1, <2>5 DEF Admits
    <3> HIDE DEF limit
    <3>3. ASSUME NEW t \in Tasks(s) PROVE Cardinality(RunningWith(s, y, t)) <= limit
      <4>1. IsFiniteSet(RunningWith(s, x, t))
        <5>1. RunningWith(s, x, t) \in SUBSET Tasks(s)
          BY DEF RunningWith
        <5> QED
          BY <5>1, SpecsAssumption, FS_Subset, Zenon
      <4>2. /\ IsFiniteSet(RunningWith(s, y, t))
            /\ Cardinality(RunningWith(s, y, t)) <= Cardinality(RunningWith(s, x, t))
        BY <1>9, <4>1, FS_Subset, Zenon
      <4>3. /\ Cardinality(RunningWith(s, x, t)) \in Nat
            /\ Cardinality(RunningWith(s, y, t)) \in Nat
        BY <4>1, <4>2, FS_CardinalityType, Zenon
      <4> QED
        BY <3>1, <3>2, <4>2, <4>3
    <3> QED
      BY <2>5, <3>3 DEF Admits, limit
  <2>6. CASE c.type \notin {"no_overlap", "precedence", "time_budget", "capacity"}
    BY <2>1, <2>6 DEF Admits
  <2> QED
    BY <2>2, <2>3, <2>4, <2>5, <2>6
<1> QED
  BY <1>4, <1>5, <1>6, <1>10 DEF Placed

\* So every plan can be made to end within the sum of the durations, and no later
\* than it did.
LEMMA PlacedWithinDurations ==
    ASSUME NEW s \in Specs, Readable(s), \A c \in s.constraints : Buildable(s, c),
           NEW x, NEW k \in Nat, Placed(s, x, k)
    PROVE  \E j \in Nat : j <= k /\ j <= Total(Durations(s), Tasks(s)) /\ \E y : Placed(s, y, j)
<1> DEFINE J == {j \in Nat : j <= k /\ \E y : Placed(s, y, j)}
           total == Total(Durations(s), Tasks(s))
<1>1. J \subseteq Nat /\ J # {}
  OBVIOUS
<1>2. PICK j \in J : \A i \in J : <<i, j>> \notin OpToRel(<, Nat)
  <2> HIDE DEF J
  <2> QED
    BY <1>1, WFMin, NatLessThanWellFounded, Zenon
<1>3. total \in Int
  <2>1. IsFiniteSet(Tasks(s))
    BY SpecsAssumption
  <2>2. \A t \in Tasks(s) : Durations(s)[t] \in Int
    BY DurationType DEF Durations
  <2> QED
    BY <2>1, <2>2, TotalAny
<1> HIDE DEF total
<1>4. j <= total
  <2> SUFFICES ASSUME total < j PROVE FALSE
    BY <1>1, <1>3
  <2>1. PICK z : Placed(s, z, j)
    OBVIOUS
  <2>2. \E y : Placed(s, y, j - 1)
    BY <2>1, PlacedEarlier DEF total
  <2>3. j >= 1
    <3>1. PICK t \in Tasks(s) : TRUE
      BY SpecsAssumption
    <3>2. z[t] \in Nat /\ z[t] + Duration(s, t) <= j
      BY <2>1 DEF Placed, End
    <3>3. Duration(s, t) \in Int /\ Duration(s, t) >= 1
      BY DurationType
    <3> QED
      BY <1>1, <3>2, <3>3
  <2>4. j - 1 \in J /\ j \in Nat
    BY <2>2, <2>3
  <2>5. <<j - 1, j>> \in OpToRel(<, Nat)
    BY <2>4 DEF OpToRel
  <2> QED
    BY <1>2, <2>4, <2>5
<1> QED
  BY <1>4 DEF total

\* The makespan is the last end.
LEMMA MakespanIsLast ==
    ASSUME NEW s \in Specs, NEW x, \A t \in Tasks(s) : End(s, x, t) \in Nat
    PROVE  /\ Makespan(s, x) \in Nat
           /\ \A t \in Tasks(s) : End(s, x, t) <= Makespan(s, x)
           /\ \E t \in Tasks(s) : End(s, x, t) = Makespan(s, x)
<1> DEFINE Ends == {End(s, x, t) : t \in Tasks(s)}
<1>1. IsFiniteSet(Ends)
  <2> DEFINE f == [t \in Tasks(s) |-> End(s, x, t)]
  <2>1. IsFiniteSet(Tasks(s))
    BY SpecsAssumption
  <2>2. Ends = {f[t] : t \in Tasks(s)}
    OBVIOUS
  <2> HIDE DEF Ends, f
  <2> QED
    BY <2>1, <2>2, FiniteImage
<1>2. Ends # {} /\ Ends \subseteq Nat
  BY SpecsAssumption
<1>3. Makespan(s, x) = Max(Ends)
  BY DEF Makespan
<1>4. \A t \in Tasks(s) : End(s, x, t) \in Ends
  OBVIOUS
<1>5. \A n \in Ends : \E t \in Tasks(s) : n = End(s, x, t)
  OBVIOUS
<1> HIDE DEF Ends
<1>6. Max(Ends) \in Ends /\ \A n \in Ends : Max(Ends) >= n
  <2>1. Ends \subseteq Int
    BY <1>2
  <2> QED
    BY <1>1, <1>2, <2>1, Extremes, Zenon
<1> QED
  BY <1>2, <1>3, <1>4, <1>5, <1>6

\* No task begins before the first start.
LEMMA FirstStart ==
    ASSUME NEW s \in Specs, NEW x, \A t \in Tasks(s) : x[t] \in Nat
    PROVE  /\ Min({x[u] : u \in Tasks(s)}) \in Int
           /\ \A t \in Tasks(s) : Min({x[u] : u \in Tasks(s)}) <= x[t]
<1> DEFINE Starts == {x[u] : u \in Tasks(s)}
<1>1. IsFiniteSet(Starts)
  <2>1. IsFiniteSet(Tasks(s))
    BY SpecsAssumption
  <2> QED
    BY <2>1, FiniteImage
<1>2. Starts # {} /\ Starts \subseteq Nat
  BY SpecsAssumption
<1>3. \A t \in Tasks(s) : x[t] \in Starts
  OBVIOUS
<1> HIDE DEF Starts
<1>4. Min(Starts) \in Starts /\ \A n \in Starts : Min(Starts) <= n
  <2>1. Starts \subseteq Int
    BY <1>2
  <2> QED
    BY <1>1, <1>2, <2>1, Extremes, Zenon
<1>5. Min(Starts) \in Nat
  BY <1>2, <1>4
<1>6. \A t \in Tasks(s) : Min(Starts) <= x[t]
  BY <1>3, <1>4
<1> QED
  BY <1>5, <1>6 DEF Starts

\* A plan of a spec without release times is placed by its makespan.
LEMMA GoodIsPlaced ==
    ASSUME NEW s \in Specs, Readable(s), \A c \in s.constraints : Buildable(s, c),
           NEW x \in [Tasks(s) -> Nat], ~Timed(s), Good(s, x)
    PROVE  Makespan(s, x) \in Nat /\ Placed(s, x, Makespan(s, x))
<1> DEFINE k == Makespan(s, x)
<1>1. \A t \in Tasks(s) : /\ x[t] \in Nat /\ Duration(s, t) \in Int /\ Duration(s, t) >= 1
                          /\ End(s, x, t) = x[t] + Duration(s, t)
  BY DurationType DEF End
<1>2. \A t \in Tasks(s) : End(s, x, t) \in Nat /\ End(s, x, t) > x[t]
  BY <1>1
<1>3. k \in Nat /\ \A t \in Tasks(s) : End(s, x, t) <= k
  BY <1>2, MakespanIsLast
<1>4. \A t \in Tasks(s) : \A n \in x[t]..(End(s, x, t) - 1) :
          n \in Moments(s, x) /\ t \in During(s, x, n)
  <2> SUFFICES ASSUME NEW t \in Tasks(s), NEW n \in x[t]..(End(s, x, t) - 1)
               PROVE  n \in Moments(s, x) /\ t \in During(s, x, n)
    OBVIOUS
  <2>1. n \in Int /\ x[t] <= n /\ n < End(s, x, t) /\ n <= k
    BY <1>2, <1>3
  <2>2. Min({x[u] : u \in Tasks(s)}) \in Int /\ Min({x[u] : u \in Tasks(s)}) <= x[t]
    BY <1>1, FirstStart
  <2> HIDE DEF k
  <2>3. n \in Moments(s, x)
    BY <1>1, <1>3, <2>1, <2>2 DEF Moments, k
  <2> QED
    BY <1>1, <2>1, <2>3 DEF During
<1> HIDE DEF k
<1>5. ASSUME NEW t \in Tasks(s), s.deadline[t] # Absent
      PROVE  End(s, x, t) <= s.deadline[t]
  <2>1. End(s, x, t) - 1 \in x[t]..(End(s, x, t) - 1)
    BY <1>1, <1>2
  <2>2. End(s, x, t) - 1 < Due(s, t, Latest)
    BY <1>4, <2>1, Zenon DEF Good
  <2>3. s.deadline[t] \in Int
    BY <1>5, SpecsAssumption DEF Cells, Readable, Tasks
  <2>4. Due(s, t, Latest) = s.deadline[t]
    BY <1>5 DEF Due, Timed
  <2> QED
    BY <1>2, <2>2, <2>3, <2>4
<1>6. ASSUME NEW c \in s.constraints PROVE Admits(s, c, k, x)
  <2>1. Means(s, c, x) /\ Buildable(s, c) /\ c \in Constraints
    BY DEF Good, Buildable
  <2>2. CASE c.type = "no_overlap"
    <3>1. \A n \in Moments(s, x) : \A t, u \in During(s, x, n) :
              t # u => c.grouped /\ s.machine[t] # s.machine[u]
      BY <2>1, <2>2, Zenon DEF Means
    <3>2. ASSUME NEW t \in Tasks(s), NEW u \in Tasks(s), t # u,
                 c.grouped => s.machine[t] = s.machine[u], ~Disjoint(s, x, t, u)
          PROVE  FALSE
      <4>1. End(s, x, t) > x[u] /\ End(s, x, u) > x[t]
        BY <1>1, <1>2, <3>2 DEF Disjoint
      <4>2. CASE x[t] <= x[u]
        <5>1. x[u] \in x[t]..(End(s, x, t) - 1) /\ x[u] \in x[u]..(End(s, x, u) - 1)
          BY <1>1, <1>2, <4>1, <4>2
        <5> QED
          BY <1>4, <3>1, <3>2, <5>1
      <4>3. CASE ~(x[t] <= x[u])
        <5>1. x[t] \in x[t]..(End(s, x, t) - 1) /\ x[t] \in x[u]..(End(s, x, u) - 1)
          BY <1>1, <1>2, <4>1, <4>3
        <5> QED
          BY <1>4, <3>1, <3>2, <5>1
      <4> QED
        BY <4>2, <4>3
    <3>3. NoOverlap(s, c.grouped, x)
      BY <3>2, Zenon DEF NoOverlap
    <3> QED
      BY <2>2, <3>3 DEF Admits
  <2>3. CASE c.type = "precedence"
    <3>1. c.before \in Tasks(s) /\ c.after \in Tasks(s)
      BY <2>1, <2>3 DEF Buildable
    <3>2. x[c.after] \in x[c.after]..(End(s, x, c.after) - 1)
      BY <1>1, <1>2, <3>1
    <3>3. \A n \in Moments(s, x) : c.after \in During(s, x, n)
              => x[c.before] + Duration(s, c.before) <= n
      BY <2>1, <2>3 DEF Means
    <3>4. End(s, x, c.before) <= x[c.after]
      BY <1>1, <1>4, <3>1, <3>2, <3>3
    <3> QED
      BY <2>3, <3>4 DEF Admits
  <2>4. CASE c.type = "time_budget"
    <3>1. CASE c.limit = Absent
      BY <1>3, <2>4, <3>1 DEF Admits
    <3>2. CASE c.limit # Absent
      <4>1. c.limit \in Int
        BY <2>1, <2>4, <3>2 DEF Constraints, Limits
      <4>2. \A n \in Moments(s, x) : During(s, x, n) # {} => n < c.limit
        BY <2>1, <2>4, <3>2 DEF Means
      <4>3. ASSUME NEW t \in Tasks(s) PROVE End(s, x, t) <= c.limit
        <5>1. End(s, x, t) - 1 \in x[t]..(End(s, x, t) - 1)
          BY <1>1, <1>2
        <5>2. End(s, x, t) - 1 < c.limit
          BY <1>4, <4>2, <5>1
        <5> QED
          BY <1>2, <4>1, <5>2
      <4> QED
        BY <2>4, <3>2, <4>3 DEF Admits
    <3> QED
      BY <3>1, <3>2
  <2>5. CASE c.type = "capacity"
    <3> DEFINE limit == IF c.limit = Absent THEN 1 ELSE c.limit
    <3>1. \A n \in Moments(s, x) : Cardinality(During(s, x, n)) <= limit
      BY <2>1, <2>5 DEF Means
    <3> HIDE DEF limit
    <3>2. ASSUME NEW t \in Tasks(s) PROVE Cardinality(RunningWith(s, x, t)) <= limit
      <4>1. x[t] \in x[t]..(End(s, x, t) - 1)
        BY <1>1, <1>2
      <4>2. RunningWith(s, x, t) = During(s, x, x[t])
        BY DEF RunningWith, During, End
      <4> QED
        BY <1>4, <3>1, <4>1, <4>2
    <3> QED
      BY <2>5, <3>2 DEF Admits, limit
  <2>6. CASE c.type \notin {"no_overlap", "precedence", "time_budget", "capacity"}
    BY <2>1, <2>6 DEF Admits, Constraints
  <2> QED
    BY <2>2, <2>3, <2>4, <2>5, <2>6
<1> QED
  BY <1>3, <1>5, <1>6 DEF Placed, k

\* The horizon is no shorter than all tasks one after the other.
LEMMA HorizonIsLong ==
    ASSUME NEW s \in Specs, Readable(s)
    PROVE  Total(Durations(s), Tasks(s)) <= Horizon(s)
<1> DEFINE total == Total(Durations(s), Tasks(s))
           deadlines == {s.deadline[t] : t \in Tasks(s)} \ {Absent}
<1>1. IsFiniteSet(Tasks(s))
  BY SpecsAssumption
<1>2. total \in Int
  <2>1. \A t \in Tasks(s) : Durations(s)[t] \in Int
    BY DurationType DEF Durations
  <2> QED
    BY <1>1, <2>1, TotalAny
<1>3. deadlines \subseteq Int
  BY SpecsAssumption DEF Cells, Readable, Tasks
<1>4. IsFiniteSet(deadlines)
  <2>1. IsFiniteSet({s.deadline[t] : t \in Tasks(s)})
    BY <1>1, FiniteImage
  <2>2. deadlines \in SUBSET {s.deadline[t] : t \in Tasks(s)}
    OBVIOUS
  <2> HIDE DEF deadlines
  <2> QED
    BY <2>1, <2>2, FS_Subset
<1>5. Horizon(s) = Max({total} \cup deadlines)
  BY DEF Horizon, Durations
<1> HIDE DEF total, deadlines
<1> DEFINE all == {total} \cup deadlines
<1>6. IsFiniteSet(all)
  <2>1. all = deadlines \cup {total}
    OBVIOUS
  <2> QED
    BY <1>4, <2>1, FS_AddElement
<1>7. all \subseteq Int /\ all # {} /\ total \in all
  BY <1>2, <1>3
<1> HIDE DEF all
<1>8. \A n \in all : Max(all) >= n /\ Max(all) \in all
  BY <1>6, <1>7, Extremes, Zenon
<1> QED
  BY <1>5, <1>7, <1>8 DEF all, total

\* Tasks placed within the horizon are a schedule of the model.
LEMMA PlacedIsAdmitted ==
    ASSUME NEW s \in Specs, Readable(s), \A c \in s.constraints : Buildable(s, c),
           ~Timed(s), NEW y, NEW j \in Nat, Placed(s, y, j), j <= Horizon(s)
    PROVE  y \in Schedules(s, Horizon(s)) /\ Makespan(s, y) \in Nat /\ Makespan(s, y) <= j
<1> DEFINE h == Horizon(s)
<1>1. h \in Nat /\ j <= h
  BY HorizonType
<1> HIDE DEF h
<1>2. \A t \in Tasks(s) : /\ y[t] \in Nat /\ Duration(s, t) \in Int /\ Duration(s, t) >= 1
                          /\ End(s, y, t) = y[t] + Duration(s, t) /\ End(s, y, t) <= j
                          /\ s.deadline[t] # Absent => End(s, y, t) <= s.deadline[t]
                          /\ s.deadline[t] \in Int \cup {Absent}
  <2>1. \A t \in Tasks(s) : s.deadline[t] \in Int \cup {Absent}
    BY SpecsAssumption DEF Cells, Readable, Tasks
  <2> QED
    BY <2>1, DurationType DEF Placed, End
<1>3. ASSUME NEW t \in Tasks(s) PROVE y[t] \in StartDomain(s, t, h)
  <2>1. Release(s, t) = 0
    BY DEF Timed, Release, OrZero
  <2>2. Due(s, t, h) = IF s.deadline[t] = Absent THEN h ELSE s.deadline[t]
    BY DEF Timed, Due
  <2>3. End(s, y, t) <= Due(s, t, h) /\ Due(s, t, h) \in Int
    BY <1>1, <1>2, <2>2
  <2> QED
    BY <1>2, <2>1, <2>3 DEF StartDomain
<1>4. ASSUME NEW c \in s.constraints PROVE Admits(s, c, h, y)
  <2>1. Admits(s, c, j, y)
    BY DEF Placed
  <2>2. CASE c.type = "time_budget" /\ c.limit = Absent
    <3>1. \A t \in Tasks(s) : End(s, y, t) <= h
      BY <1>1, <1>2
    <3> QED
      BY <2>2, <3>1 DEF Admits
  <2>3. CASE ~(c.type = "time_budget" /\ c.limit = Absent)
    BY <2>1, <2>3 DEF Admits
  <2> QED
    BY <2>2, <2>3
<1>5. Makespan(s, y) \in Nat /\ Makespan(s, y) <= j
  <2>1. \A t \in Tasks(s) : End(s, y, t) \in Nat
    BY <1>2
  <2> QED
    BY <1>2, <2>1, MakespanIsLast
<1>6. Makespan(s, y) \in 0..h
  BY <1>1, <1>5
<1>7. y \in [Tasks(s) -> UNION {[u \in Tasks(s) |-> StartDomain(s, u, h)][t] : t \in Tasks(s)}]
  <2>1. y \in [Tasks(s) -> Nat]
    BY DEF Placed
  <2> QED
    BY <1>3, <2>1
<1>8. y \in Schedules(s, h)
  BY <1>3, <1>4, <1>6, <1>7, Zenon DEF Schedules
<1> QED
  BY <1>5, <1>8 DEF h

\* Without release times, where there is a plan there is a schedule that takes no
\* longer.
LEMMA PlanBecomesSchedule ==
    ASSUME NEW s \in Specs, Readable(s), \A c \in s.constraints : Buildable(s, c),
           ~Timed(s), NEW x \in [Tasks(s) -> Nat], Good(s, x)
    PROVE  \E y \in Schedules(s, Horizon(s)) :
               Makespan(s, y) \in Nat /\ Makespan(s, y) <= Makespan(s, x)
<1> DEFINE k == Makespan(s, x)
           total == Total(Durations(s), Tasks(s))
<1>1. k \in Nat /\ Placed(s, x, k)
  BY GoodIsPlaced
<1>2. PICK j \in Nat : j <= k /\ j <= total /\ \E y : Placed(s, y, j)
  <2> HIDE DEF k
  <2> QED
    BY <1>1, PlacedWithinDurations
<1>3. PICK y : Placed(s, y, j)
  BY <1>2
<1>4. total \in Int /\ total <= Horizon(s) /\ Horizon(s) \in Nat
  <2>1. IsFiniteSet(Tasks(s)) /\ \A t \in Tasks(s) : Durations(s)[t] \in Int
    BY SpecsAssumption, DurationType DEF Durations
  <2> QED
    BY <2>1, TotalAny, HorizonIsLong, HorizonType
<1> HIDE DEF k, total
<1>5. j <= Horizon(s)
  BY <1>2, <1>4
<1>6. y \in Schedules(s, Horizon(s)) /\ Makespan(s, y) \in Nat /\ Makespan(s, y) <= j
  BY <1>3, <1>5, PlacedIsAdmitted
<1>7. Makespan(s, y) <= k
  BY <1>1, <1>2, <1>6
<1> QED
  BY <1>6, <1>7 DEF k

-----------------------------------------------------------------------------
(* The invariant.                                                           *)

\* The variables keep their types, the model is the one of the spec, and an
\* answer with a schedule is a schedule of that model.
THEOREM Inductive == Spec => []IInv
<1>1. Init => IInv
  BY DEF Init, IInv, TypeOK, BuiltSpec, AdmittedSchedule, HonestAnswer
<1>2. IInv /\ [Next]_vars => IInv'
  <2> SUFFICES ASSUME IInv, [Next]_vars PROVE IInv'
    OBVIOUS
  <2> USE DEF IInv, TypeOK, BuiltSpec
  <2>1. CASE Build
    BY <2>1, HorizonType DEF Build, AdmittedSchedule, HonestAnswer
  <2>2. CASE BuildFails
    BY <2>2 DEF BuildFails, AdmittedSchedule, HonestAnswer
  <2>3. ASSUME NEW x \in Schedules(spec, horizon), NEW outcome \in {"optimal", "feasible"},
               Answer(outcome, x),
               outcome = "optimal" => x \in BestOf(spec, Schedules(spec, horizon))
        PROVE  IInv'
    <3>1. spec \in Specs /\ Readable(spec) /\ horizon \in Int
      BY <2>3 DEF Answer
    <3>2. x \in [Tasks(spec) -> Int]
      BY <3>1, ScheduleType
    <3>3. TypeOK' /\ BuiltSpec' /\ AdmittedSchedule'
      BY <2>3, <3>1, <3>2 DEF Answer, AdmittedSchedule
    <3>4. HonestAnswer'
      BY <2>3 DEF Answer, HonestAnswer
    <3> QED
      BY <3>3, <3>4
  <2>4. CASE SolveOptimal
    <3>1. PICK x \in BestOf(spec, Schedules(spec, horizon)) : Answer("optimal", x)
      BY <2>4 DEF SolveOptimal
    <3>2. x \in Schedules(spec, horizon)
      BY <3>1 DEF BestOf
    <3> QED
      BY <2>3, <3>1, <3>2
  <2>5. CASE SolveFeasible
    BY <2>3, <2>5 DEF SolveFeasible
  <2>6. CASE SolveUnknown
    BY <2>6 DEF SolveUnknown, Answer, AdmittedSchedule, HonestAnswer
  <2>7. CASE SolveInfeasible
    BY <2>7 DEF SolveInfeasible, Answer, AdmittedSchedule, HonestAnswer
  <2>8. CASE UNCHANGED vars
    BY <2>8 DEF vars, AdmittedSchedule, HonestAnswer
  <2> QED
    BY <2>1, <2>2, <2>4, <2>5, <2>6, <2>7, <2>8 DEF Next
<1> QED
  BY <1>1, <1>2, PTL DEF Spec

\* The variables keep their types, whatever the specs.
THEOREM TypeCorrect == Spec => []TypeOK
<1>1. IInv => TypeOK
  BY DEF IInv
<1> QED
  BY <1>1, Inductive, PTL

\* Every schedule the solver may answer with keeps the windows and every
\* constraint at every moment, for every set of specs the reference reaches.
THEOREM SchedulesAreGood == Spec => []SchedulesKeepConstraints
<1>1. IInv => SchedulesKeepConstraints
  <2> SUFFICES ASSUME IInv, status \in {"optimal", "feasible"}
               PROVE  Good(spec, start)
    BY DEF SchedulesKeepConstraints
  <2>1. /\ spec \in Specs /\ Readable(spec)
        /\ \A c \in spec.constraints : Buildable(spec, c)
        /\ start \in Schedules(spec, Horizon(spec))
    BY DEF IInv, BuiltSpec, AdmittedSchedule
  <2> QED
    BY <2>1, AdmittedIsGood
<1> QED
  BY <1>1, Inductive, PTL

\* Without release times and windows the horizon costs no solution and no better
\* optimum, for specs of any size: a plan can be closed up, idle moment by idle
\* moment, until it ends within the sum of the durations.
THEOREM HorizonIsEnough == Spec => []HorizonSuffices
<1>1. IInv => HorizonSuffices
  <2> SUFFICES ASSUME IInv, ~Timed(spec),
                      \/ status = "infeasible"
                      \/ status = "optimal" /\ ~Weighted(spec) /\ ~spec.maximize,
                      NEW x \in Plans, Good(spec, x),
                      status = "optimal" => Makespan(spec, x) < Makespan(spec, start)
               PROVE  FALSE
    BY DEF HorizonSuffices
  <2> DEFINE S == Schedules(spec, Horizon(spec))
  <2>1. /\ spec \in Specs /\ Readable(spec) /\ horizon = Horizon(spec)
        /\ \A c \in spec.constraints : Buildable(spec, c)
    BY DEF IInv, BuiltSpec, HonestAnswer
  <2>2. x \in [Tasks(spec) -> Nat]
    BY LatestAssumption DEF Plans
  <2>3. PICK y \in S : /\ Makespan(spec, y) \in Nat
                       /\ Makespan(spec, y) <= Makespan(spec, x)
    BY <2>1, <2>2, PlanBecomesSchedule
  <2>4. CASE status = "infeasible"
    BY <2>1, <2>3, <2>4 DEF IInv, HonestAnswer
  <2>5. CASE status = "optimal" /\ ~Weighted(spec) /\ ~spec.maximize
    <3>1. start \in BestOf(spec, S)
      BY <2>1, <2>5 DEF IInv, HonestAnswer
    <3>2. \A z \in S : Makespan(spec, z) \in 0..Horizon(spec)
      BY <2>5, Zenon DEF Schedules
    <3> HIDE DEF S
    <3>3. start \in S /\ Makespan(spec, start) = Min({Objective(spec, z) : z \in S})
      BY <2>5, <3>1 DEF BestOf, Objective
    <3> DEFINE Values == {Objective(spec, z) : z \in S}
    <3>4. Values \subseteq 0..Horizon(spec) /\ Makespan(spec, y) \in Values
      BY <2>3, <2>5, <3>2 DEF Objective
    <3>5. Makespan(spec, start) = Min(Values)
      BY <3>3
    <3> HIDE DEF Values
    <3>6. IsFiniteSet(Values) /\ Values \subseteq Int /\ Horizon(spec) \in Nat
      <4>1. Horizon(spec) \in Nat
        BY <2>1, HorizonType
      <4>2. IsFiniteSet(0..Horizon(spec))
        BY <4>1, FS_Interval
      <4>3. IsFiniteSet(Values)
        BY <3>4, <4>2, FS_Subset
      <4> QED
        BY <3>4, <4>1, <4>3
    <3>7. Min(Values) \in Values /\ Min(Values) <= Makespan(spec, y)
      BY <3>4, <3>6, Extremes
    <3>8. Makespan(spec, x) \in Nat
      BY <2>1, <2>2, GoodIsPlaced
    <3>9. Makespan(spec, x) < Makespan(spec, start)
      BY <2>5
    <3>10. Makespan(spec, start) \in Int
      BY <3>5, <3>6, <3>7
    <3>11. Makespan(spec, start) <= Makespan(spec, x)
      BY <2>3, <3>5, <3>7, <3>8, <3>10
    <3> QED
      BY <3>8, <3>9, <3>10, <3>11
  <2> QED
    BY <2>4, <2>5
<1> QED
  BY <1>1, Inductive, PTL

=============================================================================
