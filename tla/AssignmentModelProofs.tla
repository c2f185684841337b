----------------------- MODULE AssignmentModelProofs -----------------------
(***************************************************************************)
(* Proofs about the assignment and allocation models, for every set of     *)
(* specs.  First what the rows of each builder mean for a plan, then what  *)
(* every step keeps, and last the properties of AssignmentMeaning and      *)
(* AllocationModel.                                                        *)
(***************************************************************************)
EXTENDS AllocationModel, SumProofs

-----------------------------------------------------------------------------
(* Agents, tasks and pairs.                                                 *)

\* The split names categories, and two of them.
RolesNamed(s) == Split(s)[1] \in Categories(s) /\ Split(s)[2] \in Categories(s)
TwoRoles(s) == RolesNamed(s) /\ Split(s)[1] # Split(s)[2]

\* Parameters and attributes that are counted with are numbers.
LEMMA NumbersOfSpec ==
    ASSUME NEW s \in Specs, NEW n \in Int
    PROVE  /\ \A e \in Entities(s) : \A f : AttrOr(s, e, f, n) \in Int /\ Attr(s, e, f) \in Values
           /\ \A p : Wide(s, p) \in Values
           /\ \A c \in s.constraints : \A key \in {"limit", "count", "min", "max"} :
                 ParamOr(c, key, n) \in Int
           /\ s.globalLimit \in Int
<1>1. \A e \in Entities(s) : \A f : Attr(s, e, f) \in Values
  BY SpecsAssumption DEF Attr, Missing, Values
<1>2. \A e \in Entities(s) : \A f : AttrOr(s, e, f, n) \in Int
  BY <1>1 DEF AttrOr, Values, Word, Missing
<1>3. \A p : Wide(s, p) \in Values
  BY SpecsAssumption DEF Wide, Missing, Values
<1>4. \A c \in s.constraints : \A key \in {"limit", "count", "min", "max"} :
         ParamOr(c, key, n) \in Int
  <2> SUFFICES ASSUME NEW c \in s.constraints, NEW key \in {"limit", "count", "min", "max"}
               PROVE  ParamOr(c, key, n) \in Int
    OBVIOUS
  <2>1. Param(c, key) \in Int \cup {Absent}
    BY SpecsAssumption
  <2> QED
    BY <2>1 DEF ParamOr
<1> QED
  BY <1>1, <1>2, <1>3, <1>4, SpecsAssumption

\* Agents and tasks are finitely many.
LEMMA RolesAreFinite ==
    ASSUME NEW s \in Specs, RolesNamed(s)
    PROVE  /\ IsFiniteSet(Agents(s)) /\ IsFiniteSet(Tasks(s)) /\ IsFiniteSet(Pairs(s))
           /\ Agents(s) \subseteq Entities(s) /\ Tasks(s) \subseteq Entities(s)
<1>1. /\ IsFiniteSet(Agents(s)) /\ IsFiniteSet(Tasks(s))
      /\ Agents(s) \subseteq Entities(s) /\ Tasks(s) \subseteq Entities(s)
  BY SpecsAssumption DEF RolesNamed, Agents, Tasks, Entities
<1>2. IsFiniteSet(Pairs(s))
  BY <1>1, FS_Product DEF Pairs
<1> QED
  BY <1>1, <1>2

\* With two categories nobody is both.
LEMMA RolesAreApart ==
    ASSUME NEW s \in Specs, TwoRoles(s)
    PROVE  RolesNamed(s) /\ Agents(s) \cap Tasks(s) = {}
BY SpecsAssumption DEF TwoRoles, RolesNamed, Agents, Tasks

\* What the rows read of agents and tasks.
LEMMA AttributeTypes ==
    ASSUME NEW s \in Specs, RolesNamed(s)
    PROVE  \A e \in Agents(s) \cup Tasks(s) : \A f :
               Attr(s, e, f) \in Values /\ AttrOr(s, e, f, 0) \in Int
<1>1. Agents(s) \cup Tasks(s) \subseteq Entities(s)
  BY RolesAreFinite
<1>2. \A e \in Entities(s) : \A f : AttrOr(s, e, f, 0) \in Int /\ Attr(s, e, f) \in Values
  <2>1. 0 \in Int
    OBVIOUS
  <2> QED
    BY <2>1, NumbersOfSpec, Zenon
<1> QED
  BY <1>1, <1>2

\* The pairs of a plan are finitely many, of an agent and a task each.
LEMMA PairsAreFinite ==
    ASSUME NEW s \in Specs, RolesNamed(s), NEW x \in SUBSET Pairs(s)
    PROVE  IsFiniteSet(x) /\ \A p \in x : p[1] \in Agents(s) /\ p[2] \in Tasks(s)
                                         /\ p = <<p[1], p[2]>>
<1>1. IsFiniteSet(x)
  BY RolesAreFinite, FS_Subset
<1>2. \A p \in x : p[1] \in Agents(s) /\ p[2] \in Tasks(s) /\ p = <<p[1], p[2]>>
  BY DEF Pairs
<1> QED
  BY <1>1, <1>2

\* A coefficient is a number, and one without a table the first number found.
LEMMA LeastOfThree ==
    ASSUME NEW found \in SUBSET (1..3), found # {}
    PROVE  /\ Min(found) \in found
           /\ 1 \in found => Min(found) = 1
           /\ 1 \notin found /\ 2 \in found => Min(found) = 2
<1>1. PICK m \in found : \A n \in found : m <= n
  <2>1. CASE 1 \in found
    BY <2>1
  <2>2. CASE 1 \notin found /\ 2 \in found
    BY <2>2
  <2>3. CASE 1 \notin found /\ 2 \notin found
    <3>1. \A n \in found : n = 3
      BY <2>3
    <3>2. 3 <= 3
      OBVIOUS
    <3> QED
      BY <3>1, <3>2
  <2> QED
    BY <2>1, <2>2, <2>3
<1>2. Min(found) \in found /\ \A n \in found : Min(found) <= n
  BY <1>1 DEF Min
<1>3. Min(found) \in 1..3
  BY <1>2
<1>4. 1 \in found => Min(found) = 1
  BY <1>2, <1>3
<1>5. 1 \notin found /\ 2 \in found => Min(found) = 2
  BY <1>2, <1>3
<1> QED
  BY <1>2, <1>4, <1>5

\* A coefficient is a number.
LEMMA CoefficientType ==
    ASSUME NEW s \in Specs, RolesNamed(s), NEW p \in Pairs(s), NEW field, NEW table,
           Key(s, p) \in DOMAIN table => table[Key(s, p)] \in Int
    PROVE  PairCoefficient(s, p, field, table) \in Int
<1> DEFINE sources == <<Wide(s, p), Attr(s, p[2], field), Attr(s, p[1], field)>>
           found == {i \in 1..3 : sources[i].kind = "number"}
<1>1. p[1] \in Entities(s) /\ p[2] \in Entities(s)
  BY PairsAreFinite, RolesAreFinite
<1>2. Wide(s, p) \in Values /\ Attr(s, p[2], field) \in Values /\ Attr(s, p[1], field) \in Values
  BY <1>1, NumbersOfSpec
<1>3. \A i \in 1..3 : sources[i] \in Values
  BY <1>2
<1>4. found # {} => Min(found) \in 1..3
  <2>1. found \in SUBSET (1..3)
    OBVIOUS
  <2> HIDE DEF found
  <2> QED
    BY <2>1, LeastOfThree
<1>5. found # {} => sources[Min(found)].n \in Int
  <2> HIDE DEF sources, found
  <2> QED
    BY <1>3, <1>4 DEF Values, Word, Missing
<1>6. PairCoefficient(s, p, field, table) =
         IF Key(s, p) \in DOMAIN table THEN table[Key(s, p)]
         ELSE IF field = Absent \/ found = {} THEN 1 ELSE sources[Min(found)].n
  BY DEF PairCoefficient
<1> HIDE DEF sources, found
<1> QED
  BY <1>5, <1>6

\* The empty function is defined nowhere.
LEMMA TableOfNothing == \A p : p \notin DOMAIN <<>>
OBVIOUS

\* The pairs of a plan that one entity is in.
Chosen(x, k, e) == {p \in x : p[k] = e}

\* The partners of an agent are tasks, those of a task agents.
LEMMA PartnersAreChosen ==
    ASSUME NEW s \in Specs, TwoRoles(s), NEW x \in SUBSET Pairs(s)
    PROVE  /\ \A a \in Agents(s) : Partners(x, a) = {p[2] : p \in Chosen(x, 1, a)}
           /\ \A t \in Tasks(s) : Partners(x, t) = {p[1] : p \in Chosen(x, 2, t)}
BY PairsAreFinite, RolesAreApart DEF Partners, Chosen

\* A row of ones counts partners.
LEMMA OnesCount ==
    ASSUME NEW s \in Specs, RolesNamed(s), NEW x \in SUBSET Pairs(s), NEW S
    PROVE  Total(OneWhere(s, S), x) = Cardinality(x \cap S)
<1>1. IsFiniteSet(x) /\ IsFiniteSet(x \cap S) /\ x \cap S \in SUBSET x
  BY PairsAreFinite, FS_Subset
<1>2. \A p \in x : OneWhere(s, S)[p] = IF p \in S THEN 1 ELSE 0
  BY DEF OneWhere
<1>3. Total(OneWhere(s, S), x) = Total(OneWhere(s, S), x \cap S)
  BY <1>1, <1>2, TotalOfSome
<1>4. Total(OneWhere(s, S), x \cap S) = 1 * Cardinality(x \cap S)
  BY <1>1, <1>2, TotalOfConstant
<1>5. Cardinality(x \cap S) \in Nat
  BY <1>1, FS_CardinalityType
<1> QED
  BY <1>3, <1>4, <1>5

\* As many partners as pairs.
LEMMA AsManyPartners ==
    ASSUME NEW S, IsFiniteSet(S), NEW m, \A d, e \in S : m[d] = m[e] => d = e
    PROVE  Cardinality({m[e] : e \in S}) = Cardinality(S)
<1> DEFINE T == {m[e] : e \in S}
           F == [e \in S |-> m[e]]
<1>1. F \in Surjection(S, T) /\ F \in Injection(S, T)
  BY DEF Surjection, Injection, IsInjective
<1>2. IsFiniteSet(T) /\ (Cardinality(T) = Cardinality(S) <=> F \in Injection(S, T))
  <2> HIDE DEF F, T
  <2> QED
    BY <1>1, FS_Surjection
<1> QED
  BY <1>1, <1>2

\* Rows of ones count the partners of an agent or a task.
LEMMA PartnersCount ==
    ASSUME NEW s \in Specs, TwoRoles(s), NEW x \in SUBSET Pairs(s)
    PROVE  /\ \A a \in Agents(s) :
                 Total(OneWhere(s, Of(s, 1, a)), x) = Cardinality(Partners(x, a))
           /\ \A t \in Tasks(s) :
                 Total(OneWhere(s, Of(s, 2, t)), x) = Cardinality(Partners(x, t))
<1>1. ASSUME NEW a \in Agents(s)
      PROVE  Total(OneWhere(s, Of(s, 1, a)), x) = Cardinality(Partners(x, a))
  <2> DEFINE S == Chosen(x, 1, a)
             m == [p \in Pairs(s) |-> p[2]]
  <2>1. x \cap Of(s, 1, a) = S /\ S \in SUBSET x
    BY DEF Of, Chosen
  <2>2. IsFiniteSet(S)
    BY <2>1, RolesAreApart, PairsAreFinite, FS_Subset
  <2>3. \A d, e \in S : m[d] = m[e] => d = e
    <3>1. \A d \in S : d \in x /\ d[1] = a /\ m[d] = d[2] /\ d = <<d[1], d[2]>>
      BY RolesAreApart, PairsAreFinite DEF Chosen
    <3> HIDE DEF S, m
    <3> QED
      BY <3>1
  <2>4. Partners(x, a) = {m[p] : p \in S}
    <3>1. \A p \in S : m[p] = p[2]
      BY DEF Chosen
    <3>2. Partners(x, a) = {p[2] : p \in S}
      BY PartnersAreChosen
    <3> HIDE DEF S, m
    <3> QED
      BY <3>1, <3>2
  <2> HIDE DEF S, m
  <2>5. Cardinality({m[p] : p \in S}) = Cardinality(S)
    BY <2>2, <2>3, AsManyPartners
  <2> QED
    BY <2>1, <2>4, <2>5, RolesAreApart, OnesCount
<1>2. ASSUME NEW t \in Tasks(s)
      PROVE  Total(OneWhere(s, Of(s, 2, t)), x) = Cardinality(Partners(x, t))
  <2> DEFINE S == Chosen(x, 2, t)
             m == [p \in Pairs(s) |-> p[1]]
  <2>1. x \cap Of(s, 2, t) = S /\ S \in SUBSET x
    BY DEF Of, Chosen
  <2>2. IsFiniteSet(S)
    BY <2>1, RolesAreApart, PairsAreFinite, FS_Subset
  <2>3. \A d, e \in S : m[d] = m[e] => d = e
    <3>1. \A d \in S : d \in x /\ d[2] = t /\ m[d] = d[1] /\ d = <<d[1], d[2]>>
      BY RolesAreApart, PairsAreFinite DEF Chosen
    <3> HIDE DEF S, m
    <3> QED
      BY <3>1
  <2>4. Partners(x, t) = {m[p] : p \in S}
    <3>1. \A p \in S : m[p] = p[1]
      BY DEF Chosen
    <3>2. Partners(x, t) = {p[1] : p \in S}
      BY PartnersAreChosen
    <3> HIDE DEF S, m
    <3> QED
      BY <3>1, <3>2
  <2> HIDE DEF S, m
  <2>5. Cardinality({m[p] : p \in S}) = Cardinality(S)
    BY <2>2, <2>3, AsManyPartners
  <2> QED
    BY <2>1, <2>4, <2>5, RolesAreApart, OnesCount
<1> QED
  BY <1>1, <1>2

\* The tasks of an agent in a plan, and what they demand.
TasksOf(s, x, a) == {t \in Tasks(s) : <<a, t>> \in x}
Carried(s, x, a, f) ==
    Total([t \in TasksOf(s, x, a) |-> AttrOr(s, t, f, 0)], TasksOf(s, x, a))

\* A row of demands sums what the tasks of the agent demand.
LEMMA LoadsSum ==
    ASSUME NEW s \in Specs, RolesNamed(s), NEW x \in SUBSET Pairs(s), NEW a \in Agents(s),
           NEW f, NEW coef,
           coef = [p \in Pairs(s) |-> IF p[1] = a THEN AttrOr(s, p[2], f, 0) ELSE 0]
    PROVE  Total(coef, x) = Carried(s, x, a, f) /\ Total(coef, x) \in Int
<1> DEFINE S == Chosen(x, 1, a)
           m == [p \in Pairs(s) |-> p[2]]
           g == [i \in TasksOf(s, x, a) |-> AttrOr(s, i, f, 0)]
<1>1. IsFiniteSet(x) /\ S \in SUBSET x
  BY PairsAreFinite DEF Chosen
<1>2. IsFiniteSet(S)
  BY <1>1, FS_Subset
<1>3. \A p \in x : p[2] \in Entities(s)
  BY PairsAreFinite, RolesAreFinite
<1>4. \A p \in x : AttrOr(s, p[2], f, 0) \in Int
  BY <1>3, NumbersOfSpec
<1>5. \A p \in x : coef[p] \in Int /\ coef[p] = IF p[1] = a THEN AttrOr(s, p[2], f, 0) ELSE 0
  BY <1>4
<1>6. \A p \in x \ S : coef[p] = 0
  BY <1>5 DEF Chosen
<1>7. Total(coef, x) = Total(coef, S) /\ Total(coef, x) \in Int
  <2> HIDE DEF S
  <2> QED
    BY <1>1, <1>5, <1>6, TotalOfSome, TotalAny
<1>8. \A d, e \in S : m[d] = m[e] => d = e
  <2>1. \A d \in S : d \in x /\ d[1] = a /\ m[d] = d[2] /\ d = <<d[1], d[2]>>
    BY PairsAreFinite DEF Chosen
  <2> HIDE DEF S, m
  <2> QED
    BY <2>1
<1>9. TasksOf(s, x, a) = {m[p] : p \in S}
  <2>1. \A p \in S : m[p] = p[2]
    BY DEF Chosen
  <2>2. TasksOf(s, x, a) = {p[2] : p \in S}
    BY PairsAreFinite DEF TasksOf, Chosen
  <2> HIDE DEF S, m
  <2> QED
    BY <2>1, <2>2
<1>10. \A p \in S : coef[p] \in Int /\ coef[p] = g[m[p]]
  <2>1. \A p \in S : p \in x /\ p \in Pairs(s) /\ p[1] = a
    BY DEF Chosen
  <2>2. \A p \in S : m[p] \in TasksOf(s, x, a) /\ m[p] = p[2]
    <3>1. \A p \in S : m[p] = p[2]
      BY <2>1
    <3> HIDE DEF S, m
    <3> QED
      BY <1>9, <3>1
  <2>3. \A p \in S : g[m[p]] = AttrOr(s, p[2], f, 0)
    <3> HIDE DEF S, m
    <3> QED
      BY <2>2
  <2> HIDE DEF S, m, g
  <2> QED
    BY <1>5, <2>1, <2>3
<1>11. Total(g, TasksOf(s, x, a)) = Total(coef, S)
  <2> HIDE DEF S, m, g
  <2>1. Total(g, {m[p] : p \in S}) = Total(coef, S)
    BY ONLY <1>2, <1>8, <1>10, TotalOfImage, SMTT(30)
  <2> QED
    BY <1>9, <2>1
<1> QED
  BY <1>7, <1>11 DEF Carried

\* With two categories the partners of an agent are its tasks.
LEMMA DemandedIsCarried ==
    ASSUME NEW s \in Specs, TwoRoles(s), NEW x \in SUBSET Pairs(s), NEW a \in Agents(s), NEW f
    PROVE  /\ Partners(x, a) = TasksOf(s, x, a)
           /\ Demanded(s, x, a, f) = Carried(s, x, a, f)
<1>1. Partners(x, a) = TasksOf(s, x, a)
  BY PairsAreFinite, RolesAreApart DEF Partners, TasksOf
<1> QED
  BY <1>1 DEF Demanded, Carried

-----------------------------------------------------------------------------
(* What the rows mean.                                                      *)

\* When a row holds.
LEMMA RowHolds ==
    ASSUME NEW x, NEW c, NEW tag, NEW coef, NEW sense \in {"<=", "==", ">="}, NEW bound
    PROVE  Satisfies(x, Row(c, tag, coef, sense, bound)) <=>
               CASE sense = "<=" -> Total(coef, x) <= bound
                 [] sense = "==" -> Total(coef, x) = bound
                 [] sense = ">=" -> Total(coef, x) >= bound
BY DEF Satisfies, Row

\* The categories a constraint names are those of the agents and the tasks.
Agrees(s, c) ==
    /\ c.type = "one_per_entity" => Subject(s, c) \in {Split(s)[1], Split(s)[2]}
    /\ c.type \in {"capacity", "time_budget"} => Subject(s, c) = Split(s)[1]
    /\ c.type = "budget_limit" => Param(c, "limit") # 0

\* The rows of one_per_entity are what it means.
LEMMA OnePerEntityMeans ==
    ASSUME NEW s \in Specs, TwoRoles(s), NEW x \in SUBSET Pairs(s), NEW c \in s.constraints,
           c.type = "one_per_entity", Agrees(s, c)
    PROVE  (\A row \in Rows(s, c) : Satisfies(x, row)) <=> Means(s, c, x)
<1> DEFINE asked == ParamOr(c, "sense", "<=")
           sense == IF asked \in {">=", "=="} THEN asked ELSE "<="
           n == ParamOr(c, "count", ParamOr(c, "limit", 1))
           forAgents == Subject(s, c) = Split(s)[1]
           G == IF forAgents THEN Agents(s) ELSE Tasks(s)
           coef(g) == OneWhere(s, Of(s, IF forAgents THEN 1 ELSE 2, g))
<1>1. Rows(s, c) = {Row(c, s.id[g], coef(g), sense, n) : g \in G}
  BY DEF Rows, OnePerEntity, Subject
<1>2. s.members[Subject(s, c)] = G
  BY DEF Agrees, Agents, Tasks, TwoRoles
<1>3. Means(s, c, x) <=> \A g \in G : Compare(Cardinality(Partners(x, g)), asked, n)
  BY <1>2 DEF Means
<1>4. \A g \in G : Total(coef(g), x) = Cardinality(Partners(x, g))
  BY PartnersCount
<1>5. sense \in {"<=", "==", ">="}
  OBVIOUS
<1> HIDE DEF coef, G, n, forAgents
<1>6. \A g \in G : Satisfies(x, Row(c, s.id[g], coef(g), sense, n)) <=>
                     Compare(Cardinality(Partners(x, g)), asked, n)
  <2> SUFFICES ASSUME NEW g \in G
               PROVE  Satisfies(x, Row(c, s.id[g], coef(g), sense, n)) <=>
                      Compare(Cardinality(Partners(x, g)), asked, n)
    OBVIOUS
  <2>1. Satisfies(x, Row(c, s.id[g], coef(g), sense, n)) <=>
           CASE sense = "<=" -> Total(coef(g), x) <= n
             [] sense = "==" -> Total(coef(g), x) = n
             [] sense = ">=" -> Total(coef(g), x) >= n
    <3> HIDE DEF sense
    <3>1. \A tag : Satisfies(x, Row(c, tag, coef(g), sense, n)) <=>
                      CASE sense = "<=" -> Total(coef(g), x) <= n
                        [] sense = "==" -> Total(coef(g), x) = n
                        [] sense = ">=" -> Total(coef(g), x) >= n
      BY <1>5, RowHolds, Zenon
    <3> QED
      BY <3>1
  <2> QED
    BY <1>4, <2>1 DEF Compare
<1> HIDE DEF sense, asked
<1> QED
  BY <1>1, <1>3, <1>6

\* The rows of demand_coverage are what it means.
LEMMA DemandCoverageMeans ==
    ASSUME NEW s \in Specs, TwoRoles(s), NEW x \in SUBSET Pairs(s), NEW c \in s.constraints,
           c.type = "demand_coverage"
    PROVE  (\A row \in Rows(s, c) : Satisfies(x, row)) <=> Means(s, c, x)
<1> DEFINE sense == IF Param(c, "sense") = ">=" THEN ">=" ELSE "=="
           n == ParamOr(c, "count", 1)
           coef(t) == OneWhere(s, Of(s, 2, t))
           Covered(t) == IF Param(c, "sense") = ">=" THEN Cardinality(Partners(x, t)) >= n
                         ELSE Cardinality(Partners(x, t)) = n
<1>1. Rows(s, c) = {Row(c, s.id[t], coef(t), sense, n) : t \in Tasks(s)}
  BY DEF Rows, DemandCoverage
<1>2. Means(s, c, x) <=> \A t \in Tasks(s) : Covered(t)
  BY DEF Means
<1>3. \A t \in Tasks(s) : Total(coef(t), x) = Cardinality(Partners(x, t))
  BY PartnersCount
<1>4. sense \in {"<=", "==", ">="}
  OBVIOUS
<1> HIDE DEF coef, n
<1>5. \A t \in Tasks(s) : Satisfies(x, Row(c, s.id[t], coef(t), sense, n)) <=> Covered(t)
  <2> SUFFICES ASSUME NEW t \in Tasks(s)
               PROVE  Satisfies(x, Row(c, s.id[t], coef(t), sense, n)) <=> Covered(t)
    OBVIOUS
  <2>1. Satisfies(x, Row(c, s.id[t], coef(t), sense, n)) <=>
           CASE sense = "<=" -> Total(coef(t), x) <= n
             [] sense = "==" -> Total(coef(t), x) = n
             [] sense = ">=" -> Total(coef(t), x) >= n
    <3> HIDE DEF sense
    <3>1. \A tag : Satisfies(x, Row(c, tag, coef(t), sense, n)) <=>
                      CASE sense = "<=" -> Total(coef(t), x) <= n
                        [] sense = "==" -> Total(coef(t), x) = n
                        [] sense = ">=" -> Total(coef(t), x) >= n
      BY <1>4, RowHolds, Zenon
    <3> QED
      BY <3>1
  <2> QED
    BY <1>3, <2>1
<1> HIDE DEF sense, Covered
<1> QED
  BY <1>1, <1>2, <1>5

\* A load keeps its bound when the tasks of each agent demand no more.
LEMMA LoadHolds ==
    ASSUME NEW s \in Specs, RolesNamed(s), NEW x \in SUBSET Pairs(s), NEW c, NEW f, NEW bound
    PROVE  (\A row \in Load(s, c, f, bound) : Satisfies(x, row)) <=>
               \A a \in Agents(s) : Carried(s, x, a, f) <= bound[a]
<1> DEFINE coef(a) == [p \in Pairs(s) |-> IF p[1] = a THEN AttrOr(s, p[2], f, 0) ELSE 0]
<1>1. Load(s, c, f, bound) = {Row(c, s.id[a], coef(a), "<=", bound[a]) : a \in Agents(s)}
  BY DEF Load
<1>2. \A a \in Agents(s) : Total(coef(a), x) = Carried(s, x, a, f)
  BY LoadsSum
<1> HIDE DEF coef
<1>3. \A a \in Agents(s) : Satisfies(x, Row(c, s.id[a], coef(a), "<=", bound[a])) <=>
                            Carried(s, x, a, f) <= bound[a]
  BY <1>2, RowHolds
<1> QED
  BY <1>1, <1>3

\* The same of what the partners of an agent demand.
LEMMA LoadMeans ==
    ASSUME NEW s \in Specs, TwoRoles(s), NEW x \in SUBSET Pairs(s), NEW c, NEW f, NEW bound
    PROVE  (\A row \in Load(s, c, f, bound) : Satisfies(x, row)) <=>
               \A a \in Agents(s) : Demanded(s, x, a, f) <= bound[a]
<1>1. RolesNamed(s)
  BY DEF TwoRoles
<1> QED
  BY <1>1, LoadHolds, DemandedIsCarried

\* The capacities of a constraint are not negative.
Counts(s, c) ==
    c.type = "capacity" =>
        \A e \in s.members[Subject(s, c)] :
            Attr(s, e, ParamOr(c, "resource_field", "capacity")).n >= 0

\* What a resource holds: its number if it has one, and nothing is less than nothing.
LEMMA Held ==
    ASSUME NEW n \in Int
    PROVE  /\ Max({0, n}) \in Nat /\ n <= Max({0, n})
           /\ n >= 0 => Max({0, n}) = n
<1>1. IsFiniteSet({0, n}) /\ {0, n} \subseteq Int /\ {0, n} # {} /\ 0 \in {0, n} /\ n \in {0, n}
  <2>1. IsFiniteSet({0} \cup {n})
    BY FS_Singleton, FS_AddElement
  <2>2. {0, n} = {0} \cup {n}
    OBVIOUS
  <2> QED
    BY <2>1, <2>2
<1>2. Max({0, n}) \in {0, n} /\ \A m \in {0, n} : Max({0, n}) >= m
  BY <1>1, Extremes
<1> QED
  BY <1>2

\* A number is never above what it is treated as, and is that when it is not negative.
LEMMA CeilingBounds ==
    ASSUME NEW s \in Specs, RolesNamed(s), NEW a \in Agents(s), NEW f, NEW n \in Int
    PROVE  /\ AttrOr(s, a, f, n) \in Int /\ Ceiling(s, a, f, n) \in Int
           /\ AttrOr(s, a, f, n) <= Ceiling(s, a, f, n)
           /\ Attr(s, a, f).n >= 0 => AttrOr(s, a, f, n) = Ceiling(s, a, f, n)
           /\ n >= 0 => Ceiling(s, a, f, n) >= 0
<1>1. a \in Entities(s)
  BY RolesAreFinite
<1>2. AttrOr(s, a, f, n) \in Int /\ Attr(s, a, f) \in Values
  BY <1>1, NumbersOfSpec
<1>3. Attr(s, a, f).n \in Int
  BY <1>2 DEF Values, Word, Missing
<1>4. CASE Attr(s, a, f) = Missing
  BY <1>2, <1>4 DEF AttrOr, Ceiling
<1>5. CASE Attr(s, a, f) # Missing
  <2>1. AttrOr(s, a, f, n) = Attr(s, a, f).n /\ Ceiling(s, a, f, n) = Max({0, Attr(s, a, f).n})
    BY <1>5 DEF AttrOr, Ceiling
  <2>2. /\ Max({0, Attr(s, a, f).n}) \in Nat /\ Attr(s, a, f).n <= Max({0, Attr(s, a, f).n})
        /\ Attr(s, a, f).n >= 0 => Max({0, Attr(s, a, f).n}) = Attr(s, a, f).n
    BY <1>3, Held
  <2> QED
    BY <1>3, <2>1, <2>2
<1> QED
  BY <1>4, <1>5

\* The rows of capacity are what it means, but that they take a negative one as it is.
LEMMA CapacityMeans ==
    ASSUME NEW s \in Specs, TwoRoles(s), NEW x \in SUBSET Pairs(s), NEW c \in s.constraints,
           c.type = "capacity", Agrees(s, c)
    PROVE  /\ (\A row \in Rows(s, c) : Satisfies(x, row)) => Means(s, c, x)
           /\ Counts(s, c) /\ Means(s, c, x) => \A row \in Rows(s, c) : Satisfies(x, row)
<1> DEFINE f == ParamOr(c, "resource_field", "capacity")
           g == ParamOr(c, "demand_field", "demand")
           limit == ParamOr(c, "limit", 0)
           bound == [a \in Agents(s) |-> AttrOr(s, a, f, limit)]
<1>1. Rows(s, c) = Load(s, c, g, bound)
  BY DEF Rows, Capacity
<1>2. Means(s, c, x) <=> \A a \in Agents(s) : Demanded(s, x, a, g) <= Ceiling(s, a, f, limit)
  BY DEF Means, Agrees, Agents
<1>3. limit \in Int /\ RolesNamed(s)
  BY NumbersOfSpec DEF TwoRoles
<1>4. Counts(s, c) => \A a \in Agents(s) : Attr(s, a, f).n >= 0
  BY DEF Counts, Agrees, Agents
<1>5. \A a \in Agents(s) : bound[a] = AttrOr(s, a, f, limit)
  OBVIOUS
<1> HIDE DEF bound, f, g, limit
<1>6. (\A row \in Rows(s, c) : Satisfies(x, row))
         <=> \A a \in Agents(s) : Demanded(s, x, a, g) <= bound[a]
  BY <1>1, LoadMeans
<1>7. ASSUME NEW a \in Agents(s)
      PROVE  /\ Demanded(s, x, a, g) <= bound[a] => Demanded(s, x, a, g) <= Ceiling(s, a, f, limit)
             /\ Attr(s, a, f).n >= 0 => bound[a] = Ceiling(s, a, f, limit)
  <2>1. Demanded(s, x, a, g) \in Int
    <3> DEFINE coef == [p \in Pairs(s) |-> IF p[1] = a THEN AttrOr(s, p[2], g, 0) ELSE 0]
    <3>1. Total(coef, x) = Carried(s, x, a, g) /\ Total(coef, x) \in Int
      BY <1>3, LoadsSum
    <3> QED
      BY <3>1, DemandedIsCarried
  <2>2. /\ AttrOr(s, a, f, limit) \in Int /\ Ceiling(s, a, f, limit) \in Int
        /\ AttrOr(s, a, f, limit) <= Ceiling(s, a, f, limit)
        /\ Attr(s, a, f).n >= 0 => AttrOr(s, a, f, limit) = Ceiling(s, a, f, limit)
    BY <1>3, CeilingBounds
  <2> QED
    BY <1>5, <2>1, <2>2
<1> QED
  BY <1>2, <1>4, <1>6, <1>7

\* The rows of time_budget are what it means.
LEMMA TimeBudgetMeans ==
    ASSUME NEW s \in Specs, TwoRoles(s), NEW x \in SUBSET Pairs(s), NEW c \in s.constraints,
           c.type = "time_budget", Agrees(s, c)
    PROVE  (\A row \in Rows(s, c) : Satisfies(x, row)) <=> Means(s, c, x)
<1> DEFINE f == Param(c, "resource_field")
           g == ParamOr(c, "duration_field", ParamOr(c, "demand_field", "duration"))
           n == ParamOr(c, "limit", 0)
           bound == [a \in Agents(s) |-> IF f = Absent THEN n ELSE AttrOr(s, a, f, n)]
<1>1. Rows(s, c) = Load(s, c, g, bound)
  BY DEF Rows, TimeBudget
<1>2. Means(s, c, x) <=> \A a \in Agents(s) : Demanded(s, x, a, g) <= Offered(s, c, a, f)
  BY DEF Means, Agrees, Agents
<1>3. \A a \in Agents(s) : Offered(s, c, a, f) = bound[a]
  BY DEF Offered
<1> HIDE DEF bound, f, g
<1> QED
  BY <1>1, <1>2, <1>3, LoadMeans

\* The rows of compatibility are what it means.
LEMMA CompatibilityMeans ==
    ASSUME NEW s \in Specs, TwoRoles(s), NEW x \in SUBSET Pairs(s), NEW c \in s.constraints,
           c.type = "compatibility"
    PROVE  (\A row \in Rows(s, c) : Satisfies(x, row)) <=> Means(s, c, x)
<1> DEFINE Blocked == {p \in Pairs(s) :
               \/ s.allowed # {} /\ Key(s, p) \notin s.allowed
               \/ s.needs[p[2]] # Absent /\ s.skills[p[1]] \cap s.needs[p[2]] = {}}
<1>1. Rows(s, c) = {Row(c, Key(s, p), OneWhere(s, {p}), "==", 0) : p \in Blocked}
  BY DEF Rows, Compatibility
<1>2. Means(s, c, x) <=> \A p \in Blocked : p \notin x
  BY DEF Means
<1> HIDE DEF Blocked
<1>3. ASSUME NEW p
      PROVE  Satisfies(x, Row(c, Key(s, p), OneWhere(s, {p}), "==", 0)) <=> p \notin x
  <2>1. Total(OneWhere(s, {p}), x) = Cardinality(x \cap {p})
    BY RolesAreApart, OnesCount
  <2>2. IsFiniteSet(x \cap {p})
    BY RolesAreApart, PairsAreFinite, FS_Subset
  <2>3. Cardinality(x \cap {p}) = 0 <=> x \cap {p} = {}
    BY <2>2, FS_EmptySet
  <2> QED
    BY <2>1, <2>3, RowHolds
<1> QED
  BY <1>1, <1>2, <1>3

\* The row of budget_limit is what it means.
LEMMA BudgetLimitMeans ==
    ASSUME NEW s \in Specs, TwoRoles(s), NEW x \in SUBSET Pairs(s), NEW c \in s.constraints,
           c.type = "budget_limit", Agrees(s, c)
    PROVE  (\A row \in Rows(s, c) : Satisfies(x, row)) <=> Means(s, c, x)
<1> DEFINE field == ParamOr(c, "demand_field", Param(c, "resource_field"))
           coef == [p \in Pairs(s) |-> PairCoefficient(s, p, field, <<>>)]
           spent == [p \in x |-> PairCoefficient(s, p, field, <<>>)]
           limit == IF ParamOr(c, "limit", 0) = 0 THEN s.globalLimit ELSE Param(c, "limit")
<1>1. Rows(s, c) = {Row(c, "total", coef, "<=", limit)}
  BY DEF Rows, BudgetLimit
<1>2. limit = ParamOr(c, "limit", s.globalLimit)
  BY DEF Agrees, ParamOr
<1>3. Means(s, c, x) <=> Total(spent, x) <= limit
  BY <1>2 DEF Means
<1>4. Total(spent, x) = Total(coef, x)
  <2>1. \A p \in x : coef[p] \in Int /\ spent[p] = coef[p]
    BY RolesAreApart, CoefficientType, TableOfNothing
  <2> QED
    BY <2>1, RolesAreApart, PairsAreFinite, TotalSame
<1> HIDE DEF coef, spent, limit
<1> QED
  BY <1>1, <1>3, <1>4, RowHolds

\* The rows of a constraint hold of a plan exactly when the plan keeps the
\* constraint, and of no other plan with negative capacities.
LEMMA RowsMean ==
    ASSUME NEW s \in Specs, TwoRoles(s), NEW x \in SUBSET Pairs(s), NEW c \in s.constraints,
           Supported(s, c), Agrees(s, c)
    PROVE  /\ (\A row \in Rows(s, c) : Satisfies(x, row)) => Means(s, c, x)
           /\ Counts(s, c) /\ Means(s, c, x) => \A row \in Rows(s, c) : Satisfies(x, row)
BY OnePerEntityMeans, DemandCoverageMeans, CapacityMeans, TimeBudgetMeans,
   CompatibilityMeans, BudgetLimitMeans DEF Supported

-----------------------------------------------------------------------------
(* The steps.                                                               *)

\* The errors are those of a report.
Reported(s, found) ==
    \E hashed \in Categories(s) \X Categories(s) :
        /\ hashed[1] = hashed[2] => Categories(s) = {hashed[1]}
        /\ found = Report(s, hashed)

\* What an explanation of a plan shows.
Explained(s, x, cap) ==
    [given |-> TRUE, by |-> cap, groups |-> [a \in Agents(s) |-> Group(s, x, cap, a)],
     unassigned |-> Tasks(s) \ {p[2] : p \in x}, binding |-> Binding(s, x)]

\* What variable_values keeps of the amounts.
Kept(x) == {<<e, x[e]>> : e \in {e \in DOMAIN x : x[e] # 0}}

ReportInv ==
    /\ pc = "validate" => errors = {}
    /\ pc # "validate" => Reported(spec, errors)
    /\ pc \notin {"validate", "failed"} => errors = {}

\* A plan is one of the rows of the spec, in time a best one, and no plan an empty set
\* of pairs.
PlanInv ==
    ~Continuous(spec) =>
        /\ pc # "allocate"
        /\ pc \in {"solve", "solved", "explained"} => Buildable(spec)
        /\ status # "none" => pc \in {"solved", "explained"}
        /\ status = "optimal" => /\ plan \in Admitted(spec)
                                 /\ finished => plan \in BestOf(spec, Admitted(spec))
        /\ status = "infeasible" => Admitted(spec) = {}
        /\ status # "optimal" => plan = {}

\* The amounts CBC may answer with.
BestAmounts(s) ==
    LET values == {Value(s, x) : x \in Feasible(s)}
        best == IF s.maximize THEN Max(values) ELSE Min(values)
    IN  {x \in Feasible(s) : Value(s, x) = best}

\* Amounts are best ones of the rows of a spec that is built, which does not let them
\* grow; without an answer there are no amounts, or growing ones.
AmountsInv ==
    Continuous(spec) =>
        /\ pc # "solve"
        /\ pc \in {"allocate", "solved", "explained"} => AmountsBuildable(spec)
        /\ status # "none" => pc \in {"solved", "explained"}
        /\ status = "optimal" =>
              ~Unlimited(spec) /\ \E x \in BestAmounts(spec) : plan = Kept(x)
        /\ status = "infeasible" => Feasible(spec) = {}
        /\ status = "unbounded" => Feasible(spec) # {} /\ Unlimited(spec)
        /\ status # "optimal" => plan = {}

ShownInv ==
    /\ pc # "explained" => shown = NotShown
    /\ pc = "explained" /\ status = "optimal" /\ ~Continuous(spec) =>
          \E cap \in spec.constraints \cup {Absent} :
             /\ cap # Absent => cap.type = "capacity"
             /\ shown = IF \E a \in Agents(spec) : GroupRaises(spec, plan, cap, a)
                        THEN NotShown ELSE Explained(spec, plan, cap)

IInv == spec \in Specs /\ AllocationTypeOK /\ ReportInv /\ PlanInv /\ AmountsInv /\ ShownInv

\* Only a report without errors goes on, and then the split names categories.
LEMMA IndexIsKnown ==
    ASSUME NEW s, Reported(s, {})
    PROVE  ~UnknownIndex(s)
<1>1. PICK hashed : Report(s, hashed) = {}
  BY DEF Reported
<1>2. UnknownIndex(s) => "index" \in Report(s, hashed)
  BY DEF Report
<1> QED
  BY <1>1, <1>2

\* A split by known categories names categories.
LEMMA SplitNamesRoles ==
    ASSUME NEW s \in Specs, ~UnknownIndex(s), Cardinality(Categories(s)) >= 2
    PROVE  RolesNamed(s)
<1>1. s.order[1] \in Categories(s) /\ s.order[2] \in Categories(s)
  BY SpecsAssumption
<1> DEFINE targeted == {c \in s.constraints : /\ c.type = "one_per_entity"
                                              /\ Param(c, "entity_category") \in Categories(s)}
           agent == Param(CHOOSE c \in targeted : TRUE, "entity_category")
<1>2. targeted # {} => agent \in Categories(s)
  OBVIOUS
<1>3. s.indexedBy # Absent => s.indexedBy[1] \in Categories(s) /\ s.indexedBy[2] \in Categories(s)
  BY DEF UnknownIndex
<1>4. Split(s) =
        IF s.roles # Absent /\ s.roles[1] \in Categories(s) /\ s.roles[2] \in Categories(s)
        THEN s.roles
        ELSE IF s.indexedBy # Absent THEN s.indexedBy
        ELSE IF targeted # {}
             THEN <<agent, IF s.order[1] = agent THEN s.order[2] ELSE s.order[1]>>
        ELSE <<s.order[1], s.order[2]>>
  BY DEF Split
<1> HIDE DEF targeted, agent
<1> QED
  BY <1>1, <1>2, <1>3, <1>4 DEF RolesNamed

\* Agents and tasks of a spec that is built.
LEMMA BuiltNamesRoles ==
    ASSUME IInv, Buildable(spec), pc \notin {"validate", "failed"}
    PROVE  RolesNamed(spec)
<1>1. ~UnknownIndex(spec)
  BY IndexIsKnown DEF IInv, ReportInv
<1> QED
  BY <1>1, SplitNamesRoles DEF IInv, Buildable

\* A best plan satisfies the rows.
LEMMA BestIsAdmitted ==
    ASSUME NEW s, NEW x \in BestOf(s, Admitted(s))
    PROVE  x \in Admitted(s) /\ x \in SUBSET Pairs(s)
<1>1. x \in Admitted(s)
  BY DEF BestOf
<1> QED
  BY <1>1 DEF Admitted

\* Pairs are of entities.
LEMMA PairsOfEntities ==
    ASSUME NEW s \in Specs, RolesNamed(s), NEW x \in SUBSET Pairs(s)
    PROVE  x \subseteq Entities(s) \X Entities(s)
BY RolesAreFinite DEF Pairs

\* The invariant holds at first.
LEMMA InitInv == Init => IInv
<1> SUFFICES ASSUME Init PROVE IInv
  OBVIOUS
<1> USE DEF Init
<1>1. AllocationTypeOK
  BY TableOfNothing DEF AllocationTypeOK, TypeOK, NotShown
<1>2. ReportInv /\ PlanInv /\ AmountsInv /\ ShownInv
  BY DEF ReportInv, PlanInv, AmountsInv, ShownInv
<1> QED
  BY <1>1, <1>2 DEF IInv

\* Validating keeps it.
LEMMA ValidateInv == IInv /\ Validate => IInv'
<1> SUFFICES ASSUME IInv, Validate PROVE IInv'
  OBVIOUS
<1> USE DEF IInv, Validate
<1>1. Reported(spec, errors')
  BY DEF Reported
<1>2. errors' \subseteq {"duplicate", "objective", "index", "category", "field",
                          "capacity", "count"}
  BY DEF Report
<1>3. AllocationTypeOK'
  BY <1>2 DEF AllocationTypeOK, TypeOK
<1>4. ReportInv'
  BY <1>1 DEF ReportInv
<1>5. PlanInv' /\ AmountsInv' /\ ShownInv'
  BY DEF PlanInv, AmountsInv, ShownInv
<1> QED
  BY <1>3, <1>4, <1>5

\* Building keeps it.
LEMMA BuildInv == IInv /\ (Build \/ BuildFails \/ BuildAmounts) => IInv'
<1> SUFFICES ASSUME IInv, Build \/ BuildFails \/ BuildAmounts PROVE IInv'
  OBVIOUS
<1> USE DEF IInv, Build, BuildFails, BuildAmounts
<1>1. AllocationTypeOK'
  BY DEF AllocationTypeOK, TypeOK
<1>2. ReportInv'
  BY DEF ReportInv
<1>3. PlanInv' /\ AmountsInv' /\ ShownInv'
  BY DEF PlanInv, AmountsInv, ShownInv
<1> QED
  BY <1>1, <1>2, <1>3

\* Solving for a plan keeps it.
LEMMA SolveInv ==
    IInv /\ (SolveOptimal \/ SolveIncumbent \/ SolveInfeasible \/ SolveGivesUp) => IInv'
<1> SUFFICES ASSUME IInv, SolveOptimal \/ SolveIncumbent \/ SolveInfeasible \/ SolveGivesUp
             PROVE  IInv'
  OBVIOUS
<1>1. /\ pc = "solve" /\ pc' = "solved" /\ UNCHANGED <<spec, errors, shown>>
      /\ finished' \in BOOLEAN
      /\ \/ status' = "optimal" /\ plan' \in BestOf(spec, Admitted(spec))
         \/ status' = "optimal" /\ plan' \in Admitted(spec) /\ finished' = FALSE
         \/ status' = "infeasible" /\ Admitted(spec) = {} /\ plan' = {}
         \/ status' = "error" /\ plan' = {}
  BY DEF SolveOptimal, SolveIncumbent, SolveInfeasible, SolveGivesUp, Answer
<1>2. ~Continuous(spec) /\ Buildable(spec)
  BY <1>1 DEF IInv, PlanInv, AmountsInv
<1>3. RolesNamed(spec)
  BY <1>1, <1>2, BuiltNamesRoles
<1>4. plan' \subseteq Entities(spec) \X Entities(spec)
  <2>1. status' = "optimal" => plan' \in SUBSET Pairs(spec)
    BY <1>1, BestIsAdmitted DEF Admitted
  <2>2. status' # "optimal" => plan' = {}
    BY <1>1
  <2> QED
    BY <1>3, <2>1, <2>2, PairsOfEntities DEF IInv
<1>5. AllocationTypeOK'
  BY <1>1, <1>2, <1>4 DEF IInv, AllocationTypeOK, TypeOK
<1>6. PlanInv'
  <2>1. status' = "optimal" => /\ plan' \in Admitted(spec)
                               /\ finished' => plan' \in BestOf(spec, Admitted(spec))
    BY <1>1, BestIsAdmitted
  <2> QED
    BY <1>1, <1>2, <2>1 DEF IInv, PlanInv
<1>7. ReportInv' /\ AmountsInv' /\ ShownInv'
  BY <1>1, <1>2 DEF IInv, ReportInv, AmountsInv, ShownInv
<1> QED
  BY <1>1, <1>5, <1>6, <1>7 DEF IInv

\* The amounts that are kept are of entities, and not 0.
LEMMA KeptAmounts ==
    ASSUME NEW s, NEW x \in Feasible(s)
    PROVE  Kept(x) \subseteq Entities(s) \X (1 .. Most)
<1>1. x \in [Entities(s) -> 0 .. Most]
  BY DEF Feasible, Amounts
<1> QED
  BY <1>1, MostAssumption DEF Kept

\* Solving for amounts keeps it.
LEMMA SolveAmountsInv == IInv /\ SolveAmounts => IInv'
<1> SUFFICES ASSUME IInv, SolveAmounts PROVE IInv'
  OBVIOUS
<1>1. /\ pc = "allocate" /\ pc' = "solved" /\ UNCHANGED <<spec, errors, shown>>
      /\ status' \in {"optimal", "infeasible", "unbounded", "error"} /\ finished' \in BOOLEAN
      /\ status' = "optimal" =>
            ~Unlimited(spec) /\ \E x \in BestAmounts(spec) : plan' = Kept(x)
      /\ status' = "infeasible" => Feasible(spec) = {}
      /\ status' = "unbounded" => Feasible(spec) # {} /\ Unlimited(spec)
      /\ status' # "optimal" => plan' = {}
  BY DEF SolveAmounts, Kept, BestAmounts
<1>2. Continuous(spec) /\ AmountsBuildable(spec)
  BY <1>1 DEF IInv, PlanInv, AmountsInv
<1>3. plan' \subseteq Entities(spec) \X (1 .. Most)
  BY <1>1, KeptAmounts DEF BestAmounts
<1>4. AllocationTypeOK'
  BY <1>1, <1>2, <1>3 DEF IInv, AllocationTypeOK, TypeOK
<1>5. ReportInv' /\ PlanInv' /\ AmountsInv' /\ ShownInv'
  BY <1>1, <1>2 DEF IInv, ReportInv, PlanInv, AmountsInv, ShownInv
<1> QED
  BY <1>1, <1>4, <1>5 DEF IInv

\* A task that shares its id with nobody is found under it.
LEMMA FoundById ==
    ASSUME NEW s \in Specs, RolesNamed(s), IdsAreApart(s), NEW t \in Tasks(s)
    PROVE  ById(s, t) = t
<1>1. t \in Entities(s)
  BY RolesAreFinite
<1>2. s.last[s.id[t]] \in Entities(s) /\ s.id[s.last[s.id[t]]] = s.id[t]
  BY <1>1, SpecsAssumption
<1> QED
  BY <1>2 DEF IdsAreApart, ById

\* What the builders read is no word, so the bars can be computed.
LEMMA BarsAreComputed ==
    ASSUME NEW s \in Specs, Buildable(s), IdsAreApart(s), NEW x \in SUBSET Pairs(s), RolesNamed(s),
           NEW cap, cap # Absent => cap \in s.constraints /\ cap.type = "capacity",
           NEW a \in Agents(s)
    PROVE  ~GroupRaises(s, x, cap, a)
<1> DEFINE f == ParamOr(cap, "resource_field", "capacity")
           g == ParamOr(cap, "demand_field", "demand")
<1>1. CASE cap = Absent
  BY <1>1 DEF GroupRaises
<1>2. CASE cap # Absent
  <2>1. Reads(s, cap) = (Agents(s) \X {f}) \cup (Tasks(s) \X {g})
    BY <1>2 DEF Reads
  <2>2. \A r \in Reads(s, cap) : Attr(s, r[1], r[2]) # Word
    BY <1>2 DEF Buildable
  <2> HIDE DEF f, g
  <2>3. <<a, f>> \in Reads(s, cap) /\ \A t \in Tasks(s) : <<t, g>> \in Reads(s, cap)
    BY <2>1
  <2>4. Attr(s, a, f) # Word /\ \A t \in Tasks(s) : Attr(s, t, g) # Word
    <3>1. Attr(s, <<a, f>>[1], <<a, f>>[2]) # Word
      BY <2>2, <2>3
    <3>2. \A t \in Tasks(s) : Attr(s, <<t, g>>[1], <<t, g>>[2]) # Word
      BY <2>2, <2>3
    <3> QED
      BY <3>1, <3>2
  <2>5. \A p \in x : p[2] \in Tasks(s) /\ ById(s, p[2]) = p[2]
    BY PairsAreFinite, FoundById
  <2> QED
    BY <2>4, <2>5 DEF GroupRaises, f, g
<1> QED
  BY <1>1, <1>2

\* Explaining a plan keeps it.
LEMMA ExplainInv == IInv /\ Explain => IInv'
<1> SUFFICES ASSUME IInv, Explain PROVE IInv'
  OBVIOUS
<1>1. /\ pc = "solved" /\ pc' = "explained" /\ ~Continuous(spec)
      /\ UNCHANGED <<spec, errors, status, plan, finished>>
  BY DEF Explain
<1>2. Buildable(spec) /\ spec \in Specs
  BY <1>1 DEF IInv, PlanInv
<1>3. RolesNamed(spec)
  BY <1>1, <1>2, BuiltNamesRoles
<1>4. ReportInv' /\ PlanInv' /\ AmountsInv'
  BY <1>1 DEF IInv, ReportInv, PlanInv, AmountsInv
<1>5. CASE status # "optimal"
  <2>1. \E names : shown' = [NotShown EXCEPT !.given = TRUE, !.binding = names]
    BY <1>1, <1>5 DEF Explain
  <2>2. AllocationTypeOK'
    BY <1>1, <2>1, TableOfNothing DEF IInv, AllocationTypeOK, TypeOK, NotShown
  <2>3. ShownInv'
    BY <1>1, <1>5 DEF ShownInv
  <2> QED
    BY <1>1, <1>4, <2>2, <2>3 DEF IInv
<1>6. CASE status = "optimal"
  <2>1. PICK cap \in spec.constraints \cup {Absent} :
           /\ cap # Absent => cap.type = "capacity"
           /\ shown' = IF \E a \in Agents(spec) : GroupRaises(spec, plan, cap, a)
                       THEN NotShown ELSE Explained(spec, plan, cap)
    BY <1>1, <1>6 DEF Explain, Explained
  <2>2. ShownInv'
    BY <1>1, <2>1 DEF ShownInv
  <2>3. CASE shown' = NotShown
    <3>1. AllocationTypeOK'
      BY <1>1, <2>3, TableOfNothing DEF IInv, AllocationTypeOK, TypeOK, NotShown
    <3> QED
      BY <1>1, <1>4, <2>2, <3>1 DEF IInv
  <2>4. Agents(spec) \subseteq Entities(spec) /\ Tasks(spec) \subseteq Entities(spec)
    BY <1>2, <1>3, RolesAreFinite
  <2>5. CASE shown' = Explained(spec, plan, cap)
    <3>1. /\ shown'.given = TRUE /\ shown'.by = cap /\ DOMAIN shown'.groups = Agents(spec)
          /\ shown'.unassigned \subseteq Tasks(spec)
      BY <2>5 DEF Explained
    <3>2. /\ shown'.given \in BOOLEAN /\ shown'.by \in spec.constraints \cup {Absent}
          /\ DOMAIN shown'.groups \subseteq Entities(spec)
          /\ shown'.unassigned \subseteq Entities(spec)
      BY <2>4, <3>1
    <3>3. AllocationTypeOK'
      BY <1>1, <3>2 DEF IInv, AllocationTypeOK, TypeOK
    <3> QED
      BY <1>1, <1>4, <2>2, <3>3 DEF IInv
  <2> QED
    BY <2>1, <2>3, <2>5
<1> QED
  BY <1>5, <1>6

\* Explaining amounts keeps it.
LEMMA ExplainAmountsInv == IInv /\ ExplainAmounts => IInv'
<1> SUFFICES ASSUME IInv, ExplainAmounts PROVE IInv'
  OBVIOUS
<1>1. /\ pc = "solved" /\ pc' = "explained" /\ Continuous(spec)
      /\ UNCHANGED <<spec, errors, status, plan, finished>>
  BY DEF ExplainAmounts
<1>2. \E names : shown' = [NotShown EXCEPT !.given = TRUE, !.binding = names]
  BY DEF ExplainAmounts
<1>3. AllocationTypeOK'
  BY <1>1, <1>2, TableOfNothing DEF IInv, AllocationTypeOK, TypeOK, NotShown
<1>4. ReportInv' /\ PlanInv' /\ AmountsInv' /\ ShownInv'
  BY <1>1 DEF IInv, ReportInv, PlanInv, AmountsInv, ShownInv
<1> QED
  BY <1>1, <1>3, <1>4 DEF IInv

\* So does doing nothing.
LEMMA StutterInv == IInv /\ UNCHANGED vars => IInv'
BY DEF IInv, vars, AllocationTypeOK, TypeOK, ReportInv, PlanInv, AmountsInv, ShownInv, Amount

\* What every step of the validator, the builders, the solver and the explainer keeps:
\* reports, plans, amounts and explanations are those of the spec.
THEOREM Invariance == AllocationSpec => []IInv
<1>1. ASSUME IInv, [AllocationNext]_vars PROVE IInv'
  BY <1>1, ValidateInv, BuildInv, SolveInv, SolveAmountsInv, ExplainInv, ExplainAmountsInv,
     StutterInv DEF AllocationNext, Next
<1> QED
  BY <1>1, InitInv, PTL DEF AllocationSpec

-----------------------------------------------------------------------------
(* Plans.                                                                   *)

\* A model of rows admits only plans that keep the constraints, and all of them when
\* no capacity is negative.
LEMMA AdmittedIsKept ==
    ASSUME NEW s \in Specs, RolesNamed(s), Buildable(s), RolesAgree(s), BudgetsCount(s),
           NEW x \in SUBSET Pairs(s)
    PROVE  /\ x \in Admitted(s) => Keeps(s, x)
           /\ CapacitiesCount(s) /\ Keeps(s, x) => x \in Admitted(s)
<1>1. TwoRoles(s)
  BY DEF TwoRoles, RolesAgree
<1>2. \A c \in s.constraints : Supported(s, c) /\ Agrees(s, c)
  BY DEF Buildable, RolesAgree, BudgetsCount, Agrees
<1>3. \A c \in s.constraints :
         /\ (\A row \in Rows(s, c) : Satisfies(x, row)) => Means(s, c, x)
         /\ Counts(s, c) /\ Means(s, c, x) => \A row \in Rows(s, c) : Satisfies(x, row)
  BY <1>1, <1>2, RowsMean
<1>4. x \in Admitted(s) <=> \A c \in s.constraints : \A row \in Rows(s, c) : Satisfies(x, row)
  BY DEF Admitted
<1>5. CapacitiesCount(s) => \A c \in s.constraints : Counts(s, c)
  BY DEF CapacitiesCount, Counts
<1> QED
  BY <1>3, <1>4, <1>5 DEF Keeps

\* A solved dispatch model was built.
LEMMA SolvedIsBuilt ==
    ASSUME IInv, status # "none", ~Continuous(spec)
    PROVE  /\ spec \in Specs /\ RolesNamed(spec) /\ Buildable(spec)
           /\ status = "optimal" => /\ plan \in Admitted(spec) /\ plan \in SUBSET Pairs(spec)
                                    /\ finished => plan \in BestOf(spec, Admitted(spec))
           /\ status = "infeasible" => Admitted(spec) = {}
           /\ \A a, b \in Agents(spec) : spec.id[a] = spec.id[b] => a = b
<1>1. /\ pc \in {"solved", "explained"} /\ Buildable(spec) /\ spec \in Specs
      /\ status = "optimal" => /\ plan \in Admitted(spec)
                               /\ finished => plan \in BestOf(spec, Admitted(spec))
      /\ status = "infeasible" => Admitted(spec) = {}
  BY DEF IInv, PlanInv
<1>2. RolesNamed(spec)
  BY <1>1, BuiltNamesRoles
<1>3. ~Duplicates(spec)
  <2>1. PICK hashed : Report(spec, hashed) = {}
    BY <1>1 DEF IInv, ReportInv, Reported
  <2>2. Duplicates(spec) => "duplicate" \in Report(spec, hashed)
    BY DEF Report
  <2> QED
    BY <2>1, <2>2
<1>4. \A a, b \in Agents(spec) : spec.id[a] = spec.id[b] => a = b
  BY <1>2, <1>3 DEF RolesNamed, Agents, Duplicates
<1> QED
  BY <1>1, <1>2, <1>4 DEF Admitted

\* The variables keep their types, in the mode with amounts too.
THEOREM TypeCorrect == AllocationSpec => []AllocationTypeOK
<1>1. IInv => AllocationTypeOK
  BY DEF IInv
<1> QED
  BY <1>1, Invariance, PTL

\* The rows of the builders (assignment_model.py, allocation_model.py) are what the
\* documentation says of the constraints: a plan keeps every one, also one that CBC
\* was left with.
THEOREM PlansKeep == AllocationSpec => []PlansKeepConstraints
<1>1. IInv => PlansKeepConstraints
  <2> SUFFICES ASSUME IInv, status = "optimal", RolesAgree(spec), BudgetsCount(spec)
               PROVE  Keeps(spec, plan)
    BY DEF PlansKeepConstraints
  <2>1. ~Continuous(spec)
    BY DEF RolesAgree
  <2>2. /\ spec \in Specs /\ RolesNamed(spec) /\ Buildable(spec)
        /\ plan \in Admitted(spec) /\ plan \in SUBSET Pairs(spec)
    BY <2>1, SolvedIsBuilt
  <2> QED
    BY <2>2, AdmittedIsKept
<1> QED
  BY <1>1, Invariance, PTL

\* When the model has no solution, no plan keeps the constraints: with capacities that
\* are not negative the rows do not ask for more than the documentation does.
THEOREM InfeasibleNoPlan == AllocationSpec => []InfeasibleMeansNoPlan
<1>1. IInv => InfeasibleMeansNoPlan
  <2> SUFFICES ASSUME IInv, status = "infeasible", RolesAgree(spec), BudgetsCount(spec),
                      CapacitiesCount(spec), NEW x \in SUBSET Pairs(spec)
               PROVE  ~Keeps(spec, x)
    BY DEF InfeasibleMeansNoPlan
  <2>1. ~Continuous(spec)
    BY DEF RolesAgree
  <2>2. spec \in Specs /\ RolesNamed(spec) /\ Buildable(spec) /\ Admitted(spec) = {}
    BY <2>1, SolvedIsBuilt
  <2> QED
    BY <2>2, AdmittedIsKept
<1> QED
  BY <1>1, Invariance, PTL

-----------------------------------------------------------------------------
(* The best plan.                                                           *)

\* The coefficient of a pair is its cost in the documented order, if no cost is a
\* number written as a string.
LEMMA CoefficientIsCost ==
    ASSUME NEW s \in Specs, RolesNamed(s), CostsCount(s), NEW p \in Pairs(s)
    PROVE  PairCoefficient(s, p, s.field, s.table) = Cost(s, p) /\ Cost(s, p) \in Int
<1> DEFINE w == Wide(s, p)
           t == Attr(s, p[2], s.field)
           a == Attr(s, p[1], s.field)
           sources == <<w, t, a>>
           found == {i \in 1..3 : sources[i].kind = "number"}
<1>1. p[1] \in Entities(s) /\ p[2] \in Entities(s)
  BY PairsAreFinite, RolesAreFinite
<1>2. w \in Values /\ t \in Values /\ a \in Values
  BY <1>1, NumbersOfSpec
<1>3. w.kind # "quoted" /\ t.kind # "quoted" /\ a.kind # "quoted"
  BY DEF CostsCount
<1>4. Key(s, p) \in DOMAIN s.table => s.table[Key(s, p)] \in Int
  BY SpecsAssumption
<1>5. PairCoefficient(s, p, s.field, s.table) =
         IF Key(s, p) \in DOMAIN s.table THEN s.table[Key(s, p)]
         ELSE IF s.field = Absent \/ found = {} THEN 1 ELSE sources[Min(found)].n
  BY DEF PairCoefficient
<1>6. Cost(s, p) = IF Key(s, p) \in DOMAIN s.table THEN s.table[Key(s, p)]
                   ELSE IF s.field = Absent THEN 1
                   ELSE IF w.kind = "number" THEN w.n
                   ELSE IF t.kind = "number" THEN t.n
                   ELSE IF a.kind = "number" THEN a.n ELSE 1
  <2> HIDE DEF w, t, a
  <2>1. /\ IsNumeric(w) <=> w.kind = "number"
        /\ IsNumeric(t) <=> t.kind = "number"
        /\ IsNumeric(a) <=> a.kind = "number"
    BY <1>3 DEF IsNumeric
  <2> QED
    BY <2>1 DEF Cost, w, t, a
<1>7. /\ sources[1] = w /\ sources[2] = t /\ sources[3] = a
      /\ 1 \in found <=> w.kind = "number"
      /\ 2 \in found <=> t.kind = "number"
      /\ 3 \in found <=> a.kind = "number"
      /\ found \in SUBSET (1..3)
  <2> HIDE DEF w, t, a
  <2> QED
    OBVIOUS
<1>8. w.n \in Int /\ t.n \in Int /\ a.n \in Int
  BY <1>2 DEF Values, Word, Missing
<1>9. found # {} => /\ 1 \in found => Min(found) = 1
                    /\ 1 \notin found /\ 2 \in found => Min(found) = 2
                    /\ 1 \notin found /\ 2 \notin found => 3 \in found /\ Min(found) = 3
  <2> HIDE DEF found
  <2>1. SUFFICES ASSUME found # {}
                 PROVE  /\ 1 \in found => Min(found) = 1
                        /\ 1 \notin found /\ 2 \in found => Min(found) = 2
                        /\ 1 \notin found /\ 2 \notin found => 3 \in found /\ Min(found) = 3
    OBVIOUS
  <2>2. Min(found) \in found /\ Min(found) \in 1..3
    BY <1>7, <2>1, LeastOfThree
  <2> QED
    BY <1>7, <2>1, <2>2, LeastOfThree
<1> HIDE DEF w, t, a, sources, found
<1>10. found = {} <=> w.kind # "number" /\ t.kind # "number" /\ a.kind # "number"
  BY <1>7
<1> QED
  BY <1>4, <1>5, <1>6, <1>7, <1>8, <1>9, <1>10

\* The objective of a plan is its documented cost.
LEMMA ObjectiveIsCost ==
    ASSUME NEW s \in Specs, RolesNamed(s), CostsCount(s), NEW x \in SUBSET Pairs(s)
    PROVE  Objective(s, x) = TotalCost(s, x)
<1> DEFINE f == [p \in x |-> Cost(s, p)]
           g == [p \in x |-> PairCoefficient(s, p, s.field, s.table)]
<1>1. \A p \in x : f[p] \in Int /\ g[p] = f[p]
  BY CoefficientIsCost
<1>2. IsFiniteSet(x)
  BY PairsAreFinite
<1> HIDE DEF f, g
<1>3. Total(g, x) = Total(f, x)
  BY <1>1, <1>2, TotalSame
<1> QED
  BY <1>3 DEF Objective, TotalCost, f, g

\* Objectives are numbers.
LEMMA ObjectiveType ==
    ASSUME NEW s \in Specs, RolesNamed(s), NEW x \in SUBSET Pairs(s)
    PROVE  Objective(s, x) \in Int
<1> DEFINE g == [p \in x |-> PairCoefficient(s, p, s.field, s.table)]
<1>1. \A p \in Pairs(s) : Key(s, p) \in DOMAIN s.table => s.table[Key(s, p)] \in Int
  BY SpecsAssumption
<1>2. \A p \in x : g[p] \in Int
  BY <1>1, CoefficientType
<1>3. IsFiniteSet(x)
  BY PairsAreFinite
<1> HIDE DEF g
<1>4. Total(g, x) \in Int
  BY <1>2, <1>3, TotalAny
<1> QED
  BY <1>4 DEF Objective, g

\* No admitted plan has a better objective than one that CBC may answer with.
LEMMA BestIsBest ==
    ASSUME NEW s \in Specs, RolesNamed(s), NEW y \in BestOf(s, Admitted(s)),
           NEW x \in Admitted(s)
    PROVE  IF s.maximize THEN Objective(s, x) <= Objective(s, y)
                         ELSE Objective(s, x) >= Objective(s, y)
<1> DEFINE value == [z \in Admitted(s) |-> Objective(s, z)]
           values == {Objective(s, z) : z \in Admitted(s)}
<1>1. IsFiniteSet(Admitted(s))
  <2>1. IsFiniteSet(SUBSET Pairs(s))
    BY RolesAreFinite, FS_SUBSET
  <2>2. Admitted(s) \subseteq SUBSET Pairs(s)
    BY DEF Admitted
  <2> QED
    BY <2>1, <2>2, FS_Subset
<1>2. \A z \in Admitted(s) : Objective(s, z) \in Int
  BY ObjectiveType DEF Admitted
<1>3. values \subseteq Int /\ values # {} /\ Objective(s, x) \in values
  BY <1>2
<1>4. IsFiniteSet(values)
  <2>1. value \in Surjection(Admitted(s), values)
    BY DEF Surjection
  <2> HIDE DEF value, values
  <2> QED
    BY <1>1, <2>1, FS_Surjection
<1>5. /\ Max(values) \in values /\ \A n \in values : Max(values) >= n
      /\ Min(values) \in values /\ \A n \in values : Min(values) <= n
  <2> HIDE DEF values
  <2> QED
    BY <1>3, <1>4, Extremes
<1>6. Objective(s, y) = IF s.maximize THEN Max(values) ELSE Min(values)
  BY DEF BestOf
<1> HIDE DEF values
<1> QED
  BY <1>3, <1>5, <1>6

\* The objective (pair_coefficient, set_objective) is the documented cost: no plan
\* that keeps the constraints has a better total than one CBC found optimal in time.
THEOREM PlansBest == AllocationSpec => []PlansAreBest
<1>1. IInv => PlansAreBest
  <2> SUFFICES ASSUME IInv, status = "optimal", finished, RolesAgree(spec), BudgetsCount(spec),
                      CostsCount(spec), CapacitiesCount(spec), NEW x \in SUBSET Pairs(spec), Better(spec, x, plan),
                      Keeps(spec, x)
               PROVE  FALSE
    BY DEF PlansAreBest
  <2>1. ~Continuous(spec)
    BY DEF RolesAgree
  <2>2. /\ spec \in Specs /\ RolesNamed(spec) /\ Buildable(spec)
        /\ plan \in BestOf(spec, Admitted(spec)) /\ plan \in SUBSET Pairs(spec)
    BY <2>1, SolvedIsBuilt
  <2>3. x \in Admitted(spec)
    BY <2>2, AdmittedIsKept
  <2>4. /\ Objective(spec, x) = TotalCost(spec, x) /\ Objective(spec, x) \in Int
        /\ Objective(spec, plan) = TotalCost(spec, plan) /\ Objective(spec, plan) \in Int
    BY <2>2, <2>3, ObjectiveIsCost, ObjectiveType
  <2>5. IF spec.maximize THEN Objective(spec, x) <= Objective(spec, plan)
                         ELSE Objective(spec, x) >= Objective(spec, plan)
    BY <2>2, <2>3, BestIsBest
  <2> QED
    BY <2>4, <2>5 DEF Better
<1> QED
  BY <1>1, Invariance, PTL

-----------------------------------------------------------------------------
(* Explanations.                                                            *)

\* The rows of the constraints hold of a plan that CBC may answer with.
LEMMA AdmittedKeepsRows ==
    ASSUME NEW s, NEW x \in Admitted(s), NEW c \in s.constraints, NEW row \in Rows(s, c)
    PROVE  Satisfies(x, row)
BY DEF Admitted

\* A group shows the tasks of its agent.
LEMMA TasksOfGroups ==
    ASSUME NEW s, NEW x, NEW cap, NEW a
    PROVE  Group(s, x, cap, a).tasks = TasksOf(s, x, a)
<1> DEFINE T == {t \in Tasks(s) : <<a, t>> \in x}
<1>1. \A T0 : [Nothing EXCEPT !.tasks = T0].tasks = T0
  BY DEF Nothing
<1>2. \A T0, u, n : [tasks |-> T0, capacity |-> n, used |-> u].tasks = T0
  OBVIOUS
<1>3. Group(s, x, cap, a).tasks = T
  BY <1>1, <1>2, Zenon DEF Group
<1> QED
  BY <1>3 DEF TasksOf

\* Where the capacity of an agent is shown, its row has that bound.
LEMMA BarsOfGroups ==
    ASSUME NEW s \in Specs, RolesNamed(s), IdsAreApart(s), NEW x \in SUBSET Pairs(s), NEW a \in Agents(s),
           NEW cap \in s.constraints, Group(s, x, cap, a).capacity # Absent
    PROVE  LET f == ParamOr(cap, "resource_field", "capacity")
               g == ParamOr(cap, "demand_field", "demand")
               shownGroup == Group(s, x, cap, a)
           IN  /\ shownGroup.used = Carried(s, x, a, g)
               /\ shownGroup.capacity = AttrOr(s, a, f, ParamOr(cap, "limit", 0))
<1> DEFINE f == ParamOr(cap, "resource_field", "capacity")
           g == ParamOr(cap, "demand_field", "demand")
           T == TasksOf(s, x, a)
<1>1. Group(s, x, cap, a) =
         IF cap = Absent \/ Attr(s, a, f) = Missing THEN [Nothing EXCEPT !.tasks = T]
         ELSE [tasks |-> T, capacity |-> Attr(s, a, f).n,
               used |-> Total([t \in T |-> AttrOr(s, ById(s, t), g, 0)], T)]
  BY DEF Group, TasksOf
<1>5. [t \in T |-> AttrOr(s, ById(s, t), g, 0)] = [t \in T |-> AttrOr(s, t, g, 0)]
  BY FoundById DEF TasksOf
<1> HIDE DEF f, T
<1>2. ~(cap = Absent \/ Attr(s, a, f) = Missing)
  <2>1. [Nothing EXCEPT !.tasks = T].capacity = Absent
    BY DEF Nothing
  <2> QED
    BY <1>1, <2>1
<1>3. /\ Group(s, x, cap, a).capacity = Attr(s, a, f).n
      /\ Group(s, x, cap, a).used = Total([t \in T |-> AttrOr(s, t, g, 0)], T)
  BY <1>1, <1>2, <1>5
<1>4. AttrOr(s, a, f, ParamOr(cap, "limit", 0)) = Attr(s, a, f).n
  BY <1>2 DEF AttrOr
<1> QED
  BY <1>3, <1>4 DEF Carried, f, T

\* A load is tight when the agent's row is among the binding ones, because no other
\* row has its label.
LEMMA BindingLoads ==
    ASSUME NEW s \in Specs, RolesNamed(s), Buildable(s), NEW x \in SUBSET Pairs(s),
           \A b, d \in Agents(s) : s.id[b] = s.id[d] => b = d,
           NEW a \in Agents(s), NEW cap \in s.constraints, cap.type = "capacity"
    PROVE  LET f == ParamOr(cap, "resource_field", "capacity")
               g == ParamOr(cap, "demand_field", "demand")
           IN  Carried(s, x, a, g) = AttrOr(s, a, f, ParamOr(cap, "limit", 0))
                  <=> <<cap.name, s.id[a]>> \in Binding(s, x)
<1> DEFINE f == ParamOr(cap, "resource_field", "capacity")
           g == ParamOr(cap, "demand_field", "demand")
           bound == [b \in Agents(s) |-> AttrOr(s, b, f, ParamOr(cap, "limit", 0))]
           coef(b) == [p \in Pairs(s) |-> IF p[1] = b THEN AttrOr(s, p[2], g, 0) ELSE 0]
           mine == Row(cap, s.id[a], coef(a), "<=", bound[a])
<1>1. Rows(s, cap) = {Row(cap, s.id[b], coef(b), "<=", bound[b]) : b \in Agents(s)}
  BY DEF Rows, Capacity, Load
<1>2. Total(coef(a), x) = Carried(s, x, a, g)
  BY LoadsSum
<1>3. bound[a] = AttrOr(s, a, f, ParamOr(cap, "limit", 0))
  OBVIOUS
<1> HIDE DEF coef, bound
<1>4. /\ mine \in Rows(s, cap) /\ mine.label = <<cap.name, s.id[a]>>
      /\ mine.coef = coef(a) /\ mine.bound = bound[a]
  BY <1>1 DEF Row
<1> HIDE DEF mine
<1>5. ASSUME Total(coef(a), x) = bound[a] PROVE <<cap.name, s.id[a]>> \in Binding(s, x)
  BY <1>4, <1>5 DEF Binding
<1>6. ASSUME <<cap.name, s.id[a]>> \in Binding(s, x) PROVE Total(coef(a), x) = bound[a]
  <2> PICK d \in s.constraints :
             \E row \in Rows(s, d) : row.label = <<cap.name, s.id[a]>> /\ Total(row.coef, x) = row.bound
    BY <1>6 DEF Binding
  <2>1. PICK row \in Rows(s, d) : row.label = <<cap.name, s.id[a]>> /\ Total(row.coef, x) = row.bound
    OBVIOUS
  <2>2. d = cap
    <3>1. /\ <<cap.name, s.id[a]>> \in {r.label : r \in Rows(s, d)}
          /\ <<cap.name, s.id[a]>> \in {r.label : r \in Rows(s, cap)}
      BY <1>4, <2>1
    <3>2. d # cap => {r.label : r \in Rows(s, d)} \cap {r.label : r \in Rows(s, cap)} = {}
      BY DEF Buildable
    <3> QED
      BY <3>1, <3>2
  <2>3. PICK b \in Agents(s) : row = Row(cap, s.id[b], coef(b), "<=", bound[b])
    BY <1>1, <2>1, <2>2
  <2>4. row.label = <<cap.name, s.id[b]>> /\ row.coef = coef(b) /\ row.bound = bound[b]
    BY <2>3 DEF Row
  <2>5. b = a
    BY <2>1, <2>4
  <2> QED
    BY <2>1, <2>4, <2>5
<1> HIDE DEF f, g
<1>7. Carried(s, x, a, g) = AttrOr(s, a, f, ParamOr(cap, "limit", 0))
         <=> <<cap.name, s.id[a]>> \in Binding(s, x)
  BY <1>2, <1>3, <1>5, <1>6
<1> QED
  BY <1>7 DEF f, g

\* A task that nobody does is one that need not be done.
LEMMA UncoveredTasks ==
    ASSUME NEW s \in Specs, RolesNamed(s), NEW x \in Admitted(s), NEW t \in Tasks(s),
           \A p \in x : p[2] # t, NEW c \in s.constraints, c.type = "demand_coverage"
    PROVE  ParamOr(c, "count", 1) <= 0
<1> DEFINE sense == IF Param(c, "sense") = ">=" THEN ">=" ELSE "=="
           n == ParamOr(c, "count", 1)
           coef == OneWhere(s, Of(s, 2, t))
<1>1. Row(c, s.id[t], coef, sense, n) \in Rows(s, c)
  BY DEF Rows, DemandCoverage
<1>2. Satisfies(x, Row(c, s.id[t], coef, sense, n))
  BY <1>1, AdmittedKeepsRows
<1>3. x \in SUBSET Pairs(s)
  BY DEF Admitted
<1>4. Total(coef, x) = 0
  <2>1. Total(coef, x) = Cardinality(x \cap Of(s, 2, t))
    BY <1>3, OnesCount
  <2>2. x \cap Of(s, 2, t) = {}
    BY DEF Of
  <2> QED
    BY <2>1, <2>2, FS_EmptySet
<1>5. n \in Int
  BY NumbersOfSpec
<1>6. sense \in {"<=", "==", ">="} /\ sense # "<="
  OBVIOUS
<1> HIDE DEF coef, n, sense
<1>7. /\ sense = "==" => Total(coef, x) = n
      /\ sense = ">=" => Total(coef, x) >= n
  BY <1>2, <1>6, RowHolds
<1>8. n <= 0
  BY <1>4, <1>5, <1>6, <1>7
<1> QED
  BY <1>8 DEF n

\* What the explanation reads again by id and from the attributes (build_groups in
\* explainer.py) agrees with the rows that were solved: the plan always, loads and
\* capacities when no other entity has the id of a task.
THEOREM ExplanationsMatch == AllocationSpec => []ExplanationsMatchTheModel
<1>1. IInv => ExplanationsMatchTheModel
  <2> SUFFICES ASSUME IInv, pc = "explained", status = "optimal", ~Continuous(spec)
               PROVE  ExplanationsMatchTheModel
    BY DEF ExplanationsMatchTheModel
  <2>1. /\ spec \in Specs /\ RolesNamed(spec) /\ Buildable(spec)
        /\ \A a, b \in Agents(spec) : spec.id[a] = spec.id[b] => a = b
    BY SolvedIsBuilt
  <2>2. plan \in Admitted(spec) /\ plan \in SUBSET Pairs(spec)
    BY SolvedIsBuilt
  <2>3. PICK cap \in spec.constraints \cup {Absent} :
           /\ cap # Absent => cap.type = "capacity"
           /\ shown = IF \E a \in Agents(spec) : GroupRaises(spec, plan, cap, a)
                      THEN NotShown ELSE Explained(spec, plan, cap)
    BY DEF IInv, ShownInv
  <2>4. shown.given => shown = Explained(spec, plan, cap)
    BY <2>3 DEF NotShown
  <2>5. IdsAreApart(spec) => shown = Explained(spec, plan, cap)
    BY <2>1, <2>2, <2>3, BarsAreComputed
  <2>6. CASE shown = Explained(spec, plan, cap)
    <3>1. /\ shown.given /\ shown.by = cap
          /\ shown.groups = [a \in Agents(spec) |-> Group(spec, plan, cap, a)]
          /\ shown.unassigned = Tasks(spec) \ {p[2] : p \in plan}
          /\ shown.binding = Binding(spec, plan)
      BY <2>6 DEF Explained
    <3>2. \A a \in Agents(spec) : shown.groups[a] = Group(spec, plan, cap, a)
      BY <3>1
    <3>3. \A a \in Agents(spec) : shown.groups[a].tasks = TasksOf(spec, plan, a)
      BY <3>2, TasksOfGroups
    <3>4. plan = {p \in Pairs(spec) : p[2] \in shown.groups[p[1]].tasks}
      <4>1. \A p \in Pairs(spec) : /\ p[1] \in Agents(spec) /\ p[2] \in Tasks(spec)
                                   /\ p = <<p[1], p[2]>>
        BY <2>1, PairsAreFinite
      <4>2. \A p \in Pairs(spec) : p[2] \in shown.groups[p[1]].tasks <=> p \in plan
        BY <3>3, <4>1 DEF TasksOf
      <4> QED
        BY <2>2, <4>2
    <3>5. ASSUME shown.unassigned # {}, NEW c \in spec.constraints, c.type = "demand_coverage"
          PROVE  ParamOr(c, "count", 1) <= 0
      <4>1. PICK t \in Tasks(spec) : \A p \in plan : p[2] # t
        BY <3>1, <3>5
      <4> QED
        BY <2>1, <2>2, <3>5, <4>1, UncoveredTasks
    <3>6. ASSUME IdsAreApart(spec), NEW a \in Agents(spec), shown.groups[a].capacity # Absent
          PROVE  /\ shown.groups[a].used <= shown.groups[a].capacity
                 /\ shown.groups[a].used = shown.groups[a].capacity
                       <=> <<shown.by.name, spec.id[a]>> \in shown.binding
      <4> DEFINE f == ParamOr(cap, "resource_field", "capacity")
                 g == ParamOr(cap, "demand_field", "demand")
                 bound == [b \in Agents(spec) |-> AttrOr(spec, b, f, ParamOr(cap, "limit", 0))]
      <4>1. cap \in spec.constraints /\ cap.type = "capacity"
        <5>1. Group(spec, plan, Absent, a).capacity = Absent
          BY DEF Group, Nothing
        <5> QED
          BY <2>3, <3>2, <3>6, <5>1
      <4>2. /\ shown.groups[a].used = Carried(spec, plan, a, g)
            /\ shown.groups[a].capacity = bound[a]
        BY <2>1, <2>2, <3>2, <3>6, <4>1, BarsOfGroups
      <4>3. Carried(spec, plan, a, g) <= bound[a]
        <5>1. Rows(spec, cap) = Load(spec, cap, g, bound)
          BY <4>1 DEF Rows, Capacity
        <5>2. \A row \in Load(spec, cap, g, bound) : Satisfies(plan, row)
          BY <2>2, <4>1, <5>1, AdmittedKeepsRows
        <5> HIDE DEF bound, g
        <5> QED
          BY <2>1, <2>2, <5>2, LoadHolds
      <4>4. Carried(spec, plan, a, g) = bound[a]
               <=> <<cap.name, spec.id[a]>> \in Binding(spec, plan)
        BY <2>1, <2>2, <4>1, BindingLoads
      <4> QED
        BY <3>1, <4>2, <4>3, <4>4
    <3> QED
      BY <3>1, <3>4, <3>5, <3>6 DEF ExplanationsMatchTheModel
  <2>7. CASE shown # Explained(spec, plan, cap)
    BY <2>4, <2>5, <2>7 DEF ExplanationsMatchTheModel
  <2> QED
    BY <2>6, <2>7
<1> QED
  BY <1>1, Invariance, PTL

-----------------------------------------------------------------------------
(* Amounts.                                                                 *)

\* Whole amounts, however large.
Whole(s) == [Entities(s) -> Nat]
FitsAll(s, x) == \A row \in AllRows(s) : Fits(x, row)

\* The entities of a spec are finitely many.
LEMMA EntitiesAreFinite == ASSUME NEW s \in Specs PROVE IsFiniteSet(Entities(s))
<1>1. IsFiniteSet({s.members[k] : k \in Categories(s)})
  BY SpecsAssumption, FiniteImage
<1>2. \A S \in {s.members[k] : k \in Categories(s)} : IsFiniteSet(S)
  BY SpecsAssumption
<1> QED
  BY <1>1, <1>2, FS_UNION DEF Entities

\* The amounts of an answer are those that were chosen.
LEMMA AmountsOfPlan ==
    ASSUME NEW x \in Amounts(spec), plan = Kept(x)
    PROVE  [e \in Entities(spec) |-> Amount(e)] = x
<1>1. x \in [Entities(spec) -> 0 .. Most]
  BY DEF Amounts
<1>2. ASSUME NEW e \in Entities(spec) PROVE Amount(e) = x[e]
  <2>1. CASE x[e] = 0
    <3>1. ~\E p \in plan : p[1] = e
      BY <1>1, <2>1 DEF Kept
    <3> QED
      BY <2>1, <3>1 DEF Amount
  <2>2. CASE x[e] # 0
    <3>1. <<e, x[e]>> \in plan /\ <<e, x[e]>>[1] = e
      BY <1>1, <2>2 DEF Kept
    <3>2. \A p \in plan : p[1] = e => p[2] = x[e]
      BY DEF Kept
    <3>3. \E p \in plan : p[1] = e
      BY <3>1
    <3>4. Amount(e) = (CHOOSE p \in plan : p[1] = e)[2]
      BY <3>3 DEF Amount
    <3> QED
      BY <3>2, <3>3, <3>4
  <2> QED
    BY <2>1, <2>2
<1> QED
  BY <1>1, <1>2

\* The rows of _per_entity_bound bound each amount.
LEMMA PerEntityMeans ==
    ASSUME NEW s \in Specs, NEW x \in Whole(s), NEW c, NEW sense \in {"<=", ">="}
    PROVE  LET f == Param(c, "resource_field")
               scalar == ParamOr(c, "limit", ParamOr(c, "min", ParamOr(c, "max", 0)))
               bound(e) == IF f = Absent THEN scalar ELSE AttrOr(s, e, f, scalar)
           IN  (\A row \in PerEntity(s, c, sense) : Fits(x, row))
                 <=> \A e \in Entities(s) :
                        IF sense = "<=" THEN x[e] <= bound(e) ELSE x[e] >= bound(e)
<1> DEFINE f == Param(c, "resource_field")
           scalar == ParamOr(c, "limit", ParamOr(c, "min", ParamOr(c, "max", 0)))
           bound(e) == IF f = Absent THEN scalar ELSE AttrOr(s, e, f, scalar)
           row(e) == AmountRow(c, s.id[e], {e}, sense, bound(e))
<1>1. ASSUME NEW e \in Entities(s)
      PROVE  Fits(x, row(e)) <=> IF sense = "<=" THEN x[e] <= bound(e) ELSE x[e] >= bound(e)
  <2>1. x[e] \in Int
    BY DEF Whole
  <2> HIDE DEF bound
  <2>2. Total(x, {e}) = x[e]
    BY <2>1, TotalOfOne
  <2> QED
    BY <2>2 DEF Fits, AmountRow
<1>2. PerEntity(s, c, sense) = {row(e) : e \in Entities(s)}
  BY DEF PerEntity
<1> HIDE DEF row, bound
<1>3. (\A r \in PerEntity(s, c, sense) : Fits(x, r)) <=> \A e \in Entities(s) : Fits(x, row(e))
  BY <1>2
<1>4. (\A r \in PerEntity(s, c, sense) : Fits(x, r))
        <=> \A e \in Entities(s) :
               IF sense = "<=" THEN x[e] <= bound(e) ELSE x[e] >= bound(e)
  BY <1>1, <1>3
<1> QED
  BY <1>4 DEF bound

\* A bound is the field, and without one the limit or what stands for it.
LEMMA OwnBound ==
    ASSUME NEW s \in Specs, NEW c \in s.constraints, NEW key \in {"min", "max"},
           NEW e \in Entities(s),
           Param(c, IF key = "min" THEN "max" ELSE "min") = Absent
    PROVE  LET f == Param(c, "resource_field")
               scalar == ParamOr(c, "limit", ParamOr(c, "min", ParamOr(c, "max", 0)))
           IN  Offered(s, [c EXCEPT !.parameters =
                             [k \in {"limit"} |-> ParamOr(c, "limit", ParamOr(c, key, 0))]],
                       e, f)
                 = IF f = Absent THEN scalar ELSE AttrOr(s, e, f, scalar)
<1> DEFINE n == ParamOr(c, "limit", ParamOr(c, key, 0))
           d == [c EXCEPT !.parameters = [k \in {"limit"} |-> n]]
<1>1. n = ParamOr(c, "limit", ParamOr(c, "min", ParamOr(c, "max", 0)))
  BY DEF ParamOr
<1>2. n \in Int
  <2>1. ParamOr(c, key, 0) \in Int
    BY NumbersOfSpec
  <2> QED
    BY <2>1, NumbersOfSpec
<1> HIDE DEF n
<1>3. ParamOr(d, "limit", 0) = n
  <2>1. d.parameters = [k \in {"limit"} |-> n]
    OBVIOUS
  <2> HIDE DEF d
  <2>2. Param(d, "limit") = n
    BY <2>1 DEF Param
  <2>3. n # Absent
    BY <1>2, SpecsAssumption
  <2> QED
    BY <2>2, <2>3 DEF ParamOr
<1> QED
  BY <1>1, <1>3 DEF Offered, n

\* The rows of a constraint on amounts (allocation_model.py) are what the documentation
\* says of it.
LEMMA AmountRowsMean ==
    ASSUME NEW s \in Specs, NEW x \in Whole(s), NEW c \in s.constraints,
           BudgetsCount(s), BoundsCount(s), c.type \in OnTotals \cup OnEach
    PROVE  (\A row \in AmountRows(s, c) : Fits(x, row)) <=> MeansFor(s, c, x)
<1> DEFINE f == Param(c, "resource_field")
           scalar == ParamOr(c, "limit", ParamOr(c, "min", ParamOr(c, "max", 0)))
           bound(e) == IF f = Absent THEN scalar ELSE AttrOr(s, e, f, scalar)
           own(e, key) == Offered(s, [c EXCEPT !.parameters =
                            [k \in {"limit"} |-> ParamOr(c, "limit", ParamOr(c, key, 0))]],
                                  e, f)
<1>1. DOMAIN x = Entities(s)
  BY DEF Whole
<1>2. CASE c.type = "budget_limit"
  <2> DEFINE limit == IF ParamOr(c, "limit", 0) = 0 THEN s.globalLimit ELSE Param(c, "limit")
             row == AmountRow(c, "total", Entities(s), "<=", limit)
  <2>1. AmountRows(s, c) = {row}
    BY <1>2 DEF AmountRows, TotalBudget
  <2>2. Fits(x, row) <=> Total(x, Entities(s)) <= limit
    <3> HIDE DEF limit
    <3> QED
      BY DEF Fits, AmountRow
  <2>3. limit = ParamOr(c, "limit", s.globalLimit)
    BY <1>2 DEF BudgetsCount, ParamOr
  <2> HIDE DEF limit, row
  <2>4. (\A r \in AmountRows(s, c) : Fits(x, r)) <=> Total(x, Entities(s)) <= limit
    BY <2>1, <2>2
  <2>5. MeansFor(s, c, x) <=> Sum(x) <= limit
    BY <1>2, <2>3 DEF MeansFor
  <2> QED
    BY <1>1, <2>4, <2>5 DEF Sum
<1>3. CASE c.type = "demand_coverage"
  <2> DEFINE n == ParamOr(c, "limit", ParamOr(c, "min", 0))
             row == AmountRow(c, "total", Entities(s), ">=", n)
  <2>1. AmountRows(s, c) = {row}
    BY <1>3 DEF AmountRows, DemandFloor
  <2>2. Fits(x, row) <=> Total(x, Entities(s)) >= n
    <3> HIDE DEF n
    <3> QED
      BY DEF Fits, AmountRow
  <2>3. MeansFor(s, c, x) <=> Sum(x) >= n
    BY <1>3 DEF MeansFor
  <2> HIDE DEF n, row
  <2>4. (\A r \in AmountRows(s, c) : Fits(x, r)) <=> Total(x, Entities(s)) >= n
    BY <2>1, <2>2
  <2> QED
    BY <1>1, <2>3, <2>4 DEF Sum
<1>4. CASE c.type = "min_allocation"
  <2>1. AmountRows(s, c) = PerEntity(s, c, ">=")
    BY <1>4 DEF AmountRows
  <2>2. (\A row \in AmountRows(s, c) : Fits(x, row)) <=> \A e \in Entities(s) : x[e] >= bound(e)
    BY <2>1, PerEntityMeans
  <2>3. \A e \in Entities(s) : own(e, "min") = bound(e)
    BY <1>4, OwnBound DEF BoundsCount
  <2>4. MeansFor(s, c, x) <=> \A e \in DOMAIN x : x[e] >= own(e, "min")
    BY <1>4 DEF MeansFor
  <2> HIDE DEF own, bound
  <2> QED
    BY <1>1, <2>2, <2>3, <2>4
<1>5. CASE c.type \in {"max_allocation", "capacity", "time_budget"}
  <2>1. AmountRows(s, c) = PerEntity(s, c, "<=")
    BY <1>5 DEF AmountRows
  <2>2. (\A row \in AmountRows(s, c) : Fits(x, row)) <=> \A e \in Entities(s) : x[e] <= bound(e)
    BY <2>1, PerEntityMeans
  <2>3. \A e \in Entities(s) : own(e, "max") = bound(e)
    BY <1>5, OwnBound DEF BoundsCount
  <2>4. MeansFor(s, c, x) <=> \A e \in DOMAIN x : x[e] <= own(e, "max")
    BY <1>5 DEF MeansFor
  <2> HIDE DEF own, bound
  <2> QED
    BY <1>1, <2>2, <2>3, <2>4
<1>6. CASE c.type = "compatibility"
  BY <1>6 DEF MeansFor, AmountRows
<1> QED
  BY <1>2, <1>3, <1>4, <1>5, <1>6 DEF OnTotals, OnEach

\* The rows together are the constraints together.
LEMMA FittingKeeps ==
    ASSUME NEW s \in Specs, AmountsBuildable(s), BudgetsCount(s), BoundsCount(s),
           NEW x \in Whole(s)
    PROVE  FitsAll(s, x) <=> KeepsAmounts(s, x)
<1>1. \A c \in s.constraints : (\A row \in AmountRows(s, c) : Fits(x, row)) <=> MeansFor(s, c, x)
  BY AmountRowsMean DEF AmountsBuildable
<1>2. FitsAll(s, x) <=> \A c \in s.constraints : \A row \in AmountRows(s, c) : Fits(x, row)
  BY DEF FitsAll, AllRows
<1> QED
  BY <1>1, <1>2 DEF KeepsAmounts

\* Rows are about entities and bounds are numbers up to Most.
LEMMA RowsOfAmounts ==
    ASSUME NEW s \in Specs, Continuous(s), AmountsBuildable(s), NEW row \in AllRows(s)
    PROVE  /\ row.who \in SUBSET Entities(s) /\ row.sense \in {"<=", ">="}
           /\ row.bound \in Int /\ row.bound <= Most
           /\ row.who = Entities(s) \/ \E e \in Entities(s) : row.who = {e}
<1>1. row.bound <= Most
  BY BoundsAssumption
<1>2. PICK c \in s.constraints : row \in AmountRows(s, c)
  BY DEF AllRows
<1>3. 0 \in Int /\ s.globalLimit \in Int
  BY SpecsAssumption
<1>4. \A n \in Int : \A key \in {"limit", "min", "max"} : ParamOr(c, key, n) \in Int
  BY NumbersOfSpec
<1>5. ASSUME NEW sense \in {"<=", ">="}, row \in PerEntity(s, c, sense)
      PROVE  /\ row.who \in SUBSET Entities(s) /\ row.sense \in {"<=", ">="} /\ row.bound \in Int
             /\ \E e \in Entities(s) : row.who = {e}
  <2> DEFINE f == Param(c, "resource_field")
             scalar == ParamOr(c, "limit", ParamOr(c, "min", ParamOr(c, "max", 0)))
             bound(e) == IF f = Absent THEN scalar ELSE AttrOr(s, e, f, scalar)
  <2>1. PICK e \in Entities(s) : row = AmountRow(c, s.id[e], {e}, sense, bound(e))
    BY <1>5 DEF PerEntity
  <2>2. scalar \in Int
    BY <1>3, <1>4
  <2> HIDE DEF scalar
  <2>3. AttrOr(s, e, f, scalar) \in Int
    BY <2>2, NumbersOfSpec
  <2> QED
    BY <2>1, <2>2, <2>3 DEF AmountRow
<1>6. CASE c.type = "budget_limit"
  <2> DEFINE limit == IF ParamOr(c, "limit", 0) = 0 THEN s.globalLimit ELSE Param(c, "limit")
  <2>1. row = AmountRow(c, "total", Entities(s), "<=", limit)
    BY <1>2, <1>6 DEF AmountRows, TotalBudget
  <2>2. limit \in Int
    BY <1>3, <1>4 DEF ParamOr
  <2> HIDE DEF limit
  <2> QED
    BY <1>1, <2>1, <2>2 DEF AmountRow
<1>7. CASE c.type = "demand_coverage"
  <2> DEFINE n == ParamOr(c, "limit", ParamOr(c, "min", 0))
  <2>1. row = AmountRow(c, "total", Entities(s), ">=", n)
    BY <1>2, <1>7 DEF AmountRows, DemandFloor
  <2>2. n \in Int
    BY <1>3, <1>4
  <2> HIDE DEF n
  <2> QED
    BY <1>1, <2>1, <2>2 DEF AmountRow
<1>8. CASE c.type \in OnEach
  <2>1. row \in PerEntity(s, c, ">=") \/ row \in PerEntity(s, c, "<=")
    BY <1>2, <1>8 DEF AmountRows, OnEach
  <2> QED
    BY <1>1, <1>5, <2>1
<1>9. c.type # "compatibility"
  BY <1>2 DEF AmountRows
<1> QED
  BY <1>6, <1>7, <1>8, <1>9 DEF AmountsBuildable, OnTotals

\* The bounds on amounts (allocation_model.py) are what the documentation says of the
\* constraints: an optimal answer keeps every one.
THEOREM AmountsKeep == AllocationSpec => []AmountsKeepConstraints
<1>1. IInv => AmountsKeepConstraints
  <2> SUFFICES ASSUME IInv, Continuous(spec), status = "optimal", BudgetsCount(spec),
                      BoundsCount(spec)
               PROVE  KeepsAmounts(spec, [e \in Entities(spec) |-> Amount(e)])
    BY DEF AmountsKeepConstraints
  <2>1. AmountsBuildable(spec) /\ spec \in Specs
    BY DEF IInv, AmountsInv
  <2>2. PICK x \in BestAmounts(spec) : plan = Kept(x)
    BY DEF IInv, AmountsInv
  <2>3. x \in Amounts(spec) /\ FitsAll(spec, x)
    BY DEF BestAmounts, Feasible, FitsAll
  <2>4. [e \in Entities(spec) |-> Amount(e)] = x
    BY <2>2, <2>3, AmountsOfPlan
  <2>5. x \in Whole(spec)
    BY <2>3, MostAssumption DEF Amounts, Whole
  <2> QED
    BY <2>1, <2>3, <2>4, <2>5, FittingKeeps
<1> QED
  BY <1>1, Invariance, PTL

-----------------------------------------------------------------------------
(* The best amounts.                                                        *)

\* Amounts cut down to Most.
Cut(x) == [e \in DOMAIN x |-> IF x[e] <= Most THEN x[e] ELSE Most]

\* Amounts that fit the rows do so when they are cut down.
LEMMA CutFits ==
    ASSUME NEW s \in Specs, Continuous(s), AmountsBuildable(s), NEW x \in Whole(s), FitsAll(s, x)
    PROVE  Cut(x) \in Feasible(s)
<1> DEFINE y == Cut(x)
<1>1. /\ y \in Amounts(s)
      /\ \A e \in Entities(s) : /\ x[e] \in Int /\ y[e] \in Nat /\ y[e] <= x[e]
                                /\ y[e] = x[e] \/ y[e] = Most
  BY MostAssumption DEF Whole, Amounts, Cut
<1> HIDE DEF y
<1>2. ASSUME NEW row \in AllRows(s) PROVE Fits(y, row)
  <2>1. /\ row.who \in SUBSET Entities(s) /\ row.sense \in {"<=", ">="}
        /\ row.bound \in Int /\ row.bound <= Most
    BY RowsOfAmounts
  <2>2. IsFiniteSet(row.who)
    BY <2>1, EntitiesAreFinite, FS_Subset
  <2>3. Total(x, row.who) \in Int /\ Total(y, row.who) \in Int
    BY <1>1, <2>1, <2>2, TotalAny
  <2>4. Fits(x, row)
    BY DEF FitsAll
  <2>5. CASE row.sense = "<="
    <3>1. Total(y, row.who) <= Total(x, row.who)
      BY <1>1, <2>1, <2>2, TotalMonotone
    <3> QED
      BY <2>1, <2>3, <2>4, <2>5, <3>1 DEF Fits
  <2>6. CASE row.sense = ">=" /\ \A e \in row.who : y[e] = x[e]
    <3>1. Total(y, row.who) = Total(x, row.who)
      BY <1>1, <2>1, <2>2, <2>6, TotalSame
    <3> QED
      BY <2>4, <2>6, <3>1 DEF Fits
  <2>7. CASE row.sense = ">=" /\ \E e \in row.who : y[e] = Most
    <3>1. PICK e \in row.who : y[e] = Most
      BY <2>7
    <3>2. Total(y, {e}) = Most
      <4>1. y[e] \in Int
        BY <3>1, MostAssumption
      <4> QED
        BY <3>1, <4>1, TotalOfOne
    <3>3. Total(y, {e}) <= Total(y, row.who)
      BY <1>1, <2>1, <2>2, TotalOfPart
    <3> QED
      BY <2>1, <2>3, <2>7, <3>2, <3>3, MostAssumption DEF Fits
  <2> QED
    BY <1>1, <2>1, <2>5, <2>6, <2>7
<1> QED
  BY <1>1, <1>2 DEF Feasible, y

\* What a unit brings (set_objective) is a number: the one in the objective's field.
LEMMA WorthIsWhatItBrings ==
    ASSUME NEW s \in Specs, NEW e \in Entities(s)
    PROVE  Worth(s, e) \in Int /\ Worth(s, e) = Brings(s, e)
<1>1. CASE s.field \in DOMAIN s.attributes[e]
  <2>1. /\ s.field # Absent
        /\ s.attributes[e][s.field] \in Values /\ s.attributes[e][s.field] # Missing
    BY <1>1, SpecsAssumption
  <2>2. s.attributes[e][s.field].n \in Int
    BY <2>1 DEF Values, Word, Missing
  <2> QED
    BY <1>1, <2>1, <2>2 DEF Worth, Brings, AttrOr, Attr
<1>2. CASE s.field \notin DOMAIN s.attributes[e]
  BY <1>2 DEF Worth, Brings, AttrOr, Attr
<1> QED
  BY <1>1, <1>2

\* The objective's terms.
Terms(s, x) == [e \in Entities(s) |-> Worth(s, e) * x[e]]

\* The objective of amounts is the number they yield.
LEMMA ValueIsYield ==
    ASSUME NEW s \in Specs, NEW x \in Whole(s)
    PROVE  /\ Value(s, x) \in Int /\ Value(s, x) = Total(Terms(s, x), Entities(s))
           /\ Yield(s, x) = Value(s, x)
           /\ \A e \in Entities(s) : Terms(s, x)[e] = Worth(s, e) * x[e] /\ Terms(s, x)[e] \in Int
<1>1. DOMAIN x = Entities(s)
  BY DEF Whole
<1>2. \A e \in Entities(s) : Worth(s, e) \in Int /\ Worth(s, e) = Brings(s, e) /\ x[e] \in Int
  BY WorthIsWhatItBrings DEF Whole
<1>3. \A e \in Entities(s) : Worth(s, e) * x[e] \in Int
  BY <1>2
<1>4. /\ \A e \in Entities(s) : Terms(s, x)[e] = Worth(s, e) * x[e] /\ Terms(s, x)[e] \in Int
      /\ Terms(s, x) = [e \in Entities(s) |-> Brings(s, e) * x[e]]
  BY <1>2, <1>3 DEF Terms
<1>5. Total(Terms(s, x), Entities(s)) \in Int
  BY <1>4, EntitiesAreFinite, TotalAny
<1>6. Value(s, x) = Total(Terms(s, x), Entities(s)) /\ Yield(s, x) = Total(Terms(s, x), Entities(s))
  BY <1>1, <1>4 DEF Value, Yield, Terms
<1> QED
  BY <1>4, <1>5, <1>6

\* Products grow with a factor, or shrink.
LEMMA Products ==
    ASSUME NEW w \in Int, NEW a \in Int, NEW b \in Int, a <= b
    PROVE  (w >= 0 => w * a <= w * b) /\ (w <= 0 => w * a >= w * b)
<1>1. PICK d \in Nat : b = a + d
  <2>1. b - a \in Nat /\ b = a + (b - a)
    OBVIOUS
  <2> QED
    BY <2>1
<1>2. w * b = w * a + w * d
  BY <1>1
<1>3. (w >= 0 => w * d >= 0) /\ (w <= 0 => w * d <= 0)
  BY <1>1
<1>4. w * a \in Int /\ w * d \in Int
  BY <1>1
<1> QED
  BY <1>2, <1>3, <1>4

\* One objective is as good as another.
AsGood(s, n, m) == IF s.maximize THEN n >= m ELSE n <= m

\* Terms that are as good make an objective that is.
LEMMA AsGoodTerms ==
    ASSUME NEW s \in Specs, NEW x \in Whole(s), NEW y \in Whole(s),
           \A e \in Entities(s) : AsGood(s, Worth(s, e) * y[e], Worth(s, e) * x[e])
    PROVE  AsGood(s, Value(s, y), Value(s, x))
<1>1. /\ Value(s, x) = Total(Terms(s, x), Entities(s))
      /\ Value(s, y) = Total(Terms(s, y), Entities(s))
      /\ \A e \in Entities(s) : /\ Terms(s, x)[e] \in Int /\ Terms(s, y)[e] \in Int
                                /\ AsGood(s, Terms(s, y)[e], Terms(s, x)[e])
  BY ValueIsYield
<1>2. IsFiniteSet(Entities(s))
  BY EntitiesAreFinite
<1>3. CASE s.maximize
  <2>1. \A e \in Entities(s) : Terms(s, x)[e] <= Terms(s, y)[e]
    BY <1>1, <1>3 DEF AsGood
  <2>2. Total(Terms(s, x), Entities(s)) <= Total(Terms(s, y), Entities(s))
    BY <1>1, <1>2, <2>1, TotalMonotone
  <2>3. Value(s, x) \in Int /\ Value(s, y) \in Int
    BY ValueIsYield
  <2> QED
    BY <1>1, <1>3, <2>2, <2>3 DEF AsGood
<1>4. CASE ~s.maximize
  <2>1. \A e \in Entities(s) : Terms(s, y)[e] <= Terms(s, x)[e]
    BY <1>1, <1>4 DEF AsGood
  <2>2. Total(Terms(s, y), Entities(s)) <= Total(Terms(s, x), Entities(s))
    BY <1>1, <1>2, <2>1, TotalMonotone
  <2> QED
    BY <1>1, <1>4, <2>2 DEF AsGood
<1> QED
  BY <1>3, <1>4

\* An amount beyond Most is in no row that bounds from above.
LEMMA BeyondIsFree ==
    ASSUME NEW s \in Specs, Continuous(s), AmountsBuildable(s), NEW x \in Whole(s), FitsAll(s, x),
           NEW e \in Entities(s), x[e] > Most, NEW row \in AllRows(s), e \in row.who
    PROVE  row.sense = ">="
<1>1. /\ row.who \in SUBSET Entities(s) /\ row.sense \in {"<=", ">="}
      /\ row.bound \in Int /\ row.bound <= Most
  BY RowsOfAmounts
<1>2. \A d \in row.who : x[d] \in Nat
  BY <1>1 DEF Whole
<1>3. IsFiniteSet(row.who)
  BY <1>1, EntitiesAreFinite, FS_Subset
<1>4. Total(x, {e}) = x[e] /\ Total(x, {e}) <= Total(x, row.who)
  <2>1. {e} \in SUBSET row.who /\ x[e] \in Int
    BY <1>2
  <2>2. Total(x, {e}) = x[e]
    BY <2>1, TotalOfOne
  <2>3. Total(x, {e}) <= Total(x, row.who)
    BY <1>2, <1>3, <2>1, TotalOfPart
  <2> QED
    BY <2>2, <2>3
<1>5. Total(x, row.who) \in Int
  BY <1>2, <1>3, TotalAny
<1>6. Fits(x, row)
  BY DEF FitsAll
<1> QED
  BY <1>1, <1>2, <1>4, <1>5, <1>6, MostAssumption DEF Fits

\* If no amount may grow, cutting down costs nothing.
LEMMA CutPays ==
    ASSUME NEW s \in Specs, Continuous(s), AmountsBuildable(s), ~Unlimited(s),
           NEW x \in Whole(s), FitsAll(s, x)
    PROVE  Cut(x) \in Whole(s) /\ AsGood(s, Value(s, Cut(x)), Value(s, x))
<1> DEFINE y == Cut(x)
<1>1. /\ y \in Whole(s)
      /\ \A e \in Entities(s) : /\ x[e] \in Int /\ y[e] \in Int /\ y[e] <= x[e]
                                /\ y[e] = x[e] \/ x[e] > Most
  BY MostAssumption DEF Whole, Cut
<1> HIDE DEF y
<1>2. ASSUME NEW e \in Entities(s) PROVE AsGood(s, Worth(s, e) * y[e], Worth(s, e) * x[e])
  <2>1. Worth(s, e) \in Int
    BY WorthIsWhatItBrings
  <2>2. CASE y[e] = x[e]
    <3>1. Worth(s, e) * x[e] \in Int
      BY <1>1, <2>1
    <3> QED
      BY <2>2, <3>1 DEF AsGood
  <2>3. CASE x[e] > Most
    <3>1. \A row \in AllRows(s) : e \in row.who => row.sense = ">="
      BY <2>3, BeyondIsFree
    <3>2. IF s.maximize THEN Worth(s, e) <= 0 ELSE Worth(s, e) >= 0
      BY <2>1, <3>1 DEF Unlimited
    <3>3. /\ Worth(s, e) >= 0 => Worth(s, e) * y[e] <= Worth(s, e) * x[e]
          /\ Worth(s, e) <= 0 => Worth(s, e) * y[e] >= Worth(s, e) * x[e]
      BY <1>1, <2>1, Products
    <3> QED
      BY <3>2, <3>3 DEF AsGood
  <2> QED
    BY <1>1, <2>2, <2>3
<1>3. AsGood(s, Value(s, y), Value(s, x))
  BY <1>1, <1>2, AsGoodTerms
<1> QED
  BY <1>1, <1>3 DEF y

\* The objective of amounts up to Most has bounds.
LEMMA ValuesAreBounded ==
    ASSUME NEW s \in Specs
    PROVE  \E low, high \in Int : \A x \in Amounts(s) : Value(s, x) \in low .. high
<1> DEFINE l == [e \in Entities(s) |-> IF Worth(s, e) >= 0 THEN 0 ELSE Worth(s, e) * Most]
           h == [e \in Entities(s) |-> IF Worth(s, e) >= 0 THEN Worth(s, e) * Most ELSE 0]
<1>1. \A e \in Entities(s) : Worth(s, e) \in Int
  BY WorthIsWhatItBrings
<1>2. \A e \in Entities(s) : Worth(s, e) * Most \in Int
  BY <1>1, MostAssumption
<1>3. \A e \in Entities(s) :
         /\ l[e] = IF Worth(s, e) >= 0 THEN 0 ELSE Worth(s, e) * Most
         /\ h[e] = IF Worth(s, e) >= 0 THEN Worth(s, e) * Most ELSE 0
         /\ l[e] \in Int /\ h[e] \in Int
  BY <1>2
<1> HIDE DEF l, h
<1>4. Total(l, Entities(s)) \in Int /\ Total(h, Entities(s)) \in Int
  BY <1>3, EntitiesAreFinite, TotalAny
<1>5. ASSUME NEW x \in Amounts(s)
      PROVE  Value(s, x) \in Total(l, Entities(s)) .. Total(h, Entities(s))
  <2>1. x \in Whole(s) /\ \A e \in Entities(s) : x[e] \in Int /\ 0 <= x[e] /\ x[e] <= Most
    BY MostAssumption DEF Amounts, Whole
  <2>2. /\ Value(s, x) \in Int /\ Value(s, x) = Total(Terms(s, x), Entities(s))
        /\ \A e \in Entities(s) : Terms(s, x)[e] = Worth(s, e) * x[e] /\ Terms(s, x)[e] \in Int
    BY <2>1, ValueIsYield
  <2>3. ASSUME NEW e \in Entities(s) PROVE l[e] <= Terms(s, x)[e] /\ Terms(s, x)[e] <= h[e]
    <3>1. /\ Worth(s, e) >= 0 => Worth(s, e) * 0 <= Worth(s, e) * x[e]
          /\ Worth(s, e) <= 0 => Worth(s, e) * 0 >= Worth(s, e) * x[e]
      BY <1>1, <2>1, Products
    <3>2. /\ Worth(s, e) >= 0 => Worth(s, e) * x[e] <= Worth(s, e) * Most
          /\ Worth(s, e) <= 0 => Worth(s, e) * x[e] >= Worth(s, e) * Most
      BY <1>1, <2>1, MostAssumption, Products
    <3>3. Worth(s, e) * 0 = 0
      BY <1>1
    <3>4. Worth(s, e) >= 0 \/ Worth(s, e) <= 0
      BY <1>1
    <3> QED
      BY <1>3, <2>2, <3>1, <3>2, <3>3, <3>4
  <2>4. /\ Total(l, Entities(s)) <= Total(Terms(s, x), Entities(s))
        /\ Total(Terms(s, x), Entities(s)) <= Total(h, Entities(s))
    BY <1>3, <2>2, <2>3, EntitiesAreFinite, TotalMonotone
  <2> QED
    BY <1>4, <2>2, <2>4
<1> QED
  BY <1>4, <1>5

\* No amounts up to Most that fit the rows have a better objective than those that CBC
\* may answer with.
LEMMA BestAmountsAreBest ==
    ASSUME NEW s \in Specs, NEW z \in BestAmounts(s), NEW x \in Feasible(s)
    PROVE  AsGood(s, Value(s, z), Value(s, x))
<1> DEFINE values == {Value(s, y) : y \in Feasible(s)}
<1>1. PICK low, high \in Int : \A y \in Amounts(s) : Value(s, y) \in low .. high
  BY ValuesAreBounded
<1>2. values \subseteq low .. high /\ Value(s, x) \in values
  BY <1>1 DEF Feasible
<1>3. Value(s, z) = IF s.maximize THEN Max(values) ELSE Min(values)
  BY DEF BestAmounts
<1> HIDE DEF values
<1>4. IsFiniteSet(values) /\ values \subseteq Int /\ values # {}
  <2>1. IsFiniteSet(low .. high) /\ low .. high \subseteq Int
    BY FS_Interval
  <2>2. IsFiniteSet(values)
    BY <1>2, <2>1, FS_Subset
  <2> QED
    BY <1>2, <2>1, <2>2
<1>5. /\ Max(values) \in values /\ \A n \in values : Max(values) >= n
      /\ Min(values) \in values /\ \A n \in values : Min(values) <= n
  BY <1>4, Extremes
<1> QED
  BY <1>2, <1>3, <1>5 DEF AsGood

\* What the objective and the sum gain when one amount changes.
LEMMA OneChanged ==
    ASSUME NEW s \in Specs, NEW x \in Whole(s), NEW y \in Whole(s), NEW e \in Entities(s),
           NEW n \in Int, y[e] = x[e] + n, \A d \in Entities(s) \ {e} : y[d] = x[d]
    PROVE  /\ Value(s, y) = Value(s, x) + Worth(s, e) * n
           /\ Total(y, Entities(s)) = Total(x, Entities(s)) + n
<1>1. \A d \in Entities(s) : x[d] \in Int /\ y[d] \in Int
  BY DEF Whole
<1>2. IsFiniteSet(Entities(s))
  BY EntitiesAreFinite
<1>3. /\ Value(s, x) = Total(Terms(s, x), Entities(s))
      /\ Value(s, y) = Total(Terms(s, y), Entities(s))
      /\ \A d \in Entities(s) :
            /\ Terms(s, x)[d] = Worth(s, d) * x[d] /\ Terms(s, x)[d] \in Int
            /\ Terms(s, y)[d] = Worth(s, d) * y[d] /\ Terms(s, y)[d] \in Int
  BY ValueIsYield
<1>4. \A d \in Entities(s) \ {e} : Terms(s, y)[d] = Terms(s, x)[d]
  BY <1>3
<1>5. /\ Total(Terms(s, y), Entities(s))
            = Total(Terms(s, x), Entities(s)) + (Terms(s, y)[e] - Terms(s, x)[e])
      /\ Total(y, Entities(s)) = Total(x, Entities(s)) + (y[e] - x[e])
  BY <1>1, <1>2, <1>3, <1>4, TotalChange
<1>6. Terms(s, y)[e] - Terms(s, x)[e] = Worth(s, e) * n
  <2>1. Worth(s, e) \in Int
    BY WorthIsWhatItBrings
  <2>2. Worth(s, e) * (x[e] + n) - Worth(s, e) * x[e] = Worth(s, e) * n
    BY <1>1, <2>1
  <2> QED
    BY <1>3, <2>2
<1>7. y[e] - x[e] = n
  BY <1>1
<1> QED
  BY <1>3, <1>5, <1>6, <1>7

\* Amounts in k-th parts are whole numbers of k-ths, for which the bounds are k times as
\* large: with every k these are all the amounts of the linear program.
FitsIn(k, x, row) ==
    IF row.sense = "<=" THEN Total(x, row.who) <= k * row.bound
                        ELSE Total(x, row.who) >= k * row.bound
Parts(s, k) == {x \in Whole(s) : \A row \in AllRows(s) : FitsIn(k, x, row)}

\* Whole amounts are those in single parts.
LEMMA SingleParts ==
    ASSUME NEW s \in Specs, Continuous(s), AmountsBuildable(s), NEW x \in Whole(s)
    PROVE  x \in Parts(s, 1) <=> FitsAll(s, x)
<1>1. \A row \in AllRows(s) : 1 * row.bound = row.bound
  BY RowsOfAmounts
<1>2. \A row \in AllRows(s) : FitsIn(1, x, row) <=> Fits(x, row)
  BY <1>1 DEF FitsIn, Fits
<1> QED
  BY <1>2 DEF Parts, FitsAll

\* One unit more for an entity.
More(x, e) == [x EXCEPT ![e] = @ + 1]

\* An amount that may grow grows, and the objective with it.
LEMMA GrowsOn ==
    ASSUME NEW s \in Specs, Continuous(s), AmountsBuildable(s), Unlimited(s),
           NEW k \in Nat, NEW x \in Parts(s, k)
    PROVE  \E e \in Entities(s) : /\ More(x, e) \in Parts(s, k)
                                  /\ ~AsGood(s, Value(s, x), Value(s, More(x, e)))
<1>1. PICK e \in Entities(s) :
         /\ IF s.maximize THEN Worth(s, e) > 0 ELSE Worth(s, e) < 0
         /\ \A row \in AllRows(s) : e \in row.who => row.sense = ">="
  BY DEF Unlimited
<1> DEFINE y == More(x, e)
<1>2. /\ x \in Whole(s) /\ y \in Whole(s) /\ y[e] = x[e] + 1
      /\ \A d \in Entities(s) : /\ x[d] \in Int /\ y[d] \in Int /\ x[d] <= y[d]
                                /\ d # e => y[d] = x[d]
  BY DEF Parts, Whole, More
<1> HIDE DEF y
<1>3. ASSUME NEW row \in AllRows(s) PROVE FitsIn(k, y, row)
  <2>1. /\ row.who \in SUBSET Entities(s) /\ row.sense \in {"<=", ">="} /\ k * row.bound \in Int
    BY RowsOfAmounts
  <2>2. IsFiniteSet(row.who)
    BY <2>1, EntitiesAreFinite, FS_Subset
  <2>3. FitsIn(k, x, row)
    BY DEF Parts
  <2>4. CASE e \in row.who
    <3>1. row.sense = ">="
      BY <1>1, <2>4
    <3>2. Total(x, row.who) <= Total(y, row.who)
      BY <1>2, <2>1, <2>2, TotalMonotone
    <3>3. Total(x, row.who) \in Int /\ Total(y, row.who) \in Int
      BY <1>2, <2>1, <2>2, TotalAny
    <3> QED
      BY <2>1, <2>3, <3>1, <3>2, <3>3 DEF FitsIn
  <2>5. CASE e \notin row.who
    <3>1. \A d \in row.who : x[d] \in Int /\ y[d] = x[d]
      BY <1>2, <2>1, <2>5
    <3>2. Total(y, row.who) = Total(x, row.who)
      BY <2>2, <3>1, TotalSame
    <3> QED
      BY <2>3, <3>2 DEF FitsIn
  <2> QED
    BY <2>4, <2>5
<1>4. Value(s, y) = Value(s, x) + Worth(s, e) * 1
  <2>1. 1 \in Int /\ \A d \in Entities(s) \ {e} : y[d] = x[d]
    BY <1>2
  <2> QED
    BY <1>2, <2>1, OneChanged
<1>5. Value(s, x) \in Int /\ Worth(s, e) \in Int
  BY <1>2, ValueIsYield, WorthIsWhatItBrings
<1>6. ~AsGood(s, Value(s, x), Value(s, y))
  BY <1>1, <1>4, <1>5 DEF AsGood
<1> QED
  BY <1>2, <1>3, <1>6 DEF Parts, y

\* Bringing more is a better objective.
LEMMA YieldingMore ==
    ASSUME NEW s \in Specs, NEW x \in Whole(s), NEW y \in Whole(s)
    PROVE  YieldsMore(s, x, y) <=> ~AsGood(s, Value(s, y), Value(s, x))
<1>1. /\ Yield(s, x) = Value(s, x) /\ Value(s, x) \in Int
      /\ Yield(s, y) = Value(s, y) /\ Value(s, y) \in Int
  BY ValueIsYield
<1> QED
  BY <1>1 DEF YieldsMore, AsGood

\* What an answer says of the whole amounts that keep the constraints, however large.
LEMMA AnswersAreRight ==
    ASSUME IInv, Continuous(spec), pc = "solved", BudgetsCount(spec), BoundsCount(spec)
    PROVE  /\ spec \in Specs
           /\ status = "optimal" =>
                 \A x \in Whole(spec) : KeepsAmounts(spec, x) =>
                     ~YieldsMore(spec, x, [e \in Entities(spec) |-> Amount(e)])
           /\ status = "infeasible" => \A x \in Whole(spec) : ~KeepsAmounts(spec, x)
           /\ status = "unbounded" =>
                 /\ \E x \in Amounts(spec) : KeepsAmounts(spec, x)
                 /\ \A x \in Whole(spec) : KeepsAmounts(spec, x) =>
                        \E e \in Entities(spec) :
                            /\ More(x, e) \in Whole(spec) /\ KeepsAmounts(spec, More(x, e))
                            /\ YieldsMore(spec, More(x, e), x)
<1>1. spec \in Specs /\ AmountsBuildable(spec)
  BY DEF IInv, AmountsInv
<1>2. \A x \in Whole(spec) : FitsAll(spec, x) <=> KeepsAmounts(spec, x)
  BY <1>1, FittingKeeps
<1>3. \A x \in Feasible(spec) : x \in Amounts(spec) /\ x \in Whole(spec) /\ FitsAll(spec, x)
  BY MostAssumption DEF Feasible, FitsAll, Amounts, Whole
<1>4. ASSUME status = "optimal", NEW x \in Whole(spec), KeepsAmounts(spec, x)
      PROVE  ~YieldsMore(spec, x, [e \in Entities(spec) |-> Amount(e)])
  <2>1. ~Unlimited(spec)
    BY <1>4 DEF IInv, AmountsInv
  <2>2. PICK z \in BestAmounts(spec) : plan = Kept(z)
    BY <1>4 DEF IInv, AmountsInv
  <2>3. z \in Amounts(spec) /\ z \in Whole(spec)
    BY <1>3 DEF BestAmounts
  <2>4. [e \in Entities(spec) |-> Amount(e)] = z
    BY <2>2, <2>3, AmountsOfPlan
  <2>5. FitsAll(spec, x)
    BY <1>2, <1>4
  <2>6. /\ Cut(x) \in Feasible(spec) /\ Cut(x) \in Whole(spec)
        /\ AsGood(spec, Value(spec, Cut(x)), Value(spec, x))
    BY <1>1, <2>1, <2>5, CutFits, CutPays
  <2>7. AsGood(spec, Value(spec, z), Value(spec, Cut(x)))
    BY <1>1, <2>6, BestAmountsAreBest
  <2>8. Value(spec, z) \in Int /\ Value(spec, Cut(x)) \in Int /\ Value(spec, x) \in Int
    BY <1>1, <2>3, <2>6, ValueIsYield
  <2>9. AsGood(spec, Value(spec, z), Value(spec, x))
    BY <2>6, <2>7, <2>8 DEF AsGood
  <2> QED
    BY <1>1, <2>3, <2>4, <2>9, YieldingMore
<1>5. ASSUME status = "infeasible", NEW x \in Whole(spec), KeepsAmounts(spec, x) PROVE FALSE
  <2>1. Feasible(spec) = {}
    BY <1>5 DEF IInv, AmountsInv
  <2>2. Cut(x) \in Feasible(spec)
    BY <1>1, <1>2, <1>5, CutFits
  <2> QED
    BY <2>1, <2>2
<1>6. ASSUME status = "unbounded" PROVE \E x \in Amounts(spec) : KeepsAmounts(spec, x)
  <2>1. Feasible(spec) # {}
    BY <1>6 DEF IInv, AmountsInv
  <2> QED
    BY <1>2, <1>3, <2>1
<1>7. ASSUME status = "unbounded", NEW x \in Whole(spec), KeepsAmounts(spec, x)
      PROVE  \E e \in Entities(spec) :
                /\ More(x, e) \in Whole(spec) /\ KeepsAmounts(spec, More(x, e))
                /\ YieldsMore(spec, More(x, e), x)
  <2>1. Unlimited(spec)
    BY <1>7 DEF IInv, AmountsInv
  <2>2. x \in Parts(spec, 1)
    BY <1>1, <1>2, <1>7, SingleParts
  <2>3. PICK e \in Entities(spec) :
           /\ More(x, e) \in Parts(spec, 1)
           /\ ~AsGood(spec, Value(spec, x), Value(spec, More(x, e)))
    BY <1>1, <2>1, <2>2, GrowsOn
  <2>4. More(x, e) \in Whole(spec) /\ KeepsAmounts(spec, More(x, e))
    <3>1. More(x, e) \in Whole(spec)
      BY <2>3 DEF Parts
    <3> QED
      BY <1>1, <1>2, <2>3, <3>1, SingleParts
  <2>5. YieldsMore(spec, More(x, e), x)
    BY <1>1, <2>3, <2>4, YieldingMore
  <2> QED
    BY <2>4, <2>5
<1> QED
  BY <1>1, <1>4, <1>5, <1>6, <1>7

\* AmountsAreBest over all whole amounts instead of those up to Most.
AmountsAreBestOfAll ==
    Continuous(spec) /\ pc = "solved" /\ BudgetsCount(spec) /\ BoundsCount(spec) =>
        LET kept == {x \in Whole(spec) : KeepsAmounts(spec, x)}
            answer == [e \in Entities(spec) |-> Amount(e)]
        IN  /\ status = "optimal" => \A x \in kept : ~YieldsMore(spec, x, answer)
            /\ status = "infeasible" => kept = {}
            /\ status = "unbounded" =>
                  kept # {} /\ \A x \in kept : \E y \in kept : YieldsMore(spec, y, x)

\* The amounts that are looked at stand for all: an optimal answer (solve_pulp) is not
\* bettered by any whole amounts that keep the constraints, none are behind an infeasible
\* one, and behind an unbounded one any can be bettered.
THEOREM AmountsBestOfAll == AllocationSpec => []AmountsAreBestOfAll
<1>1. IInv => AmountsAreBestOfAll
  <2> SUFFICES ASSUME IInv, Continuous(spec), pc = "solved", BudgetsCount(spec), BoundsCount(spec)
               PROVE  AmountsAreBestOfAll
    BY DEF AmountsAreBestOfAll
  <2>1. Amounts(spec) \subseteq Whole(spec)
    BY MostAssumption DEF Amounts, Whole
  <2> QED
    BY <2>1, AnswersAreRight DEF AmountsAreBestOfAll
<1> QED
  BY <1>1, Invariance, PTL

\* The answers for amounts (solve_pulp on the rows of allocation_model.py) are best among
\* those that keep the documented constraints, none exist where it says so, and where it
\* says there is no limit every one can be bettered.
THEOREM AmountsBest == AllocationSpec => []AmountsAreBest
<1>1. IInv => AmountsAreBest
  <2> SUFFICES ASSUME IInv, Continuous(spec), pc = "solved", BudgetsCount(spec), BoundsCount(spec)
               PROVE  AmountsAreBest
    BY DEF AmountsAreBest
  <2> DEFINE kept(n) == {x \in [Entities(spec) -> 0 .. n] : KeepsAmounts(spec, x)}
             answer == [e \in Entities(spec) |-> Amount(e)]
  <2>1. /\ \A x \in kept(Most) : x \in Whole(spec)
        /\ \A x \in kept(Most + 1) : x \in Whole(spec)
    BY MostAssumption DEF Whole
  <2>2. status = "optimal" => \A x \in kept(Most + 1) : ~YieldsMore(spec, x, answer)
    BY <2>1, AnswersAreRight
  <2>3. status = "infeasible" => kept(Most + 1) = {}
    BY <2>1, AnswersAreRight
  <2>4. status = "unbounded" => kept(Most) # {}
    BY AnswersAreRight DEF Amounts
  <2>5. ASSUME status = "unbounded", NEW x \in kept(Most)
        PROVE  \E y \in kept(Most + 1) : YieldsMore(spec, y, x)
    <3>1. PICK e \in Entities(spec) :
             /\ More(x, e) \in Whole(spec) /\ KeepsAmounts(spec, More(x, e))
             /\ YieldsMore(spec, More(x, e), x)
      BY <2>1, <2>5, AnswersAreRight
    <3>2. More(x, e) \in [Entities(spec) -> 0 .. Most + 1]
      BY MostAssumption DEF More
    <3> QED
      BY <3>1, <3>2
  <2> HIDE DEF kept, answer
  <2>6. CASE status = "optimal"
    BY <2>2, <2>6 DEF AmountsAreBest, kept, answer
  <2>7. CASE status = "infeasible"
    BY <2>3, <2>7 DEF AmountsAreBest, kept, answer
  <2>8. CASE status = "unbounded"
    BY <2>4, <2>5, <2>8 DEF AmountsAreBest, kept, answer
  <2>9. CASE status \notin {"optimal", "infeasible", "unbounded"}
    BY <2>9 DEF AmountsAreBest
  <2> QED
    BY <2>6, <2>7, <2>8, <2>9
<1> QED
  BY <1>1, Invariance, PTL

-----------------------------------------------------------------------------
(* Rounding amounts in parts to whole ones.                                 *)

\* The amounts that are not whole.
Broken(s, k, x) == {e \in Entities(s) : ~Multiple(x[e], k)}

\* The next whole amounts, and what lies between.
Near(k, a, b) == \E q \in Int : k * q < a /\ a < k * q + k /\ k * q <= b /\ b <= k * q + k

\* Between which whole amounts an amount lies.
LEMMA Between ==
    ASSUME NEW k \in Nat, k > 0, NEW n \in Int, ~Multiple(n, k)
    PROVE  \E q \in Int : k * q < n /\ n < k * q + k
<1>1. n = k * (n \div k) + (n % k) /\ n % k \in 0 .. k - 1 /\ (n \div k) \in Int
  OBVIOUS
<1> DEFINE q == n \div k
           r == n % k
<1>2. k * q \in Int /\ n = k * q + r /\ r \in Int /\ 0 <= r /\ r < k
  BY <1>1
<1>3. n # k * q
  BY <1>1 DEF Multiple
<1>4. q \in Int
  BY <1>1
<1> HIDE DEF q, r
<1>5. k * q < n /\ n < k * q + k
  BY <1>2, <1>3
<1> QED
  BY <1>4, <1>5

\* A whole bound does not come between an amount and the next whole ones.
LEMMA SameSide ==
    ASSUME NEW k \in Nat, k > 0, NEW a \in Int, NEW b \in Int, Near(k, a, b), NEW n \in Int
    PROVE  (a <= k * n => b <= k * n) /\ (a >= k * n => b >= k * n)
<1>1. PICK q \in Int : k * q < a /\ a < k * q + k /\ k * q <= b /\ b <= k * q + k
  BY DEF Near
<1>2. k * q \in Int /\ k * n \in Int /\ k * (q + 1) = k * q + k
  OBVIOUS
<1>3. CASE n <= q
  <2>1. k * n <= k * q
    BY <1>3, Products
  <2> QED
    BY <1>1, <1>2, <2>1
<1>4. CASE q + 1 <= n
  <2>1. k * (q + 1) <= k * n
    BY <1>4, Products
  <2> QED
    BY <1>1, <1>2, <2>1
<1> QED
  BY <1>3, <1>4

\* Amounts that move between the next whole ones, and with them their sum, still fit.
LEMMA MovedFits ==
    ASSUME NEW s \in Specs, Continuous(s), AmountsBuildable(s), NEW k \in Nat, k > 0,
           NEW x \in Parts(s, k), NEW y \in [Entities(s) -> Int],
           \A e \in Entities(s) : y[e] = x[e] \/ Near(k, x[e], y[e]),
           \/ Total(y, Entities(s)) = Total(x, Entities(s))
           \/ Near(k, Total(x, Entities(s)), Total(y, Entities(s)))
    PROVE  y \in Parts(s, k)
<1>1. x \in Whole(s) /\ \A e \in Entities(s) : x[e] \in Int /\ x[e] >= 0 /\ y[e] \in Int
  BY DEF Parts, Whole
<1>2. ASSUME NEW e \in Entities(s) PROVE y[e] >= 0
  <2>1. CASE y[e] = x[e]
    BY <1>1, <2>1
  <2>2. CASE Near(k, x[e], y[e])
    <3>1. \A n \in Int : x[e] >= k * n => y[e] >= k * n
      BY <1>1, <2>2, SameSide
    <3> DEFINE bound == k * 0
    <3>2. bound = 0
      OBVIOUS
    <3>3. x[e] >= bound => y[e] >= bound
      <4>1. 0 \in Int
        OBVIOUS
      <4> QED
        BY <3>1, <4>1, Zenon
    <3> HIDE DEF bound
    <3> QED
      BY <1>1, <3>2, <3>3
  <2> QED
    BY <2>1, <2>2
<1>3. ASSUME NEW row \in AllRows(s) PROVE FitsIn(k, y, row)
  <2>1. /\ row.bound \in Int
        /\ row.who = Entities(s) \/ \E e \in Entities(s) : row.who = {e}
    BY RowsOfAmounts
  <2>2. FitsIn(k, x, row)
    BY DEF Parts
  <2>3. /\ Total(x, row.who) \in Int /\ Total(y, row.who) \in Int
        /\ Total(y, row.who) = Total(x, row.who) \/ Near(k, Total(x, row.who), Total(y, row.who))
    <3>1. CASE row.who = Entities(s)
      <4>1. Total(x, Entities(s)) \in Int /\ Total(y, Entities(s)) \in Int
        BY <1>1, EntitiesAreFinite, TotalAny
      <4> QED
        BY <3>1, <4>1
    <3>2. CASE \E e \in Entities(s) : row.who = {e}
      <4>1. PICK e \in Entities(s) : row.who = {e}
        BY <3>2
      <4>2. Total(x, {e}) = x[e] /\ Total(y, {e}) = y[e]
        BY <1>1, TotalOfOne
      <4> QED
        BY <1>1, <4>1, <4>2
    <3> QED
      BY <2>1, <3>1, <3>2
  <2>4. CASE Total(y, row.who) = Total(x, row.who)
    BY <2>2, <2>4 DEF FitsIn
  <2>5. CASE Near(k, Total(x, row.who), Total(y, row.who))
    <3>1. /\ Total(x, row.who) <= k * row.bound => Total(y, row.who) <= k * row.bound
          /\ Total(x, row.who) >= k * row.bound => Total(y, row.who) >= k * row.bound
      BY <2>1, <2>3, <2>5, SameSide
    <3> QED
      BY <2>2, <3>1 DEF FitsIn
  <2> QED
    BY <2>3, <2>4, <2>5
<1>4. y \in Whole(s)
  BY <1>1, <1>2 DEF Whole
<1> QED
  BY <1>3, <1>4 DEF Parts

\* If one amount alone is not whole, it is rounded to the side that pays.
LEMMA MendOne ==
    ASSUME NEW s \in Specs, Continuous(s), AmountsBuildable(s), NEW k \in Nat, k > 0,
           NEW x \in Parts(s, k), NEW e, Broken(s, k, x) = {e}
    PROVE  \E y \in Parts(s, k) : Broken(s, k, y) = {} /\ AsGood(s, Value(s, y), Value(s, x))
<1>1. /\ e \in Entities(s) /\ ~Multiple(x[e], k) /\ x \in Whole(s)
      /\ \A d \in Entities(s) : x[d] \in Int /\ (d # e => Multiple(x[d], k))
  BY DEF Broken, Parts, Whole
<1>2. PICK q \in Int : k * q < x[e] /\ x[e] < k * q + k
  BY <1>1, Between
<1>3. Worth(s, e) \in Int
  BY <1>1, WorthIsWhatItBrings
<1>4. k * q \in Int /\ k * (q + 1) = k * q + k
  OBVIOUS
<1>5. PICK n \in Int : /\ n = k * q \/ n = k * (q + 1)
                       /\ AsGood(s, Worth(s, e) * n, Worth(s, e) * x[e])
  <2>1. x[e] <= k * (q + 1) /\ k * q <= x[e] /\ k * (q + 1) \in Int
    BY <1>1, <1>2, <1>4
  <2>2. CASE IF s.maximize THEN Worth(s, e) >= 0 ELSE Worth(s, e) <= 0
    <3>1. AsGood(s, Worth(s, e) * (k * (q + 1)), Worth(s, e) * x[e])
      <4>1. /\ Worth(s, e) >= 0 => Worth(s, e) * x[e] <= Worth(s, e) * (k * (q + 1))
            /\ Worth(s, e) <= 0 => Worth(s, e) * x[e] >= Worth(s, e) * (k * (q + 1))
        BY <1>1, <1>3, <2>1, Products
      <4> QED
        BY <2>2, <4>1 DEF AsGood
    <3> QED
      BY <2>1, <3>1
  <2>3. CASE ~IF s.maximize THEN Worth(s, e) >= 0 ELSE Worth(s, e) <= 0
    <3>1. AsGood(s, Worth(s, e) * (k * q), Worth(s, e) * x[e])
      <4>1. /\ Worth(s, e) >= 0 => Worth(s, e) * (k * q) <= Worth(s, e) * x[e]
            /\ Worth(s, e) <= 0 => Worth(s, e) * (k * q) >= Worth(s, e) * x[e]
        BY <1>1, <1>3, <1>4, <2>1, Products
      <4>2. IF s.maximize THEN Worth(s, e) <= 0 ELSE Worth(s, e) >= 0
        BY <1>3, <2>3
      <4> QED
        BY <4>1, <4>2 DEF AsGood
    <3> QED
      BY <1>4, <3>1
  <2> QED
    BY <2>2, <2>3
<1> DEFINE y == [x EXCEPT ![e] = n]
<1>6. /\ y \in [Entities(s) -> Int] /\ y[e] = n
      /\ \A d \in Entities(s) : y[d] \in Int /\ (d # e => y[d] = x[d])
  BY <1>1 DEF Whole
<1> HIDE DEF y
<1>7. /\ n \in Int /\ k * q <= n /\ n <= k * q + k
      /\ Near(k, x[e], n)
  <2>1. k * q <= n /\ n <= k * q + k
    BY <1>4, <1>5
  <2> QED
    BY <1>2, <2>1 DEF Near
<1>8. Near(k, Total(x, Entities(s)), Total(y, Entities(s)))
  <2> DEFINE rest == Entities(s) \ {e}
  <2>1. IsFiniteSet(Entities(s)) /\ IsFiniteSet(rest)
    BY EntitiesAreFinite, FS_Subset
  <2>2. \A d \in rest : Multiple(x[d], k)
    BY <1>1
  <2>3. Total(x, Entities(s)) = x[e] + Total(x, rest)
    BY <1>1, <2>1, TotalAny
  <2> HIDE DEF rest
  <2>4. PICK m \in Int : Total(x, rest) = k * m
    <3>1. Multiple(Total(x, rest), k)
      BY <2>1, <2>2, TotalOfMultiples
    <3> QED
      BY <3>1 DEF Multiple
  <2>5. Total(y, Entities(s)) = Total(x, Entities(s)) + (n - x[e])
    BY <1>1, <1>6, <2>1, TotalChange
  <2>6. k * (q + m) = k * q + k * m /\ k * m \in Int /\ q + m \in Int
    OBVIOUS
  <2>7. /\ k * (q + m) < Total(x, Entities(s)) /\ Total(x, Entities(s)) < k * (q + m) + k
        /\ k * (q + m) <= Total(y, Entities(s)) /\ Total(y, Entities(s)) <= k * (q + m) + k
    BY <1>1, <1>2, <1>4, <1>7, <2>3, <2>4, <2>5, <2>6
  <2> QED
    BY <2>6, <2>7 DEF Near
<1>9. y \in Parts(s, k)
  <2>1. \A d \in Entities(s) : y[d] = x[d] \/ Near(k, x[d], y[d])
    BY <1>6, <1>7
  <2> QED
    BY <1>6, <1>8, <2>1, MovedFits
<1>10. Broken(s, k, y) = {}
  <2>1. Multiple(n, k)
    <3>1. q + 1 \in Int
      OBVIOUS
    <3>2. \E m \in {q, q + 1} : n = k * m
      BY <1>5
    <3> QED
      BY <3>1, <3>2 DEF Multiple
  <2> QED
    BY <1>1, <1>6, <2>1 DEF Broken
<1>11. AsGood(s, Value(s, y), Value(s, x))
  <2>1. ASSUME NEW d \in Entities(s) PROVE AsGood(s, Worth(s, d) * y[d], Worth(s, d) * x[d])
    <3>1. CASE d = e
      BY <1>5, <1>6, <3>1
    <3>2. CASE d # e
      <4>1. Worth(s, d) * x[d] \in Int /\ y[d] = x[d]
        BY <1>1, <1>6, <3>2, WorthIsWhatItBrings
      <4> QED
        BY <4>1 DEF AsGood
    <3> QED
      BY <3>1, <3>2
  <2>2. y \in Whole(s)
    BY <1>9 DEF Parts
  <2> QED
    BY <1>1, <2>1, <2>2, AsGoodTerms
<1> QED
  BY <1>9, <1>10, <1>11

\* If two amounts are not whole, one gives the other what makes one of them whole, to the
\* side that pays.
LEMMA MendTwo ==
    ASSUME NEW s \in Specs, Continuous(s), AmountsBuildable(s), NEW k \in Nat, k > 0,
           NEW x \in Parts(s, k), NEW e \in Broken(s, k, x), NEW f \in Broken(s, k, x), e # f,
           AsGood(s, Worth(s, e), Worth(s, f))
    PROVE  \E y \in Parts(s, k) : /\ Broken(s, k, y) \subseteq Broken(s, k, x)
                                  /\ e \notin Broken(s, k, y) \/ f \notin Broken(s, k, y)
                                  /\ AsGood(s, Value(s, y), Value(s, x))
<1>1. /\ e \in Entities(s) /\ f \in Entities(s) /\ x \in Whole(s)
      /\ ~Multiple(x[e], k) /\ ~Multiple(x[f], k)
      /\ \A d \in Entities(s) : x[d] \in Int /\ x[d] >= 0
  BY DEF Broken, Parts, Whole
<1>2. PICK q \in Int : k * q < x[e] /\ x[e] < k * q + k
  BY <1>1, Between
<1>3. PICK r \in Int : k * r < x[f] /\ x[f] < k * r + k
  BY <1>1, Between
<1> DEFINE up == k * (q + 1)
           down == k * r
<1>4. /\ up \in Int /\ down \in Int /\ k * q \in Int /\ up = k * q + k
      /\ Multiple(up, k) /\ Multiple(down, k)
  BY DEF Multiple
<1>5. x[e] < up /\ k * q < x[e] /\ down < x[f] /\ x[f] < down + k
  BY <1>2, <1>3, <1>4
<1> HIDE DEF up, down
<1>6. PICK n \in Nat : /\ x[e] + n <= up /\ down <= x[f] - n
                       /\ x[e] + n = up \/ x[f] - n = down
  <2>1. CASE up - x[e] <= x[f] - down
    <3>1. up - x[e] \in Nat
      BY <1>1, <1>4, <1>5
    <3> QED
      BY <1>1, <1>4, <2>1, <3>1
  <2>2. CASE up - x[e] > x[f] - down
    <3>1. x[f] - down \in Nat
      BY <1>1, <1>4, <1>5
    <3> QED
      BY <1>1, <1>4, <2>2, <3>1
  <2> QED
    BY <1>1, <1>4, <2>1, <2>2
<1> DEFINE z == [x EXCEPT ![e] = @ + n]
           y == [z EXCEPT ![f] = @ - n]
<1>7. /\ z \in Whole(s) /\ z[e] = x[e] + n /\ \A d \in Entities(s) \ {e} : z[d] = x[d]
  BY <1>1 DEF Whole
<1>8. /\ y \in [Entities(s) -> Int] /\ y[f] = z[f] - n
      /\ \A d \in Entities(s) \ {f} : y[d] = z[d]
  BY <1>1 DEF Whole
<1> HIDE DEF z, y
<1>9. /\ y[e] = x[e] + n /\ y[f] = x[f] - n
      /\ \A d \in Entities(s) \ {e, f} : y[d] = x[d]
  BY <1>1, <1>7, <1>8
<1>10. Near(k, x[e], y[e]) /\ Near(k, x[f], y[f])
  <2>1. k * q <= y[e] /\ y[e] <= k * q + k
    BY <1>1, <1>4, <1>5, <1>6, <1>9
  <2>2. k * r <= y[f] /\ y[f] <= k * r + k
    BY <1>1, <1>4, <1>5, <1>6, <1>9 DEF down
  <2> QED
    BY <1>2, <1>3, <2>1, <2>2 DEF Near
<1>11. Total(y, Entities(s)) = Total(x, Entities(s))
  <2>1. /\ \A d \in Entities(s) : x[d] \in Int /\ y[d] \in Int /\ z[d] \in Int
        /\ IsFiniteSet(Entities(s))
    BY <1>1, <1>7, <1>8, EntitiesAreFinite DEF Whole
  <2>2. Total(z, Entities(s)) = Total(x, Entities(s)) + (z[e] - x[e])
    BY <1>1, <1>7, <2>1, TotalChange
  <2>3. Total(y, Entities(s)) = Total(z, Entities(s)) + (y[f] - z[f])
    BY <1>1, <1>8, <2>1, TotalChange
  <2>4. Total(x, Entities(s)) \in Int
    BY <2>1, TotalAny
  <2> QED
    BY <1>1, <1>7, <1>8, <2>1, <2>2, <2>3, <2>4
<1>12. y \in Parts(s, k)
  <2>1. \A d \in Entities(s) : y[d] = x[d] \/ Near(k, x[d], y[d])
    BY <1>9, <1>10
  <2> QED
    BY <1>8, <1>11, <2>1, MovedFits
<1>13. AsGood(s, Value(s, y), Value(s, x))
  <2>1. y \in Whole(s)
    BY <1>12 DEF Parts
  <2>2. Value(s, z) = Value(s, x) + Worth(s, e) * n
    BY <1>1, <1>7, OneChanged
  <2>3. Value(s, y) = Value(s, z) + Worth(s, f) * (-n)
    <3>1. -n \in Int /\ y[f] = z[f] + (-n)
      BY <1>1, <1>7, <1>8 DEF Whole
    <3> QED
      BY <1>1, <1>7, <1>8, <2>1, <3>1, OneChanged
  <2>4. Value(s, x) \in Int /\ Worth(s, e) \in Int /\ Worth(s, f) \in Int
    BY <1>1, ValueIsYield, WorthIsWhatItBrings
  <2>5. /\ Worth(s, e) * n = n * Worth(s, e) /\ Worth(s, f) * (-n) = -(n * Worth(s, f))
        /\ n * Worth(s, e) \in Int /\ n * Worth(s, f) \in Int
    BY <2>4
  <2>6. /\ Worth(s, f) <= Worth(s, e) => n * Worth(s, f) <= n * Worth(s, e)
        /\ Worth(s, e) <= Worth(s, f) => n * Worth(s, e) <= n * Worth(s, f)
    BY <2>4, Products
  <2> QED
    BY <2>2, <2>3, <2>4, <2>5, <2>6 DEF AsGood
<1>14. Broken(s, k, y) \subseteq Broken(s, k, x)
  BY <1>1, <1>9 DEF Broken
<1>15. e \notin Broken(s, k, y) \/ f \notin Broken(s, k, y)
  BY <1>4, <1>6, <1>9 DEF Broken
<1> QED
  BY <1>12, <1>13, <1>14, <1>15

\* Amounts that are not all whole have others, at least as good, with fewer broken ones.
LEMMA Mend ==
    ASSUME NEW s \in Specs, Continuous(s), AmountsBuildable(s), NEW k \in Nat, k > 0,
           NEW x \in Parts(s, k), Broken(s, k, x) # {}
    PROVE  \E y \in Parts(s, k) : /\ Broken(s, k, y) \subseteq Broken(s, k, x)
                                  /\ Broken(s, k, y) # Broken(s, k, x)
                                  /\ AsGood(s, Value(s, y), Value(s, x))
<1>1. PICK e : e \in Broken(s, k, x)
  OBVIOUS
<1>2. CASE Broken(s, k, x) = {e}
  <2>1. \E y \in Parts(s, k) : Broken(s, k, y) = {} /\ AsGood(s, Value(s, y), Value(s, x))
    BY <1>2, MendOne
  <2> QED
    BY <1>2, <2>1
<1>3. CASE Broken(s, k, x) # {e}
  <2>1. PICK f \in Broken(s, k, x) : f # e
    BY <1>1, <1>3
  <2>2. Worth(s, e) \in Int /\ Worth(s, f) \in Int
    BY <1>1, <2>1, WorthIsWhatItBrings DEF Broken
  <2>3. CASE AsGood(s, Worth(s, e), Worth(s, f))
    <3>1. \E y \in Parts(s, k) : /\ Broken(s, k, y) \subseteq Broken(s, k, x)
                                 /\ e \notin Broken(s, k, y) \/ f \notin Broken(s, k, y)
                                 /\ AsGood(s, Value(s, y), Value(s, x))
      BY <1>1, <2>1, <2>3, MendTwo
    <3> QED
      BY <1>1, <2>1, <3>1
  <2>4. CASE AsGood(s, Worth(s, f), Worth(s, e))
    <3>1. \E y \in Parts(s, k) : /\ Broken(s, k, y) \subseteq Broken(s, k, x)
                                 /\ f \notin Broken(s, k, y) \/ e \notin Broken(s, k, y)
                                 /\ AsGood(s, Value(s, y), Value(s, x))
      BY <1>1, <2>1, <2>4, MendTwo
    <3> QED
      BY <1>1, <2>1, <3>1
  <2> QED
    BY <2>2, <2>3, <2>4 DEF AsGood
<1> QED
  BY <1>2, <1>3

\* Whole amounts in k-th parts.
Scaled(s, k, z) == [e \in Entities(s) |-> k * z[e]]

\* What whole amounts are in k-th parts.
LEMMA ScaledAmounts ==
    ASSUME NEW s \in Specs, Continuous(s), AmountsBuildable(s), NEW k \in Nat, k > 0,
           NEW z \in Whole(s)
    PROVE  /\ Scaled(s, k, z) \in Whole(s)
           /\ Scaled(s, k, z) \in Parts(s, k) <=> FitsAll(s, z)
           /\ Value(s, Scaled(s, k, z)) = k * Value(s, z)
<1> DEFINE y == Scaled(s, k, z)
<1>1. /\ y \in Whole(s)
      /\ \A e \in Entities(s) : z[e] \in Int /\ y[e] = k * z[e]
  BY DEF Scaled, Whole
<1> HIDE DEF y
<1>2. ASSUME NEW row \in AllRows(s) PROVE FitsIn(k, y, row) <=> Fits(z, row)
  <2>1. row.who \in SUBSET Entities(s) /\ row.bound \in Int
    BY RowsOfAmounts
  <2>2. IsFiniteSet(row.who)
    BY <2>1, EntitiesAreFinite, FS_Subset
  <2>3. Total(z, row.who) \in Int /\ Total(y, row.who) = k * Total(z, row.who)
    BY <1>1, <2>1, <2>2, TotalAny, TotalOfProduct
  <2>4. ASSUME NEW a \in Int, NEW b \in Int PROVE a <= b <=> k * a <= k * b
    <3>1. a <= b => k * a <= k * b
      BY Products
    <3>2. b + 1 <= a => k * (b + 1) <= k * a
      BY Products
    <3>3. k * (b + 1) = k * b + k /\ k * b \in Int /\ k * a \in Int
      OBVIOUS
    <3> QED
      BY <3>1, <3>2, <3>3
  <2> DEFINE sum == Total(z, row.who)
  <2>5. /\ sum <= row.bound <=> k * sum <= k * row.bound
        /\ row.bound <= sum <=> k * row.bound <= k * sum
    BY <2>1, <2>3, <2>4
  <2>6. k * sum \in Int /\ k * row.bound \in Int
    BY <2>1, <2>3
  <2> QED
    BY <2>1, <2>3, <2>5, <2>6 DEF FitsIn, Fits
<1>3. y \in Parts(s, k) <=> FitsAll(s, z)
  BY <1>1, <1>2 DEF Parts, FitsAll
<1>4. Value(s, y) = k * Value(s, z)
  <2>1. /\ Value(s, y) = Total(Terms(s, y), Entities(s))
        /\ Value(s, z) = Total(Terms(s, z), Entities(s))
        /\ \A e \in Entities(s) :
              /\ Terms(s, y)[e] = Worth(s, e) * y[e]
              /\ Terms(s, z)[e] = Worth(s, e) * z[e] /\ Terms(s, z)[e] \in Int
    BY <1>1, ValueIsYield
  <2>2. ASSUME NEW e \in Entities(s) PROVE Terms(s, y)[e] = k * Terms(s, z)[e]
    <3>1. Worth(s, e) \in Int
      BY WorthIsWhatItBrings
    <3>2. Worth(s, e) * (k * z[e]) = k * (Worth(s, e) * z[e])
      BY <1>1, <3>1
    <3> QED
      BY <1>1, <2>1, <3>2
  <2> QED
    BY <2>1, <2>2, EntitiesAreFinite, TotalOfProduct
<1> QED
  BY <1>1, <1>3, <1>4 DEF y

\* Of amounts in parts there are whole ones that are at least as good.
LEMMA Rounded ==
    ASSUME NEW s \in Specs, Continuous(s), AmountsBuildable(s), NEW k \in Nat, k > 0,
           NEW x \in Parts(s, k)
    PROVE  \E z \in Whole(s) : FitsAll(s, z) /\ AsGood(s, k * Value(s, z), Value(s, x))
<1> DEFINE NoWorse(y) == y \in Parts(s, k) /\ AsGood(s, Value(s, y), Value(s, x))
           Bad == {Broken(s, k, y) : y \in {y \in Parts(s, k) : NoWorse(y)}}
<1>1. \A y \in Parts(s, k) : y \in Whole(s) /\ Value(s, y) \in Int
  BY ValueIsYield DEF Parts
<1>2. Bad \in SUBSET (SUBSET Entities(s)) /\ Bad # {}
  <2>1. NoWorse(x)
    BY <1>1 DEF AsGood
  <2> QED
    BY <2>1 DEF Broken
<1>3. PICK T \in Bad : \A U \in SUBSET T : U # T => U \notin Bad
  <2> HIDE DEF Bad
  <2> QED
    BY <1>2, EntitiesAreFinite, SmallestBad
<1>4. PICK y \in Parts(s, k) : T = Broken(s, k, y) /\ NoWorse(y)
  OBVIOUS
<1>5. Broken(s, k, y) = {}
  <2>1. SUFFICES ASSUME Broken(s, k, y) # {} PROVE FALSE
    OBVIOUS
  <2>2. PICK w \in Parts(s, k) : /\ Broken(s, k, w) \subseteq Broken(s, k, y)
                                 /\ Broken(s, k, w) # Broken(s, k, y)
                                 /\ AsGood(s, Value(s, w), Value(s, y))
    BY <2>1, Mend
  <2>3. NoWorse(w)
    BY <1>1, <1>4, <2>2 DEF AsGood
  <2> QED
    BY <1>3, <1>4, <2>2, <2>3
<1> DEFINE z == [e \in Entities(s) |-> CHOOSE q \in Int : y[e] = k * q]
<1>6. \A e \in Entities(s) : z[e] \in Int /\ y[e] = k * z[e]
  BY <1>5 DEF Broken, Multiple
<1>7. z \in Whole(s)
  <2>1. ASSUME NEW e \in Entities(s) PROVE z[e] >= 0
    <3> HIDE DEF z
    <3>1. SUFFICES ASSUME z[e] + 1 <= 0 PROVE FALSE
      BY <1>6
    <3>2. k * (z[e] + 1) <= 0
      <4>1. k * (z[e] + 1) <= k * 0
        BY <1>6, <3>1, Products
      <4> QED
        BY <4>1
    <3>3. k * (z[e] + 1) = k * z[e] + k /\ k * z[e] \in Int
      BY <1>6
    <3>4. y[e] \in Nat
      BY <1>1 DEF Whole
    <3> QED
      BY <1>6, <3>2, <3>3, <3>4
  <2> QED
    BY <1>6, <2>1 DEF Whole
<1> HIDE DEF z
<1>8. y = Scaled(s, k, z)
  BY <1>1, <1>6 DEF Scaled, Whole
<1>9. FitsAll(s, z) /\ Value(s, y) = k * Value(s, z)
  BY <1>7, <1>8, ScaledAmounts
<1> QED
  BY <1>4, <1>7, <1>9

\* What an answer says of all the amounts of the linear program.
AnswersAreOptima ==
    Continuous(spec) /\ pc = "solved" =>
        LET answer == [e \in Entities(spec) |-> Amount(e)]
        IN  \A k \in Nat \ {0} :
               /\ status = "optimal" =>
                     /\ Scaled(spec, k, answer) \in Parts(spec, k)
                     /\ \A x \in Parts(spec, k) :
                           AsGood(spec, k * Value(spec, answer), Value(spec, x))
               /\ status = "infeasible" => Parts(spec, k) = {}
               /\ status = "unbounded" =>
                     /\ Parts(spec, k) # {}
                     /\ \A x \in Parts(spec, k) : \E y \in Parts(spec, k) :
                           ~AsGood(spec, Value(spec, x), Value(spec, y))

\* Whole amounts stand for all those of the linear program of allocation_model.py: in
\* whatever parts amounts are counted, none that fit the rows have a better objective than
\* an optimal answer, an infeasible program has none, and in an unbounded one any can be
\* bettered.
THEOREM AmountsAreOptima == AllocationSpec => []AnswersAreOptima
<1>1. IInv => AnswersAreOptima
  <2> SUFFICES ASSUME IInv, Continuous(spec), pc = "solved", NEW k \in Nat \ {0}
               PROVE  LET answer == [e \in Entities(spec) |-> Amount(e)]
                      IN  /\ status = "optimal" =>
                                /\ Scaled(spec, k, answer) \in Parts(spec, k)
                                /\ \A x \in Parts(spec, k) :
                                      AsGood(spec, k * Value(spec, answer), Value(spec, x))
                          /\ status = "infeasible" => Parts(spec, k) = {}
                          /\ status = "unbounded" =>
                                /\ Parts(spec, k) # {}
                                /\ \A x \in Parts(spec, k) : \E y \in Parts(spec, k) :
                                      ~AsGood(spec, Value(spec, x), Value(spec, y))
    BY DEF AnswersAreOptima
  <2>1. spec \in Specs /\ AmountsBuildable(spec) /\ k \in Nat /\ k > 0 /\ k \in Int
    BY DEF IInv, AmountsInv
  <2>2. \A x \in Feasible(spec) : x \in Amounts(spec) /\ x \in Whole(spec) /\ FitsAll(spec, x)
    BY MostAssumption DEF Feasible, FitsAll, Amounts, Whole
  <2>3. ASSUME status = "optimal"
        PROVE  LET answer == [e \in Entities(spec) |-> Amount(e)]
               IN  /\ Scaled(spec, k, answer) \in Parts(spec, k)
                   /\ \A x \in Parts(spec, k) :
                         AsGood(spec, k * Value(spec, answer), Value(spec, x))
    <3>1. PICK answer \in BestAmounts(spec) : ~Unlimited(spec) /\ plan = Kept(answer)
      BY <2>3 DEF IInv, AmountsInv
    <3>2. answer \in Feasible(spec) /\ answer \in Amounts(spec) /\ answer \in Whole(spec)
      BY <2>2 DEF BestAmounts
    <3>3. [e \in Entities(spec) |-> Amount(e)] = answer
      BY <3>1, <3>2, AmountsOfPlan
    <3>4. Scaled(spec, k, answer) \in Parts(spec, k)
      BY <2>1, <2>2, <3>2, ScaledAmounts
    <3>5. ASSUME NEW x \in Parts(spec, k)
          PROVE  AsGood(spec, k * Value(spec, answer), Value(spec, x))
      <4>1. PICK z \in Whole(spec) :
               FitsAll(spec, z) /\ AsGood(spec, k * Value(spec, z), Value(spec, x))
        BY <2>1, Rounded
      <4>2. /\ Cut(z) \in Feasible(spec) /\ Cut(z) \in Whole(spec)
            /\ AsGood(spec, Value(spec, Cut(z)), Value(spec, z))
        BY <2>1, <3>1, <4>1, CutFits, CutPays
      <4>3. AsGood(spec, Value(spec, answer), Value(spec, Cut(z)))
        BY <2>1, <4>2, BestAmountsAreBest
      <4>4. /\ Value(spec, answer) \in Int /\ Value(spec, Cut(z)) \in Int
            /\ Value(spec, z) \in Int
        BY <2>1, <3>2, <4>1, <4>2, ValueIsYield
      <4>5. AsGood(spec, Value(spec, answer), Value(spec, z))
        BY <4>2, <4>3, <4>4 DEF AsGood
      <4>6. /\ Value(spec, z) <= Value(spec, answer)
                 => k * Value(spec, z) <= k * Value(spec, answer)
            /\ Value(spec, answer) <= Value(spec, z)
                 => k * Value(spec, answer) <= k * Value(spec, z)
        BY <2>1, <4>4, Products
      <4>7. k * Value(spec, z) \in Int /\ k * Value(spec, answer) \in Int
        BY <2>1, <4>4
      <4>8. AsGood(spec, k * Value(spec, answer), k * Value(spec, z))
        BY <4>4, <4>5, <4>6 DEF AsGood
      <4>9. Value(spec, x) \in Int
        BY <2>1, ValueIsYield DEF Parts
      <4> QED
        BY <4>1, <4>7, <4>8, <4>9 DEF AsGood
    <3> QED
      BY <3>3, <3>4, <3>5
  <2>4. ASSUME status = "infeasible", NEW x \in Parts(spec, k) PROVE FALSE
    <3>1. PICK z \in Whole(spec) : FitsAll(spec, z)
      BY <2>1, Rounded
    <3>2. Cut(z) \in Feasible(spec)
      BY <2>1, <3>1, CutFits
    <3> QED
      BY <2>4, <3>2 DEF IInv, AmountsInv
  <2>5. ASSUME status = "unbounded" PROVE Parts(spec, k) # {}
    <3>1. PICK z \in Feasible(spec) : TRUE
      BY <2>5 DEF IInv, AmountsInv
    <3>2. Scaled(spec, k, z) \in Parts(spec, k)
      BY <2>1, <2>2, <3>1, ScaledAmounts
    <3> QED
      BY <3>2
  <2>6. ASSUME status = "unbounded", NEW x \in Parts(spec, k)
        PROVE  \E y \in Parts(spec, k) : ~AsGood(spec, Value(spec, x), Value(spec, y))
    <3>1. Unlimited(spec)
      BY <2>6 DEF IInv, AmountsInv
    <3> QED
      BY <2>1, <3>1, GrowsOn
  <2> QED
    BY <2>3, <2>4, <2>5, <2>6
<1> QED
  BY <1>1, Invariance, PTL

-----------------------------------------------------------------------------
(* Rejections.                                                              *)

\* The pairs of a plan, agent by agent.
LEMMA TotalByAgent ==
    ASSUME NEW s \in Specs, RolesNamed(s), NEW x \in SUBSET Pairs(s), NEW f,
           \A p \in x : f[p] \in Int
    PROVE  Total([a \in Agents(s) |-> Total(f, Chosen(x, 1, a))], Agents(s)) = Total(f, x)
<1> DEFINE A == Agents(s)
           g == [a \in A |-> Total(f, Chosen(x, 1, a))]
           Part(B) == {p \in x : p[1] \in B}
           Good == {B \in SUBSET A : Total(g, B) = Total(f, Part(B))}
<1>1. IsFiniteSet(A) /\ IsFiniteSet(x)
  BY RolesAreFinite, PairsAreFinite
<1>2. \A a \in A : g[a] = Total(f, Chosen(x, 1, a)) /\ g[a] \in Int
  <2> SUFFICES ASSUME NEW a \in A PROVE g[a] = Total(f, Chosen(x, 1, a)) /\ g[a] \in Int
    OBVIOUS
  <2>1. Chosen(x, 1, a) \in SUBSET x
    BY DEF Chosen
  <2>2. IsFiniteSet(Chosen(x, 1, a))
    BY <1>1, <2>1, FS_Subset
  <2>3. Total(f, Chosen(x, 1, a)) \in Int
    BY <2>1, <2>2, TotalAny
  <2> QED
    BY <2>3
<1> HIDE DEF g
<1>3. {} \in Good
  <2>1. Part({}) = {}
    OBVIOUS
  <2> QED
    BY <2>1, TotalOfNothing
<1>4. ASSUME NEW B \in SUBSET A, NEW a \in A \ B, B \in Good PROVE B \cup {a} \in Good
  <2>1. IsFiniteSet(B) /\ IsFiniteSet(Part(B)) /\ IsFiniteSet(Chosen(x, 1, a))
    <3>1. Part(B) \in SUBSET x /\ Chosen(x, 1, a) \in SUBSET x
      BY DEF Chosen
    <3> HIDE DEF Part
    <3> QED
      BY <1>1, <3>1, FS_Subset
  <2>2. Total(g, B \cup {a}) = g[a] + Total(g, B)
    BY <1>2, <2>1, TotalAdd
  <2>3. /\ Part(B \cup {a}) = Part(B) \cup Chosen(x, 1, a)
        /\ Part(B) \cap Chosen(x, 1, a) = {}
        /\ \A p \in Part(B) \cup Chosen(x, 1, a) : f[p] \in Int
    BY DEF Chosen
  <2>4. Total(g, B) = Total(f, Part(B))
    BY <1>4
  <2> HIDE DEF Part
  <2>5. Total(f, Part(B) \cup Chosen(x, 1, a)) = Total(f, Part(B)) + Total(f, Chosen(x, 1, a))
    BY <2>1, <2>3, TotalOfUnion
  <2>6. Total(f, Part(B)) \in Int
    BY <2>1, <2>3, TotalAny
  <2>7. g[a] = Total(f, Chosen(x, 1, a)) /\ g[a] \in Int
    BY <1>2
  <2> HIDE DEF Good, A
  <2>8. Total(g, B \cup {a}) = Total(f, Part(B \cup {a}))
    <3>1. Total(f, Part(B \cup {a})) = Total(f, Part(B) \cup Chosen(x, 1, a))
      BY ONLY <2>3, Zenon
    <3>2. Total(f, Part(B) \cup Chosen(x, 1, a)) = Total(f, Part(B)) + g[a]
      BY <2>5, <2>7, Zenon
    <3>3. Total(g, B \cup {a}) = g[a] + Total(f, Part(B))
      BY <2>2, <2>4, Zenon
    <3>4. \A j, k \in Int : j + k = k + j
      OBVIOUS
    <3> QED
      BY <2>6, <2>7, <3>1, <3>2, <3>3, <3>4, Zenon
  <2> QED
    BY <2>8 DEF Good
<1>5. A \in Good
  <2> HIDE DEF Good, A
  <2> QED
    BY <1>1, <1>3, <1>4, AllSubsets
<1>6. Part(A) = x
  BY PairsAreFinite
<1> QED
  BY <1>5, <1>6 DEF g

\* When every task is done by somebody, the weights of the tasks are at most what the
\* agents take between them.
LEMMA CoveredTasksFit ==
    ASSUME NEW s \in Specs, RolesNamed(s), NEW x \in SUBSET Pairs(s),
           \A t \in Tasks(s) : \E p \in x : p[2] = t,
           NEW d, \A t \in Tasks(s) : d[t] \in Nat,
           NEW f, \A p \in x : f[p] = d[p[2]],
           NEW b, \A a \in Agents(s) : b[a] \in Int /\ Total(f, Chosen(x, 1, a)) <= b[a]
    PROVE  Total(d, Tasks(s)) <= Total(b, Agents(s))
<1> DEFINE T == Tasks(s)
           m == [t \in T |-> CHOOSE p \in x : p[2] = t]
           R == {m[t] : t \in T}
           g == [a \in Agents(s) |-> Total(f, Chosen(x, 1, a))]
<1>1. IsFiniteSet(T) /\ IsFiniteSet(x) /\ IsFiniteSet(Agents(s))
  BY RolesAreFinite, PairsAreFinite
<1>2. \A p \in x : f[p] \in Nat
  BY PairsAreFinite
<1>3. \A t \in T : m[t] \in x /\ m[t][2] = t
  OBVIOUS
<1>4. R \in SUBSET x
  BY <1>3
<1>5. Total(f, R) = Total(d, T)
  <2>1. \A t, u \in T : m[t] = m[u] => t = u
    BY <1>3
  <2>2. \A t \in T : d[t] \in Int /\ d[t] = f[m[t]]
    BY <1>3
  <2> HIDE DEF m, T
  <2> QED
    BY ONLY <1>1, <2>1, <2>2, TotalOfImage, SMTT(30)
<1>6. Total(f, R) <= Total(f, x)
  <2> HIDE DEF R
  <2> QED
    BY <1>1, <1>2, <1>4, TotalOfPart
<1>7. Total(g, Agents(s)) = Total(f, x)
  BY <1>2, TotalByAgent
<1>8. \A a \in Agents(s) : g[a] \in Int /\ b[a] \in Int /\ g[a] <= b[a]
  <2> SUFFICES ASSUME NEW a \in Agents(s) PROVE g[a] \in Int /\ g[a] <= b[a]
    OBVIOUS
  <2>1. Chosen(x, 1, a) \in SUBSET x
    BY DEF Chosen
  <2>2. IsFiniteSet(Chosen(x, 1, a))
    BY <1>1, <2>1, FS_Subset
  <2>3. Total(f, Chosen(x, 1, a)) \in Int
    BY <1>2, <2>1, <2>2, TotalAny
  <2> QED
    BY <2>3
<1>9. Total(g, Agents(s)) <= Total(b, Agents(s))
  <2> HIDE DEF g
  <2> QED
    BY <1>1, <1>8, TotalMonotone
<1>10. /\ Total(f, R) \in Int /\ Total(f, x) \in Int /\ Total(b, Agents(s)) \in Int
  <2>1. IsFiniteSet(R)
    BY <1>1, <1>4, FS_Subset
  <2>2. \A p \in R : f[p] \in Int
    BY <1>2, <1>4
  <2> HIDE DEF R
  <2> QED
    BY <1>1, <1>2, <2>1, <2>2, TotalAny
<1> HIDE DEF R, g
<1> QED
  BY <1>5, <1>6, <1>7, <1>9, <1>10

\* A plan that keeps the constraints of a complete spec covers every task.
LEMMA CompleteCovers ==
    ASSUME NEW s \in Specs, RolesNamed(s), Complete(s), NEW x \in SUBSET Pairs(s), Keeps(s, x)
    PROVE  TwoRoles(s) /\ \A t \in Tasks(s) : \E p \in x : p[2] = t
<1>1. TwoRoles(s)
  BY DEF TwoRoles, Complete, RolesAgree
<1>2. PICK c \in s.constraints : c.type = "demand_coverage" /\ ParamOr(c, "count", 1) > 0
  BY DEF Complete
<1>3. ParamOr(c, "count", 1) \in Int
  BY NumbersOfSpec
<1>4. ASSUME NEW t \in Tasks(s) PROVE \E p \in x : p[2] = t
  <2>1. Means(s, c, x)
    BY DEF Keeps
  <2>2. \/ Cardinality(Partners(x, t)) >= ParamOr(c, "count", 1)
        \/ Cardinality(Partners(x, t)) = ParamOr(c, "count", 1)
    BY <1>2, <2>1 DEF Means
  <2>3. Partners(x, t) # {}
    BY <1>2, <1>3, <2>2, FS_EmptySet
  <2>4. Partners(x, t) = {p[1] : p \in Chosen(x, 2, t)}
    BY <1>1, PartnersAreChosen
  <2> QED
    BY <2>3, <2>4 DEF Chosen
<1> QED
  BY <1>1, <1>4

\* A pair of categories has no third.
LEMMA NoThird ==
    ASSUME NEW S, IsFiniteSet(S), Cardinality(S) = 2, NEW a \in S, NEW b \in S, a # b,
           NEW c \in S, c # a
    PROVE  c = b
<1>1. IsFiniteSet(S \ {a}) /\ Cardinality(S \ {a}) = 1
  BY FS_RemoveElement
<1>2. IsFiniteSet((S \ {a}) \ {b}) /\ Cardinality((S \ {a}) \ {b}) = 0
  BY <1>1, FS_RemoveElement
<1>3. (S \ {a}) \ {b} = {}
  BY <1>2, FS_EmptySet
<1> QED
  BY <1>3

\* "Not enough agents" is right.
LEMMA CountRejectionIsSound ==
    ASSUME NEW s \in Specs, RolesNamed(s), Complete(s), NEW x \in SUBSET Pairs(s), Keeps(s, x),
           NEW c \in s.constraints, NEW hashed \in Categories(s) \X Categories(s),
           hashed[1] = hashed[2] => Categories(s) = {hashed[1]}
    PROVE  ~NotEnough(s, c, hashed)
<1> DEFINE cat == Param(c, "entity_category")
           other == IF hashed[1] = cat THEN hashed[2] ELSE hashed[1]
           n == ParamOr(c, "count", ParamOr(c, "limit", 1))
<1>1. SUFFICES ASSUME /\ c.type = "one_per_entity" /\ ParamOr(c, "sense", "<=") \in {"<=", "=="}
                      /\ cat \in Categories(s) /\ other # cat
                      /\ Cardinality(s.members[other]) > Cardinality(s.members[cat]) * n
               PROVE  FALSE
  BY DEF NotEnough
<1>2. TwoRoles(s) /\ \A t \in Tasks(s) : \E p \in x : p[2] = t
  BY CompleteCovers
<1>3. cat = Split(s)[1] /\ Subject(s, c) = cat
  <2>1. cat # Absent
    BY <1>1, SpecsAssumption
  <2> QED
    BY <1>1, <2>1 DEF Complete, Subject, ParamOr
<1>4. other = Split(s)[2]
  <2>1. other \in Categories(s)
    OBVIOUS
  <2>2. IsFiniteSet(Categories(s)) /\ Cardinality(Categories(s)) = 2
    BY SpecsAssumption DEF Complete
  <2> HIDE DEF other, cat
  <2> QED
    BY <1>1, <1>2, <1>3, <2>1, <2>2, NoThird DEF TwoRoles, RolesNamed
<1>5. Cardinality(Tasks(s)) > Cardinality(Agents(s)) * n
  BY <1>1, <1>3, <1>4 DEF Agents, Tasks
<1>6. n \in Int
  <2>1. ParamOr(c, "limit", 1) \in Int
    BY NumbersOfSpec
  <2> QED
    BY <2>1, NumbersOfSpec
<1> HIDE DEF n, cat, other
<1>7. \A a \in Agents(s) : Cardinality(Partners(x, a)) <= n
  <2> SUFFICES ASSUME NEW a \in Agents(s) PROVE Cardinality(Partners(x, a)) <= n
    OBVIOUS
  <2>1. Means(s, c, x)
    BY DEF Keeps
  <2>2. Compare(Cardinality(Partners(x, a)), ParamOr(c, "sense", "<="), n)
    BY <1>1, <1>3, <2>1 DEF Means, Agents, n
  <2> QED
    BY <1>1, <1>6, <2>2 DEF Compare
<1> DEFINE d == [t \in Tasks(s) |-> 1]
           f == [p \in x |-> 1]
           b == [a \in Agents(s) |-> n]
<1>8. \A a \in Agents(s) : b[a] \in Int /\ Total(f, Chosen(x, 1, a)) <= b[a]
  <2> SUFFICES ASSUME NEW a \in Agents(s) PROVE Total(f, Chosen(x, 1, a)) <= n
    BY <1>6
  <2> DEFINE S == Chosen(x, 1, a)
             m == [p \in Pairs(s) |-> p[2]]
  <2>1. S \in SUBSET x /\ \A p \in S : f[p] = 1
    BY DEF Chosen
  <2>2. IsFiniteSet(S)
    BY <2>1, PairsAreFinite, FS_Subset
  <2>3. Total(f, S) = 1 * Cardinality(S) /\ Cardinality(S) \in Nat
    <3> HIDE DEF f, S
    <3> QED
      BY <2>1, <2>2, TotalOfConstant, FS_CardinalityType
  <2>4. \A p, q \in S : m[p] = m[q] => p = q
    <3>1. \A p \in S : p \in x /\ p[1] = a /\ m[p] = p[2] /\ p = <<p[1], p[2]>>
      BY PairsAreFinite DEF Chosen
    <3> HIDE DEF S, m
    <3> QED
      BY <3>1
  <2>5. Partners(x, a) = {m[p] : p \in S}
    <3>1. \A p \in S : m[p] = p[2]
      BY DEF Chosen
    <3>2. Partners(x, a) = {p[2] : p \in S}
      BY <1>2, PartnersAreChosen
    <3> HIDE DEF S, m
    <3> QED
      BY <3>1, <3>2
  <2> HIDE DEF S, m, f
  <2>6. Cardinality(Partners(x, a)) = Cardinality(S)
    BY <2>2, <2>4, <2>5, AsManyPartners
  <2> QED
    BY <1>7, <2>3, <2>6 DEF S
<1>9. (\A t \in Tasks(s) : d[t] \in Nat /\ d[t] = 1) /\ \A p \in x : f[p] = d[p[2]]
  BY PairsAreFinite
<1>10. \A a \in Agents(s) : b[a] = n
  OBVIOUS
<1> HIDE DEF d, f, b
<1>11. Total(d, Tasks(s)) <= Total(b, Agents(s))
  BY <1>2, <1>8, <1>9, CoveredTasksFit
<1>12. /\ Total(d, Tasks(s)) = 1 * Cardinality(Tasks(s)) /\ Cardinality(Tasks(s)) \in Nat
       /\ Total(b, Agents(s)) = n * Cardinality(Agents(s)) /\ Cardinality(Agents(s)) \in Nat
  BY <1>6, <1>9, <1>10, RolesAreFinite, TotalOfConstant, FS_CardinalityType
<1>13. n * Cardinality(Agents(s)) = Cardinality(Agents(s)) * n
  BY <1>6, <1>12
<1>14. n * Cardinality(Agents(s)) \in Int
  BY <1>6, <1>12
<1> QED
  BY <1>5, <1>11, <1>12, <1>13, <1>14

\* The sum over the pairs of an agent is what it carries.
LEMMA CarriedByPairs ==
    ASSUME NEW s \in Specs, RolesNamed(s), NEW x \in SUBSET Pairs(s), NEW a \in Agents(s),
           NEW g, NEW f, f = [p \in x |-> AttrOr(s, p[2], g, 0)]
    PROVE  Total(f, Chosen(x, 1, a)) = Carried(s, x, a, g)
<1> DEFINE coef == [p \in Pairs(s) |-> IF p[1] = a THEN AttrOr(s, p[2], g, 0) ELSE 0]
           S == Chosen(x, 1, a)
<1>1. Total(coef, x) = Carried(s, x, a, g)
  BY LoadsSum
<1>2. IsFiniteSet(x) /\ S \in SUBSET x
  BY PairsAreFinite DEF Chosen
<1>3. \A p \in x : AttrOr(s, p[2], g, 0) \in Int
  BY PairsAreFinite, AttributeTypes
<1>4. /\ \A p \in x : coef[p] \in Int
      /\ \A p \in x \ S : coef[p] = 0
      /\ \A p \in S : f[p] \in Int /\ coef[p] = f[p]
  BY <1>3 DEF Chosen
<1>5. IsFiniteSet(S)
  BY <1>2, FS_Subset
<1> HIDE DEF coef, S
<1>6. Total(coef, x) = Total(coef, S)
  BY <1>2, <1>4, TotalOfSome
<1>7. Total(coef, S) = Total(f, S)
  BY <1>4, <1>5, TotalSame
<1> QED
  BY <1>1, <1>6, <1>7 DEF S

\* A single task of an agent demands at most what all do.
LEMMA OneIsCarried ==
    ASSUME NEW s \in Specs, RolesNamed(s), NEW x \in SUBSET Pairs(s), NEW a \in Agents(s), NEW g,
           \A t \in Tasks(s) : AttrOr(s, t, g, 0) >= 0, NEW t \in TasksOf(s, x, a)
    PROVE  AttrOr(s, t, g, 0) <= Carried(s, x, a, g)
<1> DEFINE S == TasksOf(s, x, a)
           f == [u \in S |-> AttrOr(s, u, g, 0)]
<1>1. S \in SUBSET Tasks(s)
  BY DEF TasksOf
<1>2. IsFiniteSet(S)
  BY <1>1, RolesAreFinite, FS_Subset
<1>3. \A u \in S : f[u] \in Nat
  <2>1. \A u \in Tasks(s) : AttrOr(s, u, g, 0) \in Int
    BY AttributeTypes
  <2> QED
    BY <1>1, <2>1
<1>4. {t} \in SUBSET S /\ f[t] = AttrOr(s, t, g, 0) /\ f[t] \in Int
  BY <1>3
<1> HIDE DEF f, S
<1>5. Total(f, {t}) <= Total(f, S)
  BY <1>2, <1>3, <1>4, TotalOfPart
<1>6. Total(f, {t}) = f[t]
  BY <1>4, TotalOfOne
<1> QED
  BY <1>4, <1>5, <1>6 DEF Carried, f, S

\* "Infeasible before solving" is right.
LEMMA CapacityRejectionIsSound ==
    ASSUME NEW s \in Specs, RolesNamed(s), Complete(s), NEW x \in SUBSET Pairs(s), Keeps(s, x),
           NEW c \in s.constraints
    PROVE  ~CannotFit(s, c)
<1> DEFINE f == c.parameters["resource_field"]
           g == c.parameters["demand_field"]
           holders == {e \in s.members[c.parameters["entity_category"]] :
                         IsNumeric(Attr(s, e, f))}
           items == {e \in s.members[c.parameters["demand_category"]] :
                       IsNumeric(Attr(s, e, g))}
           cap == [e \in holders |-> Max({0, Attr(s, e, f).n})]
           dem == [e \in items |-> Attr(s, e, g).n]
<1>1. SUFFICES ASSUME FullyNamed(c), holders # {}, items # {},
                      \/ Total(dem, items) > Total(cap, holders)
                      \/ \E e \in items : \A h \in holders : dem[e] > cap[h]
               PROVE  FALSE
  BY DEF CannotFit
<1>2. TwoRoles(s) /\ \A t \in Tasks(s) : \E p \in x : p[2] = t
  BY CompleteCovers
<1>3. c.type = "capacity" /\ \A key \in {"entity_category", "resource_field",
                                          "demand_category", "demand_field"} :
                                key \in DOMAIN c.parameters
  BY <1>1 DEF FullyNamed
<1>4. /\ Split(s)[1] = c.parameters["entity_category"]
      /\ Split(s)[2] = c.parameters["demand_category"]
      /\ ParamOr(c, "resource_field", "capacity") = f
      /\ ParamOr(c, "demand_field", "demand") = g
      /\ ParamOr(c, "limit", 0) = 0
  <2>1. \A key \in {"entity_category", "resource_field", "demand_category", "demand_field"} :
           \A default : ParamOr(c, key, default) = c.parameters[key]
    BY <1>3, SpecsAssumption DEF ParamOr, Param
  <2>2. Subject(s, c) = Split(s)[1] /\ ParamOr(c, "demand_category", Split(s)[2]) = Split(s)[2]
    BY <1>3 DEF Complete, RolesAgree
  <2>3. Param(c, "limit") = Absent
    BY <1>3 DEF Complete
  <2> QED
    BY <2>1, <2>2, <2>3 DEF Subject, ParamOr
<1>5. \A t \in Tasks(s) : AttrOr(s, t, g, 0) >= 0
  BY <1>3, <1>4 DEF Complete
<1>6. \A a \in Agents(s) : Carried(s, x, a, g) <= Ceiling(s, a, f, 0)
  <2>1. Means(s, c, x) /\ s.members[Subject(s, c)] = Agents(s)
    BY <1>3 DEF Keeps, Complete, RolesAgree, Agents
  <2>2. \A a \in Agents(s) : Demanded(s, x, a, g) <= Ceiling(s, a, f, 0)
    BY <1>3, <1>4, <2>1 DEF Means
  <2> QED
    BY <1>2, <2>2, DemandedIsCarried
<1>7. /\ holders = {e \in Agents(s) : IsNumeric(Attr(s, e, f))}
      /\ items = {e \in Tasks(s) : IsNumeric(Attr(s, e, g))}
  BY <1>4 DEF Agents, Tasks
<1> DEFINE b == [a \in Agents(s) |-> IF a \in holders THEN cap[a] ELSE 0]
           d == [t \in Tasks(s) |-> AttrOr(s, t, g, 0)]
           w == [p \in x |-> AttrOr(s, p[2], g, 0)]
<1> HIDE DEF f, g
<1>8. \A a \in Agents(s) : b[a] \in Nat /\ Ceiling(s, a, f, 0) = b[a]
  <2> SUFFICES ASSUME NEW a \in Agents(s) PROVE b[a] \in Nat /\ Ceiling(s, a, f, 0) = b[a]
    OBVIOUS
  <2>1. Attr(s, a, f) \in Values /\ Attr(s, a, f).n \in Int
    BY AttributeTypes DEF Values, Word, Missing
  <2>2. CASE a \in holders
    <3>1. b[a] = Max({0, Attr(s, a, f).n})
      BY <2>2
    <3>2. Ceiling(s, a, f, 0) = Max({0, Attr(s, a, f).n})
      BY <2>2 DEF Ceiling, IsNumeric, Missing
    <3> QED
      BY <2>1, <3>1, <3>2, Held
  <2>3. CASE a \notin holders
    <3>1. ~IsNumeric(Attr(s, a, f))
      BY <1>7, <2>3
    <3>2. Attr(s, a, f) \in {Word, Missing}
      BY <2>1, <3>1 DEF Values, IsNumeric
    <3>3. Ceiling(s, a, f, 0) = 0
      <4>1. Max({0, 0}) = 0
        BY Held
      <4> QED
        BY <3>2, <4>1 DEF Ceiling, Word
    <3>4. b[a] = 0
      BY <2>3
    <3> QED
      BY <3>3, <3>4
  <2> QED
    BY <2>2, <2>3
<1>9. /\ \A t \in Tasks(s) : d[t] \in Nat
      /\ \A t \in items : dem[t] \in Int /\ d[t] = dem[t]
      /\ \A t \in Tasks(s) \ items : d[t] = 0
  <2>1. \A t \in Tasks(s) : Attr(s, t, g) \in Values /\ AttrOr(s, t, g, 0) \in Int
    BY AttributeTypes
  <2>2. \A t \in Tasks(s) : d[t] \in Nat
    BY <1>5, <2>1
  <2>3. ASSUME NEW t \in items PROVE dem[t] \in Int /\ d[t] = dem[t]
    <3>1. t \in Tasks(s) /\ IsNumeric(Attr(s, t, g))
      BY <1>7
    <3>2. AttrOr(s, t, g, 0) = Attr(s, t, g).n
      BY <3>1 DEF AttrOr, IsNumeric, Missing
    <3> QED
      BY <2>1, <3>1, <3>2
  <2>4. ASSUME NEW t \in Tasks(s) \ items PROVE d[t] = 0
    <3>1. Attr(s, t, g) \in {Word, Missing}
      BY <1>7, <2>1 DEF Values, IsNumeric
    <3> QED
      BY <3>1 DEF AttrOr, Word
  <2> QED
    BY <2>2, <2>3, <2>4
<1>10. \A a \in holders : b[a] = cap[a]
  BY <1>7
<1>11. holders \in SUBSET Agents(s) /\ items \in SUBSET Tasks(s)
  BY <1>7
<1>12. \A a \in Agents(s) \ holders : b[a] = 0
  OBVIOUS
<1>13. \A p \in x : w[p] = d[p[2]]
  BY PairsAreFinite
<1>14. \A a \in Agents(s) : b[a] \in Int /\ Total(w, Chosen(x, 1, a)) <= b[a]
  <2> SUFFICES ASSUME NEW a \in Agents(s) PROVE b[a] \in Int /\ Total(w, Chosen(x, 1, a)) <= b[a]
    OBVIOUS
  <2>1. Total(w, Chosen(x, 1, a)) = Carried(s, x, a, g)
    BY CarriedByPairs
  <2>2. Carried(s, x, a, g) \in Int
    <3> DEFINE coef == [p \in Pairs(s) |-> IF p[1] = a THEN AttrOr(s, p[2], g, 0) ELSE 0]
    <3>1. Total(coef, x) = Carried(s, x, a, g) /\ Total(coef, x) \in Int
      BY LoadsSum
    <3> QED
      BY <3>1
  <2> HIDE DEF b, w
  <2> QED
    BY <1>6, <1>8, <2>1, <2>2
<1> HIDE DEF holders, items, cap, dem, b, d, w
<1>15. CASE Total(dem, items) > Total(cap, holders)
  <2>1. Total(d, Tasks(s)) <= Total(b, Agents(s))
    BY <1>2, <1>9, <1>13, <1>14, CoveredTasksFit
  <2>2. /\ IsFiniteSet(holders) /\ IsFiniteSet(items)
        /\ IsFiniteSet(Agents(s)) /\ IsFiniteSet(Tasks(s))
    BY <1>11, RolesAreFinite, FS_Subset
  <2>3. Total(d, Tasks(s)) = Total(d, items)
    BY <1>9, <1>11, <2>2, TotalOfSome
  <2>4. Total(d, items) = Total(dem, items)
    BY <1>9, <2>2, TotalSame
  <2>5. Total(b, Agents(s)) = Total(b, holders)
    BY <1>11, <1>12, <1>14, <2>2, TotalOfSome
  <2>6. \A a \in holders : cap[a] \in Int /\ b[a] = cap[a]
    BY <1>8, <1>10, <1>11
  <2>7. Total(b, holders) = Total(cap, holders)
    BY <2>2, <2>6, TotalSame
  <2>8. Total(dem, items) \in Int /\ Total(cap, holders) \in Int
    BY <1>9, <2>2, <2>6, TotalAny
  <2> QED
    BY <1>15, <2>1, <2>3, <2>4, <2>5, <2>7, <2>8
<1>16. CASE \E e \in items : \A h \in holders : dem[e] > cap[h]
  <2>1. PICK e \in items : \A h \in holders : dem[e] > cap[h]
    BY <1>16
  <2>2. PICK p \in x : p[2] = e
    BY <1>2, <1>11
  <2>3. p[1] \in Agents(s) /\ e \in TasksOf(s, x, p[1])
    BY <2>2, PairsAreFinite DEF TasksOf
  <2>4. AttrOr(s, e, g, 0) <= Carried(s, x, p[1], g)
    BY <1>5, <2>3, OneIsCarried
  <2>5. AttrOr(s, e, g, 0) = dem[e] /\ dem[e] \in Int
    BY <1>9, <1>11 DEF d
  <2>6. Carried(s, x, p[1], g) <= b[p[1]] /\ Carried(s, x, p[1], g) \in Int
    <3> DEFINE coef == [q \in Pairs(s) |-> IF q[1] = p[1] THEN AttrOr(s, q[2], g, 0) ELSE 0]
    <3>1. Total(coef, x) = Carried(s, x, p[1], g) /\ Total(coef, x) \in Int
      BY <2>3, LoadsSum
    <3>2. Total(w, Chosen(x, 1, p[1])) = Carried(s, x, p[1], g)
      BY <2>3, CarriedByPairs DEF w
    <3> QED
      BY <1>14, <2>3, <3>1, <3>2
  <2>7. dem[e] <= b[p[1]] /\ b[p[1]] \in Nat
    BY <1>8, <2>3, <2>4, <2>5, <2>6
  <2>8. CASE p[1] \in holders
    BY <1>10, <2>1, <2>5, <2>7, <2>8
  <2>9. CASE p[1] \notin holders
    <3>1. b[p[1]] = 0
      BY <1>12, <2>3, <2>9
    <3>2. PICK h \in holders : TRUE
      BY <1>1
    <3>3. dem[e] > cap[h] /\ cap[h] \in Nat
      BY <1>8, <1>10, <1>11, <2>1
    <3> QED
      BY <2>5, <2>7, <3>1, <3>3
  <2> QED
    BY <2>8, <2>9
<1> QED
  BY <1>1, <1>15, <1>16

\* What the validator calls infeasible before solving (_check_capacity,
\* _check_one_per_entity_coverage) no plan does, when every task has to be done.
THEOREM RejectionsSound == AllocationSpec => []RejectionsAreSound
<1>1. IInv => RejectionsAreSound
  <2> SUFFICES ASSUME IInv, errors # {}, errors \subseteq {"capacity", "count"},
                      Complete(spec), NEW x \in SUBSET Pairs(spec), Keeps(spec, x)
               PROVE  FALSE
    BY DEF RejectionsAreSound
  <2>1. Reported(spec, errors) /\ spec \in Specs
    BY DEF IInv, ReportInv
  <2>2. PICK hashed \in Categories(spec) \X Categories(spec) :
           /\ hashed[1] = hashed[2] => Categories(spec) = {hashed[1]}
           /\ errors = Report(spec, hashed)
    BY <2>1 DEF Reported
  <2>3. ~UnknownIndex(spec)
    <3>1. UnknownIndex(spec) => "index" \in Report(spec, hashed)
      BY DEF Report
    <3> QED
      BY <2>2, <3>1
  <2>4. RolesNamed(spec)
    BY <2>1, <2>3, SplitNamesRoles DEF Complete
  <2>5. \E c \in spec.constraints : CannotFit(spec, c) \/ NotEnough(spec, c, hashed)
    <3>1. "capacity" \in errors \/ "count" \in errors
      OBVIOUS
    <3> QED
      BY <2>2, <3>1 DEF Report
  <2> QED
    BY <2>1, <2>2, <2>4, <2>5, CapacityRejectionIsSound, CountRejectionIsSound
<1> QED
  BY <1>1, Invariance, PTL

=============================================================================
