------------------------- MODULE PopulationAnswers -------------------------
(***************************************************************************)
(* What the population tools answer: the rows of the caller's command      *)
(* centre, filtered, sorted, counted, added up, grouped and compared with  *)
(* the period before, and the conversation's next question about "those".  *)
(* The governed values of a row are inputs: other modules decide them.     *)
(*                                                                         *)
(* Margins are whole percentage points and amounts hundreds of dollars;    *)
(* Compact is the rounding of the figure a row shows, which is what sorts  *)
(* and thresholds read back.                                               *)
(***************************************************************************)
EXTENDS Integers, Sequences, FiniteSets

LOCAL INSTANCE FiniteSetsExt
LOCAL INSTANCE SequencesExt
LOCAL INSTANCE Functions

CONSTANTS
    Projects,
    Facts,      \* [Projects -> set of rows]: what the engines may say of each
    Plans,      \* [shape, filters, sort, limit, group]: what is asked
    FollowUps,  \* those of them that are asked of "those" too
    None

MaxToolRows == 25
MaxCompare == 5

VARIABLES
    fact,       \* [Projects -> row]: the governed values
    scope,      \* projects the caller may see
    commercial, \* the caller holds the grant the components are shaped by
    plan,       \* of the question last asked, None at first
    answer,     \* its answer, None at first
    those       \* the projects the conversation last spoke of

vars == <<fact, scope, commercial, plan, answer, those>>

-----------------------------------------------------------------------------
(* The view *)

\* Two decimals of a million, whole thousands below it.
Compact(x) ==
    LET step == IF x >= 10000 THEN 100 ELSE 10
    IN  ((x + step \div 2) \div step) * step

-----------------------------------------------------------------------------
(* Filters: tests of values an engine already decided *)

\* The governed metrics, whose definitions are wider and narrower than the findings'.
IsReportedGreenRisk(p) == fact[p].reported = "GREEN" /\ (fact[p].system # "GREEN" \/ fact[p].material)
IsSystemGreenAtRisk(p) ==
    fact[p].system = "GREEN" /\ {fact[p].o30, fact[p].o60} \cap {"AMBER", "RED"} # {}

ReportedGreenRisk(p) == fact[p].reported = "GREEN" /\ fact[p].system # "GREEN"
EmergingRisk(p) == fact[p].system = "GREEN" /\ (fact[p].o30 # "GREEN" \/ fact[p].o60 # "GREEN")

Exhibits(p, driver) ==
    CASE driver = "margin-erosion" -> fact[p].sold - fact[p].forecast >= 5
      [] driver = "scope-leakage" -> fact[p].scopeExposure # 0
      [] driver = "burn-ahead-of-progress" -> fact[p].burn >= 5
      [] driver = "deteriorating" -> fact[p].trajectory \in {"DETERIORATING", "RAPIDLY_DETERIORATING"}
      [] driver = "reporting-divergence" -> IsReportedGreenRisk(p)
      [] driver = "emerging-risk" -> IsSystemGreenAtRisk(p)

DriverNames == {"margin-erosion", "scope-leakage", "burn-ahead-of-progress", "deteriorating",
                "reporting-divergence", "emerging-risk"}

MetricValueOf(p, metric) ==
    CASE metric = "gmErosion" -> fact[p].sold - fact[p].forecast
      [] metric = "gmAtRisk" -> Compact(fact[p].atRisk)

Matches(p, f) ==
    /\ f.ids # {} => p \in f.ids
    /\ f.region # {} => fact[p].region \in f.region
    /\ f.system # {} => fact[p].system \in f.system
    /\ f.trajectory # {} => fact[p].trajectory \in f.trajectory
    /\ "reportedGreenRisk" \in f.findings => ReportedGreenRisk(p)
    /\ "emergingRisk" \in f.findings => EmergingRisk(p)
    /\ "recovering" \in f.findings => fact[p].trajectory = "IMPROVING"
    /\ \A d \in f.drivers : Exhibits(p, d)
    /\ \A t \in f.thresholds : MetricValueOf(p, t.metric) >= t.value

ApplyFilters(rows, f) == {p \in rows : Matches(p, f)}

Position(trajectory) ==
    CHOOSE i \in 1..4 :
        <<"RAPIDLY_DETERIORATING", "DETERIORATING", "STABLE", "IMPROVING">>[i] = trajectory

\* Ordered by what comes first: a smaller key, then the rank.
SortKey(p, sort) ==
    CASE sort = "economicExposure" -> -MetricValueOf(p, "gmAtRisk")
      [] sort = "gmErosion" -> -MetricValueOf(p, "gmErosion")
      [] sort = "trajectorySeverity" -> Position(fact[p].trajectory)
      [] sort = "milestoneProximity" -> IF fact[p].weeks \in {None, 0} THEN 99999 ELSE fact[p].weeks
      [] sort = "recovery" -> IF fact[p].trajectory = "IMPROVING" THEN 0 ELSE 1
      [] OTHER -> 0

ApplySort(rows, sort) ==
    SetToSortSeq(rows, LAMBDA p, q :
        \/ SortKey(p, sort) < SortKey(q, sort)
        \/ SortKey(p, sort) = SortKey(q, sort) /\ fact[p].priority < fact[q].priority)

FirstOf(rows, n) == SubSeq(rows, 1, Min({n, Len(rows)}))

\* Four tools narrow only by the filters this lists: a band, a finding, an outlook do not.
NarrowBy(f) ==
    IF f.region = {} /\ f.ids = {} /\ f.drivers = {} /\ f.thresholds = {} /\ f.trajectory = {}
    THEN None ELSE f

-----------------------------------------------------------------------------
(* Tools: the count an answer states, the rows it lists, its figures and groups *)

NoFigures == [of |-> {}]
Answer(count, listed) ==
    [denied |-> FALSE, count |-> count, listed |-> listed, cited |-> ToSet(listed),
     figures |-> NoFigures, groups |-> <<>>]
Denied == [Answer(None, <<>>) EXCEPT !.denied = TRUE]

PopulationQuery(q) ==
    LET filtered == ApplyFilters(scope, q.filters)
    IN  Answer(Cardinality(filtered), FirstOf(ApplySort(filtered, q.sort), q.limit))

\* The caller's own limit, never less than one and never more than the tool's.
Ceiling(limit) == Max({1, Min({limit, MaxToolRows})})

Narrowed(rows, q) ==
    IF NarrowBy(q.filters) = None THEN ApplySort(rows, "interventionPriority")
    ELSE ApplySort(ApplyFilters(rows, q.filters), q.sort)

Ranking(q) == Answer(None, FirstOf(Narrowed(scope, q), Ceiling(q.limit)))

\* Mutation: the count is of the rows listed.
GreenAtRiskAsListed(q, category, flagged) ==
    LET shown == FirstOf(Narrowed(category, q), Ceiling(q.limit))
    IN  Answer(Len(shown), shown)

\* Counted before the list is cut; the governed metric is stated too where it counts otherwise.
GreenAtRisk(q, category, flagged) ==
    LET rows == Narrowed(category, q)
    IN  [Answer(Len(rows), FirstOf(rows, Ceiling(q.limit))) EXCEPT
            !.figures = IF Len(rows) = Cardinality(category) /\ Cardinality(flagged) # Len(rows)
                        THEN [of |-> flagged] ELSE NoFigures]

Total(rows, Value(_)) == MapThenSumSet(Value, rows)

\* Portfolio margin is weighted: the sums first, the division last.
Aggregate(rows) ==
    LET revenue == Total(rows, LAMBDA p : fact[p].revenue)
    IN  [of |-> rows,
         contractValue |-> Total(rows, LAMBDA p : fact[p].contractValue),
         atRisk |-> Total(rows, LAMBDA p : fact[p].atRisk),
         amount |-> revenue - Total(rows, LAMBDA p : fact[p].cost), over |-> revenue]

PopulationAggregate(q) ==
    LET filtered == ApplyFilters(scope, q.filters)
    IN  IF ~commercial THEN Denied
        ELSE [Answer(Cardinality(filtered), <<>>) EXCEPT !.figures = Aggregate(filtered)]

GroupKeys(p, dimension) ==
    IF dimension = "region" THEN {fact[p].region}
    ELSE LET present == {d \in DriverNames : Exhibits(p, d)}
         IN  IF present = {} THEN {"no single governed condition"} ELSE present

Buckets(rows, dimension) ==
    {[key |-> k, rows |-> {p \in rows : k \in GroupKeys(p, dimension)}] :
        k \in UNION {GroupKeys(p, dimension) : p \in rows}}

\* The fullest first (of equals, by name: left open); the projects of those shown are cited.
Concentration(q) ==
    LET filtered == ApplyFilters(scope, q.filters)
        shown == FirstOf(SetToSortSeq(Buckets(filtered, q.group),
                            LAMBDA b, c : Cardinality(b.rows) > Cardinality(c.rows)), q.limit)
    IN  IF filtered = {} THEN Denied
        ELSE [Answer(Cardinality(filtered), <<>>) EXCEPT
                !.groups = shown, !.cited = UNION {shown[i].rows : i \in DOMAIN shown}]

Margin(position) == position.revenue - position.cost

\* Only projects with a period before are compared; the rest of the view is "no earlier period".
PeriodChange(q) ==
    LET comparable == {p \in ApplyFilters(scope, q.filters) : fact[p].prior # None}
        now(p) == Margin(fact[p].current)
        before(p) == Margin(fact[p].prior)
        count(Test(_)) == Cardinality({p \in comparable : Test(p)})
    IN  CASE ~commercial -> Denied
          [] comparable = {} -> Answer(None, <<>>)
          [] OTHER ->
                [Answer(Cardinality(comparable), <<>>) EXCEPT !.figures =
                    [of |-> comparable,
                     movement |-> Total(comparable, now) - Total(comparable, before),
                     worsened |-> count(LAMBDA p : now(p) < before(p)),
                     improved |-> count(LAMBDA p : now(p) > before(p)),
                     created |-> count(LAMBDA p : before(p) >= 0 /\ now(p) < 0),
                     cleared |-> count(LAMBDA p : before(p) < 0 /\ now(p) >= 0),
                     revised |-> count(LAMBDA p :
                        200 * (fact[p].current.cost - fact[p].prior.cost) > fact[p].prior.cost),
                     uncovered |-> Cardinality(scope) - Cardinality(comparable)]]

CompareProjects(q) ==
    LET shown == FirstOf(ApplySort(ApplyFilters(scope, q.filters), q.sort), Min({q.limit, MaxCompare}))
    IN  IF Len(shown) < 2 THEN Denied ELSE Answer(None, shown)

Recovering(q) ==
    LET improving == {p \in ApplyFilters(scope, q.filters) : fact[p].trajectory = "IMPROVING"}
        shown == FirstOf(ApplySort(improving, "interventionPriority"), q.limit)
    IN  Answer(Len(shown), shown)

\* Segments are of the whole authorised set; one with nobody in it denies them all.
Segments(q) ==
    LET segment == [s \in q.filters.region |-> {p \in scope : fact[p].region = s}]
    IN  IF q.filters.region = {} \/ {} \in Range(segment) THEN Denied
        ELSE [Answer(None, <<>>) EXCEPT !.groups =
                SetToSeq({[key |-> s, rows |-> segment[s]] : s \in q.filters.region})]

\* A closed map from shapes to tools.
Execute(q) ==
    CASE q.shape = "population.list" -> PopulationQuery(q)
      [] q.shape = "population.rank" -> Ranking(q)
      [] q.shape = "population.compare" -> Segments(q)
      [] q.shape = "population.aggregate" -> PopulationAggregate(q)
      [] q.shape = "population.change" -> PeriodChange(q)
      [] q.shape = "population.concentration" -> Concentration(q)
      [] q.shape = "population.reportedGreenRisk" ->
            GreenAtRisk(q, {p \in scope : ReportedGreenRisk(p)}, {p \in scope : IsReportedGreenRisk(p)})
      [] q.shape = "population.emergingRisk" ->
            GreenAtRisk(q, {p \in scope : EmergingRisk(p)}, {p \in scope : IsSystemGreenAtRisk(p)})
      [] q.shape = "population.recovering" -> Recovering(q)
      [] q.shape = "project.compare" -> CompareProjects(q)

-----------------------------------------------------------------------------
Init ==
    /\ fact \in {f \in [Projects -> UNION Range(Facts)] : \A p \in Projects : f[p] \in Facts[p]}
    /\ scope = Projects /\ commercial \in BOOLEAN
    /\ plan = None /\ answer = None /\ those = {}

Ask(q) ==
    /\ plan' = q /\ answer' = Execute(q) /\ those' = answer'.cited
    /\ UNCHANGED <<fact, scope, commercial>>

\* "Which of those": the projects the last answer spoke about, as its claims cite them.  One the
\* caller may no longer see refuses the question.
AskOfThose(q) ==
    /\ those # {}
    /\ plan' = [q EXCEPT !.filters.ids = those]
    /\ answer' = IF those \subseteq scope THEN Execute(plan') ELSE Denied
    /\ those' = answer'.cited
    /\ UNCHANGED <<fact, scope, commercial>>

\* The engines decide again, or the caller's scope shrinks, between two questions.
Assess(p, row) ==
    /\ fact[p] # row /\ fact' = [fact EXCEPT ![p] = row]
    /\ plan' = None /\ answer' = None /\ UNCHANGED <<scope, commercial, those>>

Revoke(p) ==
    /\ p \in scope /\ Cardinality(scope) > 1 /\ scope' = scope \ {p}
    /\ plan' = None /\ answer' = None /\ UNCHANGED <<fact, commercial, those>>

Next ==
    \/ \E q \in Plans : Ask(q)
    \/ \E q \in FollowUps : AskOfThose(q)
    \/ \E p \in Projects : Revoke(p) \/ \E row \in Facts[p] : Assess(p, row)

Spec == Init /\ [][Next]_vars

-----------------------------------------------------------------------------
(* Properties.  An answer is of the question and the rows it was given. *)

\* Every variable stays within its kind of value.
TypeOK ==
    /\ \A p \in Projects : fact[p] \in Facts[p]
    /\ scope \subseteq Projects /\ scope # {} /\ commercial \in BOOLEAN
    /\ plan # None <=> answer # None
    /\ those \subseteq Projects

Answered(shapes) == plan # None /\ plan.shape \in shapes /\ ~answer.denied

\* The same plan in one region.
In(region) == [plan EXCEPT !.filters.region = {region}]
RegionsOf == {fact[p].region : p \in scope}

\* A population is the sum of its regions: what is counted, what is added up, and the portfolio
\* margin lies between the least and the greatest of the margins it is made of (aggregate,
\* "weighted, never a mean").
WholesAreTheirParts ==
    /\ Answered({"population.list", "population.aggregate", "population.reportedGreenRisk",
                  "population.emergingRisk"}) /\ plan.filters.region = {} =>
          /\ plan.filters.system = {} /\ plan.filters.findings = {} =>
                answer.count = Total(RegionsOf, LAMBDA r : Execute(In(r)).count)
          /\ plan.shape = "population.aggregate" =>
                /\ answer.figures.atRisk = Total(RegionsOf, LAMBDA r : Execute(In(r)).figures.atRisk)
                /\ \A p \in answer.figures.of :
                      (\A r \in answer.figures.of : Margin(fact[p]) * fact[r].revenue
                                                 >= Margin(fact[r]) * fact[p].revenue)
                      => answer.figures.amount * fact[p].revenue <= Margin(fact[p]) * answer.figures.over

\* One label, one number: the finding's tool, the list narrowed to the finding and the aggregate of
\* it count the same projects, whatever the limit (tools.ts greenAtRisk, "a truncated population").
OneLabelOneNumber ==
    /\ Answered({"population.reportedGreenRisk", "population.emergingRisk"})
       /\ plan.filters.system = {} /\ plan.filters.findings = {} =>
          LET finding == IF plan.shape = "population.emergingRisk" THEN "emergingRisk"
                         ELSE "reportedGreenRisk"
              same == [plan EXCEPT !.filters.findings = {finding}]
          IN  /\ answer.count = PopulationQuery(same).count
              /\ commercial => answer.count = PopulationAggregate(same).count
    /\ Answered({"population.recovering"}) =>
          answer.count <= PopulationQuery([plan EXCEPT !.filters.findings = {"recovering"}]).count

\* What is listed is the caller's, matches, is no longer than asked, and nothing left out would
\* have come first by more than the rounding of what the row shows (applySort).
ListsHoldTheLargest ==
    Answered({"population.list", "project.compare"}) =>
        /\ answer.cited \subseteq ApplyFilters(scope, plan.filters)
        /\ Len(answer.listed) <= plan.limit
        /\ plan.sort = "economicExposure" =>
              \A p \in ApplyFilters(scope, plan.filters) \ answer.cited : \A q \in answer.cited :
                  fact[p].atRisk - fact[q].atRisk <= 100

\* Nobody is missing from where a condition is concentrated, nobody is counted twice in a region,
\* and no fuller group is left out (population-tools.ts concentration).
ConcentrationsHold ==
    Answered({"population.concentration"}) =>
        LET sizes == {Cardinality(b.rows) : b \in ToSet(answer.groups)}
            all == Buckets(ApplyFilters(scope, plan.filters), plan.group)
        IN  /\ plan.group = "region" /\ ToSet(answer.groups) = all =>
                  answer.count = Total(all, LAMBDA b : Cardinality(b.rows))
            /\ \A b \in all \ ToSet(answer.groups) : \A n \in sizes : Cardinality(b.rows) <= n
            /\ ToSet(answer.groups) = all => answer.cited = ApplyFilters(scope, plan.filters)

\* A loss created is a project that worsened, one cleared is one that improved, and margin moves
\* only where a project did (population-tools.ts periodChange).
MovementsReconcile ==
    Answered({"population.change"}) /\ answer.count # None =>
        LET f == answer.figures
        IN  /\ f.created <= f.worsened /\ f.cleared <= f.improved
            /\ f.worsened + f.improved <= answer.count /\ answer.count + f.uncovered = Cardinality(scope)
            /\ f.movement < 0 => f.worsened > 0
            /\ f.movement > 0 => f.improved > 0

\* A question about "those" speaks of nobody else and of nobody the caller may no longer see, and
\* counts no more of them than there were (executor.ts populationOf: "what the previous answer said").
ThoseAreThose ==
    plan # None /\ plan.filters.ids # {} =>
        /\ answer.cited \subseteq plan.filters.ids \cap scope
        /\ answer.count # None => answer.count <= Cardinality(plan.filters.ids)
=============================================================================
