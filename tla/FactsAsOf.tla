------------------------------ MODULE FactsAsOf ------------------------------
(***************************************************************************)
(* What the assessment adapters make of one project's recorded facts. A    *)
(* fact carries the date it is about, and often a later date on which it   *)
(* is settled; the source systems record both, the second often ahead of   *)
(* time. Every surface reads the same facts at a date: today for the       *)
(* pages, each past period for the trends and for the late-detection rate. *)
(* Whether a thing counts at that date must not depend on which of a dozen *)
(* call sites asks, nor on what was recorded about the days after it.      *)
(***************************************************************************)
EXTENDS Integers, FiniteSets
LOCAL INSTANCE FiniteSetsExt

CONSTANTS
    Portfolios,     \* sets of facts: what the source systems will have recorded
    AsOfDays,       \* dates on which the portfolio may be assessed
    Never,          \* the date of what is not settled: after every other date
    None,
    ContractValue, BudgetedCost, Contingency, PlannedHours,
    Start, PlannedEnd,
    Week,           \* days in one
    VelocityWindow, \* weeks of VELOCITY_WINDOW_WEEKS
    BacklogWindow,  \* weeks of a defect trend
    Cadence,        \* QUALITY_SOURCE_CADENCE_DAYS
    Stride,         \* TREND_STRIDE
    Periods,        \* TREND_PERIODS
    Allowance,      \* rework priced in, percent of the hours
    AmberGap, RedGap, WarnedGap \* burn gaps, percent

FactsAsOfAssumption ==
    /\ \A p \in Portfolios : \A f, g \in p : f.id = g.id => f = g
    /\ \A d \in AsOfDays : d \in Nat /\ Start <= d /\ d < Never
    /\ ContractValue \in Nat \ {0} /\ BudgetedCost \in Nat \ {0} /\ Contingency \in Nat \ {0}
    /\ {Week, VelocityWindow, Stride, Periods} \subseteq Nat \ {0}

VARIABLES
    asOf,   \* the portfolio's assessment date
    facts,  \* recorded so far
    assessment  \* what the adapters make of them

vars == <<asOf, facts, assessment>>

-----------------------------------------------------------------------------
(* Dates *)

\* Mutation: a populated date counts, whenever it is.
OccurredIfPopulated(date, cut) == date # Never

\* A date is reached when it is not after the assessment date.
HasOccurred(date, cut) == date <= cut

IsOpen(settled, cut) == ~HasOccurred(settled, cut)

SettledOn(settled, cut) == IF HasOccurred(settled, cut) THEN settled ELSE Never

Rows(fs, kind) == {f \in fs : f.kind = kind}
Total(S) == MapThenSumSet(LAMBDA f : f.amount, S)
The(S, default, of(_)) == IF S = {} THEN default ELSE of(CHOOSE f \in S : TRUE)

\* Mutation: the whole history, whatever the cut.
UntilToday(fs, kind, cut) == {f \in Rows(fs, kind) : f.on <= asOf}

\* The rows of a stream dated by the cut.
Until(fs, kind, cut) == {f \in Rows(fs, kind) : f.on <= cut}

\* The rows of the newest date: an estimate is restated, not added to.
Newest(S) == {f \in S : \A g \in S : g.on <= f.on}

\* Row k from the end, and the last n rows.
Later(S, f) == {g \in S : g.on > f.on}
FromEnd(S, k) == {f \in S : Cardinality(Later(S, f)) = k}
LastRows(S, n) == {f \in S : Cardinality(Later(S, f)) < n}

-----------------------------------------------------------------------------
(* Economics at a cut *)

Executed(fs, cut) == Until(fs, "executed", cut)

\* Mutation: the link alone says a change was executed.
OpenWhileUnlinked(fs, q, cut) == q.link = None

\* A pending change stays pending until the day its execution is dated.
OpenChange(fs, q, cut) ==
    IsOpen(The({e \in Rows(fs, "executed") : e.id = q.link}, Never, LAMBDA e : e.on), cut)

Pending(fs, cut) == {q \in Rows(fs, "pending") : OpenChange(fs, q, cut)}

Exposure(fs, name) == Total({x \in Rows(fs, "exposure") : x.name = name})

EconomicsInput(fs, cut) ==
    LET claim == Newest(Until(fs, "claim", cut))
    IN  [executed |-> Executed(fs, cut), pending |-> Pending(fs, cut),
         costToDate |-> Total(Until(fs, "cost", cut)),
         estimateToComplete |-> Total(Newest(Until(fs, "etc", cut))),
         committed |-> Total(Newest(Until(fs, "commitment", cut))),
         contingencyConsumed |-> Total(Until(fs, "draw", cut)),
         physical |-> The(claim, None, LAMBDA c : c.done),
         planned |-> The(claim, None, LAMBDA c : c.planned),
         risks |-> Rows(fs, "risk"),
         damages |-> Exposure(fs, "LIQUIDATED_DAMAGES"), scope |-> Exposure(fs, "UNCOMPENSATED_SCOPE")]

\* What the economics engine makes of it, as far as these adapters read it.
EconomicsOf(in, revenue, budget, eac) ==
    [revenue |-> revenue, eac |-> eac, margin |-> revenue - eac, actualCost |-> in.costToDate,
     erosion |-> ((revenue - eac) * 10000) \div revenue
                   - ((ContractValue - BudgetedCost) * 10000) \div ContractValue,
     burnGap |-> IF in.physical = None THEN None
                 ELSE (in.costToDate * 100) \div budget - in.physical,
     contingencyGap |-> IF in.physical = None THEN None
                        ELSE (in.contingencyConsumed * 100) \div Contingency - in.physical]

ComputeEconomics(in) ==
    EconomicsOf(in, ContractValue + Total(in.executed),
                BudgetedCost + MapThenSumSet(LAMBDA e : e.cost, in.executed),
                in.costToDate + in.estimateToComplete + in.committed)

ExecutedChangeMargin(executed) == MapThenSumSet(LAMBDA e : e.amount - e.cost, executed)

-----------------------------------------------------------------------------
(* Delivery today *)

ActualOf(m) == SettledOn(m.actual, asOf)

SlipOf(m) == (IF ActualOf(m) = Never THEN m.forecast ELSE ActualOf(m)) - m.baseline

MilestoneState(m) ==
    CASE ActualOf(m) # Never /\ SlipOf(m) > 0 -> "DELIVERED_LATE"
      [] ActualOf(m) # Never /\ SlipOf(m) <= 0 -> "DELIVERED_ON_TIME"
      [] ActualOf(m) = Never /\ SlipOf(m) > 0 -> "AT_RISK"
      [] OTHER -> "ON_TRACK"

MilestonesIn(fs, state) == {m \in Rows(fs, "milestone") : MilestoneState(m) = state}
Delivered(fs) == {m \in Rows(fs, "milestone") : ActualOf(m) # Never}

\* The gain over the window, needing one observation more than the window is long.
DemonstratedVelocity(fs) ==
    LET claims == Rows(fs, "claim")
    IN  IF Cardinality(claims) < VelocityWindow + 1 THEN None
        ELSE The(Newest(claims), 0, LAMBDA c : c.done)
               - The(FromEnd(claims, VelocityWindow), 0, LAMBDA c : c.done)

\* The same window's worth of what is left, over the weeks that remain.
RequiredVelocity(fs) ==
    IF Rows(fs, "claim") = {} \/ PlannedEnd <= asOf THEN None
    ELSE ((100 - The(Newest(Rows(fs, "claim")), 0, LAMBDA c : c.done)) * Week * VelocityWindow)
           \div (PlannedEnd - asOf)

\* An observed standstill is not an unknown: the ratio is then unbounded.
VelocityRatio(required, demonstrated) ==
    CASE required = None \/ demonstrated = None -> "unknown"
      [] OTHER -> IF demonstrated > 0 THEN "known"
                  ELSE IF required > 0 THEN "unbounded" ELSE "unknown"

OpenDependencies(fs) ==
    {d \in Rows(fs, "dependency") : d.owner = "CUSTOMER" /\ SettledOn(d.resolved, asOf) = Never}

Oldest(S) == IF S = {} THEN None ELSE Max({asOf - f.on : f \in S})

\* The last milestone that gates a payment and is delivered, and the next that is not.
CriticalMilestones(fs) ==
    LET critical == {m \in Rows(fs, "milestone") : m.gating}
        past == {ActualOf(m) : m \in critical} \ {Never}
        upcoming == {m.forecast : m \in {c \in critical : ActualOf(c) = Never}}
    IN  [last |-> IF past = {} THEN None ELSE Max(past),
         next |-> IF upcoming = {} THEN None ELSE Min(upcoming)]

Delivery(fs) ==
    [slippage |-> IF Rows(fs, "milestone") = {} THEN None
                  ELSE MapThenSumSet(LAMBDA m : Max({0, m.forecast - m.baseline}), Rows(fs, "milestone")),
     atRisk |-> Cardinality(MilestonesIn(fs, "AT_RISK")),
     variance |-> The(Rows(fs, "schedule"), None, LAMBDA s : s.forecast - PlannedEnd),
     velocity |-> VelocityRatio(RequiredVelocity(fs), DemonstratedVelocity(fs)),
     ageing |-> Oldest(OpenDependencies(fs)),
     critical |-> CriticalMilestones(fs),
     hits |-> IF Delivered(fs) = {} THEN None
              ELSE (100 * Cardinality(MilestonesIn(fs, "DELIVERED_ON_TIME"))) \div Cardinality(Delivered(fs))]

\* Weeks to the next gating milestone not yet delivered and not already due.
WeeksToGate(fs) ==
    LET due == {m.forecast : m \in {g \in Rows(fs, "milestone") :
                    g.gating /\ IsOpen(g.actual, asOf) /\ g.forecast >= asOf}}
    IN  IF due = {} THEN None ELSE (Min(due) - asOf) \div Week

-----------------------------------------------------------------------------
(* Commercial, quality and resources today *)

Unsuperseded(fs) == {q \in Rows(fs, "pending") : q.link = None}

DeliveredUncontracted(fs) ==
    {s \in Rows(fs, "scope") : s.uncontracted /\ SettledOn(s.completed, asOf) # Never}

Commercial(fs) ==
    LET priced == {s \in DeliveredUncontracted(fs) : s.amount # None}
    IN  [age |-> Oldest(Unsuperseded(fs)), upside |-> Total(Unsuperseded(fs)),
         uncompensated |-> Total(priced),
         unpriced |-> Cardinality(DeliveredUncontracted(fs)) - Cardinality(priced),
         damages |-> Total({x \in Until(fs, "exposure", asOf) : x.name = "LIQUIDATED_DAMAGES"})]

OpenDefects(fs) == {d \in Rows(fs, "defect") : SettledOn(d.closed, asOf) = Never}

\* Mutation: whatever is open today was open then.
OpenDefectsTodayAt(fs, date) == Cardinality({d \in Rows(fs, "defect") : d.on <= date /\ d.closed = Never})

\* Open at the end of a past week: raised by then, and not closed by then.
OpenDefectsAt(fs, date) ==
    Cardinality({d \in Rows(fs, "defect") : d.on <= date /\ IsOpen(d.closed, date)})

QualityDates(fs) == {f.on : f \in Rows(fs, "defect") \cup Rows(fs, "acceptance")}

\* No defect is a zero only if the source was heard from lately.
EscapedRate(fs) ==
    CASE Rows(fs, "defect") # {} ->
           [state |-> "known", rate |-> (100 * Cardinality({d \in Rows(fs, "defect") : d.escaped}))
                                          \div Cardinality(Rows(fs, "defect"))]
      [] QualityDates(fs) = {} -> [state |-> "missing", rate |-> None]
      [] OTHER -> IF asOf - Max(QualityDates(fs)) > Cadence
                  THEN [state |-> "missing", rate |-> None]
                  ELSE [state |-> "zero", rate |-> 0]

Hours(S) == MapThenSumSet(LAMBDA e : e.hours, S)
Reworked(S) == Hours({e \in S : e.rework})

ReworkRatio(S) == IF Hours(S) = 0 THEN None ELSE (100 * Reworked(S)) \div Hours(S)

\* The least-squares slope of the open defects over the window, up to its positive factor.
BacklogTrend(fs) ==
    LET window == LastRows(Rows(fs, "claim"), BacklogWindow)
        place(c) == Cardinality({e \in window : e.on < c.on})
    IN  IF Cardinality(window) < BacklogWindow THEN None
        ELSE MapThenSumSet(LAMBDA c : (2 * place(c) - (BacklogWindow - 1)) * OpenDefectsAt(fs, c.on), window)

Blockers(fs) == {a \in Rows(fs, "acceptance") : a.blocking /\ SettledOn(a.resolved, asOf) = Never}
Accepted(fs) == {a \in Rows(fs, "acceptance") : SettledOn(a.accepted, asOf) # Never}

AcceptanceLatency(accepted) ==
    IF accepted = {} THEN None
    ELSE MapThenSumSet(LAMBDA a : a.accepted - a.on, accepted) \div Cardinality(accepted)

ExcessRework(ratio, cost) == IF ratio = None THEN None ELSE (cost * Max({0, ratio - Allowance})) \div 100

Quality(fs, open, rework, cost) ==
    [open |-> Cardinality(open),
     critical |-> Cardinality({d \in open : d.severity = "CRITICAL"}),
     escaped |-> EscapedRate(fs), rework |-> rework, trend |-> BacklogTrend(fs),
     blockers |-> Cardinality(Blockers(fs)), accepted |-> Cardinality(Accepted(fs)),
     latency |-> AcceptanceLatency(Accepted(fs)), excess |-> ExcessRework(rework, cost)]

ActiveAssignments(fs) == {a \in Rows(fs, "assignment") : IsOpen(a.ended, asOf)}
Allocated(S) == MapThenSumSet(LAMBDA a : a.percent, S)
SeniorBands == {"PRINCIPAL", "SENIOR"}

PercentOf(part, whole) == IF whole = 0 THEN None ELSE (100 * part) \div whole

LargestAllocation(active) ==
    Max({0} \cup {Allocated({a \in active : a.person = p}) : p \in {a.person : a \in active}})

Resource(fs, active, hours, done, cost) ==
    LET senior == {a \in active : a.band \in SeniorBands}
    IN  [pyramid |-> PercentOf(Allocated(senior), Allocated(active \ senior)),
         keyPerson |-> PercentOf(LargestAllocation(active), Allocated(active)),
         utilisation |-> PercentOf(Hours({e \in Rows(fs, "effort") : e.billable}), hours),
         effortVariance |-> IF done = None THEN None ELSE hours - (PlannedHours * done) \div 100,
         rate |-> IF hours = 0 THEN None ELSE cost \div hours]

-----------------------------------------------------------------------------
(* Series and histories *)

Point(row, value) == [period |-> row.on, value |-> value]

\* Progress against plan over the last ten weeks.
BurnGapSeries(fs) == {Point(c, c.done - c.planned) : c \in LastRows(Rows(fs, "claim"), 10)}

\* What a point of progress has cost so far, every Stride-th claim back from the newest,
\* in percent of the first of them; a week without a posted cost has none.
EacRevisionSeries(fs) ==
    LET claims == Rows(fs, "claim")
        sampled == LastRows({c \in claims : Cardinality(Later(claims, c)) % Stride = 0}, 4)
        usable == {c \in sampled : c.done > 0 /\ \E k \in Rows(fs, "cost") : k.on = c.on}
        unit(c) == (100 * Total(Until(fs, "cost", c.on))) \div c.done
        first == {c \in usable : \A d \in usable : c.on <= d.on}
        base == The(first, 0, LAMBDA c : unit(c))
    IN  IF base = 0 THEN {} ELSE {Point(c, (100 * unit(c)) \div base) : c \in usable}

ReworkSeries(fs) ==
    LET efforts == Rows(fs, "effort")
        ofWeek(e) == {f \in efforts : f.on = e.on}
    IN  {Point(e, ReworkRatio(ofWeek(e))) : e \in {x \in LastRows(efforts, 8) : Hours(ofWeek(x)) > 0}}

ContingencySeries(fs) == {Point(d, d.amount) : d \in LastRows(Rows(fs, "draw"), 8)}

\* By baseline, not by date: a milestone is plotted where it was planned.
MilestoneSlipSeries(fs) ==
    {[period |-> m.baseline, value |-> (IF m.actual = Never THEN m.forecast ELSE m.actual) - m.baseline] :
        m \in {n \in Rows(fs, "milestone") :
                 Cardinality({k \in Rows(fs, "milestone") : k.baseline > n.baseline}) < 5}}

ScopeExposureSeries(fs) ==
    {Point(q, (q.amount * (100 - q.likely)) \div 100) : q \in LastRows(Unsuperseded(fs), 4)}

\* A signal without observations is no series at all.
TrajectorySeries(fs) ==
    {s \in {BurnGapSeries(fs), EacRevisionSeries(fs), ReworkSeries(fs), ContingencySeries(fs),
            MilestoneSlipSeries(fs), ScopeExposureSeries(fs)} : s # {}}

\* Every Stride-th claim date from the first, the last Periods of them.
SampledDates(fs) ==
    LET dates == {c.on : c \in Rows(fs, "claim")}
        sampled == {d \in dates : Cardinality({e \in dates : e < d}) % Stride = 0}
    IN  {d \in sampled : Cardinality({e \in sampled : e > d}) < Periods}

\* The two endpoints both come from the trend, or there is no movement to speak of.
PeriodMovement(fs, past, sampled) ==
    IF Cardinality(sampled) < 2 THEN None
    ELSE LET current == Max(sampled)
             prior == Max(sampled \ {current})
         IN  [prior |-> prior,
              priorRevenue |-> past[prior].economics.revenue, priorEac |-> past[prior].economics.eac,
              revenue |-> past[current].economics.revenue, eac |-> past[current].economics.eac,
              reported |-> The(FromEnd(Rows(fs, "report"), 1), None, LAMBDA r : r.rag)]

\* The longest run of periods in which the forecast margin fell.
LongestRun(periods, fell) ==
    Max({0} \cup {Cardinality({d \in fell : a <= d /\ d <= b}) : <<a, b>> \in
                    {ab \in fell \X fell : \A d \in periods : ab[1] <= d /\ d <= ab[2] => d \in fell}})

MarginStreak(past, sampled) ==
    LongestRun(sampled, {d \in sampled : \E b \in sampled :
        /\ b < d /\ \A e \in sampled : e <= b \/ d <= e
        /\ past[d].economics.margin < past[b].economics.margin})

-----------------------------------------------------------------------------
(* Assessments *)

\* The band of a past period: only the financial signals rewind.
BandOf(e) ==
    CASE e.margin < 0 -> "RED"
      [] e.burnGap # None /\ e.burnGap >= RedGap -> "RED"
      [] e.burnGap # None /\ e.burnGap >= AmberGap -> "AMBER"
      [] OTHER -> "GREEN"

\* Whether a rule fires on what was known then.
WarnedBy(e) == \E gap \in {e.burnGap, e.contingencyGap} : gap # None /\ gap >= WarnedGap

Rewound(in, e) == [input |-> in, economics |-> e, band |-> BandOf(e), warned |-> WarnedBy(e)]

\* The engine rewound to every claim's date, never a second formula.
Cuts(fs) == {c.on : c \in Rows(fs, "claim")} \cup {asOf}

ReadAt(in) == Rewound(in, ComputeEconomics(in))

Past(fs) == [cut \in Cuts(fs) |-> ReadAt(EconomicsInput(fs, cut))]

\* The first RED of the replay, and whether the period before saw it coming.
LateDetectionCase(past, sampled) ==
    LET reds == {d \in sampled : past[d].band = "RED"}
        before == {d \in sampled : \A r \in reds : d < r}
    IN  IF Cardinality(sampled) < 2 \/ reds = {} \/ before = {} THEN None
        ELSE [firstRed |-> Min(reds), prior |-> Max(before),
              detected |-> past[Max(before)].band = "AMBER" \/ past[Max(before)].warned]

Reasons(e, in) ==
    (IF e.erosion < -100 THEN {"MARGIN_ERODING"} ELSE {})
      \cup (IF e.burnGap # None /\ e.burnGap > 5 THEN {"BURN_AHEAD_OF_PROGRESS"} ELSE {})
      \cup (IF in.contingencyConsumed * 100 > Contingency * 70 THEN {"CONTINGENCY_DEPLETING"} ELSE {})
      \cup (IF in.scope # 0 THEN {"UNCOMMERCIALISED_SCOPE"} ELSE {})

\* Age of a domain's newest fact, as the command centre and as the project page ask for it.
AgeOfDomain(fs, kind) == The(Newest(Rows(fs, kind)), None, LAMBDA f : asOf - f.on)

DomainAges(fs) == [kind \in {"cost", "claim", "executed", "defect", "risk"} |->
                 IF Rows(fs, kind) = {} THEN None ELSE asOf - Max({f.on : f \in Rows(fs, kind)})]

OpenRisks(fs) == {r \in Rows(fs, "risk") : r.state \in {"OPEN", "MITIGATING"}}

\* Mutation: a date on the record closes the defect.
OpenWhenUndated(d) == d.closed = Never

StillOpen(d) == IsOpen(d.closed, asOf)

\* The counts the project page reports as facts.
Observed(fs, executed, pending) ==
    [openDefects |-> Cardinality({d \in Rows(fs, "defect") : StillOpen(d)}),
     blockers |-> Cardinality({a \in Rows(fs, "acceptance") : a.blocking /\ IsOpen(a.resolved, asOf)}),
     accepted |-> Cardinality({a \in Rows(fs, "acceptance") : ~IsOpen(a.accepted, asOf)}),
     executed |-> Cardinality(executed), executedValue |-> Total(executed),
     pending |-> Cardinality(pending), pendingValue |-> Total(pending),
     uncontracted |-> Cardinality({s \in Rows(fs, "scope") : s.uncontracted}),
     openRisks |-> Cardinality(OpenRisks(fs))]

\* A decision dated ahead has not been taken.
DecidedWarnings(fs) == {w \in Rows(fs, "disposition") : SettledOn(w.decided, asOf) # Never}

ApplicabilityContext(fs) ==
    [physical |-> The(Newest(Until(fs, "claim", asOf)), None, LAMBDA c : c.done),
     daysToBaseline |-> PlannedEnd - asOf, elapsedWeeks |-> (asOf - Start) \div Week]

Assessed(fs, past, now, sampled) ==
    [past |-> past,
     delivery |-> Delivery(fs), commercial |-> Commercial(fs),
     quality |-> Quality(fs, OpenDefects(fs), ReworkRatio(Rows(fs, "effort")), now.economics.actualCost),
     resource |-> Resource(fs, ActiveAssignments(fs), Hours(Rows(fs, "effort")),
                           The(Newest(Rows(fs, "claim")), None, LAMBDA c : c.done), now.economics.actualCost),
     reasons |-> Reasons(now.economics, now.input),
     changeMargin |-> ExecutedChangeMargin(now.input.executed),
     movement |-> PeriodMovement(fs, past, sampled), streak |-> MarginStreak(past, sampled),
     late |-> LateDetectionCase(past, sampled), series |-> TrajectorySeries(fs),
     clock |-> WeeksToGate(fs), observed |-> Observed(fs, Executed(fs, asOf), Pending(fs, asOf)),
     ages |-> DomainAges(fs), ageOf |-> [kind \in {"cost", "claim", "defect"} |-> AgeOfDomain(fs, kind)],
     decided |-> DecidedWarnings(fs), applicable |-> ApplicabilityContext(fs)]

AssessedFrom(fs, past) == Assessed(fs, past, past[asOf], SampledDates(fs))

Assessment(fs) == AssessedFrom(fs, Past(fs))

-----------------------------------------------------------------------------
Init ==
    /\ asOf \in AsOfDays
    /\ facts = {}
    /\ assessment = Assessment(facts)

\* Posted period by period, and never ahead of the assessment date.
Streams == {"cost", "claim", "etc", "commitment", "draw", "report", "effort"}

Record(f) ==
    /\ f \notin facts
    /\ \E p \in Portfolios : facts \cup {f} \subseteq p
    /\ f.kind \in Streams => f.on <= asOf /\ \A g \in Rows(facts, f.kind) : g.on <= f.on
    /\ facts' = facts \cup {f}
    /\ UNCHANGED asOf
    /\ assessment' = Assessment(facts \cup {f})

Next == \E f \in UNION Portfolios : Record(f)

Spec == Init /\ [][Next]_vars

-----------------------------------------------------------------------------
(* Properties *)

TypeOK ==
    /\ asOf \in AsOfDays
    /\ facts \in SUBSET UNION Portfolios
    /\ asOf \in DOMAIN assessment.past
    /\ assessment.clock = None \/ assessment.clock >= 0
    /\ assessment.quality.critical <= assessment.quality.open

\* At whatever date the facts are read, a change request and the change it became are not
\* both counted, and one of them is: value never sits in the contract and in the upside.
ChangeIsInOnePlace ==
    \A cut \in DOMAIN assessment.past : \A q \in Rows(facts, "pending"), e \in Rows(facts, "executed") :
       q.link = e.id =>
         (q \in assessment.past[cut].input.pending <=> e \notin assessment.past[cut].input.executed)

\* Two surfaces that answer the same question agree: the counts of the project page with
\* the engines' own, a domain's age on the page and in the command centre, the weeks to
\* decide with the next gating milestone shown unless that one is overdue, and the last
\* point of the defect trend with the open defects beside it.
SurfacesAgree ==
    LET now == assessment.past[asOf].input
        page == assessment.observed
    IN  /\ page.openDefects = assessment.quality.open
        /\ page.blockers = assessment.quality.blockers
        /\ page.accepted = assessment.quality.accepted
        /\ page.pendingValue = Total(now.pending) /\ page.executedValue = Total(now.executed)
        /\ \A kind \in DOMAIN assessment.ageOf : assessment.ages[kind] = assessment.ageOf[kind]
        /\ LET next == assessment.delivery.critical.next
           IN  next # None /\ next >= asOf => assessment.clock = (next - asOf) \div Week
        /\ (\E c \in Rows(facts, "claim") : c.on = asOf) => OpenDefectsAt(facts, asOf) = page.openDefects

\* No hindsight: what is recorded about a later day changes nothing a past period is said
\* to have shown, nor whether it was warned (but for the facts the adapter does not cut).
NoHindsight ==
    \A f \in facts' \ facts : f.kind \in Streams \cup {"executed"} =>
       \A cut \in DOMAIN assessment.past : cut < f.on =>
          assessment'.past[cut] = assessment.past[cut]

=============================================================================
