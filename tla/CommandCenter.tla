--------------------------- MODULE CommandCenter ---------------------------
(***************************************************************************)
(* The portfolio page. From the projects a caller may see, those of the    *)
(* contracting model it is about are totalled, ranked, counted, plotted    *)
(* and compared with the previous period; everything on the page is built  *)
(* from that one population. The order is InterventionPriority's and the   *)
(* value at risk is ValueAtRisk's.                                         *)
(*                                                                         *)
(* `view` is what a request answered now would be given.                   *)
(***************************************************************************)
EXTENDS Integers, Sequences, FiniteSets

LOCAL INSTANCE SequencesExt
LOCAL INSTANCE FiniteSetsExt

CONSTANTS
    Projects,       \* numbered in the order of their ids
    InPopulation,   \* the projects of the population's engagement models
    Region,         \* project -> region; one filter stands for those counted alike
    Causes,         \* project -> causes of its open risks
    Assessments,    \* what the assessment of a project can be
    Floor

CommandAssumption == InPopulation \subseteq Projects /\ Projects \subseteq Nat

VARIABLES
    assessed,   \* project -> its current assessment
    before,     \* the same at the previous period, <<>> where none is loaded
    authorised, \* the caller's authorised set
    view

vars == <<assessed, before, authorised, view>>

P == INSTANCE InterventionPriority WITH
        Amounts <- {}, Clocks <- {}, Known <- <<>>, MaxChanges <- 0,
        evidence <- assessed, ranked <- <<>>, changes <- 0
V == INSTANCE ValueAtRisk WITH
        Causes <- {}, Amounts <- {}, MaxSupplied <- 0,
        gm <- assessed, impact <- <<>>, supplied <- <<>>, report <- <<>>

Sum(f) == MapThenSumSet(LAMBDA x : f[x], DOMAIN f)

-----------------------------------------------------------------------------
(* The population *)

Population(auth) == auth \cap InPopulation

PriorPopulation(auth) == auth \cap InPopulation

TotalsOf(ps, a) ==
    LET seq == SetToSortSeq(ps, <)
        by == [p \in ps |-> [c \in Causes[p] |-> 1]]
        g == [p \in ps |-> a[p].gm]
    IN  [tcv |-> Sum([p \in ps |-> a[p].tcv]),
         forecastGm |-> Sum([p \in ps |-> a[p].forecastGm]),
         gmVar |-> V!Portfolio(seq, g, by),
         concentration |-> V!Concentration(seq, g, by),
         loss |-> Sum([p \in ps |-> a[p].loss]),
         scope |-> Sum([p \in ps |-> a[p].scope]),
         amberRed |-> Cardinality({p \in ps : a[p].band # "GREEN"}),
         gar |-> Cardinality({p \in ps : a[p].greenAtRisk}),
         reportedGreen |-> Cardinality({p \in ps : a[p].reported = "GREEN" /\ a[p].band # "GREEN"})]

WorseWhenUp == [tcv |-> FALSE, forecastGm |-> FALSE, gmVar |-> TRUE, loss |-> TRUE, amberRed |-> TRUE,
                reportedGreen |-> TRUE, scope |-> TRUE]

Delta(now, then, worseWhenUp) ==
    CASE now = then -> [direction |-> "flat", sentiment |-> "neutral"]
      [] now > then -> [direction |-> "up", sentiment |-> IF worseWhenUp THEN "negative" ELSE "positive"]
      [] now < then -> [direction |-> "down", sentiment |-> IF worseWhenUp THEN "positive" ELSE "negative"]

Deltas(now, then, loaded) ==
    IF loaded THEN [k \in DOMAIN WorseWhenUp |-> Delta(now[k], then[k], WorseWhenUp[k])] ELSE <<>>

-----------------------------------------------------------------------------
(* Rows *)

Candidate(a) ==
    [band |-> a.band, gm |-> a.gm, penalty |-> a.penalty # 0 \/ a.loss # 0,
     greenAtRisk |-> a.greenAtRisk, outlook |-> a.outlook, clock |-> a.clock, action |-> a.action,
     data |-> a.data, forecast |-> a.forecast]

ExecutiveActionFor(a) ==
    CASE P!CriticalExposure(Candidate(a)) -> "escalate"
      [] ~P!CriticalExposure(Candidate(a)) /\ a.greenAtRisk -> IF a.window THEN "intervene" ELSE "escalate"
      [] OTHER -> IF a.reported = "GREEN" /\ a.band # "GREEN" THEN "challenge"
                  ELSE IF P!GradeActionability(a.action) = "CREDIBLE_PLAN" THEN "track" ELSE "monitor"

Contribution(a) == [tcv |-> a.tcv, forecastGm |-> a.forecastGm, gmVar |-> a.gm]

CountBy(ps, pick) == [v \in Range(pick) |-> Cardinality({p \in ps : pick[p] = v})]

Filters(ps, a, rows) ==
    [region |-> CountBy(ps, [p \in ps |-> Region[p]]),
     rag |-> CountBy(ps, [p \in ps |-> a[p].band]),
     greenAtRisk |-> Cardinality({p \in ps : a[p].greenAtRisk}),
     scope |-> Cardinality({p \in ps : a[p].scope # 0}),
     intervention |-> Cardinality({p \in Range(rows) : ExecutiveActionFor(a[p]) = "escalate"})]

Drivers(ps, a) ==
    LET gar == {p \in ps : a[p].greenAtRisk}
        codes == UNION {a[p].reasons : p \in gar}
        count == [c \in codes |-> Cardinality({p \in gar : c \in a[p].reasons})]
    IN  SubSeq(SetToSortSeq(codes, LAMBDA c, d : count[c] > count[d] \/ (count[c] = count[d] /\ c < d)), 1,
               IF Cardinality(codes) < 4 THEN Cardinality(codes) ELSE 4)

\* What changed, told in a tone.
Narrative(now, then, loaded) ==
    IF ~loaded THEN [none |-> "analytic"]
    ELSE [k \in {x \in {"gar"} : now.gar # then.gar} |-> IF now.gar > then.gar THEN "caution" ELSE "positive"]
         @@ [k \in {x \in {"gmVar"} : now.gmVar # then.gmVar} |-> IF now.gmVar > then.gmVar THEN "critical" ELSE "positive"]

BuildCommandCenter(auth, a, then) ==
    LET ps == Population(auth)
        now == TotalsOf(ps, a)
        prior == IF then = <<>> THEN now ELSE TotalsOf(PriorPopulation(auth), then)
        rows == P!Rank([p \in ps |-> Candidate(a[p])])
    IN  [count |-> Cardinality(ps),
         universe |-> Cardinality(auth),
         excluded |-> Cardinality(auth \ InPopulation),
         kpis |-> now,
         deltas |-> Deltas(now, prior, then # <<>>),
         ranked |-> rows,
         actions |-> [p \in Range(rows) |-> ExecutiveActionFor(a[p])],
         contributions |-> [p \in Range(rows) |-> Contribution(a[p])],
         bubbles |-> ps,
         drivers |-> Drivers(ps, a),
         narrative |-> Narrative(now, prior, then # <<>>),
         filters |-> Filters(ps, a, rows)]

-----------------------------------------------------------------------------
Init ==
    /\ assessed \in [Projects -> Assessments]
    /\ before = <<>>
    /\ authorised = Projects
    /\ view = BuildCommandCenter(authorised, assessed, before)

Reassess(p, a) == assessed' = [assessed EXCEPT ![p] = a] /\ UNCHANGED <<before, authorised>>

\* What is assessed now becomes what the next period is compared with.
ClosePeriod == before' = assessed /\ UNCHANGED <<assessed, authorised>>

Authorise(ps) == authorised' = ps /\ UNCHANGED <<assessed, before>>

Next ==
    /\ \/ \E p \in Projects, a \in Assessments : Reassess(p, a)
       \/ ClosePeriod
       \/ \E ps \in SUBSET Projects : Authorise(ps)
    /\ view' = BuildCommandCenter(authorised', assessed', before')

Spec == Init /\ [][Next]_vars

-----------------------------------------------------------------------------
(* Properties *)

TypeOK ==
    /\ assessed \in [Projects -> Assessments]
    /\ before = <<>> \/ before \in [Projects -> Assessments]
    /\ authorised \subseteq Projects
    /\ view.count + view.excluded = view.universe

\* The parts of the page agree: what the rows contribute adds up to the headline figures, the
\* bands and regions counted for the filters add up to the projects, and every project
\* plotted has its row (contributions are emitted from the ranked rows, the headlines
\* from the population).
PartsReconcile ==
    LET sumOf(k) == Sum([p \in DOMAIN view.contributions |-> view.contributions[p][k]])
    IN  /\ \A k \in {"tcv", "forecastGm", "gmVar"} : sumOf(k) = view.kpis[k]
        /\ view.bubbles = Range(view.ranked)
        /\ Sum(view.filters.rag) = view.count /\ Sum(view.filters.region) = view.count
        /\ Sum([b \in DOMAIN view.filters.rag \ {"GREEN"} |-> view.filters.rag[b]]) = view.kpis.amberRed

\* What a caller may not see, or what the page is not about, changes nothing on it: not a
\* total, a movement, a rank or a count ("computed over the caller's authorised set").
OutsideIsUnseen ==
    /\ authorised' = authorised /\ before' = before
    /\ \A p \in authorised \cap InPopulation : assessed'[p] = assessed[p]
    => view' = view

\* Like is compared with like: just after a period is closed nothing has moved, whoever is
\* asking (`input.prior` passes through the same population policy).
NothingMovesByItself ==
    before = assessed => \A k \in DOMAIN view.deltas : view.deltas[k].sentiment = "neutral"

\* Unknown is not unchanged: a movement is shown only beside a previous period.
UnknownIsNotUnchanged == before = <<>> => view.deltas = <<>>

\* If no project has improved since the previous period and none has come or gone, no figure of
\* money or of health is shown as good news (`worseWhenUp`).
NotBetter(a, b) ==
    /\ a.gm <= b.gm /\ a.loss <= b.loss /\ a.scope <= b.scope /\ b.forecastGm <= a.forecastGm
    /\ P!BandOrder(a.band) <= P!BandOrder(b.band) /\ a.reported = b.reported /\ a.tcv = b.tcv

DeclineIsNeverPositive ==
    before # <<>> /\ (\A p \in Projects : NotBetter(before[p], assessed[p]))
        => \A k \in DOMAIN view.deltas : view.deltas[k].sentiment # "positive"
=============================================================================
