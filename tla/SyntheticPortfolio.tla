------------------------- MODULE SyntheticPortfolio -------------------------
(***************************************************************************)
(* The generator of the synthetic portfolio (scripts/generator), for one   *)
(* project: its place in the plan, the weekly simulation that lets cost,   *)
(* progress and commercial position fall out of the archetype's drivers,   *)
(* the hand-solved scenario that replaces it for a curated project, the    *)
(* accounting corrections, billing, and the validation that refuses        *)
(* incoherent data.                                                        *)
(*                                                                         *)
(* `held' is what the simulation keeps for itself; `facts' is all it       *)
(* publishes.  Every draw of the random number generator is a free choice. *)
(* Shares are in thousandths, money in whole units, dates in days from the *)
(* project's start, weeks numbered from it.                                *)
(***************************************************************************)
LOCAL INSTANCE Integers
LOCAL INSTANCE Sequences
LOCAL INSTANCE FiniteSets
LOCAL INSTANCE SequencesExt
LOCAL INSTANCE FiniteSetsExt

CONSTANTS
    Archetypes,     \* records of drivers
    Patterns,       \* nudges of the drivers, by cohort
    Cohorts,        \* the cohorts a project may be in
    FixedBidOnly,   \* archetypes that only a fixed bid may have
    Durations,      \* lengths of the plan, in weeks
    Elapsed,        \* weeks from the start to the as-of date
    History,        \* weeks of history that are published
    Contract, Budget, Contingency,
    TeamSize,
    Cycle,          \* weeks between estimates, reports and postings
    Month,          \* weeks of an accounting period
    Incidents,      \* bound: weeks in which something happens
    MinPostings,    \* postings a correction needs
    MinInvoice,     \* what is too small to invoice
    Checkpoints     \* of the curated scenario, latest last

VARIABLES spec, phase, week, held, facts
vars == <<spec, phase, week, held, facts>>

Whole == 1000
AtLeast(a, b) == IF a > b THEN a ELSE b
AtMost(a, b) == IF a < b THEN a ELSE b
Total(seq, Amount(_)) == FoldLeft(LAMBDA sum, row : sum + Amount(row), 0, seq)

\* What a source system of an untouched project has recorded.
EmptyFacts ==
    [costs |-> <<>>, claims |-> <<>>, estimates |-> <<>>, draws |-> <<>>,
     dependencies |-> <<>>, scope |-> <<>>, pending |-> <<>>, executed |-> <<>>,
     revisions |-> {}, reports |-> <<>>, postings |-> <<>>, invoices |-> <<>>,
     payments |-> <<>>, exposure |-> 0, milestones |-> {}]

----------------------------------------------------------------------------
(* The structure: what the project is before a single fact exists.          *)

\* Archetypes that assume the supplier carries the scope risk never land on
\* time and materials or capacity work.
ArchetypeFor(engagement, a) ==
    IF engagement # "FIXED_BID" /\ a.id \in FixedBidOnly
    THEN CHOOSE h \in Archetypes : h.id = "HEALTHY_REFERENCE"
    ELSE a

\* The archetype's drivers, nudged by every pattern the cohort falls under.
DriversFor(a, cohort) ==
    LET nudged == {p \in Patterns : p.cohort = cohort}
        Nudge(field) == SumSet({p[field] : p \in nudged})
    IN  [a EXCEPT !.drift = @ + Nudge("drift"), !.defects = @ + Nudge("defects"),
                  !.rework = @ + Nudge("rework")]

\* The planned S-curve, 3f^2 - 2f^3, in thousandths.
PlannedAt(w, duration) ==
    LET f == AtMost(Whole, AtLeast(0, (w * Whole) \div duration))
    IN  AtMost(Whole, (3 * f * f - ((2 * f * f) \div Whole) * f) \div Whole)

AsOf == 7 * spec.elapsed
HistoryStart == AtLeast(0, spec.elapsed - History)

\* The drag carried in a given week; recovery walks it back at the same rate.
InRecovery(w) == spec.drivers.recovery # 0 /\ w >= spec.drivers.recovery
Drag(w) ==
    LET d == spec.drivers
        dragWeeks == IF InRecovery(w) THEN d.recovery ELSE w
        recoveryWeeks == IF InRecovery(w) THEN w - d.recovery ELSE 0
    IN  AtLeast(900, d.drag + d.dragPerWeek * dragWeeks + d.dragPerWeek * recoveryWeeks)

\* Recovery tapers what distress brought; it never goes below a quarter.
Taper(w) ==
    IF InRecovery(w) THEN AtLeast(250, Whole - 35 * (w - spec.drivers.recovery)) ELSE Whole

\* Milestones slip, or landed late, in proportion to the drag at their own week.
Milestone(sp, m, count) ==
    LET at == (sp.duration * 7 * m) \div (count + 1)
        drag == AtLeast(900, sp.drivers.drag + sp.drivers.dragPerWeek * (at \div 7))
        slip == IF drag > Whole /\ at > 7 * sp.elapsed THEN ((drag - Whole) * 90) \div Whole ELSE 0
        late == IF drag > 1020 THEN ((drag - Whole) * 70) \div Whole ELSE 0
    IN  [at |-> at, forecast |-> at + slip, gating |-> m % 2 = 1,
         delivered |-> at < 7 * sp.elapsed, actual |-> at + late]

----------------------------------------------------------------------------
(* One simulated week, stage by stage: s is [h |-> held, f |-> facts], d    *)
(* the week's draws.                                                        *)

\* A customer dependency blocks part of the team until its week is reached.
Block(s, d) ==
    IF s.h.blockedUntil = 0 /\ d.block > 0
    THEN [s EXCEPT !.h.blockedUntil = week + d.block,
                   !.f.dependencies = Append(@, [raised |-> 7 * week, resolved |-> 7 * (week + d.block)])]
    ELSE s
BlockedShare(s) == IF s.h.blockedUntil > week THEN 300 ELSE 0
Unblock(s) ==
    IF s.h.blockedUntil > 0 /\ week >= s.h.blockedUntil THEN [s EXCEPT !.h.blockedUntil = 0] ELSE s

PlannedThisWeek == PlannedAt(week + 1, spec.duration) - PlannedAt(week, spec.duration)
\* Effort follows the plan's own curve, then a residual past the planned end.
GrossHours ==
    IF PlannedThisWeek > 0 THEN PlannedThisWeek ELSE (Whole * 3) \div (10 * spec.duration)
ReworkPerDefect(w) == 14 + ((spec.drivers.rework - 14) * Taper(w)) \div Whole
Rework(s) == AtMost((GrossHours * 42) \div 100, (s.h.defects * ReworkPerDefect(week)) \div 10)
Productive(s) ==
    AtLeast(0, GrossHours - Rework(s) - (GrossHours * BlockedShare(s)) \div Whole)

\* Past the planned end, and in acceptance, what is left converges on done.
CatchUp(s) ==
    IF PlannedThisWeek <= 0 \/ week * 100 >= 87 * spec.duration
    THEN ((Whole - s.h.physical) * 28) \div 100 ELSE 0
Increment(s) ==
    (PlannedThisWeek * Productive(s) * 10) \div ((GrossHours * Drag(week)) \div 100)
        + (CatchUp(s) * Productive(s)) \div GrossHours

\* Rate drift saturates at three per cent; non-labour rides on top of labour.
RateDrift == AtMost(30, spec.drivers.drift * week)
CostOf(hours) ==
    LET labour == (((((hours * Budget) \div Whole) * 92) \div 100) * (Whole + RateDrift)) \div Whole
    IN  labour + (labour * 8) \div 100

\* Mutation: the increment is not capped at complete.
DeliverUncapped(s, d) ==
    LET physical == s.h.physical + Increment(s)
        spent == CostOf(GrossHours)
        claim == [week |-> week, physical |-> physical, planned |-> PlannedAt(week, spec.duration)]
    IN  [s EXCEPT !.h.physical = physical, !.h.cost = @ + spent,
                  !.f.costs = Append(@, [week |-> week, amount |-> spent]),
                  !.f.claims = IF d.gap THEN @ ELSE Append(@, claim)]
\* Progress is earned and cost is booked; a reporting gap skips only the claim.
Deliver(s, d) ==
    LET physical == AtMost(Whole, s.h.physical + Increment(s))
        spent == CostOf(GrossHours)
        claim == [week |-> week, physical |-> physical, planned |-> PlannedAt(week, spec.duration)]
    IN  [s EXCEPT !.h.physical = physical, !.h.cost = @ + spent,
                  !.f.costs = Append(@, [week |-> week, amount |-> spent]),
                  !.f.claims = IF d.gap THEN @ ELSE Append(@, claim)]

\* Defects arrive with the work and are worked down at the archetype's pace.
Inject(s, d) ==
    LET decay == IF spec.drivers.defects > 20 THEN 86 ELSE 70
        injected == (d.injected * (9 + ((spec.drivers.defects - 9) * Taper(week)) \div Whole)) \div 10
    IN  [s EXCEPT !.h.defects = ((@ + injected) * decay + 50) \div 100]

ScopeValue == (spec.drivers.creep * Contract) \div Whole
ScopeOf(id, absorbed) == [id |-> id, value |-> ScopeValue, uncontracted |-> absorbed]
PendingOf(id, by) == [id |-> id, value |-> ScopeValue, superseded |-> by]
\* Mutation: the pending row is left as it was when its change is executed.
ExecuteAlone(s, on) ==
    [s EXCEPT !.f.executed = Append(@, [id |-> week, on |-> on, value |-> ScopeValue]),
              !.f.pending = Append(@, PendingOf(week, -1)),
              !.f.revisions = @ \cup {week},
              !.h.executed = @ + ScopeValue]
\* An executed change is a row of its own, and the pending row names it.
Execute(s, on) ==
    [s EXCEPT !.f.executed = Append(@, [id |-> week, on |-> on, value |-> ScopeValue]),
              !.f.pending = Append(@, PendingOf(week, week)),
              !.f.revisions = @ \cup {week},
              !.h.executed = @ + ScopeValue]
\* Scope arrives: absorbed, or a change request that is executed only by the
\* as-of date.
Arrive(s, d) ==
    LET on == 7 * week + d.lag
        arrived == [s EXCEPT !.f.scope = Append(@, ScopeOf(week, d.scope = "absorbed"))]
    IN  CASE d.scope = "none" \/ ScopeValue = 0 -> s
          [] d.scope = "absorbed" -> [arrived EXCEPT !.h.absorbed = @ + ScopeValue]
          [] d.scope = "executed" /\ on <= AsOf -> Execute(arrived, on)
          [] OTHER -> [arrived EXCEPT !.f.pending = Append(@, PendingOf(week, -1)),
                                      !.h.pending = @ + ScopeValue]

Ticks == week % Cycle = 0
\* The estimate to complete is revised each cycle, with the archetype's bias.
Estimate(s) ==
    LET honest == (CostOf(Whole - s.h.physical) * (Drag(week) \div 10)) \div 100
        etc == (honest * (spec.drivers.optimism \div 10)) \div 100
        committed == etc \div 10
    IN  IF ~Ticks THEN s
        ELSE [s EXCEPT !.h.etc = etc, !.h.committed = committed,
                       !.f.estimates = Append(@, [week |-> week, etc |-> etc, committed |-> committed])]

DrawShare == IF InRecovery(week) THEN (spec.drivers.draw * Taper(week) * 4) \div (10 * Whole) ELSE spec.drivers.draw
\* Mutation: the draw is not held to what the contingency has left.
DrawFreely(s) ==
    LET ahead == s.h.cost * 100 > ((PlannedAt(week, spec.duration) * Budget) \div Whole) * 102
        amount == (Contingency * DrawShare) \div Whole
    IN  IF ahead /\ s.h.consumed < Contingency /\ amount > 1
        THEN [s EXCEPT !.h.consumed = @ + amount,
                       !.f.draws = Append(@, [week |-> week, amount |-> amount])]
        ELSE s
\* Contingency is drawn, to its end, once cost runs ahead of the planned curve.
Draw(s) ==
    LET ahead == s.h.cost * 100 > ((PlannedAt(week, spec.duration) * Budget) \div Whole) * 102
        amount == AtMost(Contingency - s.h.consumed, (Contingency * DrawShare) \div Whole)
    IN  IF ahead /\ s.h.consumed < Contingency /\ amount > 1
        THEN [s EXCEPT !.h.consumed = @ + amount,
                       !.f.draws = Append(@, [week |-> week, amount |-> amount])]
        ELSE s

Order == <<"RED", "AMBER", "GREEN">>
\* What a delivery manager sees, and the archetype's optimism on top of it.
Report(s) ==
    LET revenue == Contract + s.h.executed
        eac == s.h.cost + s.h.etc + s.h.committed
        soldGm == ((Contract - Budget) * Whole) \div Contract
        erosion == soldGm - ((revenue - eac) * Whole) \div revenue
        behind == PlannedAt(week, spec.duration) - s.h.physical
        quality == s.h.defects > AtLeast(6, (TeamSize * 3) \div 2)
        honest == CASE erosion > 90 \/ behind > 160 \/ (quality /\ erosion > 60) -> 1
                    [] erosion > 40 \/ behind > 70 \/ quality \/ s.h.blockedUntil > 0 -> 2
                    [] OTHER -> 3
        said == AtMost(3, honest + spec.drivers.ragOptimism)
    IN  IF ~Ticks THEN s
        ELSE [s EXCEPT !.f.reports = Append(@, [week |-> week, honest |-> Order[honest], rag |-> Order[said]])]

\* A posting of recognised revenue; -1 supersedes nothing.
Posting(period, kind, amount, cumulative, day, supersedes, original) ==
    [period |-> period, kind |-> kind, amount |-> amount, cumulative |-> cumulative,
     day |-> day, supersedes |-> supersedes, original |-> original]
\* Mutation: the pending changes are counted with the contract.
RecognisablePending(h) ==
    LET contractual == Contract + h.executed + h.pending
        eac == AtLeast(1, h.cost + h.etc + h.committed)
    IN  IF h.cost >= eac THEN contractual ELSE (contractual * h.cost) \div eac
\* Revenue is recognised by cost, on the contract and what was executed.
Recognisable(h) ==
    LET contractual == Contract + h.executed
        eac == AtLeast(1, h.cost + h.etc + h.committed)
    IN  IF h.cost >= eac THEN contractual ELSE (contractual * h.cost) \div eac
\* One original posting for an accounting period, and none ever reverses.
Recognise(s) ==
    LET period == week \div Month
        target == Recognisable(s.h)
        cumulative == AtLeast(s.h.recognised, target)
    IN  IF ~Ticks \/ period = s.h.period THEN s
        ELSE [s EXCEPT !.h.recognised = cumulative, !.h.period = period,
                !.f.postings = Append(@, Posting(period, "ORIGINAL", AtLeast(0, target - s.h.recognised),
                                                 cumulative, 7 * week + 3, -1, -1))]

----------------------------------------------------------------------------
(* A curated project: hand-solved checkpoints, interpolated week by week.   *)

Horizon == Checkpoints[1].before
Today == Checkpoints[Len(Checkpoints)]
Fields == {"physical", "planned", "cost", "etc", "committed", "consumed"}

\* The scenario's position so many weeks before the as-of date.
Interpolate(before) ==
    IF before >= Horizon THEN Checkpoints[1]
    ELSE LET i == CHOOSE k \in 1 .. Len(Checkpoints) - 1 :
                    /\ before < Checkpoints[k].before
                    /\ before >= Checkpoints[k + 1].before
             a == Checkpoints[i]
             b == Checkpoints[i + 1]
             span == a.before - b.before
             done == a.before - before
         IN  [x \in DOMAIN a |->
                CASE x = "before" -> before
                  [] x \in Fields -> a[x] + ((b[x] - a[x]) * done) \div span
                  [] OTHER -> IF 2 * done < span THEN a[x] ELSE b[x]]

\* Mutation: the opening balance of the contingency is not emitted.
OpeningLost(before) ==
    IF before = Horizon THEN 0 ELSE Interpolate(before).consumed - Interpolate(before + 1).consumed
\* The contingency drawn in a week; the first week carries all that came before.
DrawnIn(before) ==
    IF before = Horizon THEN Interpolate(before).consumed
    ELSE Interpolate(before).consumed - Interpolate(before + 1).consumed

\* One week of the scenario.
CuratedFacts(s, before) ==
    LET point == Interpolate(before)
        checkpoint == \E k \in DOMAIN Checkpoints : Checkpoints[k].before = before
        spent == AtLeast(0, point.cost - s.h.cost)
        h == [s.h EXCEPT !.cost = point.cost, !.etc = point.etc, !.committed = point.committed,
                         !.physical = point.physical, !.executed = point.executed]
        due == before % Cycle = 0
        period == week \div Month
        target == Recognisable(h)
        posted == due /\ period # s.h.period
        drawn == DrawnIn(before)
    IN  [h |-> [h EXCEPT !.recognised = IF posted THEN AtLeast(@, target) ELSE @,
                         !.period = IF posted THEN period ELSE @,
                         !.consumed = IF drawn > 1 THEN @ + drawn ELSE @],
         f |-> [s.f EXCEPT
            !.costs = Append(@, [week |-> week, amount |-> spent]),
            !.claims = Append(@, [week |-> week, physical |-> point.physical, planned |-> point.planned]),
            !.estimates = IF checkpoint \/ before % (Cycle + 1) = 0
                          THEN Append(@, [week |-> week, etc |-> point.etc, committed |-> point.committed])
                          ELSE @,
            !.draws = IF drawn > 1 THEN Append(@, [week |-> week, amount |-> drawn]) ELSE @,
            !.reports = IF before % 2 = 0
                        THEN Append(@, [week |-> week, honest |-> point.rag, rag |-> point.rag]) ELSE @,
            !.postings = IF posted
                         THEN Append(@, Posting(period, "ORIGINAL", AtLeast(0, target - s.h.recognised),
                                                AtLeast(s.h.recognised, target), 7 * week + 3, -1, -1))
                         ELSE @]]

----------------------------------------------------------------------------
(* Corrections and billing.                                                 *)

Originals(postings) == SelectSeq(postings, LAMBDA p : p.kind = "ORIGINAL")

\* Mutation: a correction overwrites the posting it corrects.
CorrectedInPlace(postings, i, kind, lag) ==
    [postings EXCEPT ![i].amount = (@ * 9) \div 10]
\* An adjustment, or a reversal and a restatement, appended to the series.
Corrected(postings, i, kind, lag) ==
    LET target == postings[i]
        on == target.day + lag
        delta == -(target.amount \div 10)
        restated == (target.amount * 9) \div 10
        Row(k, amount, cumulative, day, by) ==
            Posting(target.period, k, amount, AtLeast(0, cumulative), day, by, i)
    IN  CASE kind = "adjustment" ->
                Append(postings, Row("ADJUSTMENT", delta, target.cumulative + delta, on, i))
          [] kind = "reversal" ->
                postings \o <<
                    Row("REVERSAL", -target.amount, target.cumulative - target.amount, on, i),
                    Row("RESTATEMENT", restated, target.cumulative - target.amount + restated,
                        on + 1, Len(postings) + 1)>>
          [] OTHER -> postings

\* Mutation: corrections are billed like originals.
BillingOfEverything(postings, share) ==
    FoldLeft(
        LAMBDA b, p :
            LET amount == (AtLeast(p.amount, -p.amount) * 125) \div 100
            IN  IF amount <= MinInvoice THEN b
                ELSE [billed |-> b.billed + amount,
                      rows |-> IF p.day + 5 > AsOf THEN b.rows
                               ELSE Append(b.rows, [issued |-> p.day + 5, amount |-> amount])],
        [billed |-> 0, rows |-> <<>>], postings).rows
\* The invoices for a share of what was originally recognised, a lagged one each.
Billing(postings, share) ==
    FoldLeft(
        LAMBDA b, p :
            LET target == (p.cumulative * share) \div 100
                amount == target - b.billed
            IN  IF amount <= MinInvoice THEN b
                ELSE [billed |-> target,
                      rows |-> IF p.day + 5 > AsOf THEN b.rows
                               ELSE Append(b.rows, [issued |-> p.day + 5, amount |-> amount])],
        [billed |-> 0, rows |-> <<>>], Originals(postings)).rows
\* What was paid by the as-of date, of the invoices the customer pays.
Payments(invoices, pays) ==
    SelectSeq(
        [i \in 1 .. Len(invoices) |-> [invoice |-> i, received |-> invoices[i].issued + 24, amount |-> invoices[i].amount]],
        LAMBDA p : p.invoice \in pays /\ p.received <= AsOf)

----------------------------------------------------------------------------
(* What the validator recomputes from the facts alone.                      *)

AmountOf(row) == row.amount
InForce == SelectSeq(facts.executed, LAMBDA c : c.on <= AsOf)
ExecutedDelta == Total(InForce, LAMBDA c : c.value)
CostToDate == Total(facts.costs, AmountOf)
LatestEstimate == IF facts.estimates = <<>> THEN [etc |-> 0, committed |-> 0] ELSE facts.estimates[Len(facts.estimates)]
Consumed == Total(facts.draws, AmountOf)
RecognisedOriginal == Total(Originals(facts.postings), AmountOf)
Invoiced == Total(facts.invoices, AmountOf)
Collected == Total(facts.payments, AmountOf)
PendingRecovery == Total(SelectSeq(facts.pending, LAMBDA c : c.superseded = -1), LAMBDA c : c.value)

\* A correction names a posting that exists, reaches an original, and is later.
Lineage(i) ==
    LET c == facts.postings[i]
    IN  IF c.kind = "ORIGINAL" THEN c.supersedes = -1
        ELSE /\ c.supersedes \in DOMAIN facts.postings
             /\ c.original \in DOMAIN facts.postings
             /\ facts.postings[c.original].kind = "ORIGINAL"
             /\ facts.postings[c.original].period = c.period
             /\ c.day > facts.postings[c.original].day

\* The checks that fail, by name.
Findings ==
    LET originals == Originals(facts.postings)
        Fails(check, ok) == IF ok THEN {} ELSE {check}
    IN  UNION {
          Fails("periods.future",
            /\ \A i \in DOMAIN facts.claims : 7 * facts.claims[i].week <= AsOf
            /\ \A i \in DOMAIN facts.costs : 7 * facts.costs[i].week <= AsOf),
          Fails("contract.crRevision", \A i \in DOMAIN facts.executed : facts.executed[i].id \in facts.revisions),
          Fails("contract.crFuture", \A i \in DOMAIN facts.executed : facts.executed[i].on <= AsOf),
          Fails("contract.crLink",
            \A i \in DOMAIN facts.pending : facts.pending[i].superseded # -1 =>
                \E k \in DOMAIN facts.executed : facts.executed[k].id = facts.pending[i].superseded),
          Fails("money.negative",
            \A rows \in {facts.costs, facts.draws, facts.invoices, facts.payments} :
                \A i \in DOMAIN rows : rows[i].amount >= 0),
          Fails("percent.range",
            \A i \in DOMAIN facts.claims :
                facts.claims[i].physical \in 0 .. Whole /\ facts.claims[i].planned \in 0 .. Whole),
          Fails("monotonic.recognised",
            \A i \in 2 .. Len(originals) : originals[i].cumulative >= originals[i - 1].cumulative - 1),
          Fails("monotonic.progress",
            \A i \in 2 .. Len(facts.claims) : facts.claims[i].physical >= facts.claims[i - 1].physical - 50),
          Fails("reconcile.billing", Invoiced * 100 <= RecognisedOriginal * 102 + 100000),
          Fails("reconcile.cash", Collected <= Invoiced + 1),
          Fails("reconcile.recognition", RecognisedOriginal <= Contract + ExecutedDelta + 1),
          Fails("reconcile.contingency", Consumed <= Contingency + 1),
          Fails("accounting.lineage", \A i \in DOMAIN facts.postings : Lineage(i))}

----------------------------------------------------------------------------

NothingHeld ==
    [physical |-> 0, cost |-> 0, opening |-> 0, defects |-> 0, blockedUntil |-> 0, etc |-> 0,
     committed |-> 0, consumed |-> 0, executed |-> 0, pending |-> 0, absorbed |-> 0,
     recognised |-> 0, period |-> -1, incidents |-> 0]

\* A project of the plan.
Specs ==
    {[archetype |-> ArchetypeFor(e, a).id, drivers |-> DriversFor(ArchetypeFor(e, a), c),
      duration |-> n, elapsed |-> t, curated |-> FALSE] :
        e \in {"FIXED_BID", "TIME_AND_MATERIALS"}, a \in Archetypes, c \in Cohorts,
        n \in Durations, t \in Elapsed}
\* A scenario takes a project of the plan and sets its own terms.
CuratedSpecs ==
    {[sp EXCEPT !.curated = TRUE, !.elapsed = Horizon, !.duration = Horizon + 2] :
        sp \in {s \in Specs : s.archetype = "HEALTHY_REFERENCE"}}

\* A project older than the published history begins part of the way through.
Opening(sp) ==
    LET from == AtLeast(0, sp.elapsed - History)
        planned == PlannedAt(from, sp.duration)
        physical == IF sp.drivers.drag > Whole THEN (planned * 94) \div 100 ELSE planned
        spent == (physical * Budget) \div Whole
        cost == IF sp.drivers.drag > Whole THEN (spent * 104) \div 100 ELSE spent
    IN  IF sp.curated THEN NothingHeld
        ELSE [NothingHeld EXCEPT !.physical = physical, !.cost = cost, !.opening = cost]

Init ==
    /\ spec \in Specs \cup CuratedSpecs
    /\ phase = "simulating"
    /\ week = IF spec.curated THEN 0 ELSE HistoryStart
    /\ held = Opening(spec)
    /\ facts = [EmptyFacts EXCEPT !.milestones = {Milestone(spec, m, 3) : m \in 1 .. 3}]

Quiet == [scope |-> "none", lag |-> 0, block |-> 0, gap |-> FALSE, injected |-> 0]
Happenings ==
    {[Quiet EXCEPT !.scope = "absorbed"], [Quiet EXCEPT !.block = 2, !.gap = TRUE, !.injected = 9]}
        \cup {[Quiet EXCEPT !.scope = "executed", !.lag = lag] : lag \in {7, 28}}

\* The plan's weeks end at the as-of date, or eight weeks past the planned end.
Running == week <= spec.elapsed /\ week <= spec.duration + 8

\* A week of the simulation.
Simulate ==
    /\ phase = "simulating" /\ Running /\ ~spec.curated
    /\ \E d \in {Quiet} \cup (IF held.incidents < Incidents THEN Happenings ELSE {}) :
        LET s0 == [h |-> [held EXCEPT !.incidents = IF d = Quiet THEN @ ELSE @ + 1], f |-> facts]
            delivered == Unblock(Deliver(Block(s0, d), d))
            priced == Estimate(Arrive(Inject(delivered, d), d))
            s == Recognise(Report(Draw(priced)))
        IN  held' = s.h /\ facts' = s.f
    /\ week' = week + 1
    /\ UNCHANGED <<spec, phase>>

\* A week of a curated scenario.
Replay ==
    /\ phase = "simulating" /\ Running /\ spec.curated
    /\ LET s == CuratedFacts([h |-> held, f |-> facts], spec.elapsed - week)
       IN  held' = s.h /\ facts' = s.f
    /\ week' = week + 1
    /\ UNCHANGED <<spec, phase>>

\* After the last week a scenario's changes are written down whole.
CuratedChanges ==
    IF ~spec.curated \/ Today.executed = 0 THEN facts
    ELSE [facts EXCEPT !.executed = <<[id |-> 1, on |-> AsOf - 7, value |-> Today.executed]>>,
                       !.revisions = {1}]

\* The series of postings is corrected, perhaps, and never in its newest part.
Correct ==
    /\ phase = "simulating" /\ ~Running
    /\ LET n == Len(facts.postings)
           Eligible(i) == n >= MinPostings /\ facts.postings[i].amount > MinInvoice
       IN  \E i \in (n * 25) \div 100 + 1 .. (n * 55) \div 100 + 1, kind \in {"none", "adjustment", "reversal"} :
            /\ i \in 1 .. n
            /\ facts' = [CuratedChanges EXCEPT
                            !.postings = IF Eligible(i) THEN Corrected(@, i, kind, 14) ELSE @]
    /\ phase' = "corrected"
    /\ UNCHANGED <<spec, week, held>>

\* Invoices and cash follow, and absorbed scope becomes an exposure.
Bill ==
    /\ phase = "corrected"
    /\ \E share \in {82, 95}, pays \in {{1}, 1 .. 9} :
        LET invoices == Billing(facts.postings, share)
        IN  facts' = [facts EXCEPT !.invoices = invoices, !.payments = Payments(invoices, pays),
                                   !.exposure = held.absorbed]
    /\ phase' = "done"
    /\ UNCHANGED <<spec, week, held>>

Next == Simulate \/ Replay \/ Correct \/ Bill

----------------------------------------------------------------------------

TypeOK ==
    /\ spec \in Specs \cup CuratedSpecs
    /\ phase \in {"simulating", "corrected", "done"}
    /\ week \in 0 .. spec.duration + 9
    /\ DOMAIN held = DOMAIN NothingHeld
    /\ DOMAIN facts = DOMAIN EmptyFacts

(***************************************************************************)
(* What is published agrees with what the simulation held: the costs add   *)
(* up to it, less what an old project had spent before its history begins; *)
(* the latest estimate, the contingency drawn and the revenue recognised   *)
(* are the held ones; and finished data passes its own validation, which   *)
(* is what lets it be written.                                             *)
(***************************************************************************)
PublishedIsHeld ==
    /\ CostToDate = held.cost - held.opening
    /\ facts.estimates # <<>> => /\ LatestEstimate.committed = held.committed
                                 /\ spec.curated \/ LatestEstimate.etc = held.etc
    /\ Consumed = held.consumed
    /\ RecognisedOriginal = held.recognised
    /\ phase = "done" => Findings = {}
    /\ phase = "done" /\ spec.curated =>
        CostToDate + LatestEstimate.etc + LatestEstimate.committed = Today.cost + Today.etc + Today.committed
            /\ Consumed = Today.consumed

(***************************************************************************)
(* Scope that arrived is in exactly one place: an executed change in       *)
(* force, a change still pending, or absorbed.                             *)
(***************************************************************************)
ScopeIsCountedOnce ==
    ~spec.curated =>
        /\ Total(facts.scope, LAMBDA r : r.value) = ExecutedDelta + PendingRecovery + held.absorbed
        /\ ExecutedDelta = held.executed
        /\ PendingRecovery = held.pending
        /\ phase = "done" =>
            facts.exposure = Total(SelectSeq(facts.scope, LAMBDA r : r.uncontracted), LAMBDA r : r.value)

(***************************************************************************)
(* History is only added to: no posting, claim or change is rewritten,     *)
(* recognised revenue does not fall, and neither does progress.            *)
(***************************************************************************)
HistoryIsAppended ==
    /\ IsPrefix(facts.postings, facts'.postings)
    /\ IsPrefix(facts.claims, facts'.claims)
    /\ IsPrefix(facts.scope, facts'.scope)
    /\ held'.recognised >= held.recognised
    /\ held'.physical >= held.physical
    /\ held'.physical <= Whole
=============================================================================
