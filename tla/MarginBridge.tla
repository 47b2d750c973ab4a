---------------------------- MODULE MarginBridge ----------------------------
(***************************************************************************)
(* Where the margin of one project went: the bridge from the margin it was *)
(* sold at to the margin forecast, settled in whole cents, the trend of    *)
(* the forecast, and the scenarios put beside it.  The project lives:      *)
(* hours are booked and paid, work is claimed, scope is given away, the    *)
(* forecast moves; after each step everything is computed anew.            *)
(*                                                                         *)
(* Amounts are in tenths of a cent, so that a product of hours and rate    *)
(* has a part of a cent, and the bridge's causes in cents.  None where a   *)
(* cause is not measurable.                                                *)
(***************************************************************************)
EXTENDS Integers, Sequences, FiniteSets

LOCAL INSTANCE FiniteSetsExt
LOCAL INSTANCE SequencesExt
LOCAL INSTANCE Functions

CONSTANTS
    SoldRate,             \* per hour, as priced
    PlannedHours,         \* of the whole contract, as priced
    SoldMargin,           \* MET-FIN-026
    Payments,             \* what an hour may cost
    Completions,          \* claims and schedule, in per cent
    Allowance,            \* rework priced in, in per cent of the hours
    Forecasts, Lumps,     \* margins forecast, and what scope, promises and risks are worth
    Stride,               \* of how many period ends the trend shows one
    MaxHours, Periods,    \* bounds: hours booked, periods kept
    None

MarginAssumption ==
    /\ SoldRate \in Nat /\ PlannedHours \in Nat /\ Payments \subseteq Nat
    /\ Completions \subseteq 0..100 /\ Allowance \in 0..100
    /\ \A x \in Forecasts \cup Lumps \cup {SoldMargin} : x % 10 = 0
    /\ Lumps \subseteq Nat /\ Stride \in Nat \ {0} /\ MaxHours \in Nat /\ Periods \in Nat \ {0} /\ None \notin Int

VARIABLES
    hours, rework,      \* booked, and how many of them were rework
    cost,               \* actual cost
    claimed, scheduled, \* physical completion, and what the plan expected by now
    scope,              \* delivered without a change request
    forecast,           \* MET-FIN-024, the forecast margin
    pending, exposure,  \* expected recovery of unsigned changes; incremental risk
    trend,              \* the forecast at each period end, oldest first
    view

facts == <<hours, rework, cost, claimed, scheduled, scope, forecast, pending, exposure, trend>>
vars == <<facts, view>>

-----------------------------------------------------------------------------
(* What the engines of the causes measure *)

\* Mutation: the priced effort is time-phased by the schedule.
EffortVarianceScheduled(h, done, due) == IF due = None THEN None ELSE h - (PlannedHours * due) \div 100

\* MET-RES-002: the hours beyond those the work done was priced at.
EffortVariance(h, done, due) == IF done = None THEN None ELSE h - (PlannedHours * done) \div 100

\* MET-RES-010: the rate paid less the rate sold, over the hours delivered.
CostDrift(h, paid) == IF h = 0 THEN None ELSE paid - SoldRate * h

\* MET-QUA-012: never negative.
ExcessRework(h, re, paid) ==
    IF h = 0 THEN None
    ELSE LET excess == 100 * re - Allowance * h
         IN  IF excess < 0 THEN 0 ELSE (paid * excess) \div (100 * h)

-----------------------------------------------------------------------------
(* Whole cents *)

Abs(n) == IF n < 0 THEN -n ELSE n
SumOver(f) == MapThenSumSet(LAMBDA i : f[i], DOMAIN f)

\* Towards zero.
Cents(x) == IF x < 0 THEN -((-x) \div 10) ELSE x \div 10
Remainder(x) == Abs(x - 10 * Cents(x))

\* The cents the truncation lost go one by one to the largest remainders, the
\* first of equals, whichever sign the amount has.
LargestRemainderCents(amounts, total) ==
    LET before(j, i) == \/ Remainder(amounts[j]) > Remainder(amounts[i])
                        \/ Remainder(amounts[j]) = Remainder(amounts[i]) /\ j < i
        whole == [i \in DOMAIN amounts |-> Cents(amounts[i])]
        gap == Cents(total) - SumOver(whole)
        n == Len(amounts)
        served(i) == Abs(gap) \div n
                     + (IF Cardinality({j \in 1..n : before(j, i)}) < Abs(gap) % n THEN 1 ELSE 0)
    IN  [i \in DOMAIN amounts |-> whole[i] + (IF gap < 0 THEN -served(i) ELSE served(i))]

-----------------------------------------------------------------------------
(* The bridge *)

Lost(amount) == IF amount = None THEN 0 ELSE -amount

\* MET-FIN-018's seven named causes, before rounding: scope without a change request,
\* effort overrun, rate and mix, schedule extension, rework, pass-through, FX.
Causes(h, re, paid, done, due, given) ==
    LET effort == EffortVariance(h, done, due)
    IN  <<Lost(given),
          IF effort = None THEN 0 ELSE Lost(SoldRate * effort),
          Lost(CostDrift(h, paid)),
          0, Lost(ExcessRework(h, re, paid)), 0, 0>>

\* Which of them were measured at all.
Measured(h, done) ==
    {1} \cup (IF done = None THEN {} ELSE {2}) \cup (IF h = 0 THEN {} ELSE {3, 5})

\* Mutation: the residual is taken from the amounts before they are rounded.
ResidualOfRaw(raw, named, delta) == Cents(delta - SumOver(raw))

\* The total less the named causes, never an estimate.
Residual(raw, named, delta) == Cents(delta) - SumOver(named)

Destroyers(causes) ==
    LET lossy == {i \in DOMAIN causes : causes[i] < 0}
        worse(j, i) == causes[j] < causes[i] \/ (causes[j] = causes[i] /\ j < i)
    IN  [k \in 1..Cardinality(lossy) |->
            CHOOSE i \in lossy : Cardinality({j \in lossy : worse(j, i)}) = k - 1]

\* In hundredths of a per cent of the gross movement.
Coverage(named, residual) ==
    LET gross == SumOver([i \in DOMAIN named |-> Abs(named[i])])
    IN  IF gross + Abs(residual) = 0 THEN None ELSE (gross * 10000) \div (gross + Abs(residual))

BuildMarginBridge(raw, delta) ==
    LET named == LargestRemainderCents(raw, SumOver(raw))
        causes == Append(named, Residual(raw, named, delta))
    IN  [causes |-> causes, total |-> Cents(delta), reconciles |-> SumOver(causes) = Cents(delta),
         destroyers |-> Destroyers(causes), coverage |-> Coverage(named, Last(causes))]

-----------------------------------------------------------------------------
(* The page *)

\* The first period end and every Stride-th after it.
Sampled(points) == [k \in 1..((Len(points) + Stride - 1) \div Stride) |-> points[(k - 1) * Stride + 1]]

\* The longest run of periods whose forecast fell.
Streak(points) ==
    LET run[i \in 1..Len(points)] ==
            IF i > 1 /\ points[i] < points[i - 1] THEN run[i - 1] + 1 ELSE 0
    IN  Max({0} \cup Range([i \in 1..Len(points) |-> run[i]]))

\* MET-FIN-032 counts what unsigned changes may bring.
RiskAdjusted(gm, promised, risk) == gm + promised - risk

Scenarios(gm, promised, risk, excess) ==
    [recovery   |-> gm + promised,
     mostLikely |-> gm,
     downside   |-> RiskAdjusted(gm, promised, risk) - (IF excess = None THEN 0 ELSE excess)]

\* Mutation: the figure forecast alone is asked.
WarnsOfForecast(s) == s.mostLikely < 0

ContractLossWarning(s) == s.downside < 0 \/ s.mostLikely < 0

BuildMarginIntelligence(h, re, paid, done, due, given, gm, promised, risk, points) ==
    LET shown == Scenarios(gm, promised, risk, ExcessRework(h, re, paid))
    IN  [bridge |-> BuildMarginBridge(Causes(h, re, paid, done, due, given), gm - SoldMargin),
         streak |-> Streak(Sampled(points)), scenarios |-> shown, warning |-> ContractLossWarning(shown)]

Present ==
    view' = BuildMarginIntelligence(hours', rework', cost', claimed', scheduled', scope',
                                    forecast', pending', exposure', trend')

-----------------------------------------------------------------------------
(* The project *)

Init ==
    /\ hours = 0 /\ rework = 0 /\ cost = 0 /\ claimed = None /\ scheduled = None
    /\ scope = 0 /\ forecast = 0 /\ pending = 0 /\ exposure = 0 /\ trend = <<>>
    /\ view = BuildMarginIntelligence(0, 0, 0, None, None, 0, 0, 0, 0, <<>>)

\* An hour is booked, at whatever it is paid.
Book(pay, again) ==
    /\ hours < MaxHours
    /\ hours' = hours + 1 /\ cost' = cost + pay
    /\ rework' = IF again THEN rework + 1 ELSE rework
    /\ UNCHANGED <<claimed, scheduled, scope, forecast, pending, exposure, trend>>

Claim(c) ==
    /\ \A before \in {claimed} \ {None} : c > before
    /\ claimed' = c
    /\ UNCHANGED <<hours, rework, cost, scheduled, scope, forecast, pending, exposure, trend>>

\* Time passes and the plan expected more.
Slip(c) ==
    /\ \A before \in {scheduled} \ {None} : c > before
    /\ scheduled' = c
    /\ UNCHANGED <<hours, rework, cost, claimed, scope, forecast, pending, exposure, trend>>

GiveAway(x) ==
    /\ scope = 0 /\ scope' = x
    /\ UNCHANGED <<hours, rework, cost, claimed, scheduled, forecast, pending, exposure, trend>>

\* A period ends with the forecast re-run.
Reforecast(gm) ==
    /\ Len(trend) < Periods
    /\ forecast' = gm /\ trend' = Append(trend, gm)
    /\ UNCHANGED <<hours, rework, cost, claimed, scheduled, scope, pending, exposure>>

Promise(x) ==
    /\ pending # x /\ pending' = x
    /\ UNCHANGED <<hours, rework, cost, claimed, scheduled, scope, forecast, exposure, trend>>

Threaten(x) ==
    /\ exposure # x /\ exposure' = x
    /\ UNCHANGED <<hours, rework, cost, claimed, scheduled, scope, forecast, pending, trend>>

Next ==
    /\ \/ \E pay \in Payments, again \in BOOLEAN : Book(pay, again)
       \/ \E c \in Completions : Claim(c) \/ Slip(c)
       \/ \E x \in Lumps : GiveAway(x) \/ Promise(x) \/ Threaten(x)
       \/ \E gm \in Forecasts : Reforecast(gm)
    /\ Present

Spec == Init /\ [][Next]_vars

-----------------------------------------------------------------------------
(* Properties *)

\* Every variable stays within its kind of value.
TypeOK ==
    /\ hours \in 0..MaxHours /\ rework \in 0..hours /\ cost \in Nat
    /\ {claimed, scheduled} \subseteq Completions \cup {None}
    /\ trend \in Seq(Forecasts) /\ Len(trend) <= Periods
    /\ view.bridge.causes \in Seq(Int) /\ Len(view.bridge.causes) = 8

\* The causes shown lead from the margin sold to the margin forecast in whole cents, whatever fraction of a cent the hours
\* and rates leave; what was not measured shows nothing, and no measured cause is shown two
\* cents from its amount (AC-4; largestRemainderCents, the residual of buildMarginBridge).
BridgeReconciles ==
    LET raw == Causes(hours, rework, cost, claimed, scheduled, scope)
    IN  /\ SumOver(view.bridge.causes) = Cents(forecast - SoldMargin)
        /\ \A i \in DOMAIN raw :
              /\ i \notin Measured(hours, claimed) => view.bridge.causes[i] = 0
              /\ Abs(10 * view.bridge.causes[i] - raw[i]) < 20

\* Effort and rate split the overspend between them: what the two causes take together is the
\* cost beyond the price of the hours the work done was priced at (the price/volume split).
SplitIsExact ==
    LET raw == Causes(hours, rework, cost, claimed, scheduled, scope)
    IN  hours > 0 /\ claimed # None =>
            raw[2] + raw[3] = SoldRate * ((PlannedHours * claimed) \div 100) - cost

\* The streak is a claim someone will repeat: that many of the points shown in a row are each
\* lower than the one before, and no longer row (the trend loop of buildMarginIntelligence).
StreakIsTheLongestFall ==
    LET shown == Sampled(trend)
        falls(i, n) == \A k \in i..(i + n - 1) : shown[k + 1] < shown[k]
        rows == {n \in 1..Len(shown) : \E i \in 1..(Len(shown) - n) : falls(i, n)}
    IN  view.streak = (IF rows = {} THEN 0 ELSE Max(rows))

\* No scenario on the page ends in a loss without the warning above it, and the destroyers
\* listed are the causes below zero, the worst first (contractLossWarning, rankedDestroyers).
LossIsWarned ==
    /\ (\E k \in DOMAIN view.scenarios : view.scenarios[k] < 0) => view.warning
    /\ Range(view.bridge.destroyers) = {i \in 1..8 : view.bridge.causes[i] < 0}
    /\ \A i \in 2..Len(view.bridge.destroyers) :
          view.bridge.causes[view.bridge.destroyers[i - 1]] <= view.bridge.causes[view.bridge.destroyers[i]]

\* Time alone earns nothing: a project that falls behind its plan shows the same bridge, with
\* no credit for the work it has not done (ADR-0024; earnedCompletionRatio).
SlippageEarnsNothing ==
    scheduled' # scheduled => view'.bridge = view.bridge
=============================================================================
