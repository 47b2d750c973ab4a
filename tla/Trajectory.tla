----------------------------- MODULE Trajectory -----------------------------
(***************************************************************************)
(* The trajectory of one project, its forward outlook and the two findings *)
(* drawn from it. Each signal has a history of its own, reported in its    *)
(* own cadence and read through the window its observation policy sets;    *)
(* the state, the outlook and the findings are derived anew whenever an    *)
(* observation arrives or the week's latest one is restated.               *)
(*                                                                         *)
(* A slope is kept as a fraction: Rise over Spread, per period.            *)
(***************************************************************************)
EXTENDS Integers, Sequences, FiniteSets, SequencesExt

CONSTANTS
    Policy,     \* signal -> [minimum, window, higherIsWorse, material, weighting, levels, kept]
    Rapid,      \* `rapidConfluenceThreshold`
    Reports     \* what the organisation may report, "none" included

Signals == DOMAIN Policy
Bands == {"GREEN", "AMBER", "RED"}
BandOrder == <<"GREEN", "AMBER", "RED">>
Place(b) == CHOOSE n \in 1..3 : BandOrder[n] = b

TrajectoryAssumption ==
    /\ Rapid \in Nat \ {0} /\ Reports \subseteq Bands \cup {"none"}
    /\ \A s \in Signals : /\ Policy[s].minimum \in Nat \ {0} /\ Policy[s].window >= Policy[s].minimum
                          /\ Policy[s].levels \subseteq Nat /\ Policy[s].material \in Nat

VARIABLES
    series,     \* signal -> its observations, oldest first
    assessed,   \* MET-HLTH-011, the band the health engine gave
    reported,   \* MET-HLTH-012, as the project declares it
    finding     \* the evaluation and the finding of the last assessment

vars == <<series, assessed, reported, finding>>

-----------------------------------------------------------------------------
(* One signal *)

\* The trailing slice the signal's own policy draws.
WindowOf(s, obs) == SubSeq(obs, IF Len(obs) < Policy[s].window THEN 1 ELSE Len(obs) - Policy[s].window + 1, Len(obs))

Sum(w, f(_)) ==
    LET upTo[x \in 0..Len(w)] == IF x = 0 THEN 0 ELSE upTo[x - 1] + f(x)
    IN  upTo[Len(w)]

\* Least squares over periods 0, 1, ...: twice the distance to the mean period
\* is 2x - (n + 1) for the x-th of n.
Rise(w) == 2 * Sum(w, LAMBDA x : (2 * x - Len(w) - 1) * w[x])
Spread(w) == Sum(w, LAMBDA x : (2 * x - Len(w) - 1) * (2 * x - Len(w) - 1))

Computable(s, obs) == Len(obs) >= Policy[s].minimum /\ Spread(WindowOf(s, obs)) > 0

\* Re-signed: negative is getting worse.
AdverseRise(s, obs) == IF Policy[s].higherIsWorse THEN -Rise(WindowOf(s, obs)) ELSE Rise(WindowOf(s, obs))

MateriallyAdverse(s, obs) ==
    /\ Computable(s, obs)
    /\ AdverseRise(s, obs) <= -Policy[s].material * Spread(WindowOf(s, obs))

Improving(s, obs) == Computable(s, obs) /\ AdverseRise(s, obs) > 0

-----------------------------------------------------------------------------
(* The project *)

Measurable(h) == {s \in DOMAIN h : Computable(s, h[s])}
Adverse(h) == {s \in DOMAIN h : MateriallyAdverse(s, h[s])}

StateOf(h) ==
    LET improving == {s \in DOMAIN h : Improving(s, h[s])}
    IN  IF Measurable(h) = {} THEN "STABLE"
        ELSE IF Cardinality(Adverse(h)) >= Rapid THEN "RAPIDLY_DETERIORATING"
        ELSE IF Adverse(h) # {} THEN "DETERIORATING"
        ELSE IF 2 * Cardinality(improving) > Cardinality(Measurable(h)) THEN "IMPROVING"
        ELSE "STABLE"

Falling(st) == st \in {"DETERIORATING", "RAPIDLY_DETERIORATING"}

Horizons == 0..3      \* CURRENT, DAYS_30, DAYS_60, DAYS_90

Degrade(b, steps) == BandOrder[IF Place(b) + steps > 3 THEN 3 ELSE Place(b) + steps]

\* Half a band per horizon, or a whole one, rounded down.
Outlook(band, st, h) ==
    Degrade(band, CASE st = "RAPIDLY_DETERIORATING" -> h
                    [] st = "DETERIORATING" -> h \div 2
                    [] OTHER -> 0)

\* 1 LOW, 2 MEDIUM, 3 HIGH, from the number of measurable signals.
Confidence(n, h) ==
    LET now == IF n = 0 THEN 1 ELSE IF n >= 4 THEN 3 ELSE 2
    IN  CASE h <= 1 -> now [] h = 2 -> (IF now = 3 THEN 2 ELSE 1) [] h = 3 -> 1

\* `weeksToBandChange` is null for every project the command centre assesses,
\* and a null clock leaves the window open.
NoClock == 0
BandChangeClock == NoClock
MinimumWeeks == 4

AtRiskHorizons == {1, 2}

\* evaluateTrajectory and assessGreenAtRisk, one on the other's result.
Finding(h, band, declared) ==
    LET st == StateOf(h)
        outlook == [n \in Horizons |-> Outlook(band, st, n)]
        adverse == \E n \in AtRiskHorizons : outlook[n] \in {"AMBER", "RED"}
    IN  [state    |-> st, outlook |-> outlook,
         confidence |-> [n \in Horizons |-> Confidence(Cardinality(Measurable(h)), n)],
         system   |-> band = "GREEN" /\ adverse,
         reported |-> declared = "GREEN" /\ (band # "GREEN" \/ Falling(st) \/ adverse),
         window   |-> BandChangeClock = NoClock \/ BandChangeClock >= MinimumWeeks]

\* The trajectory and what is found of a Green project on it.
GreenAtRiskFinding ==
    [state: {"IMPROVING", "STABLE", "DETERIORATING", "RAPIDLY_DETERIORATING"},
     outlook: [Horizons -> Bands], confidence: [Horizons -> 1..3],
     system: BOOLEAN, reported: BOOLEAN, window: BOOLEAN]

-----------------------------------------------------------------------------
Init ==
    /\ series = [s \in Signals |-> <<>>]
    /\ assessed \in Bands /\ reported \in Reports
    /\ finding = Finding(series, assessed, reported)

Reassess == finding' = Finding(series', assessed', reported')

Report(s) ==
    /\ Len(series[s]) < Policy[s].kept
    /\ \E v \in Policy[s].levels : series' = [series EXCEPT ![s] = Append(@, v)]
    /\ UNCHANGED <<assessed, reported>> /\ Reassess

\* More facts of the latest period come in and change its value.
Restate(s) ==
    /\ series[s] # <<>>
    /\ \E v \in Policy[s].levels \ {Last(series[s])} :
          series' = [series EXCEPT ![s] = Append(Front(@), v)]
    /\ UNCHANGED <<assessed, reported>> /\ Reassess

Assess ==
    /\ assessed' \in Bands \ {assessed}
    /\ UNCHANGED <<series, reported>> /\ Reassess

Declare ==
    /\ reported' \in Reports \ {reported}
    /\ UNCHANGED <<series, assessed>> /\ Reassess

Next == \/ \E s \in Signals : Report(s) \/ Restate(s)
        \/ Assess \/ Declare

Spec == Init /\ [][Next]_vars

-----------------------------------------------------------------------------
(* Properties *)

TypeOK ==
    /\ \A s \in Signals : series[s] \in Seq(Policy[s].levels) /\ Len(series[s]) <= Policy[s].kept
    /\ assessed \in Bands /\ reported \in Reports
    /\ finding \in GreenAtRiskFinding

Standing(st) == CASE st = "IMPROVING" -> 3 [] st = "STABLE" -> 2
                  [] st = "DETERIORATING" -> 1 [] st = "RAPIDLY_DETERIORATING" -> 0

WorseRestatement(s) ==
    /\ Len(series'[s]) = Len(series[s]) /\ series'[s] # series[s]
    /\ IF Policy[s].higherIsWorse THEN Last(series'[s]) > Last(series[s]) ELSE Last(series'[s]) < Last(series[s])

\* A correction of the latest period for the worse never betters the trajectory
\* or any horizon's band, and clears neither finding (trendOf's re-signing, the
\* order of the state's tests, assessGreenAtRisk).
WorseNewsNeverComforts ==
    \A s \in Signals : WorseRestatement(s) =>
      /\ Standing(finding'.state) <= Standing(finding.state)
      /\ \A h \in Horizons : Place(finding'.outlook[h]) >= Place(finding.outlook[h])
      /\ finding.system => finding'.system
      /\ finding.reported => finding'.reported

\* A healthy-looking project that is falling is found: assessed GREEN by the
\* first finding, reported GREEN by the second; and a GREEN that is not falling
\* raises neither (SYSTEM_GREEN_AT_RISK_HORIZONS and projectOutlook's steps are
\* chosen together for this).
FallingGreenIsFound ==
    /\ assessed = "GREEN" => (finding.system <=> Falling(finding.state))
    /\ reported = "GREEN" /\ assessed = "GREEN" => (finding.reported <=> Falling(finding.state))

\* No horizon is brighter or surer than a nearer one, and the nearest is today's
\* band (projectOutlook, degrade).
OutlookOnlyDims ==
    /\ finding.outlook[0] = assessed
    /\ \A h \in 0..2 : /\ Place(finding.outlook[h + 1]) >= Place(finding.outlook[h])
                       /\ finding.confidence[h + 1] <= finding.confidence[h]

\* Once a signal's own window holds nothing but periods that did not get worse,
\* it is not adverse, whatever its older history was (slice(-windowSize)).
ThePastExpires ==
    \A s \in Signals :
        LET n == Len(series[s])
            tail == SubSeq(series[s], IF n < Policy[s].window THEN 1 ELSE n - Policy[s].window + 1, n)
            holds == \A x \in 1..Len(tail) - 1 :
                        IF Policy[s].higherIsWorse THEN tail[x + 1] <= tail[x] ELSE tail[x + 1] >= tail[x]
        IN  (Policy[s].material > 0 /\ holds) => ~MateriallyAdverse(s, series[s])

\* A signal too short to have a direction changes nothing: the project stands
\* where it would stand had the signal not been there (a builder that returns
\* null is dropped, `computable` leaves the others out).
ShortHistorySaysNothing ==
    finding.state = StateOf([s \in Measurable(series) |-> series[s]])
=============================================================================
