--------------------------- MODULE DataConfidence ---------------------------
(***************************************************************************)
(* How far an assessment may be trusted. Fact domains report with a        *)
(* completeness and an age; the confidence engine averages what was        *)
(* measured, takes freshness at its worst, and caps the band by the state  *)
(* of the critical domains. Forecast confidence is a second, separate      *)
(* number over the project's own estimating.                               *)
(*                                                                         *)
(* Shares and scores are in thousandths. Validity, a fifth share that moves *)
(* with consistency, is weighed with it.                                   *)
(***************************************************************************)
EXTENDS Integers, FiniteSets

LOCAL INSTANCE FiniteSetsExt

CONSTANTS
    Domains,    \* `expectedDomains`
    Critical,   \* `criticalDomains`
    Cadence,    \* domain -> `expectedCadenceDays`
    Tolerance,  \* `criticalStalenessTolerance` and `stalenessRedMultiple`
    Oldest,     \* bound: days without a report
    Replans     \* the replan count at which its component scores zero

Bands == {"LOW", "MEDIUM", "HIGH"}
Rank(b) == CASE b = "LOW" -> 0 [] b = "MEDIUM" -> 1 [] b = "HIGH" -> 2
Weight == [completeness |-> 25, freshness |-> 20, consistency |-> 40, coverage |-> 15]
HighFloor == 750
MediumFloor == 500
Required == 10      \* fields a domain should fill
None == -1

ConfidenceAssumption ==
    /\ Domains # {} /\ IsFiniteSet(Domains)
    /\ Cadence \in [Domains -> Nat \ {0}]
    /\ Tolerance \in Nat /\ Tolerance > 1 /\ Replans \in Nat \ {0}

VARIABLES
    reports,    \* domain -> [fields, age], age None when it never reported; a domain
                \* that fills every field also passes its assertions
    replans,    \* MET-DEL-014, None when not known
    stability,  \* MET-DEL-013, None when not known
    assessment  \* what the two engines returned last

vars == <<reports, replans, stability, assessment>>

Reporting(rs) == DOMAIN rs

-----------------------------------------------------------------------------
(* Components *)

Share(num, den) == IF den = 0 THEN None ELSE (num * 1000) \div den

Completeness(rs) ==
    Share(MapThenSumSet(LAMBDA d : rs[d].fields, Reporting(rs)), Required * Cardinality(Reporting(rs)))
Consistency(rs) ==
    Share(Cardinality({d \in Reporting(rs) : rs[d].fields = Required}), Cardinality(Reporting(rs)))
Coverage(rs) == Share(Cardinality(Reporting(rs)), Cardinality(Domains))

Clamp(x) == IF x < 0 THEN 0 ELSE IF x > 1000 THEN 1000 ELSE x

\* Full up to the cadence, nothing from Tolerance times it.
DomainFreshness(d, rs) ==
    IF rs[d].age = None THEN 0
    ELSE Clamp(1000 - ((rs[d].age - Cadence[d]) * 1000) \div (Cadence[d] * (Tolerance - 1)))

\* The worst domain's.
Freshness(rs) ==
    IF Reporting(rs) = {} THEN None ELSE Min({DomainFreshness(d, rs) : d \in Reporting(rs)})

Components(rs) == [completeness |-> Completeness(rs), freshness |-> Freshness(rs),
                   consistency |-> Consistency(rs), coverage |-> Coverage(rs)]

WeightedMean(value, usable) ==
    MapThenSumSet(LAMBDA c : value[c] * Weight[c], usable) \div MapThenSumSet(LAMBDA c : Weight[c], usable)

\* What was not measured is left out, not scored zero.
Score(rs) == LET value == Components(rs)
             IN  WeightedMean(value, {c \in DOMAIN Weight : value[c] # None})

BandOf(score) ==
    IF score = None THEN "LOW"
    ELSE IF score >= HighFloor THEN "HIGH" ELSE IF score >= MediumFloor THEN "MEDIUM" ELSE "LOW"

-----------------------------------------------------------------------------
(* The ceiling of the critical domains *)

Silent(rs) == {d \in Critical \cap Domains : d \notin Reporting(rs) \/ rs[d].age = None}
Stale(rs) == {d \in (Critical \cap Domains) \ Silent(rs) : rs[d].age > Cadence[d] * Tolerance}

\* Mutation: only the critical domains that reported once are asked.
CeilingOfReporting(rs) ==
    IF \E d \in Silent(rs) : d \in Reporting(rs) THEN "LOW"
    ELSE IF Stale(rs) # {} THEN "MEDIUM" ELSE "HIGH"

Ceiling(rs) == IF Silent(rs) # {} THEN "LOW" ELSE IF Stale(rs) # {} THEN "MEDIUM" ELSE "HIGH"

Capped(rs) == Rank(Ceiling(rs)) < Rank(BandOf(Score(rs)))

\* `bandCappedBy`: the reason given, the silent before the stale.
CappedBy(rs) ==
    CASE ~Capped(rs) -> "nothing"
      [] Capped(rs) /\ Silent(rs) # {} -> "a silent domain"
      [] Capped(rs) /\ Silent(rs) = {} -> "a stale domain"

Band(rs) == IF Capped(rs) THEN Ceiling(rs) ELSE BandOf(Score(rs))

-----------------------------------------------------------------------------
(* Forecast confidence: MET-DQ-007 of two of its three inputs, the third is
   never supplied *)

ReplanScore(n) == Clamp(((Replans - n) * 1000) \div Replans)

ForecastScore(n, s) ==
    IF n = None /\ s = None THEN None
    ELSE IF s = None THEN ReplanScore(n)
    ELSE IF n = None THEN s
    ELSE (34 * ReplanScore(n) + 33 * s) \div 67

\* `assessForecastConfidence`: each input not known is marked as left out.
AssessForecastConfidence(n, s) ==
    [score |-> ForecastScore(n, s), band |-> BandOf(ForecastScore(n, s)),
     excluded |-> {part \in {"replans", "stability"} :
                      (IF part = "replans" THEN n ELSE s) = None} \cup {"optimism"}]

Assessment(rs, n, s) ==
    [score |-> Score(rs), arithmetic |-> BandOf(Score(rs)), band |-> Band(rs),
     capped |-> Capped(rs), cappedBy |-> CappedBy(rs), silent |-> Silent(rs), stale |-> Stale(rs),
     forecast |-> ForecastScore(n, s), reliability |-> AssessForecastConfidence(n, s).band,
     \* the narrative of DQ-CRITICAL-FRESHNESS
     saysWithin |-> ~Capped(rs)]

DataConfidenceAssessment ==
    [score: 0..1000 \cup {None}, arithmetic: Bands, band: Bands, capped: BOOLEAN,
     cappedBy: {"nothing", "a silent domain", "a stale domain"},
     silent: SUBSET Critical, stale: SUBSET Critical, forecast: 0..1000 \cup {None},
     reliability: Bands, saysWithin: BOOLEAN]

Assess == assessment' = Assessment(reports', replans', stability')

-----------------------------------------------------------------------------
NoReports == [d \in {} |-> [fields |-> 0, age |-> None]]

Init ==
    /\ reports = NoReports
    /\ replans \in {None, 0} /\ stability \in {None, 800}
    /\ assessment = Assessment(reports, replans, stability)

\* A probe is registered for a domain that has no records yet.
Register(d) ==
    /\ d \notin Reporting(reports)
    /\ reports' = [e \in Reporting(reports) \cup {d} |->
           IF e = d THEN [fields |-> Required, age |-> None] ELSE reports[e]]
    /\ UNCHANGED <<replans, stability>> /\ Assess

Report(d, fields) ==
    /\ reports' = [e \in Reporting(reports) \cup {d} |->
           IF e = d THEN [fields |-> fields, age |-> 0] ELSE reports[e]]
    /\ UNCHANGED <<replans, stability>> /\ Assess

Day ==
    /\ \A d \in Reporting(reports) : reports[d].age < Oldest
    /\ reports' = [d \in Reporting(reports) |->
           [reports[d] EXCEPT !.age = IF @ = None THEN None ELSE @ + 1]]
    /\ UNCHANGED <<replans, stability>> /\ Assess

Replan ==
    /\ replans # None /\ replans <= Replans
    /\ replans' = replans + 1
    /\ UNCHANGED <<reports, stability>> /\ Assess

Next == \/ \E d \in Domains : \/ Register(d)
                              \/ \E f \in {2, Required} : Report(d, f)
        \/ Day \/ Replan

Spec == Init /\ [][Next]_vars

-----------------------------------------------------------------------------
(* Properties *)

TypeOK ==
    /\ Reporting(reports) \subseteq Domains
    /\ \A d \in Reporting(reports) : reports[d].age \in 0..Oldest \cup {None}
    /\ assessment \in DataConfidenceAssessment

\* No label asserts more than the worst critical domain supports, and the
\* ceiling only ever lowers it (DR-018): a critical domain never heard from
\* leaves LOW, one beyond its own tolerance at most MEDIUM, and otherwise the
\* score's own band stands.
CriticalDomainsCap ==
    LET heard(d) == d \in Reporting(reports) /\ reports[d].age # None
        late(d) == heard(d) /\ reports[d].age > Cadence[d] * Tolerance
    IN  /\ (\E d \in Critical : ~heard(d)) => assessment.band = "LOW"
        /\ (\E d \in Critical : late(d)) => assessment.band # "HIGH"
        /\ (\A d \in Critical : heard(d) /\ ~late(d)) => assessment.band = assessment.arithmetic
        /\ Rank(assessment.band) <= Rank(assessment.arithmetic)
        /\ assessment.cappedBy = "a stale domain" => \A d \in Critical : heard(d)
        /\ assessment.cappedBy = "nothing" <=> assessment.band = assessment.arithmetic

\* With nobody reporting, a day never makes the assessment more trustworthy
\* (freshness at its worst, tolerance by cadence).
TimeOnlyErodes ==
    Day => /\ assessment'.score <= assessment.score
           /\ Rank(assessment'.band) <= Rank(assessment.band)

\* A complete and consistent report never lowers the score or the band,
\* whichever domain sends it and whatever was known of it before.
GoodReportsNeverHurt ==
    (\E d \in Domains : Report(d, Required)) =>
      /\ assessment.score <= assessment'.score
      /\ Rank(assessment.band) <= Rank(assessment'.band)

\* A replan never makes the forecast more believable, and what the data domains
\* report never moves it (the two confidences are never multiplied).
ReplansNeverReassure ==
    /\ replans' # replans => assessment'.forecast <= assessment.forecast
    /\ replans' = replans => assessment'.forecast = assessment.forecast
=============================================================================
