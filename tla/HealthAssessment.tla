------------------------- MODULE HealthAssessment -------------------------
(***************************************************************************)
(* The weekly health assessment of one project: its signals are measured,  *)
(* lost or found not to apply, and the health engine derives from them the *)
(* dimension scores, the composite, the rules that fired, the band, and    *)
(* what it says of its own completeness.                                   *)
(*                                                                         *)
(* Ratios are in thousandths, counts and days whole, weights in hundredths,*)
(* a normalised input in ten-thousandths of a point and a score in         *)
(* hundredths of one, which is what the engine rounds to.                  *)
(***************************************************************************)
EXTENDS Integers, FiniteSets, FiniteSetsExt

CONSTANTS
    Dimensions, \* [id, weight, inputs: set of [signal, weight, green, red, higher, required, material]]
    Overrides,  \* [id, signal, comparison, threshold, plan]: rules that force RED
    Elevations, \* the same: rules that force at least AMBER
    Levels,     \* the finite values each signal takes here
    Losable,    \* the signals whose evidence may be missing
    Absent,     \* the signals whose risk object may not exist
    Boundless,  \* the signals that may be observed without a finite value
    Declared,   \* `declaredSignals`: what some builder claims to produce
    Facts,      \* the applicability facts a project may be in
    Holds       \* the manual overrides in date, and "none"

Bands == {"GREEN", "AMBER", "RED"}
Rank(b) == CASE b = "GREEN" -> 2 [] b = "AMBER" -> 1 [] b = "RED" -> 0
Signals == DOMAIN Levels
Inputs == UNION {d.inputs : d \in Dimensions}

HealthAssumption ==
    /\ \A d \in Dimensions : d.inputs # {} /\ d.weight \in Nat
    /\ \A i \in Inputs : i.signal \in Signals /\ i.weight \in Nat \ {0} /\ i.green # i.red
    /\ \A r \in Overrides \cup Elevations : r.signal \in Signals
    /\ Losable \cup Absent \cup Boundless \cup Declared \subseteq Signals
    /\ Holds \subseteq Bands \cup {"none"}

VARIABLES
    readings,   \* signal -> [state, value]
    facts,      \* what decides whether the plan rule applies
    reported,   \* MET-HLTH-012, what the project declares
    hold,       \* the authorised manual override in date
    assessment  \* what `evaluateHealth` returned last

vars == <<readings, facts, reported, hold, assessment>>

-----------------------------------------------------------------------------
(* Dimensions *)

Observed(v) == [state |-> "OBSERVED", value |-> v]
Missing(st) == [state |-> st, value |-> 0]

ReadingsOf(s) ==
    {Observed(v) : v \in Levels[s]}
        \cup (IF s \in Losable THEN {Missing("NOT_COMPUTABLE")} ELSE {})
        \cup (IF s \in Absent THEN {Missing("NOT_APPLICABLE")} ELSE {})
        \cup (IF s \in Boundless THEN {Missing("UNBOUNDED")} ELSE {})

Clamp(x, low, high) == Max({low, Min({x, high})})

Normalise(i, v) ==
    LET span == IF i.higher THEN i.green - i.red ELSE i.red - i.green
        past == Clamp(IF i.higher THEN v - i.red ELSE i.red - v, 0, span)
    IN  (past * 1000000) \div span

\* Mutation: an unbounded observation is dropped with the missing ones.
UsableFinite(d, rs) == {i \in d.inputs : rs[i.signal].state = "OBSERVED"}

Usable(d, rs) == {i \in d.inputs : rs[i.signal].state \in {"OBSERVED", "UNBOUNDED"}}

Points(i, r) == IF r.state = "UNBOUNDED" THEN 0 ELSE Normalise(i, r.value)

Total(S, f(_)) == FoldSet(LAMBDA x, sum : sum + f(x), 0, S)
HalfUp(a, b) == (2 * a + b) \div (2 * b)

None == -1

ScoreDimension(d, rs) ==
    LET used == Usable(d, rs)
    IN  IF \/ \E i \in d.inputs : i.required /\ i \notin used
           \/ used = {} \/ 2 * Cardinality(used) < Cardinality(d.inputs)
        THEN None
        ELSE HalfUp(Total(used, LAMBDA i : Points(i, rs[i.signal]) * i.weight),
                    Total(used, LAMBDA i : i.weight) * 100)

-----------------------------------------------------------------------------
(* Rules *)

\* Remaining work, a remaining window and enough history: without one of
\* them the plan rule has no subject.
Applies(rule, f) == rule.plan => f = "under_way"

Compare(cmp, v, threshold) ==
    CASE cmp = "LT" -> v < threshold
      [] cmp = "LTE" -> v <= threshold
      [] cmp = "GTE" -> v >= threshold

EvaluateRule(rule, rs, f) ==
    LET r == rs[rule.signal]
    IN  CASE ~Applies(rule, f) -> "NOT_APPLICABLE"
          [] Applies(rule, f) /\ rule.signal \notin Declared -> "CONFIGURATION_ERROR"
          [] OTHER ->
               IF r.state = "UNBOUNDED"
               THEN IF rule.comparison = "GTE" THEN "FIRED" ELSE "CLEAR"
               ELSE IF r.state # "OBSERVED" THEN "NOT_COMPUTABLE"
               ELSE IF Compare(rule.comparison, r.value, rule.threshold) THEN "FIRED" ELSE "CLEAR"

Having(rules, status, rs, f) == {r \in rules : EvaluateRule(r, rs, f) = status}

-----------------------------------------------------------------------------
(* The assessment *)

Banded(score) == IF score >= 7000 THEN "GREEN" ELSE IF score >= 4500 THEN "AMBER" ELSE "RED"

\* Mutation: the band is the composite's, whatever rule fired.
BandOfComposite(composite, fired, warned) ==
    IF composite = None THEN "AMBER"
    ELSE IF Banded(composite) = "GREEN" /\ warned # {} THEN "AMBER" ELSE Banded(composite)

Band(composite, fired, warned) ==
    IF fired # {} THEN "RED"
    ELSE IF composite = None THEN "AMBER"
    ELSE IF Banded(composite) = "GREEN" /\ warned # {} THEN "AMBER" ELSE Banded(composite)

\* Every input whose evidence could exist and does not, unless the rule that
\* reads the same signal does not apply.
MissingEvidence(rs, f) ==
    {i.signal : i \in {j \in Inputs :
        /\ rs[j.signal].state = "NOT_COMPUTABLE"
        /\ \A r \in Overrides \cup Elevations :
              r.signal = j.signal => EvaluateRule(r, rs, f) # "NOT_APPLICABLE"}}

Status(composite, unscored, missing) ==
    IF composite = None THEN "NOT_COMPUTABLE"
    ELSE IF unscored = {} /\ missing = {} THEN "COMPLETE" ELSE "PROVISIONAL"

Evaluate(rs, f, rep, held) ==
    LET score == [d \in Dimensions |-> ScoreDimension(d, rs)]
        scored == {d \in Dimensions : score[d] # None}
        weight == Total(scored, LAMBDA d : d.weight)
        composite == IF scored = {} \/ weight = 0 THEN None
                     ELSE HalfUp(Total(scored, LAMBDA d : score[d] * d.weight), weight)
        fired == Having(Overrides, "FIRED", rs, f)
        band == Band(composite, fired, Having(Elevations, "FIRED", rs, f))
        missing == MissingEvidence(rs, f)
    IN  [composite |-> composite,
         fired |-> {r.id : r \in fired},
         assessed |-> band,
         effective |-> IF held # "none" THEN held ELSE band,
         divergence |-> IF rep = "none" THEN 0 ELSE Rank(rep) - Rank(band),
         missing |-> missing,
         status |-> Status(composite, Dimensions \ scored, missing),
         controls |-> /\ Having(Overrides, "NOT_COMPUTABLE", rs, f) = {}
                      /\ Having(Overrides, "CONFIGURATION_ERROR", rs, f) = {}]

\* What is told of a project, with the completeness of the rules beside the band.
HealthEvaluation ==
    [composite: 0..10000 \cup {None}, fired: SUBSET {r.id : r \in Overrides},
     assessed: Bands, effective: Bands, divergence: -2..2, missing: SUBSET Signals,
     status: {"COMPLETE", "PROVISIONAL", "NOT_COMPUTABLE"}, controls: BOOLEAN]

Best(s) == CHOOSE v \in Levels[s] :
    IF \E i \in Inputs : i.signal = s /\ i.higher
    THEN v = Max(Levels[s]) ELSE v = Min(Levels[s])

Init ==
    /\ readings = [s \in Signals |-> Observed(Best(s))]
    /\ facts \in Facts
    /\ reported = "none" /\ hold = "none"
    /\ assessment = Evaluate(readings, facts, reported, hold)

Assess == assessment' = Evaluate(readings', facts', reported', hold')

\* The week's evidence brings another reading of one signal.
Measure(s) ==
    /\ readings' \in {[readings EXCEPT ![s] = r] : r \in ReadingsOf(s) \ {readings[s]}}
    /\ UNCHANGED <<facts, reported, hold>>
    /\ Assess

Proceed ==
    /\ facts' \in Facts \ {facts}
    /\ UNCHANGED <<readings, reported, hold>>
    /\ Assess

Declare ==
    /\ reported' \in Holds \ {reported}
    /\ UNCHANGED <<readings, facts, hold>>
    /\ Assess

Hold ==
    /\ hold' \in Holds \ {hold}
    /\ UNCHANGED <<readings, facts, reported>>
    /\ Assess

Next == \/ \E s \in Signals : Measure(s)
        \/ Proceed \/ Declare \/ Hold

Spec == Init /\ [][Next]_vars

-----------------------------------------------------------------------------
(* Properties *)

TypeOK ==
    /\ \A s \in Signals : readings[s] \in ReadingsOf(s)
    /\ facts \in Facts
    /\ reported \in Holds /\ hold \in Holds
    /\ assessment \in HealthEvaluation

Higher(s) == \/ \E i \in Inputs : i.signal = s /\ i.higher
             \/ \E r \in Overrides \cup Elevations : r.signal = s /\ r.comparison \in {"LT", "LTE"}

WorseOnly(s) ==
    LET r == readings[s] q == readings'[s]
    IN  /\ r.state \in {"OBSERVED", "UNBOUNDED"} /\ q.state \in {"OBSERVED", "UNBOUNDED"}
        /\ \/ q.state = "UNBOUNDED"
           \/ r.state = "OBSERVED" /\ (IF Higher(s) THEN q.value < r.value ELSE q.value > r.value)

\* A worse observation of one signal, an observation without a finite value
\* included, never gives a better composite or a better band (normaliseToScore
\* and the rules' comparisons; the sweep of zero-velocity-and-null-safety.test.ts
\* for every signal and from every combination of the others).
WorseIsNeverBetter ==
    \A s \in Signals :
      (readings'[s] # readings[s] /\ WorseOnly(s)) =>
         /\ assessment'.composite <= assessment.composite
         /\ Rank(assessment'.assessed) <= Rank(assessment.assessed)

\* A catastrophe is not averaged away: while a rule's condition is observed and
\* the rule applies and can run, the assessed band is RED, and when no such
\* condition stands, all controls ran and everything was seen, RED is the
\* composite's own verdict (HARD_OVERRIDE_RULES before the band).
RedHasItsReason ==
    LET stands(r) == /\ Applies(r, facts) /\ r.signal \in Declared
                     /\ \/ readings[r.signal].state = "UNBOUNDED" /\ r.comparison = "GTE"
                        \/ /\ readings[r.signal].state = "OBSERVED"
                           /\ Compare(r.comparison, readings[r.signal].value, r.threshold)
    IN  IF \E r \in Overrides : stands(r) THEN assessment.assessed = "RED"
        ELSE assessment.assessed = "RED" => assessment.composite \in 0..4499

Lost(s) == /\ readings[s].state \in {"OBSERVED", "UNBOUNDED"}
           /\ readings'[s].state = "NOT_COMPUTABLE"
Excused(s) == \E r \in Overrides \cup Elevations : r.signal = s /\ ~Applies(r, facts)
Disclosed == assessment'.status # "COMPLETE" \/ ~assessment'.controls
Improved == Rank(assessment'.assessed) > Rank(assessment.assessed)
Graded == {i.signal : i \in Inputs} \cup {r.signal : r \in Overrides}

\* Evidence that disappears may leave a better band, but then the assessment
\* says it is provisional or that a control could not run, unless the rule that
\* reads the signal does not apply (scoreDimension renormalises; assessmentStatus
\* and allApplicableCriticalControlsEvaluated answer for it).
LossIsDisclosed ==
    \A s \in Graded :
      (Lost(s) /\ Improved /\ ~Excused(s)) => Disclosed
=============================================================================
