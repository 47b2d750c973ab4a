------------------------ MODULE InterventionPriority ------------------------
(***************************************************************************)
(* Where leadership should step in first. Each project's evidence is       *)
(* graded into tiers; the projects that can be placed are ordered tier by  *)
(* tier, the rest are listed apart. Evidence arrives, changes and is lost  *)
(* one figure at a time, and the whole ranking is drawn again.             *)
(***************************************************************************)
EXTENDS Integers, Sequences, FiniteSets

LOCAL INSTANCE SequencesExt

CONSTANTS
    Projects,   \* project ids, numbered in the order `localeCompare` puts them
    Floor,      \* `criticalGmValueAtRiskFloor`
    Amounts,    \* values at risk that occur
    Clocks,     \* weeks to the next irreversible point
    Known,      \* project -> the evidence at the start
    MaxChanges  \* bound: changes of evidence

None == -1
Bands == {"GREEN", "AMBER", "RED"}
BandOrder(b) == CASE b = "GREEN" -> 0 [] b = "AMBER" -> 1 [] b = "RED" -> 2
Confidences == {"LOW", "MEDIUM", "HIGH"}
ConfidenceOrder(c) == CASE c = "LOW" -> 0 [] c = "MEDIUM" -> 1 [] c = "HIGH" -> 2
Grades == {"NOT_ASSESSED", "NO_PLAN", "PLAN_FORMING", "CREDIBLE_PLAN"}
ActionabilityOrder(g) ==
    CASE g = "NOT_ASSESSED" -> 0 [] g = "NO_PLAN" -> 1 [] g = "PLAN_FORMING" -> 2 [] g = "CREDIBLE_PLAN" -> 3

PriorityAssumption == Projects \subseteq Nat /\ Floor \in Nat /\ MaxChanges \in Nat

(* `penalty` also stands for a forecast contract loss, `outlook` for the   *)
(* worse of the two horizons, `clock` for the sooner of the two clocks.    *)
Evidence == [band : Bands \cup {"null"}, gm : Amounts \cup {None}, penalty : BOOLEAN,
             greenAtRisk : BOOLEAN, outlook : Bands \cup {"null"}, clock : Clocks \cup {None},
             action : [open : BOOLEAN, owner : BOOLEAN, due : BOOLEAN, benefit : BOOLEAN],
             data : Confidences \cup {"null"}, forecast : Confidences \cup {"null"}]

VARIABLES
    evidence,   \* project -> what is known of it
    ranked,     \* projects, first to intervene first
    changes

vars == <<evidence, ranked, changes>>

-----------------------------------------------------------------------------
(* Grades *)

GradeActionability(a) ==
    CASE \A f \in DOMAIN a : ~a[f] -> "NOT_ASSESSED"
      [] ~a.open /\ (\E f \in DOMAIN a : a[f]) -> "NO_PLAN"
      [] a.open /\ a.owner /\ a.due /\ a.benefit -> "CREDIBLE_PLAN"
      [] OTHER -> "PLAN_FORMING"

CriticalExposure(e) == e.penalty \/ (e.band = "RED" /\ e.gm # None /\ e.gm >= Floor)

PredictedDeterioration(e) ==
    \/ e.greenAtRisk
    \/ e.band # "null" /\ e.outlook # "null" /\ BandOrder(e.outlook) > BandOrder(e.band)

Gaps(e) ==
    {f \in {"band", "data"} : e[f] = "null"} \cup {f \in {"gm", "clock"} : e[f] = None}
        \cup {f \in {"action"} : GradeActionability(e.action) = "NOT_ASSESSED"}

WorseOf(cs) == IF cs = {} THEN "LOW" ELSE CHOOSE c \in cs : \A d \in cs : ConfidenceOrder(c) <= ConfidenceOrder(d)

RankConfidence(e) ==
    LET base == WorseOf({e.data, e.forecast} \ {"null"})
    IN  CASE Cardinality(Gaps(e)) >= 3 -> "LOW"
          [] Gaps(e) = {} -> base
          [] OTHER -> IF base = "HIGH" THEN "MEDIUM" ELSE "LOW"

\* Every tier as a number, smaller first; an unknown clock comes after every known
\* one, an unknown amount after every measured one.
Tiers(e) ==
    << IF CriticalExposure(e) THEN 0 ELSE 1,
       IF PredictedDeterioration(e) THEN 0 ELSE 1,
       IF e.clock = None THEN 1000 ELSE e.clock,
       IF e.gm = None THEN 1 ELSE -e.gm,
       -ActionabilityOrder(GradeActionability(e.action)),
       -ConfidenceOrder(RankConfidence(e)) >>

-----------------------------------------------------------------------------
(* The order *)

Differ(s, t) == {i \in DOMAIN s : s[i] # t[i]}
First(is) == CHOOSE i \in is : \A j \in is : i <= j

ComparePriority(p, q, ev) ==
    LET s == Tiers(ev[p])
        t == Tiers(ev[q])
        d == Differ(s, t)
    IN  IF d = {} THEN p < q ELSE s[First(d)] < t[First(d)]

\* Mutation: whoever has no amount at risk is left out.
PlaceableByAmount(e) == e.gm # None

Placeable(e) == CriticalExposure(e) \/ PredictedDeterioration(e) \/ e.gm # None

Rank(ev) == SetToSortSeq({p \in DOMAIN ev : Placeable(ev[p])}, LAMBDA p, q : ComparePriority(p, q, ev))

\* The tier named in `outranksBecause`.
DecidingTier(s, t) == IF Differ(s, t) = {} THEN 7 ELSE First(Differ(s, t))

-----------------------------------------------------------------------------
Init ==
    /\ evidence = Known
    /\ ranked = Rank(Known)
    /\ changes = 0

Learn(p, e) ==
    /\ changes < MaxChanges
    /\ evidence' = [evidence EXCEPT ![p] = e]
    /\ ranked' = Rank(evidence')
    /\ changes' = changes + 1

\* The exposure of a project is assessed again, one figure at a time.
LearnExposure(p) ==
    \/ \E b \in Bands \cup {"null"} : Learn(p, [evidence[p] EXCEPT !.band = b])
    \/ \E b \in Bands \cup {"null"} : Learn(p, [evidence[p] EXCEPT !.outlook = b])
    \/ \E a \in Amounts \cup {None} : Learn(p, [evidence[p] EXCEPT !.gm = a])
    \/ \E w \in Clocks \cup {None} : Learn(p, [evidence[p] EXCEPT !.clock = w])
    \/ \E f \in {"penalty", "greenAtRisk"} : Learn(p, [evidence[p] EXCEPT ![f] = ~@])

LearnAction(p) ==
    \E f \in {"open", "owner", "due", "benefit"} : Learn(p, [evidence[p] EXCEPT !.action[f] = ~@])

LearnConfidence(p) ==
    \E f \in {"data", "forecast"}, c \in Confidences \cup {"null"} : Learn(p, [evidence[p] EXCEPT ![f] = c])

Next == \E p \in Projects : LearnExposure(p) \/ LearnAction(p) \/ LearnConfidence(p)

Spec == Init /\ [][Next]_vars

-----------------------------------------------------------------------------
(* Properties *)

Place(r, p) == CHOOSE i \in DOMAIN r : r[i] = p
Above(r, p, q) == p \in Range(r) /\ q \in Range(r) /\ Place(r, p) < Place(r, q)

TypeOK ==
    /\ evidence \in [Projects -> Evidence]
    /\ Range(ranked) = {p \in Projects : Placeable(evidence[p])} /\ Len(ranked) = Cardinality(Range(ranked))
    /\ changes \in 0..MaxChanges

\* A hard risk is never buried: whatever stands above a project whose money is already
\* committed is itself such a project, and such a project is always placed
\* (`hasCriticalExposure`, `comparePriority`).
HardRiskIsOnTop ==
    \A p \in Projects : CriticalExposure(evidence[p]) =>
        /\ p \in Range(ranked)
        /\ \A i \in 1..Place(ranked, p) : CriticalExposure(evidence[ranked[i]])

\* A plan never lifts a small problem over a large one: while exposure stays as it is, what
\* is learned of plans and of confidence moves a project only among its equals, and
\* neither places it nor removes it (tier 5 below every exposure tier).
PlansOrderEqualsOnly ==
    \A p, q \in Projects :
       /\ \A r \in Projects : SubSeq(Tiers(evidence[r])', 1, 4) = SubSeq(Tiers(evidence[r]), 1, 4)
       /\ SubSeq(Tiers(evidence[p]), 1, 4) # SubSeq(Tiers(evidence[q]), 1, 4)
       => Above(ranked, p, q) = Above(ranked', p, q)

\* Bad news never lowers a project: a penalty, a larger amount at risk, a sooner clock or a
\* worse outlook leaves it above whatever it was above (`rankInterventionPriority`).
Worse(d, e) ==
    /\ d.band = e.band /\ d.action = e.action /\ d.data = e.data /\ d.forecast = e.forecast
    /\ d.penalty => e.penalty
    /\ d.greenAtRisk => e.greenAtRisk
    /\ d.gm <= e.gm
    /\ d.clock # None => e.clock # None /\ e.clock <= d.clock
    /\ d.outlook # "null" => e.outlook # "null" /\ BandOrder(d.outlook) <= BandOrder(e.outlook)

BadNewsNeverLowers ==
    \A p, q \in Projects :
       /\ p # q /\ evidence'[q] = evidence[q]
       /\ Worse(evidence[p], evidence'[p])
       /\ Above(ranked, p, q)
       => Above(ranked', p, q)

\* The reason given for a place is the one that decided it: up to the named tier the
\* neighbours are alike, and in it the upper one comes first (`decidingTier` walks the
\* tiers apart from `comparePriority`).
ReasonIsTheReason ==
    \A i \in 1..(Len(ranked) - 1) :
        LET s == Tiers(evidence[ranked[i]])
            t == Tiers(evidence[ranked[i + 1]])
            d == DecidingTier(s, t)
        IN  /\ SubSeq(s, 1, d - 1) = SubSeq(t, 1, d - 1)
            /\ d = 7 \/ s[d] < t[d]

\* No evidence is not a prediction: a project whose band is unknown is placed for what is
\* committed, assessed or measured of it, never for its outlook alone.
UnknownIsNotPredicted ==
    \A p \in Projects :
        evidence[p].band = "null" /\ ~evidence[p].greenAtRisk /\ ~evidence[p].penalty /\ evidence[p].gm = None
            => p \notin Range(ranked)
=============================================================================
