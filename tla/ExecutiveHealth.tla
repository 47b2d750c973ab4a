-------------------------- MODULE ExecutiveHealth --------------------------
(***************************************************************************)
(* One project's executive page: six verdicts, the commitment at three     *)
(* baselines, the figures beneath them, what the reported status is worth  *)
(* and a summary in five sentences. Nothing is assessed here; every        *)
(* section is arranged from one assessment, and they are read together.    *)
(*                                                                         *)
(* A figure nobody has is None. One horizon stands for the two outlooks,   *)
(* burn stands for the causes that are worded alike (erosion, milestones). *)
(***************************************************************************)
EXTENDS Integers, Sequences, FiniteSets

LOCAL INSTANCE SequencesExt

CONSTANTS
    Burns,          \* burn gaps that occur, in points
    Velocities,     \* required over demonstrated velocity, in hundredths
    Gaps            \* ETC optimism gaps that occur

None == -1
Bands == {"GREEN", "AMBER", "RED"}
Order(b) == CASE b = "GREEN" -> 0 [] b = "AMBER" -> 1 [] b = "RED" -> 2
BurnNoticed == 2        \* 0.02
VelocityNoticed == 105  \* 1.05

ExecutiveAssumption == Burns \subseteq Nat /\ Velocities \subseteq Nat /\ Gaps \subseteq Nat

(* Facts: composite, the band of the weighted model; override, whether a   *)
(* hard override fired; trend, whether the trajectory deteriorates, None   *)
(* of the four states being "unknown"; thin, whether a critical domain is  *)
(* stale or silent or data confidence is low.                              *)
Facts == [composite : Bands, override : BOOLEAN, reported : Bands \cup {"null"},
          outlook : Bands \cup {"null"}, trend : {"steady", "deteriorating"}, thin : BOOLEAN,
          burn : Burns \cup {None}, velocity : Velocities \cup {None}, gap : Gaps \cup {None},
          blockers : 0..1, scope : 0..1]

VARIABLES
    facts,  \* the project's assessment and observed signals
    page    \* the view built from them

vars == <<facts, page>>

-----------------------------------------------------------------------------
(* What the engines hand over *)

SystemBand(f) == IF f.override THEN "RED" ELSE f.composite
OverrideChangedBand(f) == f.override /\ f.composite # "RED"
GreenAtRisk(f) == SystemBand(f) = "GREEN" /\ f.outlook \in {"AMBER", "RED"}
ReportedGreenRisk(f) ==
    f.reported = "GREEN"
        /\ (SystemBand(f) # "GREEN" \/ f.trend = "deteriorating" \/ f.outlook \in {"AMBER", "RED"})
StatusConflict(f) == f.reported # "null" /\ f.reported # SystemBand(f)

-----------------------------------------------------------------------------
(* Verdicts and status *)

InterventionRequired(f) ==
    SystemBand(f) # "GREEN" \/ GreenAtRisk(f) \/ ReportedGreenRisk(f) \/ StatusConflict(f)

DecidedBy(f) == IF OverrideChangedBand(f) THEN "POLICY_OVERRIDE" ELSE "WEIGHTED_MODEL"

GreenClaimSupported(f) == ~(f.reported = "GREEN" /\ f.thin)

GreenHeadline(f) ==
    IF ~GreenClaimSupported(f) THEN "unsupported"
    ELSE IF f.reported = "GREEN" THEN "supported" ELSE "does not apply"

-----------------------------------------------------------------------------
(* Figures *)

BurnNarrative(f) ==
    CASE f.burn = None -> "not computable"
      [] f.burn > 0 -> "ahead of progress"
      [] f.burn = 0 -> "tracks progress"

\* The gap between management's estimate and the demonstrated performance, once it is mature.
EtcCredibility(f) ==
    IF f.gap = None THEN [applicable |-> FALSE, gap |-> None] ELSE [applicable |-> TRUE, gap |-> f.gap]

\* A row of the commitment compares the sold and the forecast figure.
VarianceSentiment(from, to, higherIsBetter) ==
    CASE from = None \/ to = None \/ from = to -> "neutral"
      [] OTHER -> IF (to > from) = higherIsBetter THEN "positive" ELSE "negative"

Quality(f) == [blockers |-> f.blockers, reworkRatio |-> None, escapedDefects |-> None]
ScopeCommercial(f) == [uncommercialised |-> f.scope, changeRatio |-> None]

-----------------------------------------------------------------------------
(* The summary *)

Status(f) ==
    [reported |-> IF StatusConflict(f) THEN f.reported ELSE "null", system |-> SystemBand(f),
     told |-> IF f.trend = "deteriorating" THEN "deteriorating"
              ELSE IF ~StatusConflict(f) /\ SystemBand(f) = "GREEN" THEN "stable" ELSE ""]

FirstOf(s, n) == SubSeq(s, 1, IF Len(s) < n THEN Len(s) ELSE n)
Listed(pairs) == LET kept == SelectSeq(pairs, LAMBDA x : x[1]) IN [i \in DOMAIN kept |-> kept[i][2]]

Causes(f) ==
    Listed(<< <<f.burn # None /\ f.burn > BurnNoticed, "burn">>,
              <<f.velocity # None /\ f.velocity > VelocityNoticed, "velocity">>,
              <<f.blockers > 0, "blockers">> >>)

Cause(f) == IF Causes(f) = <<>> THEN <<"carried by the composite">> ELSE FirstOf(Causes(f), 3)

Actions(f) ==
    Listed(<< <<f.gap # None /\ f.gap # 0, "revalidate the ETC">>,
              <<f.scope # 0, "commercialise the scope">>,
              <<f.velocity # None /\ f.velocity > VelocityNoticed, "close the productivity gap">>,
              <<~GreenClaimSupported(f), "challenge the status">>,
              <<f.blockers > 0, "clear the blockers">> >>)

Action(f) == IF Actions(f) = <<>> THEN <<"no intervention indicated">> ELSE FirstOf(Actions(f), 4)

BuildSummary(f) ==
    [status |-> Status(f), cause |-> Cause(f), outlook |-> f.outlook, action |-> Action(f)]

BuildProjectExecutiveHealth(f) ==
    [rag |-> SystemBand(f),
     intervention |-> InterventionRequired(f),
     decidedBy |-> DecidedBy(f),
     conflict |-> StatusConflict(f),
     greenClaim |-> GreenHeadline(f),
     burn |-> BurnNarrative(f),
     etc |-> EtcCredibility(f),
     endDate |-> VarianceSentiment(0, IF f.velocity = None THEN None ELSE f.velocity - 100, FALSE),
     quality |-> Quality(f),
     scope |-> ScopeCommercial(f),
     summary |-> BuildSummary(f)]

-----------------------------------------------------------------------------
Init ==
    /\ facts = [composite |-> "GREEN", override |-> FALSE, reported |-> "null", outlook |-> "null",
                trend |-> "steady", thin |-> TRUE, burn |-> None, velocity |-> None, gap |-> None,
                blockers |-> 0, scope |-> 0]
    /\ page = BuildProjectExecutiveHealth(facts)

Learn(f) == facts' = f /\ page' = BuildProjectExecutiveHealth(f)

\* The engines assess again, or what they were given changes.
Assess ==
    \/ \E b \in Bands : Learn([facts EXCEPT !.composite = b])
    \/ \E b \in Bands \cup {"null"} : Learn([facts EXCEPT !.outlook = b])
    \/ \E t \in {"steady", "deteriorating"} : Learn([facts EXCEPT !.trend = t])
    \/ Learn([facts EXCEPT !.override = ~@])

Report == \E b \in Bands : Learn([facts EXCEPT !.reported = b])

Observe ==
    \/ Learn([facts EXCEPT !.thin = ~@])
    \/ \E x \in Burns \cup {None} : Learn([facts EXCEPT !.burn = x])
    \/ \E x \in Velocities \cup {None} : Learn([facts EXCEPT !.velocity = x])
    \/ \E x \in Gaps \cup {None} : Learn([facts EXCEPT !.gap = x])
    \/ \E n \in 0..1 : Learn([facts EXCEPT !.blockers = n]) \/ Learn([facts EXCEPT !.scope = n])

Next == Assess \/ Report \/ Observe

Spec == Init /\ [][Next]_vars

-----------------------------------------------------------------------------
(* Properties *)

TypeOK ==
    /\ facts \in Facts
    /\ page.rag \in Bands /\ page.intervention \in BOOLEAN
    /\ Len(page.summary.cause) \in 1..3 /\ Len(page.summary.action) \in 1..4

\* A Green nobody can support is challenged wherever the page speaks of it: the headline says
\* so and the summary asks for the challenge, however many other actions there are
\* (`greenClaimSupported`, `actions.slice(0, 4)`).
UnsupportedGreenIsChallenged ==
    facts.reported = "GREEN" /\ facts.thin =>
        /\ page.greenClaim = "unsupported"
        /\ "challenge the status" \in Range(page.summary.action)

\* Bad news never calls a decision off: while the reported status stands, a worse band, outlook
\* or trend, a fired override or thinner evidence leaves an intervention required and an
\* unsupported Green unsupported (`interventionRequired`).
Worse(f, g) ==
    /\ f.reported = g.reported
    /\ Order(f.composite) <= Order(g.composite) /\ (f.override => g.override)
    /\ f.outlook # "null" => g.outlook # "null" /\ Order(f.outlook) <= Order(g.outlook)
    /\ f.trend = "deteriorating" => g.trend = "deteriorating"
    /\ f.thin => g.thin

BadNewsKeepsTheDecision ==
    Worse(facts, facts') /\ facts.reported \in {"null", "GREEN"} =>
       /\ page.intervention => page'.intervention
       /\ page.greenClaim = "unsupported" => page'.greenClaim = "unsupported"

\* Absence is reported, never shown as nought: a section that lacks its figure neither reassures
\* nor lends the summary a cause or an action (header, third rule).
AbsenceIsStated ==
    /\ facts.burn = None => page.burn = "not computable" /\ "burn" \notin Range(page.summary.cause)
    /\ facts.gap = None => ~page.etc.applicable /\ "revalidate the ETC" \notin Range(page.summary.action)
    /\ facts.velocity = None => page.endDate = "neutral" /\ "velocity" \notin Range(page.summary.cause)
=============================================================================
