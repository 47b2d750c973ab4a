--------------------------- MODULE ClaimGrounding ---------------------------
(***************************************************************************)
(* From what the tools of one project return to the answer that ships: the *)
(* claims with their envelopes, the retrieved text taken out of them, what *)
(* must be there, the caveats, the prose of the template or of a model,    *)
(* the grounding validator, and the four judgements of the answer.         *)
(*                                                                         *)
(* A text is a set of sentences, each a set of the tokens (bands, figures, *)
(* words, project ids) it says and whether it is shaped as an instruction. *)
(***************************************************************************)
EXTENDS Integers, FiniteSets

LOCAL INSTANCE TLC

CONSTANTS
    Views,      \* what the surfaces may hold of the project
    Questions,  \* [shape, project, entry]
    Narrations, \* sets of tokens a model may answer with
    Projects, Authorised,   \* all there are, and those the caller may see
    MaxRows,    \* rows of a list a tool takes
    None

VARIABLES
    view,       \* what the surfaces hold
    asked,      \* the question, None at first
    stage,      \* how far it is
    claims,     \* what the tools returned, then what is left of it
    lost,       \* claims the neutralisation took away whole
    prose,      \* what would ship
    composer,   \* who wrote it
    response    \* what shipped, None before

vars == <<view, asked, stage, claims, lost, prose, composer, response>>

Causal == {"because of"}
Banned == {"likely", "persistently", "will be recovered"}
OmittedMark == "[omitted]"

-----------------------------------------------------------------------------
(* Texts *)

Says(tokens) == {[says |-> tokens, instruction |-> FALSE]}
TokensOf(text) == UNION {s.says : s \in text}

\* Mutation: the text is neutralised on the way out only, after it has licensed what it says.
LeaveAsFound(text) == text

\* `neutraliseRetrievedText`: the sentences shaped as instructions go, and a mark is left.
Neutralise(text) ==
    LET kept == {s \in text : ~s.instruction}
    IN  IF kept = text THEN text ELSE kept \cup Says({OmittedMark})

FullyRedacted(text) == text = Says({OmittedMark})

-----------------------------------------------------------------------------
(* Envelopes: every default weakens the claim, and limitations only accumulate *)

LimitationsOf(metric) ==
    CASE metric \in {"MET-FIN-018"} -> {"DR-062", "DR-058"}
      [] metric = "MET-FIN-041" -> {"DR-062"}
      [] metric = "MET-FCST-030" -> {"DR-059"}
      [] metric = "MET-RES-002" -> {"DR-064"}
      [] metric = "MET-HLTH-011" -> {"DR-054", "DR-055"}
      [] metric \in {"MET-REC-001", "MET-REC-002", "MET-REC-003"} -> {"DR-060"}
      [] OTHER -> {}

RuleLimitations == {"DR-061", "DR-063"}

Envelope(metric, rule, layer, signalState, overrides) ==
    LET known == LimitationsOf(metric) \cup (IF rule = None THEN {} ELSE RuleLimitations)
        base == [metric |-> metric, rule |-> rule, layer |-> layer, state |-> signalState,
                 freshness |-> "UNKNOWN", coverage |-> None, status |-> "PROVISIONAL",
                 authoritative |-> FALSE, limitations |-> {}]
    IN  [overrides @@ base EXCEPT !.limitations = @ \cup known]

IsFullyAuthoritative(e) ==
    /\ e.authoritative /\ e.status = "COMPLETE" /\ e.limitations = {}
    /\ e.freshness = "CURRENT" /\ e.state \in {"OBSERVED", "KNOWN_ZERO"}

\* `family` is the id's prefix, `name` the rest of it.
Claim(family, name, text, env) ==
    [family |-> family, name |-> name, text |-> text, envelope |-> env]

Observed(computable) == IF computable THEN "OBSERVED" ELSE "NOT_COMPUTABLE"
Of(status) == [status |-> status]
Declared(status) == [status |-> status, authoritative |-> TRUE]

\* The rows of a list a tool takes: as many as MaxRows, whichever come first.
Rows(set) == CHOOSE s \in SUBSET set :
                Cardinality(s) = IF Cardinality(set) > MaxRows THEN MaxRows ELSE Cardinality(set)

-----------------------------------------------------------------------------
(* Project tools *)

\* Mutation: who decided the band stands for whether an override fired.
MechanismAsDecided(v) ==
    IF v.decidedBy = "POLICY_OVERRIDE" THEN {"forced"} ELSE {"by the model", "no override fired"}

Mechanism(v) ==
    CASE v.decidedBy = "POLICY_OVERRIDE" -> {"forced"}
      [] v.decidedBy # "POLICY_OVERRIDE" /\ v.fired # {} -> {"by the model", "overrides also fired"}
      [] OTHER -> {"by the model", "no override fired"}

\* Each reading's own sentence: zero, absence, unbounded and misconfigured are four things.
InputClaims(v) ==
    {Claim("input", i, Says({i, v.inputs[i]}),
           Envelope(i, None, "L2", v.inputs[i], Of(v.coverage))) :
        i \in {i \in DOMAIN v.inputs : v.inputs[i] # "OBSERVED"}}

ExecutiveHealth(v) ==
    {Claim("rag", "final", Says({v.final}), Envelope("MET-HLTH-011", None, "L3", "OBSERVED",
        [status |-> v.coverage, authoritative |-> v.coverage = "COMPLETE"])),
     Claim("rag", "composite", Says({v.composite}),
           Envelope("MET-HLTH-010", None, "L3", "OBSERVED", Of(v.coverage))),
     Claim("rag", "mechanism", Says(Mechanism(v)),
           Envelope(None, None, "L3", "OBSERVED", Declared(v.coverage)))}
    \cup {Claim("rag:override", r, Says({r}), Envelope(None, r, "L3", "OBSERVED", Of(v.coverage))) :
            r \in Rows(v.fired)}
    \cup {Claim("rag", "controls", Says({"controls evaluated"}),
                Envelope(None, None, "L3", "OBSERVED", Declared(v.coverage))) : c \in v.controls}
    \cup {Claim("dim", d, Says({d}), Envelope(None, None, "L3", Observed(v.dims[d]), Of(v.coverage))) :
            d \in Rows(DOMAIN v.dims)}
    \cup InputClaims(v)
    \cup {Claim("rag", "reported", Says({b}), Envelope(None, None, "L1", "OBSERVED",
            [status |-> "COMPLETE", authoritative |-> TRUE, freshness |-> "CURRENT"])) : b \in v.reported}
    \cup {Claim("burn", "gap", Says({"burn gap"}), Envelope("MET-FIN-013", None, "L2",
            Observed(v.burn), [status |-> v.coverage, authoritative |-> v.burn]))}
    \cup {Claim("scope", s, Says({s}), Envelope(s, None, "L2", Observed(v.scope[s]),
            [status |-> v.coverage, authoritative |-> v.scope[s]])) : s \in Rows(DOMAIN v.scope)}

MarginDrivers(v) ==
    LET env(metric, signalState, limitations) == Envelope(metric, None, "L2", signalState,
            [coverage |-> v.bridge.coverage, status |-> "COMPLETE", limitations |-> limitations])
    IN  {Claim("margin", "movement", Says({"margin moved"}), env("MET-FIN-018", "OBSERVED", {})),
         Claim("margin", "coverage", Says({"named causes account"}),
               env("MET-FIN-041", Observed(v.bridge.coverage # None), {}))}
        \cup {Claim("margin:cause", c, Says({c}), env(None, "OBSERVED",
                IF v.bridge.causes[c] = "modelled" THEN {"DR-058", "DR-062"} ELSE {"DR-062"})) :
                c \in Rows(DOMAIN v.bridge.causes)}
        \cup {Claim("margin", "residual", Says({"residual", "unattributed"}),
                    env(None, "OBSERVED", {"DR-062"})) : r \in v.bridge.residual}

ForwardRisk(v) ==
    {Claim("outlook", h, Says({h, v.outlook[h]}),
           Envelope("MET-FCST-006", None, "L3", "OBSERVED", Of("COMPLETE"))) : h \in DOMAIN v.outlook}
    \cup {Claim("signal", r, Says({r}), Envelope(None, r, "L3", "OBSERVED", Of("COMPLETE"))) :
            r \in Rows(v.signals)}
    \cup {Claim("signal:not-evaluated", r, Says({"not evaluated"}),
                Envelope(None, r, "L3", "NOT_COMPUTABLE", Of("PROVISIONAL"))) : r \in Rows(v.unevaluated)}

\* The rate is as authoritative as its payload says; its coverage never is.
LateDetection(v) ==
    {Claim("late-detection", "rate", Says({"late detection rate"}),
           Envelope("MET-FCST-030", None, "L3", Observed(v.late.available),
                    [status |-> "PROVISIONAL", authoritative |-> v.late.authoritative])),
     Claim("late-detection", "coverage", Says({"historical coverage"}),
           Envelope("MET-FCST-030", None, "L3", "OBSERVED", Of("PROVISIONAL")))}

\* An action's recommendation is a person's text: what follows it stands in its last sentence
\* where it has no stop of its own.
ActionText(a) ==
    LET status == IF a.counted THEN {"status", "GM benefit"} ELSE {"status"}
        verdict == Says({IF a.counted THEN "counted" ELSE "not counted"})
    IN  verdict \cup IF a.stopped THEN a.note \cup Says(status)
                     ELSE {[s EXCEPT !.says = @ \cup status] : s \in a.note}

RecoveryOptions(v) ==
    IF v.recovery = None
    THEN {Claim("recovery", "none", Says({"no recovery economics"}),
                Envelope("MET-REC-001", None, "L3", "NOT_APPLICABLE", Of("NOT_COMPUTABLE")))}
    ELSE {Claim("recovery", "potential", Says({"potential GM"}),
                Envelope("MET-REC-001", None, "L3", "OBSERVED", Of("COMPLETE"))),
          Claim("recovery", "probability-adjusted", Says({"adjusted GM"}),
                Envelope("MET-REC-002", None, "L3", "OBSERVED", Of("COMPLETE"))),
          Claim("recovery", "exposure", Says({"risk-adjusted GM"}),
                Envelope("MET-FIN-032", None, "L2", "OBSERVED", Declared("COMPLETE")))}
         \cup {Claim("recovery:action", a.id, ActionText(a), Envelope("MET-REC-003", None, "L3",
                 IF a.counted THEN "OBSERVED" ELSE "NOT_APPLICABLE", Of("COMPLETE"))) :
                 a \in Rows(v.recovery)}

EvidenceLookup(v) ==
    {Claim("evidence", m, Says({m}), Envelope(m, None, "L1", "OBSERVED",
        [status |-> "COMPLETE", authoritative |-> TRUE,
         freshness |-> IF v.lineage[m] \in {"CURRENT", "STALE"} THEN v.lineage[m] ELSE "UNKNOWN"])) :
        m \in Rows(DOMAIN v.lineage)}

\* A registry's words, of no project.
MetricDefinition(v) ==
    {Claim("metric", v.defined, Says({"definition"}), Envelope(v.defined, None, "L1", "OBSERVED",
        [status |-> "COMPLETE", authoritative |-> TRUE, freshness |-> "CURRENT",
         limitations |-> IF v.calibrated THEN {"DR-055", "DR-061"} ELSE {}]))}

-----------------------------------------------------------------------------
(* Document and delivery evidence *)

Missing(family, name) ==
    {Claim(family, name, Says({"nothing to quote"}),
           Envelope(None, None, "L1", "NOT_COMPUTABLE", Of("NOT_COMPUTABLE")))}

KnowledgeEvidence(v) ==
    CASE v.spans = None -> Missing("knowledge", "none")
      [] v.spans # None /\ DOMAIN v.spans = {} -> Missing("knowledge", "no-match")
      [] OTHER -> {Claim("knowledge:span", s, v.spans[s],
                         Envelope(None, None, "L1", "OBSERVED", Of("COMPLETE"))) : s \in DOMAIN v.spans}
                  \cup {Claim("knowledge", "authority", Says({"document evidence"}),
                              Envelope(None, None, "L1", "OBSERVED", Of("PROVISIONAL")))}

\* Milestone rows, their names free text.
Milestones(v) ==
    IF DOMAIN v.milestones = {} THEN Missing("milestone", "none")
    ELSE {Claim("milestone", m, v.milestones[m],
                Envelope(None, None, "L1", "OBSERVED", Of("PROVISIONAL"))) : m \in DOMAIN v.milestones}

AcceptanceEvidence(v) ==
    IF v.panels = {} THEN {}
    ELSE {Claim("acceptance", p, Says({p}),
                Envelope(None, None, "L2", "OBSERVED", Of("PROVISIONAL"))) : p \in v.panels}
         \cup {Claim("acceptance", "limit", Says({"no formal acceptance"}),
                     Envelope(None, None, "L1", "NOT_COMPUTABLE", Of("PROVISIONAL")))}

\* The sources of the project's lineage and the registered ones, and what is true of them all.
SourceProvenance(v) ==
    {Claim("provenance", s, Says({s}), Envelope(None, None, "L1", "OBSERVED", Of("PROVISIONAL"))) :
        s \in v.sources \cup {"the model is in no calculation"}}

\* Dimensions of the data, not a score, and notes a person may have written.
DataQuality(v) ==
    {Claim("quality", d, Says({d}), Envelope(None, None, "L1", "OBSERVED", Of("PROVISIONAL"))) :
        d \in {"completeness", "freshness", "authority", "conflicts", "mapping", "validation", "identity"}}
    \cup {Claim("quality:note", n, v.notes[n], Envelope(None, None, "L1", "OBSERVED", Of("PROVISIONAL"))) :
            n \in DOMAIN v.notes}

\* A tool without its subject denies, as one that may not; of acceptance's two one may.
Denies(shape, v) ==
    CASE shape = "project.margin" -> v.bridge = None
      [] shape = "project.confidence" -> v.late = None
      [] shape = "evidence.lookup" -> DOMAIN v.lineage = {}
      [] shape = "metric.definition" -> v.defined = None
      [] shape = "source.provenance" -> v.sources = {}
      [] OTHER -> FALSE

ToolClaims(shape, v) ==
    CASE shape \in {"project.health", "project.burn", "project.scope"} -> ExecutiveHealth(v)
      [] shape = "project.margin" -> MarginDrivers(v)
      [] shape = "project.forwardRisk" -> ForwardRisk(v)
      [] shape = "project.confidence" -> LateDetection(v)
      [] shape = "project.recovery" -> RecoveryOptions(v)
      [] shape = "project.milestones" -> Milestones(v)
      [] shape = "project.acceptanceEvidence" -> AcceptanceEvidence(v) \cup KnowledgeEvidence(v)
      [] shape = "evidence.lookup" -> EvidenceLookup(v)
      [] shape = "metric.definition" -> MetricDefinition(v)
      [] shape = "knowledge.document" -> KnowledgeEvidence(v)
      [] shape = "source.provenance" -> SourceProvenance(v)
      [] shape = "source.dataQuality" -> DataQuality(v)

-----------------------------------------------------------------------------
(* What an answer speaks about, and what it may not leave out *)

Is(c, family, name) == c.family = family /\ c.name = name
InFamily(c, prefix) == c.family = prefix \/ c.family \in
    (CASE prefix = "rag" -> {"rag:override"} [] prefix = "margin" -> {"margin:cause"}
       [] prefix = "signal" -> {"signal:not-evaluated"} [] prefix = "recovery" -> {"recovery:action"}
       [] prefix = "knowledge" -> {"knowledge:span"} [] prefix = "quality" -> {"quality:note"}
       [] OTHER -> {})

IntentFamilies(shape) ==
    CASE shape = "project.health" -> {"rag", "dim", "input", "burn", "scope"}
      [] shape = "project.margin" -> {"margin"}
      [] shape = "project.burn" -> {"burn"}
      [] shape = "project.scope" -> {"scope"}
      [] shape = "project.confidence" -> {"late-detection"}
      [] shape = "project.forwardRisk" -> {"outlook", "signal"}
      [] shape = "project.recovery" -> {"recovery"}
      [] shape = "evidence.lookup" -> {"evidence"}
      [] shape = "metric.definition" -> {"metric"}
      [] OTHER -> {}

\* `claimsFor`: the families of the intent, or everything where there is none of them.
ClaimsFor(shape, all) ==
    LET selected == {c \in all : \E f \in IntentFamilies(shape) : InFamily(c, f)}
    IN  IF selected = {} THEN all ELSE selected

\* Mutation: what must be there need only be of the family.
RequiredAsFamilies(shape) ==
    IF shape = "project.health" THEN {<<"rag", None>>} ELSE {}

\* Pairs of a family and the one name that must be there, or any of it.
Required(shape) ==
    CASE shape = "project.health" ->
            {<<"rag", n>> : n \in {"final", "composite", "mechanism", "controls"}}
      [] shape = "project.margin" -> {<<"margin", "movement">>, <<"margin", "coverage">>}
      [] shape = "project.confidence" ->
            {<<"late-detection", "rate">>, <<"late-detection", "coverage">>}
      [] shape = "project.forwardRisk" -> {<<"outlook", None>>}
      [] shape = "project.recovery" -> {<<"recovery", None>>}
      [] shape = "project.burn" -> {<<"burn", None>>}
      [] shape = "project.scope" -> {<<"scope", None>>}
      [] shape = "evidence.lookup" -> {<<"evidence", None>>}
      [] shape = "metric.definition" -> {<<"metric", None>>}
      [] shape = "knowledge.document" -> {<<"knowledge", None>>}
      [] shape = "source.dataQuality" -> {<<"quality", "completeness">>}
      [] OTHER -> {}

MissingRequired(shape, cs) ==
    {r \in Required(shape) : ~\E c \in cs :
        IF r[2] = None THEN InFamily(c, r[1]) ELSE Is(c, r[1], r[2])}

-----------------------------------------------------------------------------
(* Caveats: computed from envelopes, never authored *)

CaveatsOf(e) ==
    {r \in {<<"CS-1">>} : ~e.authoritative}
    \cup {r \in {<<"CS-2">>} : e.rule # None \/ {"DR-055", "DR-061"} \cap e.limitations # {}}
    \cup {r \in {<<"CS-3">>} : e.status = "PROVISIONAL"}
    \cup {r \in {<<"CS-4", e.coverage>>} : \/ e.metric \in {"MET-FIN-018", "MET-FIN-041"}
                                           \/ e.coverage = None /\ "DR-062" \in e.limitations}
    \cup {r \in {<<"CS-5", e.state>>} : e.state \in {"NOT_COMPUTABLE", "CONFIGURATION_ERROR"}}
    \cup {r \in {<<"CS-6">>} : e.state = "NOT_APPLICABLE"}
    \cup {r \in {<<"CS-7">>} : e.state = "KNOWN_ZERO"}
    \cup {r \in {<<"CS-8">>} : e.state = "UNBOUNDED"}
    \cup {r \in {<<"CS-9">>} : e.freshness = "STALE"}
    \cup {r \in {<<"CS-10">>} : e.layer = "L3"}
    \cup {r \in {<<"CS-11", e.limitations>>} : e.limitations # {}}
    \cup {r \in {<<"CS-12">>} : "DR-064" \in e.limitations}

DeriveCaveats(cs) == UNION {CaveatsOf(c.envelope) : c \in cs}

-----------------------------------------------------------------------------
(* Prose *)

Texts(cs) == UNION {TokensOf(c.text) : c \in cs}
Pick(cs, family) == {c \in cs : InFamily(c, family)}

HeadlineClaims(shape, cs) ==
    CASE shape = "project.health" ->
            {c \in cs : c.family = "rag" /\ c.name \in {"final", "composite", "mechanism"}}
      [] shape = "project.margin" ->
            {c \in cs : c.family = "margin" /\ c.name \in {"movement", "coverage"}}
      [] shape = "project.forwardRisk" -> Pick(cs, "outlook")
      [] shape = "project.recovery" ->
            {c \in cs : c.family = "recovery" /\ c.name \in {"none", "potential", "probability-adjusted"}}
      [] OTHER -> cs

\* The template says what its claims say; it counts the signals itself and names the overrides.
Compose(shape, cs) ==
    Texts(HeadlineClaims(shape, cs))
    \cup IF shape = "project.health" THEN {c.name : c \in {c \in cs : c.family = "rag:override"}}
         ELSE IF shape = "project.forwardRisk"
         THEN IF \E c \in cs : c.family = "signal" THEN {"count of signals"} ELSE {"no signal firing"}
         ELSE {}

\* What is not in the headline, a line each.
Why(shape, cs) ==
    LET led == IF shape \in {"project.health", "project.margin", "project.confidence"}
               THEN HeadlineClaims(shape, cs) ELSE {}
    IN  {Neutralise(c.text) : c \in cs \ led}

\* The validator: what the prose asserts, a claim must license; some words nothing licenses.  A
\* number the template counted is licensed where its digits occur in some claim.
Findings(said, cs) ==
    LET licensed == Texts(cs) \cup {c.name : c \in {c \in cs : c.family = "rag:override"}}
                    \cup (IF view.digits THEN {"count of signals"} ELSE {})
                    \cup {"no signal firing", OmittedMark}
        firing == \E c \in cs : c.family = "margin:cause" \/ c.envelope.rule # None
    IN  (said \ (licensed \cup Causal \cup Projects)) \cup (said \cap (Projects \ Authorised))
        \cup (said \cap Banned)
        \cup (IF firing /\ "residual" \notin said THEN {} ELSE said \cap Causal)

Leaks(said) == said \cap (Projects \ Authorised) # {}

-----------------------------------------------------------------------------
(* Judgements of the answer *)

\* `classify`: [classification, gaps].  A gap is something that can be named.
Classify(cs) ==
    LET gaps == {c.text : c \in {c \in cs : c.envelope.status = "NOT_COMPUTABLE"}}
    IN  CASE \E c \in cs : c.family = "knowledge" /\ c.name \in {"none", "no-match"} ->
                [classification |-> "NOT_ANSWERABLE", gaps |-> {Says({"document evidence"})}]
          [] OTHER ->
                [classification |->
                    IF gaps = {} THEN "ANSWERABLE"
                    ELSE IF \A c \in cs : c.envelope.status = "NOT_COMPUTABLE" THEN "NOT_ANSWERABLE"
                    ELSE "PARTIALLY_ANSWERABLE",
                 gaps |-> gaps]

\* Mutation: an answer that lost a claim to a content rule reads as whole.
SilentlyAnswerable(base, n) == base

\* What the neutralisation took away whole is named.
Answerability(base, n) ==
    IF n = 0 THEN base
    ELSE [classification |-> IF base.classification = "ANSWERABLE" THEN "PARTIALLY_ANSWERABLE"
                             ELSE base.classification,
          gaps |-> base.gaps \cup {Says({"withheld"})}]

\* Dimensions, not a score.
Profile(cs) ==
    LET authoritative == {c \in cs : c.envelope.authoritative}
        incomplete == {c \in cs : c.envelope.status # "COMPLETE"}
        some(freshness) == \E c \in cs : c.envelope.freshness = freshness
    IN  [authority |-> IF authoritative = cs THEN "High"
                       ELSE IF authoritative = {} THEN "Low" ELSE "Mixed",
         freshness |-> IF some("STALE") THEN "Stale" ELSE IF some("UNKNOWN") THEN "Aging" ELSE "Current",
         coverage |-> IF incomplete = {} THEN "Complete"
                      ELSE IF incomplete = cs THEN "Insufficient" ELSE "Partial"]

WorstStatus(cs) ==
    LET statuses == {c.envelope.status : c \in cs}
    IN  CASE "NOT_COMPUTABLE" \in statuses -> "NOT_COMPUTABLE"
          [] "NOT_COMPUTABLE" \notin statuses /\ (statuses = {} \/ "PROVISIONAL" \in statuses) -> "PROVISIONAL"
          [] OTHER -> "COMPLETE"

AuthorityOf(cs, caveats) ==
    IF caveats = {} /\ \A c \in cs : IsFullyAuthoritative(c.envelope)
    THEN "AUTHORITATIVE" ELSE "QUALIFIED"

MissingEvidence(cs) ==
    {c \in cs : c.envelope.state \in {"NOT_COMPUTABLE", "CONFIGURATION_ERROR"}}

-----------------------------------------------------------------------------
Refusal(reason) ==
    [refused |-> reason, claims |-> {}, prose |-> {}, why |-> {}, caveats |-> {}, missing |-> {},
     status |-> "NOT_COMPUTABLE", authority |-> "NOT_AUTHORITATIVE", classification |-> "NOT_ANSWERABLE",
     gaps |-> {}, profile |-> None]

Init ==
    /\ view \in Views /\ asked = None /\ stage = "idle" /\ claims = {} /\ lost = 0
    /\ prose = {} /\ composer = "template" /\ response = None

Ask(q) ==
    /\ stage = "idle" /\ asked' = q /\ stage' = "asked" /\ response' = None
    /\ claims' = {} /\ lost' = 0 /\ prose' = {} /\ composer' = "template"
    /\ UNCHANGED view

Decline(reason) ==
    /\ response' = Refusal(reason) /\ stage' = "idle"
    /\ UNCHANGED <<view, asked, prose, composer>>

\* A project outside the caller's set, one that does not exist and one with nothing to tell are
\* refused alike.
Retrieve ==
    /\ stage = "asked"
    /\ IF asked.project \notin Authorised \/ Denies(asked.shape, view)
       THEN Decline("UNAUTHORIZED") /\ UNCHANGED <<claims, lost>>
       ELSE /\ claims' = ClaimsFor(asked.shape, ToolClaims(asked.shape, view))
            /\ stage' = "retrieved"
            /\ UNCHANGED <<view, asked, lost, prose, composer, response>>

\* Neutralised once, before anything licenses, composes or validates; then what must be there.
Ground ==
    /\ stage = "retrieved"
    /\ LET read == {[c EXCEPT !.text = Neutralise(c.text)] : c \in claims}
           kept == {c \in read : ~FullyRedacted(c.text)}
       IN  /\ claims' = kept /\ lost' = Cardinality(claims) - Cardinality(kept)
           /\ IF kept = {} THEN Decline("METRIC_NOT_COMPUTABLE")
              ELSE IF MissingRequired(asked.shape, kept) # {} THEN Decline("INSUFFICIENT_EVIDENCE")
              ELSE /\ prose' = Compose(asked.shape, kept) /\ stage' = "composed"
                   /\ UNCHANGED <<view, asked, composer, response>>

\* A model rewrites it, or does not; what the claims do not license is discarded, never repaired.
\* A blank is not taken, except by the older entry.
Narrate(said) ==
    /\ stage = "composed" /\ composer = "template"
    /\ stage' = "narrated"
    /\ IF (said # {} \/ asked.entry = "intent") /\ Findings(said, claims) = {}
       THEN prose' = said /\ composer' = "model" ELSE UNCHANGED <<prose, composer>>
    /\ UNCHANGED <<view, asked, claims, lost, response>>

\* The validator runs on whatever is about to ship.
Ship ==
    /\ stage \in {"composed", "narrated"}
    /\ LET caveats == DeriveCaveats(claims)
           answerability == Answerability(Classify(claims), IF asked.entry = "plan" THEN lost ELSE 0)
       IN  IF Leaks(prose) THEN Decline("UNAUTHORIZED")
           ELSE IF Findings(prose, claims) # {} THEN Decline("INSUFFICIENT_EVIDENCE")
           ELSE /\ response' =
                    [refused |-> None, claims |-> claims, prose |-> prose,
                     why |-> Why(asked.shape, claims), caveats |-> caveats,
                     missing |-> MissingEvidence(claims), status |-> WorstStatus(claims),
                     authority |-> AuthorityOf(claims, caveats),
                     classification |-> answerability.classification, gaps |-> answerability.gaps,
                     profile |-> Profile(claims)]
                /\ stage' = "idle" /\ UNCHANGED <<view, asked, prose, composer>>
    /\ UNCHANGED <<claims, lost>>

Next ==
    \/ \E q \in Questions : Ask(q)
    \/ Retrieve \/ Ground \/ Ship
    \/ \E said \in Narrations : Narrate(said)

Spec == Init /\ [][Next]_vars

-----------------------------------------------------------------------------
(* Properties of what ships *)

Shipped == response # None /\ response.refused = None

\* Every variable stays within its kind of value; a refusal says nothing of anything.
TypeOK ==
    /\ view \in Views /\ asked \in Questions \cup {None} /\ lost \in 0..8
    /\ stage \in {"idle", "asked", "retrieved", "composed", "narrated"}
    /\ composer \in {"template", "model"}
    /\ response # None /\ ~Shipped => response.claims = {} /\ response.authority = "NOT_AUTHORITATIVE"

\* What a stored text says only as an instruction reaches nothing a reader sees, whoever writes the
\* answer: it does not license itself (orchestrator.ts "a payload cannot license itself").
PlantedStaysOut ==
    Shipped =>
        LET found == ToolClaims(asked.shape, view)
            governed == UNION {TokensOf({s \in c.text : ~s.instruction}) : c \in found}
            planted == Texts(found) \ governed
        IN  planted \cap (response.prose \cup UNION {TokensOf(t) : t \in response.why}
                          \cup UNION {TokensOf(t) : t \in response.gaps} \cup Texts(response.missing)) = {}

\* Forced by an override and reached by the model, fired and not fired, are told apart, and every
\* override the surface lists as fired is claimed (project-tools.ts executiveHealth).
OverridesAreNamed ==
    Shipped /\ asked.shape = "project.health" =>
        LET said == Texts(response.claims)
        IN  /\ "no override fired" \in said => view.fired = {}
            /\ "forced" \in said => view.decidedBy = "POLICY_OVERRIDE"
            /\ \A r \in view.fired : \E c \in response.claims : Is(c, "rag:override", r)
            /\ composer = "template" => view.fired \subseteq response.prose

\* Zero, absent, unbounded, not applicable and misconfigured inputs each keep their own reading:
\* a claim, a caveat of its kind, and a place among what is missing (ADR-0028, CS-5 to CS-8).
ReadingsAreNotFlattened ==
    Shipped /\ asked.shape = "project.health" =>
        \A i \in DOMAIN view.inputs : view.inputs[i] # "OBSERVED" =>
            /\ \E c \in response.claims : Is(c, "input", i) /\ c.envelope.state = view.inputs[i]
            /\ view.inputs[i] \in {"NOT_COMPUTABLE", "CONFIGURATION_ERROR"} =>
                  <<"CS-5", view.inputs[i]>> \in response.caveats
                  /\ \E c \in response.missing : c.name = i
            /\ view.inputs[i] = "KNOWN_ZERO" => <<"CS-7">> \in response.caveats
            /\ view.inputs[i] = "UNBOUNDED" => <<"CS-8">> \in response.caveats
            /\ response.authority # "AUTHORITATIVE"

\* The four judgements of one answer do not contradict each other, though each is made on its own
\* (compose.ts authorityOf, worstStatus; answerability.ts classify, profile).
JudgementsAgree ==
    Shipped =>
        /\ response.authority = "AUTHORITATIVE" =>
              /\ response.profile = [authority |-> "High", freshness |-> "Current", coverage |-> "Complete"]
              /\ response.missing = {} /\ response.status = "COMPLETE"
        /\ response.status = "COMPLETE" <=> response.profile.coverage = "Complete"
        /\ response.status = "NOT_COMPUTABLE" => response.classification # "ANSWERABLE"
        /\ response.classification = "ANSWERABLE" <=> response.gaps = {}

\* A claim the content rule took is told of or was never needed: nothing that must be said is
\* missing, an answer short of a claim is not called whole, and an action that is not counted is
\* never left without its "not counted" (orchestrator.ts "reported, not silently dropped").
RedactionsAreTold ==
    Shipped =>
        /\ MissingRequired(asked.shape, response.claims) = {}
        /\ asked.shape = "project.health" => \A n \in {"final", "composite", "mechanism", "controls"} :
              \E c \in response.claims : Is(c, "rag", n)
        /\ lost > 0 /\ asked.entry = "plan" => response.classification # "ANSWERABLE"
        /\ asked.shape = "project.recovery" /\ view.recovery # None =>
              \A a \in view.recovery : \A c \in response.claims :
                  Is(c, "recovery:action", a.id) /\ ~a.counted =>
                      "not counted" \in TokensOf(c.text) /\ <<"CS-6">> \in response.caveats

\* A late-detection figure is reported and never concluded from, and a causal word stands only where
\* a cause or a rule does and never over a residual (DR-059, validator.ts D7).
ReportedNeverConcluded ==
    Shipped =>
        /\ asked.shape = "project.confidence" =>
              <<"CS-1">> \in response.caveats /\ response.authority = "QUALIFIED"
        /\ response.prose \cap Banned = {} /\ ~Leaks(response.prose)
        /\ response.prose \cap Causal # {} =>
              asked.shape \in {"project.margin", "project.health", "project.forwardRisk"}
=============================================================================
