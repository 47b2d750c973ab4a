-------------------------- MODULE QuestionPlanning --------------------------
(***************************************************************************)
(* From a question to a plan that may be executed: the grammar reads it,   *)
(* a model is asked where the grammar has run out, the filters on the      *)
(* screen are merged in, and the validator decides.  A question is the set *)
(* of the phrases said in it, one of each kind the patterns tell apart,    *)
(* with the identifiers said first; which pattern a phrase matches is read *)
(* off the patterns.  The question is said a phrase at a time and planned  *)
(* after each.                                                             *)
(***************************************************************************)
EXTENDS Integers, Sequences, FiniteSets

LOCAL INSTANCE FiniteSetsExt

CONSTANTS
    Phrases,        \* those said in the behaviours explored
    MaxPhrases,     \* bound: phrases in a question
    Scopes,         \* what callers may see: sets of projects
    Surfaces,       \* regions the page may be filtered to
    Proposals,      \* what a model may answer: see ReadProposedPlan
    None

Atlas1 == "prj-001"
Atlas2 == "prj-002"
Beacon == "prj-003"
Projects == {Atlas1, Atlas2, Beacon}
Regions == {"North America", "LATAM"}
Industries == {"Mobility"}
KnownMetrics == {"MET-FIN-008"}
MetricIds == KnownMetrics \cup {"MET-XX-999"}
LimitMax == 50
DefaultLimit == 10
MaxValues == 12

VARIABLES
    question,   \* phrases said
    first,      \* [project, metric]: the identifier of each kind said first
    planned,    \* what the grammar made of them
    proposal,   \* what the model made of them, None unless it was asked
    verdict,    \* [plan, rejections]: what the validator said
    scope, surface

vars == <<question, first, planned, proposal, verdict, scope, surface>>

-----------------------------------------------------------------------------
(* The patterns: the first that matches decides *)

Says(q, phrases) == q \cap phrases # {}

FirstMatch(q, patterns, otherwise) ==
    LET hits == {i \in DOMAIN patterns : Says(q, patterns[i][2])}
    IN  IF hits = {} THEN otherwise ELSE patterns[Min(hits)][1]

ShapePatterns == <<
    <<"metric.definition", {"definition of"}>>,
    <<"source.dataQuality", {"data quality"}>>,
    <<"knowledge.document", {"the sow"}>>,
    <<"project.milestones", {"next milestone"}>>,
    <<"population.change", {"what changed"}>>,
    <<"population.concentration", {"concentrated", "by account"}>>,
    <<"population.reportedGreenRisk", {"reported green"}>>,
    <<"population.emergingRisk", {"quietly"}>>,
    <<"population.recovering", {"recovering"}>>,
    <<"population.compare", {"compare"}>>,
    <<"population.aggregate", {"overall"}>>,
    <<"project.recovery", {"recover"}>>,
    <<"project.margin", {"margin erosion"}>>,
    <<"project.burn", {"burn ahead"}>>,
    <<"project.scope", {"scope creep"}>>,
    <<"project.confidence", {"how sure"}>>,
    <<"project.forwardRisk", {"60-day amber", "going to turn"}>>,
    <<"population.rank", {"worst", "three biggest", "which one has the greatest"}>>,
    <<"project.health", {"why is", "red projects", "green today"}>>,
    <<"population.list", {"which projects"}>> >>

Shapes == {ShapePatterns[i][1] : i \in DOMAIN ShapePatterns}

ProjectShapes == {"project.health", "project.margin", "project.burn", "project.scope",
                  "project.confidence", "project.forwardRisk", "project.recovery",
                  "project.milestones", "knowledge.document"}

Counterpart(shape) ==
    CASE shape = "project.confidence" -> "source.dataQuality"
      [] shape = "project.recovery" -> "population.recovering"
      [] shape \in ProjectShapes \ {"knowledge.document"} -> "population.list"
      [] OTHER -> shape

AsksForEmergingRisk == {"reported green", "quietly", "green today"}
PopulationPhrases == {"which projects", "red projects", "concentrated"}
BackReference == {"of those", "which one has the greatest"}
Singular == {"which one has the greatest"}

-----------------------------------------------------------------------------
(* Reading the conditions *)

Named(q, phrase, value) == IF phrase \in q THEN {value} ELSE {}

NoFilters == [region |-> {}, industry |-> {}, system |-> {}, reported |-> {}, trajectory |-> {},
              outlook60 |-> {}, drivers |-> {}, findings |-> {}, thresholds |-> {}, ids |-> {}]


Drivers(q) ==
    Named(q, "burn ahead", "burn-ahead-of-progress") \cup Named(q, "scope creep", "scope-leakage")
    \cup Named(q, "margin erosion", "margin-erosion")
    \cup (IF Says(q, {"deteriorating", "rapidly deteriorating"}) THEN {"deteriorating"} ELSE {})

\* A bare colour is the system's band, unless a band was qualified.
ReadFilters(q) ==
    [region |-> Named(q, "north america", "North America") \cup Named(q, "latam", "LATAM"),
     industry |-> Named(q, "automotive", "Mobility"),
     system |-> IF "reported green" \in q THEN {} ELSE Named(q, "red projects", "RED"),
     reported |-> Named(q, "reported green", "GREEN"),
     trajectory |-> (IF "rapidly deteriorating" \in q THEN {"RAPIDLY_DETERIORATING"}
                     ELSE Named(q, "deteriorating", "DETERIORATING"))
                    \cup Named(q, "recovering", "IMPROVING"),
     outlook60 |-> Named(q, "60-day amber", "AMBER"),
     drivers |-> Drivers(q),
     findings |-> Named(q, "reported green", "reportedGreenRisk")
                  \cup Named(q, "quietly", "emergingRisk") \cup Named(q, "recovering", "recovering"),
     thresholds |-> Named(q, "lost more than three points", "gmErosion"),
     ids |-> {}]

HasAnyFilter(f) == f # NoFilters

\* Full names, the longest first, with the phrases that contain them.
FullNames == <<
    <<Beacon, {"Beacon Data Modernisation"}>>,
    <<Atlas1, {"Atlas Platform R2"}>>,
    <<Atlas2, {"Atlas Platform", "Atlas Platform R2"}>> >>

\* The identifier said first, then the longest full name, then a leading word only one project has.
ReadProject(q, said) ==
    LET heads == (IF "Atlas" \in q THEN {Atlas1, Atlas2} ELSE {}) \cup Named(q, "Beacon", Beacon)
        head == IF Cardinality(heads) = 1 THEN CHOOSE p \in heads : TRUE ELSE None
    IN  IF said.project # None THEN said.project ELSE FirstMatch(q, FullNames, head)

ReadTime(q) ==
    FirstMatch(q, <<<<"day60", {"60-day amber"}>>, <<"previousPeriod", {"since last month"}>>>>, "current")

ReadSort(q, shape) ==
    FirstMatch(q, <<<<"economicExposure", {"which one has the greatest", "three biggest"}>>,
                    <<"milestoneProximity", {"next milestone"}>>,
                    <<"recovery", {"recover", "recovering"}>>>>,
               IF shape = "population.rank" THEN "interventionPriority" ELSE "economicExposure")

\* "Where is margin erosion concentrated?" names the condition and asks where.
ReadGroup(q, shape, f) ==
    CASE shape \notin {"population.concentration", "population.compare"} -> None
      [] "by account" \in q -> "account"
      [] shape = "population.concentration" /\ f.drivers = {} /\ f.findings = {} -> "driver"
      [] OTHER -> "region"

ReadLimit(q, otherwise) ==
    IF "three biggest" \in q THEN 3 ELSE IF Says(q, Singular) THEN 1 ELSE otherwise

DefaultLimitFor(shape) ==
    CASE shape \in {"population.rank", "population.compare"} -> 5
      [] shape = "population.list" -> LimitMax
      [] OTHER -> DefaultLimit

\* What a shape implies is added, and shown in the scope line.
WithShapeImpliedFilters(shape, f) ==
    LET implied == CASE shape = "population.reportedGreenRisk" -> {"reportedGreenRisk"}
                     [] shape = "population.emergingRisk" -> {"emergingRisk"}
                     [] shape = "population.recovering" -> {"recovering"}
                     [] OTHER -> {}
    IN  [f EXCEPT !.findings = @ \cup implied]

-----------------------------------------------------------------------------
(* The plan *)

EmptyPlan(shape) ==
    [shape |-> shape, filters |-> NoFilters, time |-> "current", sort |-> "interventionPriority",
     limit |-> DefaultLimit, group |-> None, project |-> None, metric |-> None, evidence |-> None,
     origin |-> "DETERMINISTIC"]

Declined(reason) == [plan |-> None, reason |-> reason, refinement |-> FALSE]
Refinement(plan) ==
    [plan |-> [plan EXCEPT !.origin = "CONVERSATION_REFINEMENT"], reason |-> None, refinement |-> TRUE]

\* Mutation: what a question is about is asked before what it wants.
GuardLate(q) == IF "set it to green" \in q /\ ~Says(q, {"which projects", "worst"}) THEN "MUTATION_REQUEST" ELSE None

\* Declined whatever else the question matches.
Guard(q) ==
    FirstMatch(q, <<<<"OUT_OF_DOMAIN", {"your instructions"}>>, <<"PROBABILITY_REQUEST", {"how likely"}>>,
                    <<"MUTATION_REQUEST", {"set it to green"}>>>>, None)

IsRefinement(q) == Says(q, BackReference \cup {"only"}) \/ q = {"why?"}

\* The shape the pattern names, the population form of it where a set was named and no project was.
ShapeOf(q, f, project) ==
    LET shape == FirstMatch(q, ShapePatterns,
                     IF Says(q, PopulationPhrases) /\ HasAnyFilter(f) THEN "population.list" ELSE None)
        set == Says(q, PopulationPhrases) \/ f.region # {} \/ f.industry # {}
    IN  IF shape \in ProjectShapes /\ project = None /\ set
        THEN IF shape = "project.forwardRisk" /\ Says(q, AsksForEmergingRisk)
             THEN "population.emergingRisk" ELSE Counterpart(shape)
        ELSE shape

PlanQuestion(q, said) ==
    LET f == ReadFilters(q)
        project == ReadProject(q, said)
        shape == ShapeOf(q, f, project)
    IN  CASE Guard(q) # None -> Declined(Guard(q))
          [] q = {"why?"} -> Refinement(EmptyPlan("project.health"))
          [] shape = None /\ IsRefinement(q) ->
                Refinement([EmptyPlan("population.list") EXCEPT !.filters = f,
                               !.sort = ReadSort(q, "population.list"),
                               !.limit = ReadLimit(q, DefaultLimit)])
          [] shape = None -> Declined("OUT_OF_DOMAIN")
          [] shape \in ProjectShapes /\ project = None ->
                IF IsRefinement(q) THEN Refinement([EmptyPlan(shape) EXCEPT !.filters = f])
                ELSE Declined("PROJECT_NOT_NAMED")
          [] OTHER ->
                LET plan == [EmptyPlan(shape) EXCEPT
                               !.filters = WithShapeImpliedFilters(shape, f),
                               !.time = ReadTime(q), !.sort = ReadSort(q, shape),
                               !.limit = ReadLimit(q, DefaultLimitFor(shape)),
                               !.group = ReadGroup(q, shape, f), !.project = project,
                               !.metric = said.metric,
                               !.evidence = IF shape = "knowledge.document" THEN q ELSE None]
                IN  IF IsRefinement(q) THEN Refinement(plan)
                    ELSE [plan |-> plan, reason |-> None, refinement |-> FALSE]

-----------------------------------------------------------------------------
(* The model *)

\* Mutation: what the model named is used as it was named.
ReadProposedPlanAsNamed(raw) ==
    [EmptyPlan(raw.shape) EXCEPT !.filters.region = raw.regions, !.limit = raw.limit,
        !.filters.thresholds = raw.thresholds, !.project = raw.project, !.origin = "MODEL_PROPOSED"]

\* A field in the wrong vocabulary is dropped; what is plausible is kept for the validator.  A
\* threshold is never the model's.
ReadProposedPlan(raw) ==
    IF raw.shape \notin Shapes THEN None
    ELSE [EmptyPlan(raw.shape) EXCEPT !.filters.region = raw.regions, !.project = raw.project,
             !.limit = IF raw.limit = None THEN @ ELSE raw.limit, !.origin = "MODEL_PROPOSED"]

\* Only where the grammar has run out, and only what can be used.
AssistPlan(grammar, raw) ==
    IF raw = None THEN grammar.plan ELSE ReadProposedPlan(raw)

\* A dimension the question leaves open is the screen's.
MergeSurfaceFilters(plan, region) ==
    [plan EXCEPT !.filters.region = IF @ = {} THEN region ELSE @]

-----------------------------------------------------------------------------
(* The validator *)

Rejections(plan, authorised) ==
    {code \in {"LIMIT_OUT_OF_RANGE", "UNKNOWN_FILTER_VALUE", "PROJECT_REQUIRED",
               "PROJECT_NOT_AUTHORISED", "SCOPE_EXCEEDS_CALLER", "UNKNOWN_METRIC",
               "EVIDENCE_QUERY_TOO_LONG", "TOO_MANY_FILTER_VALUES"} :
        CASE code = "LIMIT_OUT_OF_RANGE" -> plan.limit \notin 1..LimitMax
          [] code = "UNKNOWN_FILTER_VALUE" -> ~(plan.filters.region \subseteq Regions)
          [] code = "PROJECT_REQUIRED" -> plan.shape \in ProjectShapes /\ plan.project = None
          [] code = "PROJECT_NOT_AUTHORISED" -> plan.project \notin authorised \cup {None}
          [] code = "SCOPE_EXCEEDS_CALLER" -> ~(plan.filters.ids \subseteq authorised)
          [] code = "UNKNOWN_METRIC" -> plan.metric \notin KnownMetrics \cup {None}
          [] code = "EVIDENCE_QUERY_TOO_LONG" -> plan.evidence # None /\ "at length" \in plan.evidence
          [] code = "TOO_MANY_FILTER_VALUES" -> Cardinality(plan.filters.region) > MaxValues}

Verdict(plan) ==
    IF plan = None THEN [plan |-> None, rejections |-> {}]
    ELSE LET candidate == MergeSurfaceFilters(plan, surface)
             wrong == Rejections(candidate, scope)
         IN  [plan |-> IF wrong = {} THEN candidate ELSE None, rejections |-> wrong]

-----------------------------------------------------------------------------
Init ==
    /\ question = {} /\ first = [project |-> None, metric |-> None] /\ planned = Declined("OUT_OF_DOMAIN") /\ proposal = None
    /\ verdict = [plan |-> None, rejections |-> {}]
    /\ scope \in Scopes /\ surface \in Surfaces

SaidFirst(before, phrase, ids) == IF before = None /\ phrase \in ids THEN phrase ELSE before

\* The question with one phrase more, an identifier after those it has, and no model configured.
Say(phrase) ==
    /\ phrase \notin question /\ Cardinality(question) < MaxPhrases
    /\ question' = question \cup {phrase}
    /\ first' = [project |-> SaidFirst(first.project, phrase, Projects),
                 metric |-> SaidFirst(first.metric, phrase, MetricIds)]
    /\ planned' = PlanQuestion(question', first') /\ proposal' = None
    /\ verdict' = Verdict(planned'.plan)
    /\ UNCHANGED <<scope, surface>>

\* The same question where a model is: asked when nothing matched, whatever it answers.
Propose(raw) ==
    /\ planned.plan = None /\ planned.reason = "OUT_OF_DOMAIN" /\ proposal = None
    /\ proposal' = raw
    /\ verdict' = Verdict(AssistPlan(planned, raw))
    /\ UNCHANGED <<question, first, planned, scope, surface>>

Next == (\E phrase \in Phrases : Say(phrase)) \/ (\E raw \in Proposals : Propose(raw))

Spec == Init /\ [][Next]_vars

-----------------------------------------------------------------------------
(* Properties *)

\* Every variable stays within its kind of value.
TypeOK ==
    /\ question \subseteq Phrases
    /\ first.project \in question \cup {None} /\ first.metric \in question \cup {None}
    /\ Cardinality(question) <= MaxPhrases
    /\ planned.plan # None => planned.plan.shape \in Shapes /\ planned.plan.limit \in 1..LimitMax
    /\ verdict.plan # None => verdict.rejections = {}
    /\ scope \in Scopes /\ surface \in Surfaces

\* What a phrase says of the population, by the dimension it says it of.
Conditions(phrase) ==
    CASE phrase = "north america" -> {<<"region", "North America">>}
      [] phrase = "latam" -> {<<"region", "LATAM">>}
      [] phrase = "automotive" -> {<<"industry", "Mobility">>}
      [] phrase = "red projects" -> {<<"system", "RED">>}
      [] phrase = "reported green" -> {<<"reported", "GREEN">>, <<"findings", "reportedGreenRisk">>}
      [] phrase = "deteriorating" -> {<<"trajectory", "DETERIORATING">>, <<"drivers", "deteriorating">>}
      [] phrase = "rapidly deteriorating" ->
            {<<"trajectory", "RAPIDLY_DETERIORATING">>, <<"drivers", "deteriorating">>}
      [] phrase = "recovering" -> {<<"trajectory", "IMPROVING">>, <<"findings", "recovering">>}
      [] phrase = "60-day amber" -> {<<"outlook60", "AMBER">>}
      [] phrase = "burn ahead" -> {<<"drivers", "burn-ahead-of-progress">>}
      [] phrase = "scope creep" -> {<<"drivers", "scope-leakage">>}
      [] phrase = "margin erosion" -> {<<"drivers", "margin-erosion">>}
      [] phrase = "quietly" -> {<<"findings", "emergingRisk">>}
      [] phrase = "lost more than three points" -> {<<"thresholds", "gmErosion">>}
      [] OTHER -> {}

\* What another phrase drives out: a bare colour goes beside a reported one, the milder of two
\* trajectories beside the other.
DrivenOut(q) ==
    (IF "reported green" \in q THEN {<<"system", "RED">>} ELSE {})
    \cup (IF "rapidly deteriorating" \in q THEN {<<"trajectory", "DETERIORATING">>} ELSE {})

\* A plan made of a question carries every condition said in it, in whatever company, but for the
\* two that are driven out, and none that was not said: the screen's region only where the
\* question names none, emerging risk only where something is called healthy and recovery only
\* where it is asked about (planner.ts: each "works in any question containing it", which those
\* two do not; withShapeImpliedFilters).
NothingSaidIsDropped ==
    proposal = None /\ verdict.plan # None =>
        LET said == UNION {Conditions(phrase) : phrase \in question} \ DrivenOut(question)
            carried == UNION {{d} \X verdict.plan.filters[d] : d \in DOMAIN NoFilters}
            screen == IF "region" \in {c[1] : c \in said} THEN {} ELSE {"region"} \X surface
            implied == {<<"findings", f>> :
                f \in (IF Says(question, AsksForEmergingRisk) THEN {"emergingRisk"} ELSE {})
                      \cup Named(question, "recover", "recovering")}
        IN  said \cup screen \subseteq carried /\ carried \subseteq said \cup screen \cup implied

\* What the grammar plans the validator accepts, except what the caller may not see, a metric no
\* catalogue has, evidence asked for at length, and a follow-up that has nothing to follow.
PlansAreExecutable ==
    proposal = None =>
        /\ verdict.rejections \subseteq {"PROJECT_NOT_AUTHORISED", "UNKNOWN_METRIC",
                                         "EVIDENCE_QUERY_TOO_LONG", "PROJECT_REQUIRED"}
        /\ "PROJECT_REQUIRED" \in verdict.rejections => planned.refinement

\* A plan is about a project only if the question names it, and never by a weaker name where a
\* stronger one is said: by no name beside an identifier, by no name within a longer one, by a
\* leading word only where one project has it and no name is said in full.  Of two identifiers,
\* or two full names, the plan is about one and says nothing of the other (readProjectId: "Two
\* projects sharing a leading token is an ambiguity").
ProjectsAreNeverGuessed ==
    planned.plan # None =>
        LET project == planned.plan.project
            ids == question \cap {"prj-002", "prj-003"}
            names == question \cap {"Atlas Platform", "Atlas Platform R2", "Beacon Data Modernisation"}
        IN  /\ project \in Projects \cup {None}
            /\ project # None /\ ids # {} => project \in ids
            /\ project = Atlas1 => "Atlas Platform R2" \in names /\ "Beacon Data Modernisation" \notin names
            /\ project = Atlas2 /\ ids = {} => names = {"Atlas Platform"}
            /\ project = Beacon /\ ids = {} =>
                  \/ "Beacon Data Modernisation" \in names
                  \/ names = {} /\ "Beacon" \in question /\ "Atlas" \notin question

\* A request to change something or to guess a likelihood is never planned, by the grammar or by
\* a model, whatever else is said with it (assistPlan: a proposal must never overturn a refusal).
RefusalsStand ==
    Says(question, {"how likely", "set it to green"}) =>
        planned.plan = None
        /\ (verdict.plan # None => "your instructions" \in question)

\* What a model proposes is run only within the caller's scope and the governed vocabulary, for no
\* more rows than a reader could ask for, and never by a figure of its own (readProposedPlan).
ModelsOnlyRead ==
    verdict.plan # None /\ proposal # None =>
        /\ planned.plan = None
        /\ verdict.plan.project \in scope \cup {None} /\ verdict.plan.filters.region \subseteq Regions
        /\ verdict.plan.filters.thresholds = {} /\ verdict.plan.limit \in 1..LimitMax
        /\ verdict.plan.shape \in ProjectShapes => verdict.plan.project # None

\* A concentration is not grouped by the condition the question already fixes (readGroup).
GroupingSaysSomething ==
    verdict.plan # None /\ verdict.plan.group = "driver" =>
        planned.plan.filters.drivers = {} /\ verdict.plan.filters.findings = {}
=============================================================================
