---------------------------- MODULE MCPlatform ----------------------------
(***************************************************************************)
(* The platform: the parts of MCService, and beside them the planner, the  *)
(* file readers and what an answer is made of.                             *)
(*                                                                         *)
(* They share no state, so a behaviour is about one of them and the        *)
(* others rest.                                                            *)
(***************************************************************************)
EXTENDS MCService, TLAPS

CONSTANT Parts   \* the parts explored; with one of them, that part alone

VARIABLES
    planning_question, planning_first, planning_planned, planning_proposal, planning_verdict,
    planning_scope, planning_surface,
    population_fact, population_scope, population_commercial, population_plan,
    population_answer, population_those,
    reading_format, reading_pieces, reading_reading,
    grounding_view, grounding_asked, grounding_stage, grounding_claims, grounding_lost,
    grounding_prose, grounding_composer, grounding_response

planningVars == <<planning_question, planning_first, planning_planned, planning_proposal,
                  planning_verdict, planning_scope, planning_surface>>
populationVars == <<population_fact, population_scope, population_commercial, population_plan,
                    population_answer, population_those>>
readingVars == <<reading_format, reading_pieces, reading_reading>>
groundingVars == <<grounding_view, grounding_asked, grounding_stage, grounding_claims,
                   grounding_lost, grounding_prose, grounding_composer, grounding_response>>

others == <<planningVars, populationVars, readingVars, groundingVars>>
vars == <<serviceVars, others>>

-----------------------------------------------------------------------------
SaidPhrases ==
    {"reported green", "quietly", "recovering", "recover", "margin erosion", "burn ahead",
     "scope creep", "how sure", "60-day amber", "next milestone", "concentrated", "by account",
     "worst", "three biggest", "which one has the greatest", "why is", "red projects",
     "which projects", "only", "why?", "latam", "lost more than three points", "deteriorating",
     "rapidly deteriorating", "green today", "Atlas", "Atlas Platform",
     "Atlas Platform R2", "Beacon", "Beacon Data Modernisation", "prj-002", "prj-003", "the sow",
     "at length", "definition of", "MET-FIN-008",
     "MET-XX-999", "how likely", "set it to green"}

ModelAnswers ==
    [shape: {"population.rank", "project.health", "junk"}, regions: {{}, {"Atlantis"}},
     project: {"prj-001", "prj-002", Null}, limit: {Null, 99}, thresholds: {{"gmErosion"}}]

Planning == INSTANCE QuestionPlanning WITH
    Phrases <- SaidPhrases, MaxPhrases <- 3, Scopes <- {{"prj-001", "prj-003"}},
    Surfaces <- {{}, {"LATAM"}}, Proposals <- ModelAnswers, None <- Null,
    question <- planning_question, first <- planning_first, planned <- planning_planned,
    proposal <- planning_proposal, verdict <- planning_verdict, scope <- planning_scope,
    surface <- planning_surface

-----------------------------------------------------------------------------
Row(priority, region, reported, system, o30, o60, trajectory, sold, forecast, burn, exposure, atRisk) ==
    [priority |-> priority, region |-> region, reported |-> reported, system |-> system,
     o30 |-> o30, o60 |-> o60, trajectory |-> trajectory, material |-> trajectory # "STABLE",
     sold |-> sold, forecast |-> forecast, burn |-> burn, scopeExposure |-> exposure,
     atRisk |-> atRisk, weeks |-> priority, contractValue |-> 100 * priority,
     revenue |-> 100 * priority, cost |-> 100 * priority - forecast, current |-> Null, prior |-> Null]
Period(revenue, cost) == [revenue |-> revenue, cost |-> cost]

ThreeProjects == <<
    {Row(1, "NA", "GREEN", "RED", "RED", "RED", "DETERIORATING", 30, 20, 10, 0, 9996),
     [Row(1, "NA", "GREEN", "GREEN", "GREEN", "AMBER", "IMPROVING", 30, 28, 0, 5, 10040)
        EXCEPT !.current = Period(100, 104), !.prior = Period(100, 98)]},
    {[Row(2, "EU", "AMBER", "GREEN", "AMBER", "RED", "RAPIDLY_DETERIORATING", 25, 12, 0, 5, 9990)
        EXCEPT !.current = Period(200, 190), !.prior = Period(200, 205)],
     [Row(2, "EU", "GREEN", "GREEN", "none", "none", "STABLE", 25, 25, 6, 0, 0)
        EXCEPT !.current = Period(200, 199), !.prior = Period(200, 198)]},
    {[Row(3, "NA", "GREEN", "AMBER", "AMBER", "AMBER", "IMPROVING", 40, 33, 0, 9, 10010)
        EXCEPT !.current = Period(300, 280), !.prior = Period(300, 290)]} >>

AllOf == [ids |-> {}, region |-> {}, system |-> {}, trajectory |-> {}, findings |-> {},
          drivers |-> {}, thresholds |-> {}]
Narrowings == {AllOf, [AllOf EXCEPT !.region = {"NA"}], [AllOf EXCEPT !.region = {"NA", "EU"}],
    [AllOf EXCEPT !.system = {"GREEN"}], [AllOf EXCEPT !.drivers = {"margin-erosion"}],
    [AllOf EXCEPT !.drivers = {"burn-ahead-of-progress", "deteriorating"}],
    [AllOf EXCEPT !.trajectory = {"IMPROVING"}],
    [AllOf EXCEPT !.findings = {"reportedGreenRisk"}],
    [AllOf EXCEPT !.thresholds = {[metric |-> "gmAtRisk", value |-> 10000]}]}
Asked(shapes, filters, sorts, limits, groups) ==
    [shape: shapes, filters: filters, sort: sorts, limit: limits, group: groups]
PopulationPlans ==
    Asked({"population.list", "project.compare"}, Narrowings, {"economicExposure"}, {2}, {Null})
    \cup Asked({"population.list", "population.rank"}, {AllOf}, {"gmErosion", "recovery"}, {1}, {Null})
    \cup Asked({"population.aggregate", "population.change", "population.recovering",
               "population.reportedGreenRisk", "population.emergingRisk", "population.compare"},
              Narrowings, {"trajectorySeverity"}, {1}, {Null})
    \cup Asked({"population.concentration"}, Narrowings, {"name"}, {2}, {"region", "driver"})
ThoseAsked == {q \in PopulationPlans : q.filters = AllOf}

Population == INSTANCE PopulationAnswers WITH
    Projects <- 1..3, Facts <- ThreeProjects, Plans <- PopulationPlans, FollowUps <- ThoseAsked,
    None <- Null,
    fact <- population_fact, scope <- population_scope, commercial <- population_commercial,
    plan <- population_plan, answer <- population_answer, those <- population_those

-----------------------------------------------------------------------------
Block(id, is, refs, marks, filter, shows) ==
    [id |-> id, is |-> is, refs |-> refs, marks |-> marks, filter |-> filter, shows |-> shows]
Catalog == Block(0, "catalog", <<1>>, {}, "none", <<>>)
Tree == Block(1, "tree", <<2, 3>>, {}, "none", <<>>)
Loop == Block(1, "tree", <<3, 1, 2, 3>>, {}, "none", <<>>)
PlainPage == Block(2, "page", <<4>>, {}, "none", <<>>)
PlainText == Block(4, "stream", <<>>, {}, "none", <<"w1", "gap", "w2", "show">>)
PdfBlocks ==
    {Catalog, PlainPage, PlainText, Block(1, "tree", <<2>>, {}, "none", <<>>),
     Block(2, "page", <<5, 4>>, {}, "none", <<>>), Block(3, "page", <<5>>, {"identityH"}, "none", <<>>),
     Block(3, "page", <<>>, {"image"}, "none", <<>>),
     Block(4, "stream", <<>>, {}, "Flate", <<"w2", "move", "w1">>),
     Block(5, "stream", <<>>, {}, "LZW", <<"w2", "show">>), Block(5, "stream", <<>>, {}, "broken", <<"w1", "show">>),
     Block(5, "stream", <<>>, {}, "Flate", <<"w1", "move">>), Block(9, "encryption", <<>>, {}, "none", <<>>)}

Entry(name, flags, sheets, targets, rows) ==
    [name |-> name, flags |-> flags, sheets |-> sheets, targets |-> targets, rows |-> rows]
Book == Entry(<<"workbook", 0>>, {}, <<[name |-> "s1", rid |-> "r1"], [name |-> "s2", rid |-> Null]>>, <<>>, "")
Rels == Entry(<<"rels", 0>>, {}, <<>>, <<<<"r1", <<"sheet", 1>>>>, <<"r1", <<"sheet", 2>>>>>>, "")
ArchiveEntries ==
    {Book, Rels, Entry(<<"sheet", 1>>, {}, <<>>, <<>>, "x"), Entry(<<"sheet", 2>>, {}, <<>>, <<>>, "y"),
     Entry(<<"sheet", 2>>, {}, <<>>, <<>>, "z"), Entry(<<"sheet", 1>>, {"method"}, <<>>, <<>>, "x"),
     Entry(<<"other", 0>>, {"encrypted"}, <<>>, <<>>, "")}

Held(column, value) == [column |-> column, t |-> "n", value |-> value, formula |-> FALSE]
Formula(column, value) == [column |-> column, t |-> "n", value |-> value, formula |-> TRUE]
RowOf(number, cells) == [number |-> number, closed |-> FALSE, cells |-> cells]
SheetRows ==
    {RowOf(1, <<Held("A", <<"a">>), Held("B", <<"7">>)>>),
     RowOf(1, <<Held("B", <<"a">>), Held("A", <<"a">>)>>), RowOf(1, <<Formula("A", Null)>>),
     RowOf(2, <<Held("A", <<"-", "a">>), Held("C", <<"a">>)>>), RowOf(3, <<Formula("B", Null)>>),
     RowOf(3, <<Formula("A", <<"-", "7">>)>>), RowOf(2, <<>>),
     RowOf(Null, <<[column |-> "A", t |-> "s", value |-> <<"1">>, formula |-> FALSE]>>),
     [number |-> 2, closed |-> TRUE, cells |-> <<>>]}
SharedStrings == "1" :> <<"=", "a">>

BegunFiles == "PDF" :> {<<Catalog, Tree>>, <<Catalog, Loop>>, <<PlainPage, PlainText>>}
           @@ "XLSX" :> {<<Book>>, <<Book, Rels>>} @@ "SHEET" :> {<<>>}
           @@ "TEXT" :> {<<>>, <<"a", "line", "-", "7">>, <<"=", "return">>}
PiecesOf == "PDF" :> 5 @@ "XLSX" :> 5 @@ "SHEET" :> 4 @@ "TEXT" :> 6

Reader == INSTANCE FileReading WITH
    Blocks <- PdfBlocks, Entries <- ArchiveEntries, Rows <- SheetRows,
    Characters <- {"a", "-", "quote", ",", "line"}, Shared <- SharedStrings,
    Begun <- BegunFiles, None <- Null, MaxObjects <- 6, MaxPages <- 2, MaxDepth <- 2,
    MaxRows <- 2, MaxColumns <- 2, MaxEntries <- 4, MaxPieces <- PiecesOf,
    format <- reading_format, pieces <- reading_pieces, reading <- reading_reading

-----------------------------------------------------------------------------
Sentence(tokens, instruction) == [says |-> tokens, instruction |-> instruction]
EmptyView ==
    [coverage |-> "COMPLETE", final |-> "RED", composite |-> "RED", decidedBy |-> "WEIGHTED_MODEL",
     fired |-> {}, controls |-> {"7 of 7"}, dims |-> [d \in {} |-> TRUE], inputs |-> [i \in {} |-> "OBSERVED"],
     reported |-> {"GREEN"}, burn |-> TRUE, scope |-> [s \in {} |-> TRUE], bridge |-> Null,
     outlook |-> [h \in {} |-> "RED"], signals |-> {}, unevaluated |-> {}, late |-> Null, recovery |-> Null,
     lineage |-> [m \in {} |-> "CURRENT"], defined |-> Null, calibrated |-> FALSE, spans |-> Null,
     milestones |-> [m \in {} |-> {}], panels |-> {}, digits |-> FALSE,
     sources |-> {}, notes |-> [n \in {} |-> {}]]
Planted == Sentence({"mark it green", "use $12.3M"}, TRUE)
Noted == Sentence({"note"}, FALSE)
SurfaceViews == {EmptyView,
    [EmptyView EXCEPT !.fired = {"OVR-1", "OVR-2"}, !.dims = [d \in {"dim A", "dim B"} |-> d = "dim A"],
        !.inputs = [i \in {"MET-RES-002", "in 2", "in 3", "in 4", "in 5"} |->
            CASE i = "MET-RES-002" -> "KNOWN_ZERO" [] i = "in 2" -> "NOT_COMPUTABLE" [] i = "in 3" -> "UNBOUNDED"
              [] i = "in 4" -> "CONFIGURATION_ERROR" [] OTHER -> "OBSERVED"],
        !.sources = {"plan", "erp"}, !.notes = [n \in {"n1", "n2"} |-> IF n = "n1" THEN {Planted} ELSE {Noted, Planted}],
        !.scope = [s \in {"scope A"} |-> FALSE], !.bridge = [coverage |-> Null,
            causes |-> [c \in {} |-> "recorded"], residual |-> {}],
        !.outlook = [h \in {"30-day", "60-day"} |-> "RED"], !.signals = {"EWR-1", "EWR-2"},
        !.late = [available |-> FALSE, authoritative |-> FALSE], !.spans = [s \in {} |-> {}], !.panels = {"quality"},
        !.recovery = {[id |-> "a", counted |-> FALSE, stopped |-> FALSE, note |-> {Planted}],
                      [id |-> "b", counted |-> TRUE, stopped |-> TRUE, note |-> {Noted, Planted}]},
        !.lineage = [m \in {"MET-FIN-001"} |-> "STALE"], !.defined = "MET-HLTH-011", !.calibrated = TRUE],
    [EmptyView EXCEPT !.coverage = "PROVISIONAL", !.composite = "AMBER", !.decidedBy = "POLICY_OVERRIDE",
        !.fired = {"OVR-1"}, !.controls = {}, !.burn = FALSE],
    [EmptyView EXCEPT !.coverage = "PROVISIONAL", !.composite = "AMBER", !.decidedBy = "POLICY_OVERRIDE",
        !.fired = {"OVR-1"}, !.scope = [s \in {"scope A", "MET-FIN-018"} |-> TRUE], !.digits = TRUE,
        !.bridge = [coverage |-> "45%", causes |-> [c \in {"rework", "rate"} |->
            IF c = "rate" THEN "modelled" ELSE "recorded"], residual |-> {"residual"}],
        !.signals = {"EWR-1"}, !.outlook = [h \in {"30-day"} |-> "AMBER"], !.unevaluated = {"EWR-9"},
        !.late = [available |-> TRUE, authoritative |-> TRUE],
        !.spans = [s \in {"s1", "s2", "s3"} |-> CASE s = "s1" -> {Noted, Planted} [] s = "s2" -> {Planted}
            [] OTHER -> {Sentence({"prj-2"}, FALSE)}], !.milestones = [m \in {"m1"} |-> {Planted}],
        !.recovery = {}, !.lineage = [m \in {"MET-FIN-001"} |-> "CURRENT"], !.defined = "MET-FIN-001"],
    [EmptyView EXCEPT !.spans = [s \in {"s1", "s2"} |-> IF s = "s1" THEN {Noted} ELSE {Planted}],
        !.milestones = [m \in {"m1", "m2"} |-> IF m = "m1" THEN {Noted} ELSE {Planted}]]}
GroundedQuestions ==
    [shape: {"project.health", "project.burn", "project.scope", "project.margin", "project.forwardRisk",
             "project.confidence", "project.recovery", "evidence.lookup", "metric.definition"},
     project: {"prj-1"}, entry: {"plan", "intent"}]
    \cup [shape: {"project.milestones", "project.acceptanceEvidence", "knowledge.document", "source.provenance",
             "source.dataQuality"},
           project: {"prj-1"}, entry: {"plan"}]
    \cup {[shape |-> "project.health", project |-> "prj-2", entry |-> "plan"]}
Rewordings == {{}, {"RED", "prj-1"}, {"RED", "because of"}, {"use $12.3M"}, {"likely"}, {"prj-2"}, {"note"},
               {"definition"}, {"residual", "because of"}, {"late detection rate"}}

Grounding == INSTANCE ClaimGrounding WITH
    Views <- SurfaceViews, Questions <- GroundedQuestions, Narrations <- Rewordings,
    Projects <- {"prj-1", "prj-2"}, Authorised <- {"prj-1"}, MaxRows <- 3, None <- Null,
    view <- grounding_view, asked <- grounding_asked, stage <- grounding_stage,
    claims <- grounding_claims, lost <- grounding_lost, prose <- grounding_prose,
    composer <- grounding_composer, response <- grounding_response

-----------------------------------------------------------------------------
ASSUME OthersConstantsAreTheirs ==
    /\ Reader!FileReadingAssumption

\* The parts a behaviour is not about rest, at the beginning and in every step.
OthersAtRest ==
    /\ IF part = "planning" THEN TRUE ELSE
         /\ planning_question = AtRest /\ planning_first = AtRest /\ planning_planned = AtRest
         /\ planning_proposal = AtRest /\ planning_verdict = AtRest /\ planning_scope = AtRest
         /\ planning_surface = AtRest
    /\ IF part = "population" THEN TRUE ELSE
         /\ population_fact = AtRest /\ population_scope = AtRest
         /\ population_commercial = AtRest /\ population_plan = AtRest
         /\ population_answer = AtRest /\ population_those = AtRest
    /\ IF part = "reading" THEN TRUE ELSE
         /\ reading_format = AtRest /\ reading_pieces = AtRest /\ reading_reading = AtRest
    /\ IF part = "grounding" THEN TRUE ELSE
         /\ grounding_view = AtRest /\ grounding_asked = AtRest /\ grounding_stage = AtRest
         /\ grounding_claims = AtRest /\ grounding_lost = AtRest /\ grounding_prose = AtRest
         /\ grounding_composer = AtRest /\ grounding_response = AtRest
OthersRest ==
    /\ ServiceRests
    /\ IF part = "planning" THEN TRUE ELSE UNCHANGED planningVars
    /\ IF part = "population" THEN TRUE ELSE UNCHANGED populationVars
    /\ IF part = "reading" THEN TRUE ELSE UNCHANGED readingVars
    /\ IF part = "grounding" THEN TRUE ELSE UNCHANGED groundingVars

Init ==
    /\ part \in Parts
    /\ ServiceAtRest /\ OthersAtRest
    /\ \/ ServiceStarts
       \/ part = "planning" /\ Planning!Init
       \/ part = "population" /\ Population!Init
       \/ part = "reading" /\ Reader!Init
       \/ part = "grounding" /\ Grounding!Init

PlanningStep == part = "planning" /\ Planning!Next /\ OthersRest
PopulationStep == part = "population" /\ Population!Next /\ OthersRest
ReaderStep == part = "reading" /\ Reader!Next /\ OthersRest
GroundingStep == part = "grounding" /\ Grounding!Next /\ OthersRest

Next ==
    \/ ServiceNext /\ UNCHANGED others
    \/ PlanningStep \/ PopulationStep \/ ReaderStep \/ GroundingStep

\* Handlers run on and a reading of the store has a time budget; time passes and
\* callers keep asking; a page's request is answered or given up; and who was
\* turned away reloads and types the code, while the runtime answers often enough.
Fairness ==
    /\ WF_processVars(part = "process" /\ (Process!Seed \/ Process!Hydrate))
    /\ \A r \in ProcessRequests : WF_processVars(part = "process" /\ Process!Step(r))
    /\ WF_limitsVars(part = "limits" /\ Limits!Tick)
    /\ \A c \in LimitsCallers : WF_limitsVars(part = "limits" /\ Limits!Ask(c))
    /\ \A c \in SurfaceCalls : WF_uploadVars(part = "impatient" /\ ImpatientUpload!Answer(c))
    /\ WF_signinVars(part = "insisting" /\ InsistingTab!Follow)
    /\ SF_signinVars(part = "insisting" /\ InsistingTab!Found)
    /\ SF_signinVars(part = "insisting" /\ InsistingTab!GateAnswers /\ signin_stored' # signin_stored)
    /\ WF_answerVars(part = "answer" /\ Answer!Next)

FairSpec == Init /\ [][Next]_vars /\ Fairness
Spec == Init /\ [][Next]_vars

-----------------------------------------------------------------------------
\* Every variable stays within its kind of value; no window counts past its limit
\* and no listing goes past its pages (gcp.ts, main.ts, dispatcher.ts, gl-upload.ts).
TypeOK ==
    /\ part = "collection" => Collection!TypeOK
    /\ part = "process" => Process!TypeOK
    /\ part = "fleet" => FleetOf!TypeOK
    /\ part = "limits" => Limits!TypeOK
    /\ part = "api" => Api!TypeOK
    /\ part = "signin" => Tab!TypeOK
    /\ part = "insisting" => InsistingTab!TypeOK
    /\ part = "audit" => Trail!TypeOK
    /\ part = "upload" => Upload!TypeOK
    /\ part = "impatient" => ImpatientUpload!TypeOK
    /\ part = "filter" => Filter!TypeOK
    /\ part = "documents" => Documents!TypeOK
    /\ part = "sheet" => Sheet!TypeOK
    /\ part = "identity" => Hub!TypeOK
    /\ part = "authority" => Authority!TypeOK
    /\ part = "connector" => Connector!TypeOK
    /\ part = "conversation" => Chat!TypeOK
    /\ part = "alone" => ChatAlone!TypeOK
    /\ part = "answer" => Answer!TypeOK
    /\ part = "planning" => Planning!TypeOK
    /\ part = "population" => Population!TypeOK
    /\ part = "reading" => Reader!TypeOK
    /\ part = "grounding" => Grounding!TypeOK

\* Every request to a process ends in an answer; a caller shut out by the first limit
\* is let in again; a file that is being parsed does not stay so; and a tab whose
\* token died is served again.
WaitingEnds ==
    /\ \A r \in ProcessRequests :
          (part = "process" /\ Process!UnderWay(r)) ~> (part = "process" => Process!At(r, "answered"))
    /\ \A c \in LimitsCallers :
          (part = "limits" /\ Limits!ShutOut(c)) ~> (part = "limits" => ~Limits!ShutOut(c))
    /\ (part = "impatient" /\ ImpatientUpload!Parsing)
          ~> (part = "impatient" => ~ImpatientUpload!Parsing)
    /\ (part = "insisting" /\ InsistingTab!TurnedAway)
          ~> (part = "insisting" => InsistingTab!Served)


\* What the assistant says of a population is what the caller's rows hold: wholes are their
\* parts, one label has one number, lists hold the largest, movements reconcile, and "those" are
\* who was spoken of (population-tools.ts, tools.ts, executor.ts); and of a project, what its
\* surfaces hold: no stored text licenses itself, no override, gap or redaction goes unsaid, and
\* the judgements of one answer agree (project-tools.ts, compose.ts, orchestrator.ts).
AnswersSayWhatWasFound ==
    /\ part = "population" =>
        /\ Population!WholesAreTheirParts /\ Population!OneLabelOneNumber
        /\ Population!ListsHoldTheLargest /\ Population!ConcentrationsHold
        /\ Population!MovementsReconcile /\ Population!ThoseAreThose
    /\ part = "grounding" =>
        /\ Grounding!PlantedStaysOut /\ Grounding!OverridesAreNamed
        /\ Grounding!ReadingsAreNotFlattened /\ Grounding!JudgementsAgree
        /\ Grounding!RedactionsAreTold /\ Grounding!ReportedNeverConcluded

\* A question is answered or fails, whichever providers do (routing.ts, main.ts).
EveryQuestionEnds == (part = "answer") ~> (part = "answer" => Answer!Ended)

-----------------------------------------------------------------------------
\* A behaviour of the platform is one of the service's parts, or of another part
\* while those rest: what is proved of the service holds of the platform.
THEOREM ServiceIsPart == Spec => ServiceSpec
<1>1. Init => ServiceInit
  BY DEF Init, ServiceInit, ServiceParts
<1>2. [Next]_vars => [ServiceNext]_serviceVars
  <2> SUFFICES ASSUME [Next]_vars PROVE ServiceNext \/ UNCHANGED serviceVars
    OBVIOUS
  <2>1. CASE UNCHANGED vars
    BY <2>1 DEF vars, serviceVars
  <2>2. CASE ServiceNext
    BY <2>2
  <2>3. ASSUME OthersRest, part \notin ServiceParts PROVE UNCHANGED serviceVars
    BY <2>3 DEF OthersRest, ServiceRests, ServiceParts, serviceVars
  <2>4. QED
    BY <2>1, <2>2, <2>3 DEF Next, ServiceParts,
      PlanningStep, PopulationStep, ReaderStep, GroundingStep
<1>3. QED
  BY <1>1, <1>2, PTL DEF Spec, ServiceSpec
=============================================================================
