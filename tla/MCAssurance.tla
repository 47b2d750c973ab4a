--------------------------- MODULE MCAssurance ---------------------------
(***************************************************************************)
(* The governed engines and the services that put them before a reader:    *)
(* each computes from governed facts, holds no state the others write, and *)
(* is recomputed when its facts change.  A behaviour is about one of them, *)
(* whose facts change while the others rest.                               *)
(***************************************************************************)
EXTENDS Integers, Sequences, FiniteSets, TLC

CONSTANTS
    Parts,     \* the parts explored; with one of them, that part alone
    AtRest,    \* what the variables of the other parts hold
    Null       \* no value, where a component leaves its representation open

VARIABLES
    part,   \* the part a behaviour is about; it never changes
    health_readings, health_facts, health_reported, health_hold, health_assessment,
    warning_progress, warning_burn, warning_dispositions, warning_actions,
    trajectory_series, trajectory_assessed, trajectory_reported, trajectory_finding,
    late_history, late_rate,
    recovery_actions, recovery_today, recovery_economics,
    confidence_reports, confidence_replans, confidence_stability, confidence_assessment,
    priority_evidence, priority_ranked, priority_changes,
    risk_gm, risk_impact, risk_supplied, risk_report,
    command_assessed, command_before, command_authorised, command_view,
    executive_facts, executive_page,
    economics_change, economics_risk, economics_cost, economics_etc, economics_committed,
    economics_physical, economics_planned, economics_credible, economics_economics,
    margin_hours, margin_rework, margin_cost, margin_claimed, margin_scheduled, margin_scope,
    margin_forecast, margin_pending, margin_exposure, margin_trend, margin_view,
    synthetic_spec, synthetic_phase, synthetic_week, synthetic_held, synthetic_facts,
    facts_asOf, facts_facts, facts_assessment,
    registry_registry, registry_proposal, registry_violations, registry_model,
    registry_modelErrors, registry_changes,
    forward_facts, forward_page

healthVars == <<health_readings, health_facts, health_reported, health_hold, health_assessment>>
warningVars == <<warning_progress, warning_burn, warning_dispositions, warning_actions>>
trajectoryVars == <<trajectory_series, trajectory_assessed, trajectory_reported,
                    trajectory_finding>>
lateVars == <<late_history, late_rate>>
recoveryVars == <<recovery_actions, recovery_today, recovery_economics>>
confidenceVars == <<confidence_reports, confidence_replans, confidence_stability,
                    confidence_assessment>>
priorityVars == <<priority_evidence, priority_ranked, priority_changes>>
riskVars == <<risk_gm, risk_impact, risk_supplied, risk_report>>
commandVars == <<command_assessed, command_before, command_authorised, command_view>>
executiveVars == <<executive_facts, executive_page>>
economicsVars == <<economics_change, economics_risk, economics_cost, economics_etc,
                   economics_committed, economics_physical, economics_planned,
                   economics_credible, economics_economics>>
marginVars == <<margin_hours, margin_rework, margin_cost, margin_claimed, margin_scheduled,
                margin_scope, margin_forecast, margin_pending, margin_exposure, margin_trend,
                margin_view>>
syntheticVars == <<synthetic_spec, synthetic_phase, synthetic_week, synthetic_held,
                   synthetic_facts>>
factsVars == <<facts_asOf, facts_facts, facts_assessment>>
registryVars == <<registry_registry, registry_proposal, registry_violations, registry_model,
                  registry_modelErrors, registry_changes>>
forwardVars == <<forward_facts, forward_page>>

vars == <<part, healthVars, warningVars, trajectoryVars, lateVars, recoveryVars, confidenceVars,
          priorityVars, riskVars, commandVars, executiveVars, economicsVars, marginVars,
          syntheticVars, factsVars, registryVars, forwardVars>>

-----------------------------------------------------------------------------
\* Two dimensions of HEALTH-v2 with their inputs, two signals only rules read, and
\* two or three levels each.
Input(s, w, g, r, h, req, mat) ==
    [signal |-> s, weight |-> w, green |-> g, red |-> r, higher |-> h, required |-> req, material |-> mat]
ModelV2 == {
    [id |-> "FINANCIAL", weight |-> 40, inputs |-> {
        Input("FORECAST_GM_PERCENT", 40, 220, 50, TRUE, TRUE, FALSE),
        Input("MARGIN_EROSION_PP", 25, -10, -90, TRUE, FALSE, FALSE),
        Input("BURN_GAP", 20, 20, 150, FALSE, FALSE, FALSE),
        Input("CONTINGENCY_BURN_GAP", 15, 50, 300, FALSE, FALSE, FALSE)}],
    [id |-> "DELIVERY", weight |-> 25, inputs |-> {
        Input("PROGRESS_VARIANCE", 35, -20, -150, TRUE, TRUE, FALSE),
        Input("REQUIRED_VELOCITY_RATIO", 30, 1050, 1800, FALSE, FALSE, TRUE),
        Input("MILESTONES_AT_RISK", 20, 0, 4, FALSE, FALSE, FALSE),
        Input("DEPENDENCY_AGEING_DAYS", 15, 14, 90, FALSE, FALSE, FALSE)}]}

Rule(id, s, cmp, t, plan) ==
    [id |-> id, signal |-> s, comparison |-> cmp, threshold |-> t, plan |-> plan]
HardOverrides == {
    Rule("OVR-GM-NEGATIVE", "FORECAST_GM_PERCENT", "LT", 0, FALSE),
    Rule("OVR-BURN-MISMATCH", "BURN_GAP", "GTE", 250, FALSE),
    Rule("OVR-LD-EXPOSURE", "LD_EXPOSURE_RATIO", "GTE", 20, FALSE),
    Rule("OVR-NO-CREDIBLE-PLAN", "REQUIRED_VELOCITY_RATIO", "GTE", 2000, TRUE)}
RiskElevations == {
    Rule("ELV-ETC-OPTIMISM", "ETC_OPTIMISM_RATIO", "GTE", 100, FALSE),
    Rule("ELV-MARGIN-EROSION", "MARGIN_EROSION_PP", "LTE", -50, FALSE)}
SignalLevels ==
    [s \in {"FORECAST_GM_PERCENT", "MARGIN_EROSION_PP", "BURN_GAP", "CONTINGENCY_BURN_GAP",
            "PROGRESS_VARIANCE", "REQUIRED_VELOCITY_RATIO", "MILESTONES_AT_RISK",
            "DEPENDENCY_AGEING_DAYS", "LD_EXPOSURE_RATIO", "ETC_OPTIMISM_RATIO"} |->
        CASE s = "FORECAST_GM_PERCENT" -> {-10, 50, 220}
          [] s = "MARGIN_EROSION_PP" -> {-50, 0}
          [] s = "BURN_GAP" -> {20, 260}
          [] s = "PROGRESS_VARIANCE" -> {-150, 0}
          [] s = "REQUIRED_VELOCITY_RATIO" -> {1000, 1900}
          [] s = "DEPENDENCY_AGEING_DAYS" -> {14, 120}
          [] s = "LD_EXPOSURE_RATIO" -> {30}
          [] s = "ETC_OPTIMISM_RATIO" -> {0, 150}
          [] OTHER -> {0}]

Health == INSTANCE HealthAssessment WITH
    Dimensions <- ModelV2, Overrides <- HardOverrides, Elevations <- RiskElevations,
    Levels <- SignalLevels,
    Losable <- {"PROGRESS_VARIANCE", "LD_EXPOSURE_RATIO", "MARGIN_EROSION_PP"},
    Absent <- {"DEPENDENCY_AGEING_DAYS"}, Boundless <- {"REQUIRED_VELOCITY_RATIO"},
    Declared <- {"FORECAST_GM_PERCENT", "MARGIN_EROSION_PP", "BURN_GAP", "LD_EXPOSURE_RATIO", "REQUIRED_VELOCITY_RATIO", "ETC_OPTIMISM_RATIO"},
    Facts <- {"under_way", "too_early"}, Holds <- {"none", "GREEN"},
    readings <- health_readings, facts <- health_facts, reported <- health_reported,
    hold <- health_hold, assessment <- health_assessment

-----------------------------------------------------------------------------
Warning == INSTANCE EarlyWarning WITH
    Whole <- 3, Window <- 1, Baseline <- 3, LastWeek <- 3, BurnLevels <- {2, 26}, Clock <- 1,
    Actions <- {"rebaseline"},
    progress <- warning_progress, burn <- warning_burn, dispositions <- warning_dispositions,
    actions <- warning_actions

-----------------------------------------------------------------------------
\* Three of the signals, one kept a period longer than its window.
Signal(min, win, worse, levels, kept) ==
    [minimum |-> min, window |-> win, higherIsWorse |-> worse, material |-> 1,
     weighting |-> "LINEAR", levels |-> levels, kept |-> kept]
ThreeSignals ==
    [s \in {"EAC_REVISION_TREND", "SCOPE_EXPOSURE_TREND", "FORECAST_GM_TREND"} |->
        CASE s = "EAC_REVISION_TREND" -> Signal(2, 3, TRUE, {0, 2}, 4)
          [] s = "SCOPE_EXPOSURE_TREND" -> Signal(2, 2, TRUE, {0, 2}, 2)
          [] s = "FORECAST_GM_TREND" -> Signal(2, 2, FALSE, {0, 2}, 2)]

Outlook == INSTANCE Trajectory WITH
    Policy <- ThreeSignals, Rapid <- 3, Reports <- {"GREEN", "none"},
    series <- trajectory_series, assessed <- trajectory_assessed,
    reported <- trajectory_reported, finding <- trajectory_finding

-----------------------------------------------------------------------------
Lateness == INSTANCE LateDetection WITH
    Projects <- {"p1"}, Cadence <- 2, Window <- 3,
    Dimensions <- {"FINANCIAL", "DELIVERY", "SCOPE_COMMERCIAL", "PRODUCT_QUALITY"},
    Rewound <- {"FINANCIAL"}, LastWeek <- 7,
    history <- late_history, rate <- late_rate

-----------------------------------------------------------------------------
\* What an action may promise: two fixes of one problem, and one of its own.
Promise(revenue, cost, confidence, group) ==
    [revenue |-> revenue, cost |-> cost, confidence |-> confidence, group |-> group]
Promises == {Promise(10, 0, 35, "SCOPE"), Promise(2, 4, 80, "SCOPE"), Promise(0, 8, 60, "none")}

Recovery == INSTANCE RecoveryCase WITH
    Templates <- Promises, NoGroup <- "none", Revenue <- 100, Cost <- 90, Discount <- 50,
    Floor <- 20, Plan <- 2, LastDay <- 2,
    actions <- recovery_actions, today <- recovery_today, economics <- recovery_economics

-----------------------------------------------------------------------------
ExpectedDomains == {"financial", "delivery", "quality"}

Confidence == INSTANCE DataConfidence WITH
    Domains <- ExpectedDomains, Critical <- {"financial", "delivery"},
    Cadence <- [d \in ExpectedDomains |-> IF d = "delivery" THEN 1 ELSE 2], Tolerance <- 2,
    Oldest <- 4, Replans <- 2,
    reports <- confidence_reports, replans <- confidence_replans,
    stability <- confidence_stability, assessment <- confidence_assessment

-----------------------------------------------------------------------------
Planned(o, w, d, b) == [open |-> o, owner |-> w, due |-> d, benefit |-> b]
KnownOf ==
    1 :> [band |-> "AMBER", gm |-> 9, penalty |-> FALSE, greenAtRisk |-> FALSE, outlook |-> "AMBER", clock |-> -1,
          action |-> Planned(TRUE, TRUE, FALSE, FALSE), data |-> "HIGH", forecast |-> "MEDIUM"]
    @@ 2 :> [band |-> "GREEN", gm |-> 2, penalty |-> FALSE, greenAtRisk |-> FALSE, outlook |-> "null", clock |-> -1,
             action |-> Planned(TRUE, TRUE, TRUE, TRUE), data |-> "LOW", forecast |-> "HIGH"]
    @@ 3 :> [band |-> "null", gm |-> -1, penalty |-> FALSE, greenAtRisk |-> FALSE, outlook |-> "null", clock |-> -1,
             action |-> Planned(FALSE, FALSE, FALSE, FALSE), data |-> "null", forecast |-> "null"]

Priority == INSTANCE InterventionPriority WITH
    Projects <- 1..3, Floor <- 5, Amounts <- {2, 9}, Clocks <- {1, 6}, Known <- KnownOf,
    MaxChanges <- 2,
    evidence <- priority_evidence, ranked <- priority_ranked, changes <- priority_changes

-----------------------------------------------------------------------------
AtRisk == INSTANCE ValueAtRisk WITH
    Projects <- 1..2, Causes <- 1..2, Amounts <- {0, 1, 7}, MaxSupplied <- 3,
    gm <- risk_gm, impact <- risk_impact, supplied <- risk_supplied, report <- risk_report

-----------------------------------------------------------------------------
Sound == [band |-> "GREEN", greenAtRisk |-> FALSE, reported |-> "GREEN", window |-> FALSE, outlook |-> "GREEN",
          clock |-> -1, gm |-> 0, tcv |-> 10, forecastGm |-> 5, loss |-> 0, penalty |-> 0, scope |-> 0,
          reasons |-> {}, action |-> Planned(FALSE, FALSE, FALSE, FALSE), data |-> "HIGH", forecast |-> "HIGH"]
Emerging == [Sound EXCEPT !.greenAtRisk = TRUE, !.outlook = "AMBER", !.clock = 4, !.reasons = {1, 2}]
Losing == [Sound EXCEPT !.band = "RED", !.reported = "RED", !.scope = 1, !.window = TRUE, !.loss = 2,
                        !.forecastGm = -2, !.gm = 7, !.clock = 2]

Command == INSTANCE CommandCenter WITH
    Projects <- 1..3, InPopulation <- {1, 2},
    Region <- 1 :> "east" @@ 2 :> "west" @@ 3 :> "west",
    Causes <- 1 :> {1} @@ 2 :> {1, 2} @@ 3 :> {2}, Assessments <- {Sound, Emerging, Losing},
    Floor <- 5,
    assessed <- command_assessed, before <- command_before, authorised <- command_authorised,
    view <- command_view

-----------------------------------------------------------------------------
Executive == INSTANCE ExecutiveHealth WITH
    Burns <- {0, 5}, Velocities <- {100, 130}, Gaps <- {0, 4},
    facts <- executive_facts, page <- executive_page

-----------------------------------------------------------------------------
Economics == INSTANCE ProjectEconomics WITH
    Changes <- 1..2, Value <- 1 :> 20 @@ 2 :> -10, CostOf <- 1 :> 20 @@ 2 :> 0,
    Likelihood <- 1 :> 50 @@ 2 :> 100, Risks <- 1..2, Impact <- 1 :> 20 @@ 2 :> 60,
    ContractValue <- 60, BudgetedCost <- 40, Lump <- 20, Completions <- {10, 50},
    Maturity <- 20, MaxCost <- 60, None <- Null,
    change <- economics_change, risk <- economics_risk, cost <- economics_cost,
    etc <- economics_etc, committed <- economics_committed, physical <- economics_physical,
    planned <- economics_planned, credible <- economics_credible,
    economics <- economics_economics

-----------------------------------------------------------------------------
Margin == INSTANCE MarginBridge WITH
    SoldRate <- 13, PlannedHours <- 4, SoldMargin <- 10, Payments <- {7, 18},
    Completions <- {25, 50}, Allowance <- 10, Forecasts <- {-20, 30}, Lumps <- {0, 20},
    Stride <- 1, MaxHours <- 2, Periods <- 3, None <- Null,
    hours <- margin_hours, rework <- margin_rework, cost <- margin_cost,
    claimed <- margin_claimed, scheduled <- margin_scheduled, scope <- margin_scope,
    forecast <- margin_forecast, pending <- margin_pending, exposure <- margin_exposure,
    trend <- margin_trend, view <- margin_view

-----------------------------------------------------------------------------
\* A healthy, a distressed and a recovering archetype.
Drivers(id, drag, perWeek, recovery, defects, rework, creep, optimism, rag, draw) ==
    [id |-> id, drag |-> drag, dragPerWeek |-> perWeek, recovery |-> recovery, defects |-> defects,
     rework |-> rework, creep |-> creep, drift |-> 0, optimism |-> optimism, ragOptimism |-> rag, draw |-> draw]
ThreeArchetypes == {
    Drivers("HEALTHY_REFERENCE", 1000, 0, 0, 9, 14, 40, 1000, 0, 100),
    Drivers("CONTRACT_LOSS_RISK", 1240, 48, 0, 26, 34, 90, 800, 1, 350),
    Drivers("RECOVERING_RED", 1190, -90, 3, 19, 24, 40, 1000, 0, 350)}
OnePattern == {[cohort |-> "north_america", drift |-> 9, defects |-> 12, rework |-> 18]}
Checkpoint(before, physical, planned, cost, etc, consumed, executed, rag) ==
    [before |-> before, physical |-> physical, planned |-> planned, cost |-> cost, etc |-> etc,
     committed |-> 300, consumed |-> consumed, executed |-> executed, rag |-> rag]
ThreeCheckpoints == <<
    Checkpoint(6, 200, 230, 2000, 5600, 60, 0, "GREEN"),
    Checkpoint(3, 450, 520, 4300, 4200, 160, 0, "GREEN"),
    Checkpoint(0, 600, 700, 6100, 3000, 260, 500, "AMBER")>>

Synthetic == INSTANCE SyntheticPortfolio WITH
    Archetypes <- ThreeArchetypes, Patterns <- OnePattern,
    Cohorts <- {"elsewhere", "north_america"}, FixedBidOnly <- {"CONTRACT_LOSS_RISK"},
    Durations <- {5}, Elapsed <- {3, 6}, History <- 4, Contract <- 10000, Budget <- 8000,
    Contingency <- 400, TeamSize <- 6, Cycle <- 2, Month <- 3, Incidents <- 2, MinPostings <- 2,
    MinInvoice <- 100, Checkpoints <- ThreeCheckpoints,
    spec <- synthetic_spec, phase <- synthetic_phase, week <- synthetic_week,
    held <- synthetic_held, facts <- synthetic_facts

-----------------------------------------------------------------------------
\* One project's money, with a change dated ahead; and another's delivery, with
\* settlements dated ahead.
Fact(kind, on) == [kind |-> kind, id |-> <<kind, on>>, on |-> on]
Worth(kind, on, amount) == Fact(kind, on) @@ [amount |-> amount]
Claimed(on, done, planned) == Fact("claim", on) @@ [done |-> done, planned |-> planned]
EconomicFacts == {
    Claimed(1, 10, 10), Claimed(3, 20, 60),
    Worth("cost", 1, 40), Worth("cost", 3, 60),
    Worth("etc", 1, 110), Worth("etc", 3, 130), Worth("draw", 2, 8),
    Worth("executed", 2, 30) @@ [cost |-> 10], Worth("executed", 9, 20) @@ [cost |-> 0],
    Worth("pending", 1, 30) @@ [link |-> <<"executed", 2>>, likely |-> 50],
    Worth("pending", 2, 20) @@ [link |-> <<"executed", 9>>, likely |-> 80]}
Milestone(on, baseline, forecast, actual) ==
    Fact("milestone", on) @@ [baseline |-> baseline, forecast |-> forecast, actual |-> actual, gating |-> TRUE]
Defect(on, closed) == Fact("defect", on) @@ [severity |-> "CRITICAL", closed |-> closed, escaped |-> FALSE]
DeliveryFacts == {
    Claimed(2, 30, 30), Claimed(3, 30, 45), Claimed(4, 50, 60),
    Milestone(1, 2, 3, 3), Milestone(2, 4, 6, 9),
    Defect(1, 3), Defect(2, 9),
    Fact("acceptance", 2) @@ [accepted |-> 9, resolved |-> 9, blocking |-> TRUE],
    Fact("dependency", 1) @@ [owner |-> "CUSTOMER", resolved |-> 9],
    Fact("effort", 3) @@ [hours |-> 20, rework |-> TRUE, billable |-> TRUE],
    Worth("pending", 1, 10) @@ [link |-> Null, likely |-> 50],
    Worth("scope", 1, 5) @@ [uncontracted |-> TRUE, completed |-> 4]}

Facts == INSTANCE FactsAsOf WITH
    Portfolios <- {EconomicFacts, DeliveryFacts}, AsOfDays <- {3, 4}, Never <- 99, None <- Null,
    ContractValue <- 200, BudgetedCost <- 150, Contingency <- 10, PlannedHours <- 100,
    Start <- 0, PlannedEnd <- 8, Week <- 1, VelocityWindow <- 1, BacklogWindow <- 2,
    Cadence <- 1, Stride <- 2, Periods <- 2, Allowance <- 10, AmberGap <- 10, RedGap <- 30,
    WarnedGap <- 15,
    asOf <- facts_asOf, facts <- facts_facts, assessment <- facts_assessment

-----------------------------------------------------------------------------
\* Changes that close a cycle, alone or together, that put a verdict or a draft under a
\* fact, and some that are sound.
NewInputs == {
    <<"DEL-018", <<"DEL-020", "DEL-021">>>>, <<"FIN-010", <<"FIN-002", "FIN-031">>>>,
    <<"FCST-006", <<"PORT-006">>>>, <<"FCST-001", <<"FCST-006">>>>,
    <<"RES-008", <<"RES-009">>>>, <<"RES-004", <<"DEL-012">>>>}
NewLevels == {
    <<"RES-009", "L3_ASSESSED", "RULE_ENGINE">>, <<"DQ-006", "L3_ASSESSED", "RULE_ENGINE">>,
    <<"FIN-009", "L2_DERIVED", "FINANCE_SYSTEM">>}
NewWeights == {
    <<"FINANCIAL", "FIN-014", 30, 220, 50>>, <<"FINANCIAL", "FIN-034", 25, 50, 300>>,
    <<"DELIVERY", "DEL-015", 35, -150, -20>>}

Registry == INSTANCE MetricRegistry WITH
    Rewired <- NewInputs, Reclassified <- NewLevels,
    Restated <- {<<"DEL-012", "Frozen">>, <<"RES-007", "Draft">>, <<"PORT-009", "Deprecated">>},
    Copied <- {<<"FIN-005", "FIN-099">>, <<"FIN-005", "FIN-005">>},
    Retired <- {"DEL-023", "PORT-009"}, Reweighted <- NewWeights, MaxChanges <- 2,
    registry <- registry_registry, proposal <- registry_proposal,
    violations <- registry_violations, model <- registry_model,
    modelErrors <- registry_modelErrors, changes <- registry_changes

-----------------------------------------------------------------------------
\* Two remedies of one problem, answering different signals, and a reader with a scope.
Remedy(revenue, cost, confidence, signal, urgent) ==
    Promise(revenue, cost, confidence, "SCOPE")
      @@ [signal |-> signal, executive |-> urgent, dated |-> urgent, weeks |-> 1]
Remedies == {Remedy(10, 0, 35, "BURN_GAP", TRUE), Remedy(2, 4, 80, "REQUIRED_VELOCITY_RATIO", FALSE)}
Readers == {[place |-> 0, of |-> 0, reaching |-> 0], [place |-> 2, of |-> 3, reaching |-> 1]}

Forward == INSTANCE ForwardRisk WITH
    Templates <- Remedies, Revenue <- 100, Cost <- 90, Whole <- 3, Window <- 1, Baseline <- 3,
    Clock <- 0, BurnLevels <- {2, 26},
    Outlooks <- {[now |-> "GREEN", in30 |-> "AMBER", in60 |-> "not projected"]},
    Scopes <- Readers, MaxActions <- 2, MaxRaised <- 1, LastWeek <- 3,
    facts <- forward_facts, page <- forward_page

-----------------------------------------------------------------------------
ASSUME ConstantsAreTheirs ==
    /\ Health!HealthAssumption
    /\ Warning!WarningAssumption
    /\ Outlook!TrajectoryAssumption
    /\ Lateness!LateDetectionAssumption
    /\ Recovery!RecoveryAssumption
    /\ Confidence!ConfidenceAssumption
    /\ Priority!PriorityAssumption
    /\ AtRisk!RiskAssumption
    /\ Command!CommandAssumption
    /\ Executive!ExecutiveAssumption
    /\ Economics!EconomicsAssumption
    /\ Margin!MarginAssumption
    /\ Facts!FactsAsOfAssumption
    /\ Registry!RegistryAssumption
    /\ Forward!ForwardAssumption

\* The parts a behaviour is not about rest, at the beginning and in every step.
OthersAtRest ==
    /\ IF part = "health" THEN TRUE ELSE
         /\ health_readings = AtRest /\ health_facts = AtRest /\ health_reported = AtRest
         /\ health_hold = AtRest /\ health_assessment = AtRest
    /\ IF part = "warning" THEN TRUE ELSE
         /\ warning_progress = AtRest /\ warning_burn = AtRest /\ warning_dispositions = AtRest
         /\ warning_actions = AtRest
    /\ IF part = "trajectory" THEN TRUE ELSE
         /\ trajectory_series = AtRest /\ trajectory_assessed = AtRest
         /\ trajectory_reported = AtRest /\ trajectory_finding = AtRest
    /\ IF part = "late" THEN TRUE ELSE
         /\ late_history = AtRest /\ late_rate = AtRest
    /\ IF part = "recovery" THEN TRUE ELSE
         /\ recovery_actions = AtRest /\ recovery_today = AtRest /\ recovery_economics = AtRest
    /\ IF part = "confidence" THEN TRUE ELSE
         /\ confidence_reports = AtRest /\ confidence_replans = AtRest
         /\ confidence_stability = AtRest /\ confidence_assessment = AtRest
    /\ IF part = "priority" THEN TRUE ELSE
         /\ priority_evidence = AtRest /\ priority_ranked = AtRest /\ priority_changes = AtRest
    /\ IF part = "risk" THEN TRUE ELSE
         /\ risk_gm = AtRest /\ risk_impact = AtRest /\ risk_supplied = AtRest
         /\ risk_report = AtRest
    /\ IF part = "command" THEN TRUE ELSE
         /\ command_assessed = AtRest /\ command_before = AtRest /\ command_authorised = AtRest
         /\ command_view = AtRest
    /\ IF part = "executive" THEN TRUE ELSE
         /\ executive_facts = AtRest /\ executive_page = AtRest
    /\ IF part = "economics" THEN TRUE ELSE
         /\ economics_change = AtRest /\ economics_risk = AtRest /\ economics_cost = AtRest
         /\ economics_etc = AtRest /\ economics_committed = AtRest
         /\ economics_physical = AtRest /\ economics_planned = AtRest
         /\ economics_credible = AtRest /\ economics_economics = AtRest
    /\ IF part = "margin" THEN TRUE ELSE
         /\ margin_hours = AtRest /\ margin_rework = AtRest /\ margin_cost = AtRest
         /\ margin_claimed = AtRest /\ margin_scheduled = AtRest /\ margin_scope = AtRest
         /\ margin_forecast = AtRest /\ margin_pending = AtRest /\ margin_exposure = AtRest
         /\ margin_trend = AtRest /\ margin_view = AtRest
    /\ IF part = "synthetic" THEN TRUE ELSE
         /\ synthetic_spec = AtRest /\ synthetic_phase = AtRest /\ synthetic_week = AtRest
         /\ synthetic_held = AtRest /\ synthetic_facts = AtRest
    /\ IF part = "facts" THEN TRUE ELSE
         /\ facts_asOf = AtRest /\ facts_facts = AtRest /\ facts_assessment = AtRest
    /\ IF part = "registry" THEN TRUE ELSE
         /\ registry_registry = AtRest /\ registry_proposal = AtRest
         /\ registry_violations = AtRest /\ registry_model = AtRest
         /\ registry_modelErrors = AtRest /\ registry_changes = AtRest
    /\ IF part = "forward" THEN TRUE ELSE
         /\ forward_facts = AtRest /\ forward_page = AtRest
OthersRest ==
    /\ UNCHANGED part
    /\ IF part = "health" THEN TRUE ELSE UNCHANGED healthVars
    /\ IF part = "warning" THEN TRUE ELSE UNCHANGED warningVars
    /\ IF part = "trajectory" THEN TRUE ELSE UNCHANGED trajectoryVars
    /\ IF part = "late" THEN TRUE ELSE UNCHANGED lateVars
    /\ IF part = "recovery" THEN TRUE ELSE UNCHANGED recoveryVars
    /\ IF part = "confidence" THEN TRUE ELSE UNCHANGED confidenceVars
    /\ IF part = "priority" THEN TRUE ELSE UNCHANGED priorityVars
    /\ IF part = "risk" THEN TRUE ELSE UNCHANGED riskVars
    /\ IF part = "command" THEN TRUE ELSE UNCHANGED commandVars
    /\ IF part = "executive" THEN TRUE ELSE UNCHANGED executiveVars
    /\ IF part = "economics" THEN TRUE ELSE UNCHANGED economicsVars
    /\ IF part = "margin" THEN TRUE ELSE UNCHANGED marginVars
    /\ IF part = "synthetic" THEN TRUE ELSE UNCHANGED syntheticVars
    /\ IF part = "facts" THEN TRUE ELSE UNCHANGED factsVars
    /\ IF part = "registry" THEN TRUE ELSE UNCHANGED registryVars
    /\ IF part = "forward" THEN TRUE ELSE UNCHANGED forwardVars

Init ==
    /\ part \in Parts
    /\ OthersAtRest
    /\ \/ part = "health" /\ Health!Init
       \/ part = "warning" /\ Warning!Init
       \/ part = "trajectory" /\ Outlook!Init
       \/ part = "late" /\ Lateness!Init
       \/ part = "recovery" /\ Recovery!Init
       \/ part = "confidence" /\ Confidence!Init
       \/ part = "priority" /\ Priority!Init
       \/ part = "risk" /\ AtRisk!Init
       \/ part = "command" /\ Command!Init
       \/ part = "executive" /\ Executive!Init
       \/ part = "economics" /\ Economics!Init
       \/ part = "margin" /\ Margin!Init
       \/ part = "synthetic" /\ Synthetic!Init
       \/ part = "facts" /\ Facts!Init
       \/ part = "registry" /\ Registry!Init
       \/ part = "forward" /\ Forward!Init

HealthStep == part = "health" /\ Health!Next /\ OthersRest
WarningStep == part = "warning" /\ Warning!Next /\ OthersRest
OutlookStep == part = "trajectory" /\ Outlook!Next /\ OthersRest
LatenessStep == part = "late" /\ Lateness!Next /\ OthersRest
RecoveryStep == part = "recovery" /\ Recovery!Next /\ OthersRest
ConfidenceStep == part = "confidence" /\ Confidence!Next /\ OthersRest
PriorityStep == part = "priority" /\ Priority!Next /\ OthersRest
AtRiskStep == part = "risk" /\ AtRisk!Next /\ OthersRest
CommandStep == part = "command" /\ Command!Next /\ OthersRest
ExecutiveStep == part = "executive" /\ Executive!Next /\ OthersRest
EconomicsStep == part = "economics" /\ Economics!Next /\ OthersRest
MarginStep == part = "margin" /\ Margin!Next /\ OthersRest
SyntheticStep == part = "synthetic" /\ Synthetic!Next /\ OthersRest
FactsStep == part = "facts" /\ Facts!Next /\ OthersRest
RegistryStep == part = "registry" /\ Registry!Next /\ OthersRest
ForwardStep == part = "forward" /\ Forward!Next /\ OthersRest

Next ==
    \/ HealthStep \/ WarningStep \/ OutlookStep \/ LatenessStep \/ RecoveryStep
    \/ ConfidenceStep \/ PriorityStep \/ AtRiskStep \/ CommandStep \/ ExecutiveStep
    \/ EconomicsStep \/ MarginStep \/ SyntheticStep \/ FactsStep \/ RegistryStep \/ ForwardStep

Spec == Init /\ [][Next]_vars

-----------------------------------------------------------------------------
\* Every variable stays within its kind of value.
TypeOK ==
    /\ part = "health" => Health!TypeOK
    /\ part = "warning" => Warning!TypeOK
    /\ part = "trajectory" => Outlook!TypeOK
    /\ part = "late" => Lateness!TypeOK
    /\ part = "recovery" => Recovery!TypeOK
    /\ part = "confidence" => Confidence!TypeOK
    /\ part = "priority" => Priority!TypeOK
    /\ part = "risk" => AtRisk!TypeOK
    /\ part = "command" => Command!TypeOK
    /\ part = "executive" => Executive!TypeOK
    /\ part = "economics" => Economics!TypeOK
    /\ part = "margin" => Margin!TypeOK
    /\ part = "synthetic" => Synthetic!TypeOK
    /\ part = "facts" => Facts!TypeOK
    /\ part = "registry" => Registry!TypeOK
    /\ part = "forward" => Forward!TypeOK

\* A project is RED for a named reason, and no reason is lost (health-engine.ts).
RedHasItsReason == part = "health" => Health!RedHasItsReason

\* A green that is not what it seems is found: a warning nobody decided in time is an
\* exception, a fall towards red is a finding, an outlook only dims, a margin
\* that falls or ends in a loss says so, an unsupported
\* claim is challenged (early-warning-engine.ts,
\* trajectory-engine.ts, green-at-risk.ts, margin-intelligence.ts,
\* executive-health.ts), and the page of forward risk says nothing is wrong only when
\* nothing is (forward-risk.ts).
GreenIsChallenged ==
    /\ part = "warning" => Warning!BrokenClockIsException
    /\ part = "trajectory" =>
          /\ Outlook!FallingGreenIsFound /\ Outlook!OutlookOnlyDims
          /\ Outlook!ThePastExpires /\ Outlook!ShortHistorySaysNothing
    /\ part = "late" => Lateness!CountedProjectsTurned
    /\ part = "margin" => Margin!LossIsWarned /\ Margin!StreakIsTheLongestFall
    /\ part = "executive" => Executive!UnsupportedGreenIsChallenged /\ Executive!AbsenceIsStated
    /\ part = "forward" => Forward!CleanPageHidesNothing /\ Forward!RowsShowWhoOwes

\* Amounts reconcile: two readings of one figure agree, immature progress forecasts
\* nothing, parts, rows and causes sum to the total (economics-engine.ts,
\* portfolio-value-at-risk.ts, margin-bridge.ts, command-center.ts, simulate.ts); each
\* surface's figure is the facts' of its day (the assessment adapters), a metric rests
\* on facts and an accepted model scores within its bands (registry/index.ts,
\* health-model.ts), and benefits shown are the case's (forward-risk.ts).
AmountsReconcile ==
    /\ part = "economics" => Economics!ReadingsAgree /\ Economics!NoNoiseForecast
    /\ part = "margin" => Margin!BridgeReconciles /\ Margin!SplitIsExact
    /\ part = "risk" => AtRisk!RowsLieWithinTheTotal /\ AtRisk!PartsSumExactly
    /\ part = "command" => Command!PartsReconcile
    /\ part = "facts" => Facts!ChangeIsInOnePlace /\ Facts!SurfacesAgree
    /\ part = "synthetic" => Synthetic!PublishedIsHeld /\ Synthetic!ScopeIsCountedOnce
    /\ part = "registry" =>
          /\ Registry!CyclesAreTold /\ Registry!VerdictsAreNotFacts
          /\ Registry!AcceptedModelsScoreSoundly
    /\ part = "forward" => Forward!ShownBenefitsAreTheCase

\* One problem's fixes count once and the likely outcome lies between doing nothing and
\* doing everything (recovery-economics.ts); a critical domain's silence caps the confidence
\* (confidence-engine.ts).
PromisesAreDiscounted ==
    /\ part = "recovery" => Recovery!OneFixPerProblem /\ Recovery!LikelyLiesBetween
    /\ part = "confidence" => Confidence!CriticalDomainsCap

\* The queue of interventions puts hard risk on top for the reason it states, predicts
\* nothing it does not know, and a comparison with no period or no change shows none
\* (intervention-priority.ts, command-center.ts).
QueueHasItsReasons ==
    /\ part = "priority" =>
          /\ Priority!HardRiskIsOnTop /\ Priority!ReasonIsTheReason
          /\ Priority!UnknownIsNotPredicted
    /\ part = "command" =>
          /\ Command!NothingMovesByItself /\ Command!UnknownIsNotUnchanged
          /\ Command!DeclineIsNeverPositive

\* Worse readings never make anything look better: no higher composite or band, no
\* milder warning, no better standing, no lower place in the queue, no smaller value
\* at risk, no decision withdrawn.
BadNewsNeverComforts ==
    [][/\ part = "health" => Health!WorseIsNeverBetter /\ Health!LossIsDisclosed
       /\ part = "warning" => Warning!WorseIsNoLessSevere
       /\ part = "trajectory" => Outlook!WorseNewsNeverComforts
       /\ part = "confidence" => Confidence!GoodReportsNeverHurt /\ Confidence!ReplansNeverReassure
       /\ part = "priority" => Priority!BadNewsNeverLowers
       /\ part = "risk" => AtRisk!CausesNeverReduce
       /\ part = "executive" => Executive!BadNewsKeepsTheDecision
       /\ part = "economics" => Economics!BadNewsNeverHelps]_vars

\* The passing of time earns nothing: plans and data only age, an overdue decision
\* stays overdue until it is made, work owed stays owed (forward-risk.ts), a verdict on
\* an early week stands and history is appended (simulate.ts).
TimeOnlyErodes ==
    [][/\ part = "recovery" => Recovery!TimeOnlyErodes
       /\ part = "confidence" => Confidence!TimeOnlyErodes
       /\ part = "warning" => Warning!ExceptionStands
       /\ part = "late" => Lateness!VerdictStands
       /\ part = "margin" => Margin!SlippageEarnsNothing
       /\ part = "forward" => Forward!WorkOwedStays
       /\ part = "facts" => Facts!NoHindsight
       /\ part = "synthetic" => Synthetic!HistoryIsAppended]_vars

\* An amount that changes its place is not counted in both, hope is not forecast, work
\* done never costs the plan, and what is outside the population moves nothing in it.
NothingCountsTwice ==
    [][/\ part = "economics" =>
             /\ Economics!HopeIsNotForecast /\ Economics!RiskIsCountedOnce
             /\ Economics!ChangeIsCountedOnce /\ Economics!SpendingConfirmsNothing
       /\ part = "recovery" => Recovery!WorkNeverCosts
       /\ part = "priority" => Priority!PlansOrderEqualsOnly
       /\ part = "command" => Command!OutsideIsUnseen]_vars
=============================================================================
