--------------------------- MODULE MetricRegistry ---------------------------
(***************************************************************************)
(* The metric registry, one definition per metric for the whole system,    *)
(* and the check every commit must pass: a proposed change of a definition *)
(* goes in only when `validateRegistry` finds nothing.  Beside it the      *)
(* executive health model, which `validateHealthModel` judges and nothing  *)
(* calls that check on a commit.                                           *)
(*                                                                         *)
(* A definition keeps what the check reads of it: what it is computed from,*)
(* what kind of claim it is, which system answers for it, whether it is    *)
(* settled.  An identifier is written without its "MET-", a formula stands *)
(* for its text, weights are in hundredths, band edges in thousandths.     *)
(***************************************************************************)
EXTENDS Integers, Sequences, FiniteSets
LOCAL INSTANCE SequencesExt
LOCAL INSTANCE FiniteSetsExt

CONSTANTS
    Rewired,      \* <<id, inputs>>: a definition given other inputs
    Reclassified, \* <<id, level, source>>: a definition called another kind of claim
    Restated,     \* <<id, status>>: a definition settled, unsettled or withdrawn
    Copied,       \* <<id, new>>: a definition registered again under another name
    Retired,      \* the definitions that may be taken out
    Reweighted,   \* <<dimension, signal, weight, green, red>>: an input given other parameters
    MaxChanges    \* bound: commits accepted

VARIABLES
    registry,     \* METRIC_REGISTRY as it is committed
    proposal,     \* the registry the last commit proposed
    violations,   \* what `validateRegistry` said of it
    model,        \* HEALTH_MODEL_V2 as it is committed
    modelErrors,  \* what `validateHealthModel` says of it
    changes       \* commits accepted

vars == <<registry, proposal, violations, model, modelErrors, changes>>

RegistryAssumption ==
    /\ \A r \in Reclassified : r[2] \in {"L1_OBSERVED", "L2_DERIVED", "L3_ASSESSED"}
    /\ \A s \in Restated : s[2] \in {"Draft", "Frozen", "Deprecated"}
    /\ MaxChanges \in Nat

-----------------------------------------------------------------------------
(* Definitions *)

Unnamed == "none"

Definition(id, level, source, inputs) ==
    [id |-> id, formula |-> id, inputs |-> inputs, level |-> level, source |-> source,
     status |-> "Frozen", baseline |-> Unnamed, ruleSet |-> Unnamed,
     calibrated |-> FALSE, reason |-> FALSE, evidence |-> TRUE]

Observed(id, source, inputs) == Definition(id, "L1_OBSERVED", source, inputs)
Derived(id, inputs) == Definition(id, "L2_DERIVED", "DERIVED", inputs)
Assessed(id, inputs) == Definition(id, "L3_ASSESSED", "RULE_ENGINE", inputs)

\* Measured against a named baseline; parameterised by a rule set, its parameters named;
\* Draft, with the Type A gap that keeps it so.
Against(baseline, m) == [m EXCEPT !.baseline = baseline]
Under(ruleSet, m) == [m EXCEPT !.ruleSet = ruleSet, !.calibrated = TRUE]
Unresolved(m) == [m EXCEPT !.status = "Draft", !.reason = TRUE]

\* The dimension scores share one mechanism.
Dimension(id, ruleSet, from) == Under(ruleSet, Derived(id, from))

BaselineMetrics == <<
    Against("AS_SOLD", Observed("FIN-001", "CONTRACT_SYSTEM", <<>>)),
    Against("CURRENT_CONTRACTUAL", Derived("FIN-002", <<"FIN-001">>)),
    Against("AS_SOLD", Observed("FIN-003", "CONTRACT_SYSTEM", <<>>)),
    Against("CURRENT_CONTRACTUAL", Derived("FIN-004", <<"FIN-003">>)),
    Against("ACTUAL_TO_DATE", Observed("FIN-005", "FINANCE_SYSTEM", <<>>)),
    Derived("FIN-006", <<"FIN-005", "FIN-008">>),
    Against("FORECAST", Observed("FIN-007", "MANUAL_DECLARATION", <<>>)),
    Observed("FIN-023", "FINANCE_SYSTEM", <<>>),
    Against("FORECAST", Derived("FIN-008", <<"FIN-005", "FIN-007", "FIN-023">>)),
    Observed("FIN-009", "FINANCE_SYSTEM", <<>>),
    Observed("FIN-039", "FINANCE_SYSTEM", <<>>),
    Against("FORECAST", Derived("FIN-010", <<"FIN-002">>)),
    Derived("FIN-011", <<>>)>>

MarginMetrics == <<
    Against("AS_SOLD", Derived("FIN-026", <<"FIN-001", "FIN-003">>)),
    Against("FORECAST", Derived("FIN-024", <<"FIN-010", "FIN-008">>)),
    Against("AS_SOLD", Derived("FIN-012", <<"FIN-026", "FIN-001">>)),
    Against("CURRENT_CONTRACTUAL", Derived("FIN-013", <<"FIN-002", "FIN-004">>)),
    Against("FORECAST", Derived("FIN-014", <<"FIN-024", "FIN-010">>)),
    Against("ACTUAL_TO_DATE", Derived("FIN-015", <<"FIN-009", "FIN-005">>)),
    Against("AS_SOLD", Derived("FIN-016", <<"FIN-014", "FIN-012">>)),
    Against("AS_SOLD", Derived("FIN-017", <<"FIN-024", "FIN-026">>)),
    Against("AS_SOLD", Derived("FIN-025", <<"FIN-026", "FIN-024">>)),
    Against("AS_SOLD", Derived("FIN-018", <<"FIN-017", "COM-009", "RES-002", "RES-005", "QUA-006", "FIN-038">>))>>

ProgressMetrics == <<
    Against("CURRENT_CONTRACTUAL", Derived("FIN-028", <<"FIN-005", "FIN-004">>)),
    Derived("FIN-027", <<"FIN-028", "DEL-016">>),
    Under("EAC-v1", Derived("FIN-029", <<"FIN-005", "DEL-016">>)),
    Under("VAR-v1", Against("AS_SOLD", Derived("FIN-042", <<"FIN-019", "FIN-026">>))),
    Derived("FIN-043", <<"FIN-008">>),
    Under("EAC-v1", Derived("FIN-040", <<"FIN-030", "FIN-008">>)),
    Derived("FIN-041", <<"FIN-018">>),
    Under("EAC-v1", Derived("FIN-030", <<"FIN-029", "FIN-008">>))>>

RiskAdjustedMetrics == <<
    Under("VAR-v1", Derived("FIN-031", <<"FIN-010", "COM-010">>)),
    Under("VAR-v1", Derived("FIN-032", <<"FIN-031", "FIN-008", "RSK-008">>)),
    Under("VAR-v1", Derived("FIN-033", <<"FIN-032", "FIN-031">>)),
    Under("VAR-v1", Against("AS_SOLD", Derived("FIN-019", <<"FIN-026", "FIN-032">>)))>>

ContingencyMetrics == <<
    Against("CURRENT_CONTRACTUAL", Observed("FIN-036", "CONTRACT_SYSTEM", <<>>)),
    Observed("FIN-037", "FINANCE_SYSTEM", <<>>),
    Derived("FIN-035", <<"FIN-037", "FIN-036">>),
    Derived("FIN-034", <<"FIN-035", "DEL-016">>),
    Derived("FIN-020", <<"FIN-005">>),
    Against("CURRENT_CONTRACTUAL", Derived("FIN-021", <<"FIN-004", "FIN-005", "FIN-020">>)),
    Against("CURRENT_CONTRACTUAL", Derived("FIN-022", <<"FIN-005">>)),
    Against("AS_SOLD", Derived("FIN-038", <<"FIN-024">>))>>

COMMERCIAL_METRICS == <<
    Observed("COM-001", "FINANCE_SYSTEM", <<>>),
    Observed("COM-002", "FINANCE_SYSTEM", <<>>),
    Derived("COM-003", <<"COM-001", "COM-002">>),
    Derived("COM-004", <<"COM-003", "COM-001">>),
    Derived("COM-005", <<"COM-003">>),
    Derived("COM-006", <<"FIN-009", "COM-001">>),
    Derived("COM-007", <<>>),
    Against("AS_SOLD", Derived("COM-008", <<"FIN-002", "FIN-001">>)),
    Derived("COM-009", <<"FIN-002">>),
    Against("AS_SOLD", Derived("RES-011", <<"RES-010", "FIN-004">>)),
    Derived("COM-011", <<"FIN-002">>),
    Under("VAR-v1", Derived("COM-010", <<>>))>>

QUALITY_METRICS == <<
    Observed("QUA-001", "QUALITY_SYSTEM", <<>>),
    Unresolved(Derived("QUA-002", <<>>)),
    Derived("QUA-003", <<>>),
    Derived("QUA-004", <<>>),
    Derived("QUA-005", <<>>),
    Derived("QUA-006", <<>>),
    Against("AS_SOLD", Derived("QUA-012", <<"QUA-006", "FIN-005">>)),
    Observed("QUA-007", "QUALITY_SYSTEM", <<>>),
    Derived("QUA-008", <<>>),
    Derived("QUA-009", <<"QUA-001">>),
    Observed("QUA-010", "QUALITY_SYSTEM", <<>>),
    Derived("QUA-011", <<>>)>>

RESOURCE_METRICS == <<
    Derived("RES-001", <<>>),
    Against("CURRENT_CONTRACTUAL", Derived("RES-002", <<>>)),
    Derived("RES-003", <<>>),
    Against("AS_SOLD", Derived("RES-004", <<"RES-003">>)),
    Against("AS_SOLD", Derived("RES-005", <<>>)),
    Against("AS_SOLD", Derived("RES-010", <<"RES-005">>)),
    Derived("RES-006", <<>>),
    Derived("RES-007", <<>>),
    Against("CURRENT_CONTRACTUAL", Derived("RES-008", <<>>)),
    Derived("RES-009", <<>>)>>

RISK_METRICS == <<
    Derived("RSK-001", <<>>),
    Under("VAR-v1", Derived("RSK-008", <<>>)),
    Observed("RSK-002", "DELIVERY_SYSTEM", <<>>),
    Derived("RSK-003", <<>>),
    Derived("RSK-004", <<>>),
    Derived("RSK-005", <<>>),
    Derived("RSK-006", <<>>),
    Derived("RSK-007", <<>>)>>

CompletionMetrics == <<
    Observed("DEL-016", "MANUAL_DECLARATION", <<>>),
    Against("CURRENT_CONTRACTUAL", Derived("DEL-017", <<>>)),
    Against("CURRENT_CONTRACTUAL", Derived("DEL-015", <<"DEL-016", "DEL-017">>)),
    Derived("DEL-019", <<"DEL-016">>),
    Against("CURRENT_CONTRACTUAL", Derived("DEL-020", <<"DEL-016">>)),
    Derived("DEL-018", <<"DEL-020", "DEL-019">>),
    Derived("DEL-021", <<"DEL-018">>)>>

EarnedValueMetrics == <<
    Against("CURRENT_CONTRACTUAL", Derived("DEL-001", <<>>)),
    Against("CURRENT_CONTRACTUAL", Derived("DEL-002", <<"FIN-004", "DEL-016">>)),
    Observed("DEL-003", "FINANCE_SYSTEM", <<"FIN-005">>),
    Derived("DEL-004", <<"DEL-002", "DEL-003">>),
    Against("CURRENT_CONTRACTUAL", Derived("DEL-005", <<"DEL-002", "DEL-001">>)),
    Against("CURRENT_CONTRACTUAL", Derived("DEL-006", <<"DEL-002", "DEL-003">>)),
    Against("CURRENT_CONTRACTUAL", Derived("DEL-007", <<"DEL-002", "DEL-001">>)),
    Against("CURRENT_CONTRACTUAL", Derived("DEL-008", <<"FIN-004", "FIN-008">>)),
    Against("CURRENT_CONTRACTUAL", Derived("DEL-009", <<>>)),
    Against("CURRENT_CONTRACTUAL", Derived("DEL-010", <<>>)),
    Against("CURRENT_CONTRACTUAL", Derived("DEL-011", <<>>)),
    Unresolved(Against("CURRENT_CONTRACTUAL", Derived("DEL-012", <<>>))),
    Derived("DEL-013", <<"DEL-016">>),
    Derived("DEL-014", <<>>),
    Derived("DEL-022", <<>>),
    Derived("DEL-023", <<>>)>>

HEALTH_METRICS == <<
    Dimension("HLTH-001", "HEALTH-v1", <<"FIN-014", "FIN-016", "DEL-004", "FIN-021">>),
    Dimension("HLTH-002", "HEALTH-v1", <<"DEL-005", "DEL-009", "DEL-010", "DEL-011">>),
    Dimension("HLTH-003", "HEALTH-v1", <<"COM-007", "COM-008", "COM-009", "FIN-011">>),
    Dimension("HLTH-004", "HEALTH-v1", <<"QUA-003", "QUA-006", "QUA-009", "QUA-010">>),
    Dimension("HLTH-005", "HEALTH-v1", <<"RES-004", "RES-006", "RES-007", "RES-008">>),
    Dimension("HLTH-006", "HEALTH-v1", <<"RSK-001", "RSK-002", "RSK-004", "RSK-005">>),
    Under("HEALTH-v1", Derived("HLTH-010", <<"HLTH-001", "HLTH-002", "HLTH-003", "HLTH-004", "HLTH-005", "HLTH-006">>)),
    Under("HEALTH-v1", Assessed("HLTH-011", <<"HLTH-010">>)),
    Observed("HLTH-012", "MANUAL_DECLARATION", <<>>),
    Under("HEALTH-v1", Assessed("HLTH-013", <<"HLTH-011">>)),
    Under("HEALTH-v1", Assessed("HLTH-030", <<"HLTH-012", "HLTH-011">>)),
    Under("HEALTH-v1", Assessed("HLTH-031", <<"HLTH-030">>)),
    Under("HEALTH-v1", Derived("HLTH-032", <<"HLTH-001", "HLTH-002", "HLTH-003", "HLTH-004", "HLTH-005", "HLTH-006">>)),
    Under("HEALTH-v2", Assessed("HLTH-033", <<"HLTH-012", "HLTH-011", "FCST-020", "FCST-022">>))>>

FORECAST_METRICS == <<
    Under("TRAJECTORY-v1", Assessed("FCST-001", <<"HLTH-010">>)),
    Under("TRAJECTORY-v1", Assessed("FCST-002", <<"FCST-001", "HLTH-013">>)),
    Under("TRAJECTORY-v1", Assessed("FCST-003", <<"HLTH-010", "FCST-001">>)),
    Under("TRAJECTORY-v1", Assessed("FCST-004", <<"FIN-014">>)),
    Under("TRAJECTORY-v1", Assessed("FCST-005", <<"FIN-014", "FCST-004">>)),
    Under("TRAJECTORY-v1", Assessed("FCST-006", <<"HLTH-001", "HLTH-002", "HLTH-003", "HLTH-004", "HLTH-005", "HLTH-006">>)),
    Under("TRAJECTORY-v1", Assessed("FCST-007", <<"FCST-003">>)),
    Under("TRAJECTORY-v1", Assessed("FCST-010", <<"FCST-001", "HLTH-030", "HLTH-031", "FCST-006">>))>>

DATA_QUALITY_METRICS == <<
    Derived("DQ-001", <<>>),
    Derived("DQ-002", <<>>),
    Derived("DQ-003", <<>>),
    Derived("DQ-004", <<>>),
    Under("DQ-v1", Derived("DQ-005", <<"DQ-001", "DQ-002", "DQ-003", "DQ-004">>)),
    Derived("DQ-006", <<"HLTH-010", "DQ-005">>),
    Under("DQ-v1", Assessed("DQ-007", <<"DEL-014", "FIN-030", "DEL-013">>))>>

PORTFOLIO_METRICS == <<
    Derived("PORT-001", <<"FIN-002">>),
    Derived("PORT-002", <<"FIN-010", "FIN-008">>),
    Under("VAR-v1", Against("AS_SOLD", Derived("PORT-003", <<"FIN-019">>))),
    Assessed("PORT-004", <<"HLTH-012", "HLTH-011">>),
    Assessed("PORT-005", <<"HLTH-030">>),
    Under("TRAJECTORY-v1", Assessed("PORT-006", <<"FCST-002">>)),
    Under("PRIORITY-v1", Assessed("PORT-007", <<"HLTH-011", "FIN-019", "FCST-025", "FCST-022", "FCST-007", "DQ-005", "DQ-007">>)),
    Under("DQ-v1", Derived("PORT-008", <<"DQ-005">>)),
    Against("FORECAST", Derived("PORT-009", <<"FIN-024">>))>>

EXECUTIVE_HEALTH_METRICS == <<
    Dimension("HLTH-021", "HEALTH-v2", <<"FIN-014", "FIN-016", "FIN-027", "FIN-021">>),
    Dimension("HLTH-022", "HEALTH-v2", <<"DEL-005", "DEL-011", "DEL-018", "DEL-010">>),
    Dimension("HLTH-023", "HEALTH-v2", <<"COM-007", "COM-008", "COM-009", "FIN-011">>),
    Dimension("HLTH-024", "HEALTH-v2", <<"QUA-003", "QUA-006", "QUA-009", "QUA-010">>),
    Under("HEALTH-v2", Derived("HLTH-020", <<"HLTH-021", "HLTH-022", "HLTH-023", "HLTH-024">>))>>

PHASE4_FORECAST_METRICS == <<
    Under("TRAJECTORY-v1", Assessed("FCST-020", <<"FCST-021", "FCST-006">>)),
    Under("TRAJECTORY-v1", Assessed("FCST-021", <<>>)),
    Under("TRAJECTORY-v1", Assessed("FCST-022", <<"FCST-020", "HLTH-011">>)),
    Under("TRAJECTORY-v1", Assessed("FCST-025", <<"HLTH-011", "FCST-022", "FCST-007">>)),
    Under("TRAJECTORY-v1", Against("FORECAST", Assessed("FCST-026", <<"FIN-024", "FCST-005", "FIN-010">>))),
    Under("EARLY_WARNING-v1", Assessed("FCST-030", <<"HLTH-011">>))>>

RECOVERY_METRICS == <<
    Under("RECOVERY-v1", Assessed("REC-001", <<"FIN-010", "FIN-008">>)),
    Under("RECOVERY-v1", Assessed("REC-002", <<"REC-001">>)),
    Under("RECOVERY-v1", Assessed("REC-003", <<>>))>>

PHASE4_DATA_QUALITY_METRICS == <<
    Derived("DQ-008", <<>>),
    Unresolved(Under("DQ-v1", Assessed("DQ-009", <<"FIN-007", "COM-008", "DEL-009", "DEL-023", "RES-006", "DEL-021">>)))>>
METRIC_REGISTRY ==
    BaselineMetrics \o MarginMetrics \o ProgressMetrics \o RiskAdjustedMetrics
    \o ContingencyMetrics \o COMMERCIAL_METRICS \o CompletionMetrics \o EarnedValueMetrics
    \o QUALITY_METRICS \o RESOURCE_METRICS \o RISK_METRICS \o HEALTH_METRICS
    \o EXECUTIVE_HEALTH_METRICS \o FORECAST_METRICS \o PHASE4_FORECAST_METRICS
    \o DATA_QUALITY_METRICS \o PHASE4_DATA_QUALITY_METRICS \o RECOVERY_METRICS
    \o PORTFOLIO_METRICS

-----------------------------------------------------------------------------
(* What every commit must pass *)

\* The metrics whose name reads as a variance.
ReadsAsVariance ==
    {"FIN-016", "FIN-017", "FIN-025", "FIN-042", "FIN-019", "FIN-022", "RES-011", "RES-002",
     "RES-004", "RES-005", "RES-010", "DEL-015", "DEL-006", "DEL-007", "DEL-008", "DEL-010",
     "DEL-011", "PORT-003", "FCST-026"}

Ids(reg) == {reg[i].id : i \in DOMAIN reg}

\* A map built in the registry's order: of two definitions of one metric the later.
ById(reg) ==
    LET place == [id \in Ids(reg) |-> Max({i \in DOMAIN reg : reg[i].id = id})]
    IN  [id \in Ids(reg) |-> reg[place[id]]]

Violation(code, id) == [code |-> code, metric |-> id]

Told(code, cond, id) == IF cond THEN {Violation(code, id)} ELSE {}

InputViolations(m, byId) ==
    LET named == ToSet(m.inputs)
    IN  Told("SELF_REFERENCE", m.id \in named, m.id)
        \cup Told("UNKNOWN_INPUT_METRIC", \E i \in named : i # m.id /\ i \notin DOMAIN byId, m.id)

\* A definition that is frozen, or a fact, rests on none that is not.
DependencyViolations(m, byId) ==
    LET deps == {byId[i] : i \in ToSet(m.inputs) \cap DOMAIN byId}
    IN  Told("FROZEN_DEPENDS_ON_DRAFT",
             m.status = "Frozen" /\ \E d \in deps : d.status = "Draft", m.id)
        \cup Told("DERIVED_DEPENDS_ON_ASSESSMENT",
             m.level # "L3_ASSESSED" /\ \E d \in deps : d.level = "L3_ASSESSED", m.id)

\* An observed fact comes from somewhere; a derived or assessed value from here.
ClaimViolations(m) ==
    Told("OBSERVED_FACT_CLAIMED_AS_DERIVED",
         m.level = "L1_OBSERVED" /\ m.source \in {"DERIVED", "RULE_ENGINE"}, m.id)
    \cup Told("DERIVED_CLAIMS_EXTERNAL_AUTHORITY",
         \/ m.level = "L2_DERIVED" /\ m.source # "DERIVED"
         \/ m.level = "L3_ASSESSED" /\ m.source # "RULE_ENGINE", m.id)
    \cup Told("UNNAMED_CALIBRATION", m.ruleSet # Unnamed /\ ~m.calibrated, m.id)
    \cup Told("DRAFT_WITHOUT_SEMANTIC_REASON", m.status = "Draft" /\ ~m.reason, m.id)
    \cup Told("MISSING_EVIDENCE_EXPECTATION", ~m.evidence, m.id)
    \cup Told("UNNAMED_BASELINE", m.id \in ReadsAsVariance /\ m.baseline = Unnamed, m.id)

\* One identifier twice, or one formula over the same inputs.
Duplicates(reg) ==
    LET formula == [i \in DOMAIN reg |-> <<reg[i].formula, ToSet(reg[i].inputs)>>]
        Repeats(i, code) ==
            IF code = "DUPLICATE_ID" THEN \E j \in 1..(i - 1) : reg[j].id = reg[i].id
            ELSE \E j \in 1..(i - 1) : formula[j][1] = formula[i][1] /\ formula[j][2] = formula[i][2]
    IN  UNION {{Violation(c, reg[i].id) : c \in {d \in {"DUPLICATE_ID", "DUPLICATE_FORMULA"} : Repeats(i, d)}} :
                i \in DOMAIN reg}

\* Depth first from `id`: `open` is the stack, an input still on it closes a cycle.
RECURSIVE Visit(_, _, _)
Visit(byId, id, walk) ==
    LET Follow(w, next) ==
            IF next \notin DOMAIN byId THEN w
            ELSE IF next \in w.open THEN [w EXCEPT !.cycles = @ \cup {id}]
            ELSE IF next \in w.closed THEN w ELSE Visit(byId, next, w)
        inside == FoldLeft(Follow, [walk EXCEPT !.open = @ \cup {id}], byId[id].inputs)
    IN  [inside EXCEPT !.open = @ \ {id}, !.closed = @ \cup {id}]

Unvisited == [open |-> {}, closed |-> {}, cycles |-> {}]

\* Every definition not reached from an earlier one, in the registry's order.
RECURSIVE VisitAll(_, _, _)
VisitAll(byId, ids, walk) ==
    LET half == Len(ids) \div 2
        before == VisitAll(byId, SubSeq(ids, 1, half), walk)
    IN  IF Len(ids) = 1 THEN (IF ids[1] \in walk.closed THEN walk ELSE Visit(byId, ids[1], walk))
        ELSE IF before.closed = DOMAIN byId THEN before
        ELSE VisitAll(byId, SubSeq(ids, half + 1, Len(ids)), before)

Cycles(reg, byId) ==
    {Violation("CYCLE", id) : id \in VisitAll(byId, [i \in DOMAIN reg |-> reg[i].id], Unvisited).cycles}

ValidateRegistry(reg) ==
    LET byId == ById(reg)
    IN  UNION {InputViolations(reg[i], byId) \cup DependencyViolations(reg[i], byId)
                \cup ClaimViolations(reg[i]) : i \in DOMAIN reg}
            \cup Duplicates(reg) \cup Cycles(reg, byId)

-----------------------------------------------------------------------------
(* The executive health model *)

Input(metric, weight, green, red, higher) ==
    [metric |-> metric, weight |-> weight, green |-> green, red |-> red, higher |-> higher]

HEALTH_MODEL_V2 ==
    [FINANCIAL |-> [weight |-> 40, inputs |-> {
        Input("FIN-014", 40, 220, 50, TRUE), Input("FIN-016", 25, -10, -90, TRUE),
        Input("FIN-027", 20, 20, 150, FALSE), Input("FIN-034", 15, 50, 300, FALSE)}],
     DELIVERY |-> [weight |-> 25, inputs |-> {
        Input("DEL-015", 35, -20, -150, TRUE), Input("DEL-018", 30, 1050, 1800, FALSE),
        Input("DEL-010", 20, 0, 4000, FALSE), Input("DEL-023", 15, 14000, 90000, FALSE)}],
     SCOPE_COMMERCIAL |-> [weight |-> 20, inputs |-> {
        Input("COM-009", 45, 10, 100, FALSE), Input("COM-007", 30, 21000, 120000, FALSE),
        Input("FIN-011", 25, 10, 120, FALSE)}],
     PRODUCT_QUALITY |-> [weight |-> 15, inputs |-> {
        Input("QUA-006", 35, 50, 200, FALSE), Input("QUA-010", 30, 0, 5000, FALSE),
        Input("QUA-003", 20, 50, 300, FALSE), Input("QUA-009", 15, 0, 3000, FALSE)}]]

Weighed(inputs) == FoldSet(LAMBDA x, sum : sum + x.weight, 0, inputs)
DimensionWeights(m) == FoldSet(LAMBDA d, sum : sum + m[d].weight, 0, DOMAIN m)

ValidateHealthModel(m) ==
    (IF DimensionWeights(m) # 100 THEN {"dimension weights"} ELSE {})
        \cup {"input weights" : d \in {e \in DOMAIN m : Weighed(m[e].inputs) # 100}}
        \cup {"edges" : i \in {j \in UNION {m[e].inputs : e \in DOMAIN m} :
                IF j.higher THEN j.green <= j.red ELSE j.green >= j.red}}

-----------------------------------------------------------------------------
(* Commits *)

Init ==
    /\ registry = METRIC_REGISTRY /\ proposal = METRIC_REGISTRY
    /\ violations = ValidateRegistry(METRIC_REGISTRY)
    /\ model = HEALTH_MODEL_V2 /\ modelErrors = ValidateHealthModel(HEALTH_MODEL_V2)
    /\ changes = 0

\* The check decides whether the proposal goes in.
Submit(reg, found) ==
    /\ UNCHANGED <<model, modelErrors>>
    /\ proposal' = reg /\ violations' = found
    /\ registry' = IF found = {} THEN reg ELSE registry
    /\ changes' = IF found = {} THEN changes + 1 ELSE changes

Propose(reg) ==
    /\ changes < MaxChanges /\ proposal = registry /\ reg # registry
    /\ Submit(reg, ValidateRegistry(reg))

Revised(id, Change(_)) == [i \in DOMAIN registry |-> IF registry[i].id = id THEN Change(registry[i]) ELSE registry[i]]

Rewire == \E r \in Rewired :
    Propose(Revised(r[1], LAMBDA m : [m EXCEPT !.inputs = r[2]]))

Reclassify == \E r \in Reclassified :
    Propose(Revised(r[1], LAMBDA m : [m EXCEPT !.level = r[2], !.source = r[3]]))

Restate == \E r \in Restated :
    Propose(Revised(r[1], LAMBDA m : [m EXCEPT !.status = r[2], !.reason = r[2] = "Draft"]))

Copy == \E r \in Copied :
    Propose(Append(registry, [ById(registry)[r[1]] EXCEPT !.id = r[2]]))

Retire == \E id \in Retired :
    Propose(SelectSeq(registry, LAMBDA m : m.id # id))

\* A model is committed whatever the check would say of it.
Reweigh == \E r \in Reweighted :
    /\ \E i \in model[r[1]].inputs :
          /\ i.metric = r[2]
          /\ LET other == [i EXCEPT !.weight = r[3], !.green = r[4], !.red = r[5]]
                 revised == [model EXCEPT ![r[1]].inputs = (@ \ {i}) \cup {other}]
             IN  /\ model' = revised
                 /\ modelErrors' = ValidateHealthModel(revised)
    /\ changes < MaxChanges /\ changes' = changes + 1
    /\ UNCHANGED <<registry, proposal, violations>>

\* What the check refused is taken back before the next proposal.
Withdraw ==
    /\ proposal # registry
    /\ proposal' = registry /\ violations' = {}
    /\ UNCHANGED <<registry, model, modelErrors, changes>>

Next == Rewire \/ Reclassify \/ Restate \/ Copy \/ Retire \/ Reweigh \/ Withdraw

Spec == Init /\ [][Next]_vars

-----------------------------------------------------------------------------
(* Properties *)

TypeOK ==
    /\ \A reg \in {registry, proposal} : \A i \in DOMAIN reg :
          /\ reg[i].status \in {"Draft", "Frozen", "Deprecated"}
          /\ reg[i].level \in {"L1_OBSERVED", "L2_DERIVED", "L3_ASSESSED"}
    /\ \A v \in violations : v.metric \in Ids(proposal)
    /\ DOMAIN model = DOMAIN HEALTH_MODEL_V2
    /\ modelErrors \subseteq {"dimension weights", "input weights", "edges"}
    /\ changes \in 0..MaxChanges

\* The metrics that can be computed one after another, each after its inputs.
RECURSIVE Computable(_, _)
Computable(byId, done) ==
    LET more == {id \in DOMAIN byId : ToSet(byId[id].inputs) \cap DOMAIN byId \subseteq done}
    IN  IF more = done THEN done ELSE Computable(byId, more)

\* A cycle is told of exactly those proposals that no order of computation settles, and
\* what is committed has one (registry/index.ts, visit).
CyclesAreTold ==
    LET byId == ById(proposal)
    IN  /\ Computable(byId, {}) # DOMAIN byId <=> \E v \in violations : v.code = "CYCLE"
        /\ violations = {} => \A id \in DOMAIN byId : ToSet(byId[id].inputs) \subseteq DOMAIN byId

\* What rests on one of `roots` through any chain of inputs.
RECURSIVE RestsOn(_, _)
RestsOn(byId, roots) ==
    LET more == roots \cup {id \in DOMAIN byId : ToSet(byId[id].inputs) \cap roots # {}}
    IN  IF more = roots THEN roots ELSE RestsOn(byId, more)

\* In what is committed no observed or derived figure rests on a judgement, however far
\* down: a verdict never returns as a fact (registry/index.ts, metric-types.ts).
VerdictsAreNotFacts ==
    LET byId == ById(registry)
        Judged == {id \in DOMAIN byId : byId[id].level = "L3_ASSESSED"}
    IN  RestsOn(byId, Judged) = Judged

\* The share of its points an input earns, in hundredths (quantity.ts).
Normalised(i, v) ==
    LET span == IF i.higher THEN i.green - i.red ELSE i.red - i.green
        past == IF i.higher THEN v - i.red ELSE i.red - v
        position == IF span > 0 THEN (past * 100) \div span ELSE (-past * 100) \div (-span)
    IN  IF span = 0 THEN (IF past >= 0 THEN 100 ELSE 0) ELSE Max({0, Min({100, position})})

\* In a model the check accepts every point of the composite belongs to one input, and of
\* two values of an input the better one never scores lower (health-model.ts,
\* validateHealthModel; quantity.ts, qNormaliseScore).
AcceptedModelsScoreSoundly ==
    modelErrors = {} =>
        /\ FoldSet(LAMBDA d, sum : sum + model[d].weight * Weighed(model[d].inputs), 0, DOMAIN model) = 10000
        /\ \A i \in UNION {model[d].inputs : d \in DOMAIN model} :
              LET high == Normalised(i, Max({i.green, i.red}))
                  low == Normalised(i, Min({i.green, i.red}))
              IN  IF i.higher THEN high > low ELSE low > high

=============================================================================
