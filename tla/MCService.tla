---------------------------- MODULE MCService ----------------------------
(***************************************************************************)
(* The parts of the service that keep its books: the store's adapter, the  *)
(* process and its siblings, the limits, the request pipeline, sign-in,    *)
(* the audit trail, the two pages with state of their own, documents,      *)
(* sheets, identities, authority, connectors, the conversation, and the    *)
(* way to an answer.                                                       *)
(*                                                                         *)
(* They share no state, so a behaviour is about one of them and the others *)
(* rest; or about another part of the platform, and all of these rest.     *)
(***************************************************************************)
EXTENDS Integers, Sequences, FiniteSets, TLC

CONSTANTS
    AtRest,    \* what the variables of the other parts hold
    Null       \* no value, where a component leaves its representation open

CONSTANTS   \* of single parts, under their part's name
    CollectionLastId, CollectionMaxCalls, CollectionMaxBatch, CollectionPageSize,
    CollectionMaxPages,
    ProcessRequests, ProcessPersonas, ProcessExec, ProcessDenied,
    FleetInstances, FleetUploads, FleetLastMs, FleetMaxStarts,
    LimitsCallers, LimitsPersonas, LimitsPersonaOf, LimitsWindow, LimitsWithCode,
    LimitsMaxCalls, LimitsMaxUploads, LimitsMaxReads,
    ApiActors, ApiRole, ApiScope, ApiRequests, ApiRoutes, ApiReaders, ApiSensitive, ApiProjects,
    ApiIdle, ApiAbsolute, ApiMaxTime, ApiMaxSessions,
    TabPages, TabBaseCount, TabMaxExpiries,
    TrailCallers, TrailActors, TrailActorOf, TrailDigests, TrailLastMs, TrailMaxAsked,
    TrailReadLimit, TrailShown, TrailListCap,
    UploadFiles, UploadHeaders, UploadSuggestion, UploadIdLike, UploadConcepts, UploadCalls,
    FilterProjects, FilterRegion, FilterBand, FilterCarries, FilterLens, FilterPages,
    FilterMaxHistory,
    DocumentsContents, DocumentsWords, DocumentsProjects, DocumentsChunksOf, DocumentsLastMs,
    DocumentsMaxUploads, DocumentsMaxCrashes,
    SheetIdentities, SheetBlank, SheetResolution, SheetProjects, SheetPeriods, SheetNotADate,
    SheetEffective, SheetColumns, SheetConcepts, SheetSafeId, SheetMaxRows,
    HubSystems, HubSpellings, HubKey, HubProjects, HubMaxDeclarations,
    AuthoritySystems, AuthorityUploads, AuthorityConcepts, AuthorityValues,
    AuthoritySourceOrder, AuthorityMaxGrants, AuthorityMaxObservations,
    ConnectorNames, ConnectorVersions, ConnectorDates, ConnectorMaxRecords, ConnectorMaxSyncs,
    ChatProjects, ChatRegion, ChatBand, ChatQuestions, ChatScopes, ChatMany, ChatMaxValues,
    ChatMaxAsks, ChatMaxOpen,
    AnswerClasses, AnswerPermitted, AnswerDeclared

VARIABLES
    part,   \* the part a behaviour is about; it never changes
    collection_late, collection_docs, collection_batch, collection_calls, collection_at,
    collection_step, collection_outcome, collection_abandoned, collection_applied,
    collection_page, collection_token, collection_listed, collection_expected,
    process_personas, process_logins, process_build, process_registries, process_durability,
    process_requests,
    fleet_now, fleet_starts, fleet_running, fleet_memory, fleet_queue, fleet_store,
    fleet_uploads,
    limits_hits, limits_uploads, limits_recent, limits_admitted, limits_reads, limits_outcome,
    api_now, api_sessions, api_requests, api_audit, api_sealed,
    signin_deployment, signin_runtime, signin_stored, signin_page, signin_gate, signin_said,
    signin_last, signin_codeGiven, signin_expiries,
    audit_now, audit_durable, audit_rows, audit_asked, audit_view,
    upload_calls, upload_current, upload_stage, upload_picker, upload_step, upload_seen,
    upload_sent,
    filter_page, filter_state, filter_controls, filter_entries, filter_at, filter_document,
    filter_nav, filter_arrow, filter_bound,
    documents_versions, documents_current, documents_chunks, documents_postings,
    documents_clock, documents_queue, documents_dVersions, documents_dCurrent, documents_failed,
    documents_last, documents_hydrating, documents_uploads, documents_crashes,
    sheet_periodField, sheet_conceptOf, sheet_required, sheet_sheet, sheet_seenIdentities,
    sheet_seenPeriodKeys, sheet_staged, sheet_observations, sheet_receipt, sheet_phase,
    identity_mappings, identity_declared,
    authority_grants, authority_configured, authority_observations, authority_receipts,
    authority_running,
    connector_records, connector_delivered, connector_watermark, connector_drifted,
    connector_handed, connector_syncs,
    conversation_state, conversation_open, conversation_asked, conversation_scope,
    conversation_shown,
    answer_config, answer_stage, answer_task, answer_claims, answer_planner, answer_decision,
    answer_composer, answer_grounded, answer_audit, answer_sent

collectionVars == <<collection_late, collection_docs, collection_batch, collection_calls,
                    collection_at, collection_step, collection_outcome, collection_abandoned,
                    collection_applied, collection_page, collection_token, collection_listed,
                    collection_expected>>
processVars == <<process_personas, process_logins, process_build, process_registries,
                 process_durability, process_requests>>
fleetVars == <<fleet_now, fleet_starts, fleet_running, fleet_memory, fleet_queue, fleet_store,
               fleet_uploads>>
limitsVars == <<limits_hits, limits_uploads, limits_recent, limits_admitted, limits_reads,
                limits_outcome>>
apiVars == <<api_now, api_sessions, api_requests, api_audit, api_sealed>>
signinVars == <<signin_deployment, signin_runtime, signin_stored, signin_page, signin_gate,
                signin_said, signin_last, signin_codeGiven, signin_expiries>>
auditVars == <<audit_now, audit_durable, audit_rows, audit_asked, audit_view>>
uploadVars == <<upload_calls, upload_current, upload_stage, upload_picker, upload_step,
                upload_seen, upload_sent>>
filterVars == <<filter_page, filter_state, filter_controls, filter_entries, filter_at,
                filter_document, filter_nav, filter_arrow, filter_bound>>
documentsVars == <<documents_versions, documents_current, documents_chunks, documents_postings,
                   documents_clock, documents_queue, documents_dVersions, documents_dCurrent,
                   documents_failed, documents_last, documents_hydrating, documents_uploads,
                   documents_crashes>>
sheetVars == <<sheet_periodField, sheet_conceptOf, sheet_required, sheet_sheet,
               sheet_seenIdentities, sheet_seenPeriodKeys, sheet_staged, sheet_observations,
               sheet_receipt, sheet_phase>>
identityVars == <<identity_mappings, identity_declared>>
authorityVars == <<authority_grants, authority_configured, authority_observations,
                   authority_receipts, authority_running>>
connectorVars == <<connector_records, connector_delivered, connector_watermark,
                   connector_drifted, connector_handed, connector_syncs>>
conversationVars == <<conversation_state, conversation_open, conversation_asked,
                      conversation_scope, conversation_shown>>
answerVars == <<answer_config, answer_stage, answer_task, answer_claims, answer_planner,
                answer_decision, answer_composer, answer_grounded, answer_audit, answer_sent>>

serviceVars == <<part, collectionVars, processVars, fleetVars, limitsVars, apiVars, signinVars,
                 auditVars, uploadVars, filterVars, documentsVars, sheetVars, identityVars,
                 authorityVars, connectorVars, conversationVars, answerVars>>

-----------------------------------------------------------------------------
Collection == INSTANCE FirestoreCollection WITH
    LastId <- CollectionLastId, MaxCalls <- CollectionMaxCalls, MaxBatch <- CollectionMaxBatch,
    PageSize <- CollectionPageSize, MaxPages <- CollectionMaxPages,
    late <- collection_late, docs <- collection_docs, batch <- collection_batch,
    calls <- collection_calls, at <- collection_at, step <- collection_step,
    outcome <- collection_outcome, abandoned <- collection_abandoned,
    applied <- collection_applied, page <- collection_page, token <- collection_token,
    listed <- collection_listed, expected <- collection_expected

-----------------------------------------------------------------------------
Process == INSTANCE ProcessState WITH
    Requests <- ProcessRequests, Personas <- ProcessPersonas, Exec <- ProcessExec,
    Denied <- ProcessDenied,
    personas <- process_personas, logins <- process_logins, build <- process_build,
    registries <- process_registries, durability <- process_durability,
    requests <- process_requests

-----------------------------------------------------------------------------
FleetOf == INSTANCE Fleet WITH
    Instances <- FleetInstances, Uploads <- FleetUploads, LastMs <- FleetLastMs,
    MaxStarts <- FleetMaxStarts,
    now <- fleet_now, starts <- fleet_starts, running <- fleet_running, memory <- fleet_memory,
    queue <- fleet_queue, store <- fleet_store, uploads <- fleet_uploads

-----------------------------------------------------------------------------
OnePersona == [c \in {"c1", "c2"} |-> "exec"]

Limits == INSTANCE RequestLimits WITH
    Callers <- LimitsCallers, Personas <- LimitsPersonas, PersonaOf <- LimitsPersonaOf,
    Window <- LimitsWindow, WithCode <- LimitsWithCode, MaxCalls <- LimitsMaxCalls,
    MaxUploads <- LimitsMaxUploads, MaxReads <- LimitsMaxReads,
    hits <- limits_hits, uploads <- limits_uploads, recent <- limits_recent,
    admitted <- limits_admitted, reads <- limits_reads, outcome <- limits_outcome

-----------------------------------------------------------------------------
RoleOf == "ada" :> "EXECUTIVE" @@ "ben" :> "DELIVERY_MANAGER"
ScopeOf == "ada" :> {"p1", "p2"} @@ "ben" :> {"p1"}
RouteTable ==
    "read" :> [write |-> FALSE, audited |-> TRUE, roles |-> {"EXECUTIVE", "DELIVERY_MANAGER"},
               fields |-> {"name", "margin"}]
    @@ "override" :> [write |-> TRUE, audited |-> FALSE, roles |-> {"EXECUTIVE"}, fields |-> {"name"}]
ReadersOf == "name" :> {"EXECUTIVE", "DELIVERY_MANAGER"} @@ "margin" :> {"EXECUTIVE"}

Api == INSTANCE ApiRequests WITH
    Actors <- ApiActors, Role <- ApiRole, Scope <- ApiScope, Requests <- ApiRequests,
    Routes <- ApiRoutes, Readers <- ApiReaders, Sensitive <- ApiSensitive,
    Projects <- ApiProjects, Idle <- ApiIdle, Absolute <- ApiAbsolute, MaxTime <- ApiMaxTime,
    MaxSessions <- ApiMaxSessions,
    now <- api_now, sessions <- api_sessions, requests <- api_requests, audit <- api_audit,
    sealed <- api_sealed

-----------------------------------------------------------------------------
Tab == INSTANCE SignIn WITH
    Pages <- TabPages, BaseCount <- TabBaseCount, MaxExpiries <- TabMaxExpiries,
    deployment <- signin_deployment, runtime <- signin_runtime, stored <- signin_stored,
    page <- signin_page, gate <- signin_gate, said <- signin_said, last <- signin_last,
    codeGiven <- signin_codeGiven, expiries <- signin_expiries

-----------------------------------------------------------------------------
InsistingTab == INSTANCE SignIn WITH
    Pages <- {"assistant"}, BaseCount <- 2, MaxExpiries <- 2,
    deployment <- signin_deployment, runtime <- signin_runtime, stored <- signin_stored,
    page <- signin_page, gate <- signin_gate, said <- signin_said, last <- signin_last,
    codeGiven <- signin_codeGiven, expiries <- signin_expiries

-----------------------------------------------------------------------------
SignedFor == [c \in {"a", "b"} |-> IF c = "b" THEN 1 ELSE 2]

Trail == INSTANCE AuditTrail WITH
    Callers <- TrailCallers, Actors <- TrailActors, ActorOf <- TrailActorOf,
    Digests <- TrailDigests, LastMs <- TrailLastMs, MaxAsked <- TrailMaxAsked,
    ReadLimit <- TrailReadLimit, Shown <- TrailShown, ListCap <- TrailListCap,
    now <- audit_now, durable <- audit_durable, rows <- audit_rows, asked <- audit_asked,
    view <- audit_view

-----------------------------------------------------------------------------
HeadersOf == [ledger |-> <<"ref", "month">>, plan |-> <<"period", "etc">>]
Suggested(confidence, concept) == [confidence |-> confidence, concept |-> concept]
SuggestionOf ==
    [ledger |-> [ref |-> Suggested("NONE", "none"), month |-> Suggested("LIKELY", "financialPeriod"),
                 spend |-> Suggested("LIKELY", "actualCost")],
     plan |-> [period |-> Suggested("EXACT", "financialPeriod"), etc |-> Suggested("EXACT", "actualCost")]]
SurfaceCalls == {"c1", "c2"}

Upload == INSTANCE UploadSurface WITH
    Files <- UploadFiles, Headers <- UploadHeaders, Suggestion <- UploadSuggestion,
    IdLike <- UploadIdLike, Concepts <- UploadConcepts, Calls <- UploadCalls,
    Overlapping <- FALSE,
    calls <- upload_calls, current <- upload_current, stage <- upload_stage,
    picker <- upload_picker, step <- upload_step, seen <- upload_seen, sent <- upload_sent

-----------------------------------------------------------------------------
OneColumnEach == [ledger |-> <<"ref">>, plan |-> <<"period">>]

ImpatientUpload == INSTANCE UploadSurface WITH
    Files <- {"ledger", "plan"}, Headers <- OneColumnEach, Suggestion <- SuggestionOf,
    IdLike <- {"ref"}, Concepts <- {"financialPeriod"}, Calls <- SurfaceCalls,
    Overlapping <- TRUE,
    calls <- upload_calls, current <- upload_current, stage <- upload_stage,
    picker <- upload_picker, step <- upload_step, seen <- upload_seen, sent <- upload_sent

-----------------------------------------------------------------------------
RegionShown == [p1 |-> "emea", p2 |-> "emea", p3 |-> "apac", p4 |-> "apac"]
BandShown == [p1 |-> "GREEN", p2 |-> "GREEN", p3 |-> "GREEN", p4 |-> "RED"]
DriversShown == [p1 |-> {"erosion"}, p2 |-> {}, p3 |-> {"erosion"}, p4 |-> {}]
QuickViews == [disagree |-> {"p1", "p3"}]

Filter == INSTANCE FilterState WITH
    Projects <- FilterProjects, Region <- FilterRegion, Band <- FilterBand,
    Carries <- FilterCarries, Lens <- FilterLens, Pages <- FilterPages,
    MaxHistory <- FilterMaxHistory,
    page <- filter_page, state <- filter_state, controls <- filter_controls,
    entries <- filter_entries, at <- filter_at, document <- filter_document, nav <- filter_nav,
    arrow <- filter_arrow, bound <- filter_bound

-----------------------------------------------------------------------------
Says(word) == [w \in {"w1", "w2"} |-> IF w = word THEN 1 ELSE 0]
TwoContents == "c1" :> <<Says("w1"), Says("w2")>> @@ "c2" :> <<Says("w1")>>

Documents == INSTANCE DocumentVersions WITH
    Contents <- DocumentsContents, Words <- DocumentsWords, Projects <- DocumentsProjects,
    ChunksOf <- DocumentsChunksOf, Unnamed <- Null, LastMs <- DocumentsLastMs,
    MaxUploads <- DocumentsMaxUploads, MaxCrashes <- DocumentsMaxCrashes,
    versions <- documents_versions, current <- documents_current, chunks <- documents_chunks,
    postings <- documents_postings, clock <- documents_clock, queue <- documents_queue,
    dVersions <- documents_dVersions, dCurrent <- documents_dCurrent,
    failed <- documents_failed, last <- documents_last, hydrating <- documents_hydrating,
    uploads <- documents_uploads, crashes <- documents_crashes

-----------------------------------------------------------------------------
HubSays == "a" :> "p1" @@ "alias" :> "p1" @@ "b" :> "p2" @@ "blank" :> "BLANK"
OneColumn == <<"f1">>
AsItIs == [i \in {"a", "alias", "b", "blank"} |-> i]

Sheet == INSTANCE StructuredIngestion WITH
    Identities <- SheetIdentities, Blank <- SheetBlank, Resolution <- SheetResolution,
    Projects <- SheetProjects, Periods <- SheetPeriods, NotADate <- SheetNotADate,
    Effective <- SheetEffective, Columns <- SheetColumns, Concepts <- SheetConcepts,
    SafeId <- SheetSafeId, MaxRows <- SheetMaxRows,
    periodField <- sheet_periodField, conceptOf <- sheet_conceptOf, required <- sheet_required,
    sheet <- sheet_sheet, seenIdentities <- sheet_seenIdentities,
    seenPeriodKeys <- sheet_seenPeriodKeys, staged <- sheet_staged,
    observations <- sheet_observations, receipt <- sheet_receipt, phase <- sheet_phase

-----------------------------------------------------------------------------
Folded == "prj-1" :> "prj-1" @@ "PRJ-1" :> "prj-1" @@ "prj-2" :> "prj-2" @@ " " :> Null

Hub == INSTANCE IdentityHub WITH
    Systems <- HubSystems, Spellings <- HubSpellings, Key <- HubKey, NoKey <- Null,
    Projects <- HubProjects, MaxDeclarations <- HubMaxDeclarations,
    mappings <- identity_mappings, declared <- identity_declared

-----------------------------------------------------------------------------
SourcesByName == <<"erp", "psa", "upload-a", "upload-b">>

Authority == INSTANCE SourceAuthority WITH
    Systems <- AuthoritySystems, Uploads <- AuthorityUploads, Concepts <- AuthorityConcepts,
    Values <- AuthorityValues, SourceOrder <- AuthoritySourceOrder,
    MaxGrants <- AuthorityMaxGrants, MaxObservations <- AuthorityMaxObservations,
    grants <- authority_grants, configured <- authority_configured,
    observations <- authority_observations, receipts <- authority_receipts,
    running <- authority_running

-----------------------------------------------------------------------------
Connector == INSTANCE ConnectorSync WITH
    Names <- ConnectorNames, Versions <- ConnectorVersions, Dates <- ConnectorDates,
    Undated <- Null, MaxRecords <- ConnectorMaxRecords, MaxSyncs <- ConnectorMaxSyncs,
    records <- connector_records, delivered <- connector_delivered,
    watermark <- connector_watermark, drifted <- connector_drifted, handed <- connector_handed,
    syncs <- connector_syncs

-----------------------------------------------------------------------------
RegionOf == <<"NA", "EU", "NA", "EU">>
BandOf == <<"RED", "RED", "GREEN", "GREEN">>

Asking(shape, region, band, project, limit, refinement) ==
    [shape |-> shape, region |-> region, band |-> band, project |-> project,
     limit |-> limit, refinement |-> refinement]
ListAll == Asking("list", {}, {}, Null, 4, FALSE)
RankRed == Asking("rank", {}, {"RED"}, Null, 3, FALSE)
OnlyEU == Asking("list", {"EU"}, {}, Null, 4, TRUE)
OnlyRed == Asking("list", {}, {"RED"}, Null, 4, TRUE)
WhichOne == Asking("rank", {}, {}, Null, 1, TRUE)
Why == Asking("health", {}, {}, Null, 4, TRUE)
HealthOf2 == Asking("health", {}, {}, 2, 4, FALSE)
Declined == Asking("declined", {}, {}, Null, 4, FALSE)

TheQuestions == {ListAll, RankRed, OnlyEU, OnlyRed, WhichOne, Why, HealthOf2, Declined}

Chat == INSTANCE Conversation WITH
    Projects <- ChatProjects, Region <- ChatRegion, Band <- ChatBand,
    Questions <- ChatQuestions, Scopes <- ChatScopes, NoProject <- Null, Many <- ChatMany,
    MaxValues <- ChatMaxValues, MaxAsks <- ChatMaxAsks, MaxOpen <- ChatMaxOpen,
    state <- conversation_state, open <- conversation_open, asked <- conversation_asked,
    scope <- conversation_scope, shown <- conversation_shown

-----------------------------------------------------------------------------
ChatAlone == INSTANCE Conversation WITH
    Projects <- ChatProjects, Region <- ChatRegion, Band <- ChatBand,
    Questions <- ChatQuestions, Scopes <- ChatScopes, NoProject <- Null, Many <- ChatMany,
    MaxValues <- ChatMaxValues, MaxAsks <- ChatMaxAsks, MaxOpen <- 1,
    state <- conversation_state, open <- conversation_open, asked <- conversation_asked,
    scope <- conversation_scope, shown <- conversation_shown

-----------------------------------------------------------------------------
Answer == INSTANCE AssistantAnswer WITH
    Classes <- AnswerClasses, Permitted <- AnswerPermitted, Declared <- AnswerDeclared,
    config <- answer_config, stage <- answer_stage, task <- answer_task,
    claims <- answer_claims, planner <- answer_planner, decision <- answer_decision,
    composer <- answer_composer, grounded <- answer_grounded, audit <- answer_audit,
    sent <- answer_sent

-----------------------------------------------------------------------------
ASSUME ConstantsAreTheirs ==
    /\ Collection!CollectionAssumption
    /\ Process!ProcessAssumption
    /\ FleetOf!FleetAssumption
    /\ Limits!LimitsAssumption
    /\ Api!PipelineAssumption
    /\ Tab!SignInAssumption
    /\ InsistingTab!SignInAssumption
    /\ Trail!AuditAssumption
    /\ Upload!SurfaceAssumption
    /\ ImpatientUpload!SurfaceAssumption
    /\ Filter!FilterAssumption
    /\ Documents!VersionsAssumption
    /\ Sheet!SheetAssumption
    /\ Hub!HubAssumption
    /\ Authority!AuthorityAssumption
    /\ Connector!SyncAssumption
    /\ Chat!ConversationAssumption
    /\ ChatAlone!ConversationAssumption
    /\ Answer!MaterialAssumption

\* The parts a behaviour is not about rest, at the beginning and in every step.
ServiceAtRest ==
    /\ IF part = "collection" THEN TRUE ELSE
         /\ collection_late = AtRest /\ collection_docs = AtRest /\ collection_batch = AtRest
         /\ collection_calls = AtRest /\ collection_at = AtRest /\ collection_step = AtRest
         /\ collection_outcome = AtRest /\ collection_abandoned = AtRest
         /\ collection_applied = AtRest /\ collection_page = AtRest /\ collection_token = AtRest
         /\ collection_listed = AtRest /\ collection_expected = AtRest
    /\ IF part = "process" THEN TRUE ELSE
         /\ process_personas = AtRest /\ process_logins = AtRest /\ process_build = AtRest
         /\ process_registries = AtRest /\ process_durability = AtRest
         /\ process_requests = AtRest
    /\ IF part = "fleet" THEN TRUE ELSE
         /\ fleet_now = AtRest /\ fleet_starts = AtRest /\ fleet_running = AtRest
         /\ fleet_memory = AtRest /\ fleet_queue = AtRest /\ fleet_store = AtRest
         /\ fleet_uploads = AtRest
    /\ IF part = "limits" THEN TRUE ELSE
         /\ limits_hits = AtRest /\ limits_uploads = AtRest /\ limits_recent = AtRest
         /\ limits_admitted = AtRest /\ limits_reads = AtRest /\ limits_outcome = AtRest
    /\ IF part = "api" THEN TRUE ELSE
         /\ api_now = AtRest /\ api_sessions = AtRest /\ api_requests = AtRest
         /\ api_audit = AtRest /\ api_sealed = AtRest
    /\ IF part \in {"signin", "insisting"} THEN TRUE ELSE
         /\ signin_deployment = AtRest /\ signin_runtime = AtRest /\ signin_stored = AtRest
         /\ signin_page = AtRest /\ signin_gate = AtRest /\ signin_said = AtRest
         /\ signin_last = AtRest /\ signin_codeGiven = AtRest /\ signin_expiries = AtRest
    /\ IF part = "audit" THEN TRUE ELSE
         /\ audit_now = AtRest /\ audit_durable = AtRest /\ audit_rows = AtRest
         /\ audit_asked = AtRest /\ audit_view = AtRest
    /\ IF part \in {"upload", "impatient"} THEN TRUE ELSE
         /\ upload_calls = AtRest /\ upload_current = AtRest /\ upload_stage = AtRest
         /\ upload_picker = AtRest /\ upload_step = AtRest /\ upload_seen = AtRest
         /\ upload_sent = AtRest
    /\ IF part = "filter" THEN TRUE ELSE
         /\ filter_page = AtRest /\ filter_state = AtRest /\ filter_controls = AtRest
         /\ filter_entries = AtRest /\ filter_at = AtRest /\ filter_document = AtRest
         /\ filter_nav = AtRest /\ filter_arrow = AtRest /\ filter_bound = AtRest
    /\ IF part = "documents" THEN TRUE ELSE
         /\ documents_versions = AtRest /\ documents_current = AtRest
         /\ documents_chunks = AtRest /\ documents_postings = AtRest /\ documents_clock = AtRest
         /\ documents_queue = AtRest /\ documents_dVersions = AtRest
         /\ documents_dCurrent = AtRest /\ documents_failed = AtRest /\ documents_last = AtRest
         /\ documents_hydrating = AtRest /\ documents_uploads = AtRest
         /\ documents_crashes = AtRest
    /\ IF part = "sheet" THEN TRUE ELSE
         /\ sheet_periodField = AtRest /\ sheet_conceptOf = AtRest /\ sheet_required = AtRest
         /\ sheet_sheet = AtRest /\ sheet_seenIdentities = AtRest
         /\ sheet_seenPeriodKeys = AtRest /\ sheet_staged = AtRest
         /\ sheet_observations = AtRest /\ sheet_receipt = AtRest /\ sheet_phase = AtRest
    /\ IF part = "identity" THEN TRUE ELSE
         /\ identity_mappings = AtRest /\ identity_declared = AtRest
    /\ IF part = "authority" THEN TRUE ELSE
         /\ authority_grants = AtRest /\ authority_configured = AtRest
         /\ authority_observations = AtRest /\ authority_receipts = AtRest
         /\ authority_running = AtRest
    /\ IF part = "connector" THEN TRUE ELSE
         /\ connector_records = AtRest /\ connector_delivered = AtRest
         /\ connector_watermark = AtRest /\ connector_drifted = AtRest
         /\ connector_handed = AtRest /\ connector_syncs = AtRest
    /\ IF part \in {"conversation", "alone"} THEN TRUE ELSE
         /\ conversation_state = AtRest /\ conversation_open = AtRest
         /\ conversation_asked = AtRest /\ conversation_scope = AtRest
         /\ conversation_shown = AtRest
    /\ IF part = "answer" THEN TRUE ELSE
         /\ answer_config = AtRest /\ answer_stage = AtRest /\ answer_task = AtRest
         /\ answer_claims = AtRest /\ answer_planner = AtRest /\ answer_decision = AtRest
         /\ answer_composer = AtRest /\ answer_grounded = AtRest /\ answer_audit = AtRest
         /\ answer_sent = AtRest
ServiceRests ==
    /\ UNCHANGED part
    /\ IF part = "collection" THEN TRUE ELSE UNCHANGED collectionVars
    /\ IF part = "process" THEN TRUE ELSE UNCHANGED processVars
    /\ IF part = "fleet" THEN TRUE ELSE UNCHANGED fleetVars
    /\ IF part = "limits" THEN TRUE ELSE UNCHANGED limitsVars
    /\ IF part = "api" THEN TRUE ELSE UNCHANGED apiVars
    /\ IF part \in {"signin", "insisting"} THEN TRUE ELSE UNCHANGED signinVars
    /\ IF part = "audit" THEN TRUE ELSE UNCHANGED auditVars
    /\ IF part \in {"upload", "impatient"} THEN TRUE ELSE UNCHANGED uploadVars
    /\ IF part = "filter" THEN TRUE ELSE UNCHANGED filterVars
    /\ IF part = "documents" THEN TRUE ELSE UNCHANGED documentsVars
    /\ IF part = "sheet" THEN TRUE ELSE UNCHANGED sheetVars
    /\ IF part = "identity" THEN TRUE ELSE UNCHANGED identityVars
    /\ IF part = "authority" THEN TRUE ELSE UNCHANGED authorityVars
    /\ IF part = "connector" THEN TRUE ELSE UNCHANGED connectorVars
    /\ IF part \in {"conversation", "alone"} THEN TRUE ELSE UNCHANGED conversationVars
    /\ IF part = "answer" THEN TRUE ELSE UNCHANGED answerVars

ServiceStarts ==
    \/ part = "collection" /\ Collection!Init
    \/ part = "process" /\ Process!Init
    \/ part = "fleet" /\ FleetOf!Init
    \/ part = "limits" /\ Limits!Init
    \/ part = "api" /\ Api!Init
    \/ part = "signin" /\ Tab!Init
    \/ part = "insisting" /\ InsistingTab!Init /\ InsistingTab!Reachable
    \/ part = "audit" /\ Trail!Init
    \/ part = "upload" /\ Upload!Init
    \/ part = "impatient" /\ ImpatientUpload!Init
    \/ part = "filter" /\ Filter!Init
    \/ part = "documents" /\ Documents!Init
    \/ part = "sheet" /\ Sheet!Init
    \/ part = "identity" /\ Hub!Init
    \/ part = "authority" /\ Authority!Init
    \/ part = "connector" /\ Connector!Init
    \/ part = "conversation" /\ Chat!Init
    \/ part = "alone" /\ ChatAlone!Init
    \/ part = "answer" /\ Answer!Init

CollectionStep == part = "collection" /\ Collection!Next /\ ServiceRests
ProcessStep == part = "process" /\ Process!Next /\ ServiceRests
FleetOfStep == part = "fleet" /\ FleetOf!Next /\ ServiceRests
LimitsStep == part = "limits" /\ Limits!Next /\ ServiceRests
ApiStep == part = "api" /\ Api!Next /\ ServiceRests
TabStep == part = "signin" /\ Tab!Next /\ ServiceRests
InsistingTabStep == part = "insisting" /\ InsistingTab!Insisting /\ ServiceRests
TrailStep == part = "audit" /\ Trail!Next /\ ServiceRests
UploadStep == part = "upload" /\ Upload!Next /\ ServiceRests
ImpatientUploadStep == part = "impatient" /\ ImpatientUpload!Next /\ ServiceRests
FilterStep == part = "filter" /\ Filter!Next /\ ServiceRests
DocumentsStep == part = "documents" /\ Documents!Next /\ ServiceRests
SheetStep == part = "sheet" /\ Sheet!Next /\ ServiceRests
HubStep == part = "identity" /\ Hub!DeclareOne /\ ServiceRests
AuthorityStep == part = "authority" /\ Authority!Next /\ ServiceRests
ConnectorStep == part = "connector" /\ Connector!Next /\ ServiceRests
ChatStep == part = "conversation" /\ Chat!Next /\ ServiceRests
ChatAloneStep == part = "alone" /\ ChatAlone!Next /\ ServiceRests
AnswerStep == part = "answer" /\ Answer!Next /\ ServiceRests

ServiceNext ==
    \/ CollectionStep \/ ProcessStep \/ FleetOfStep \/ LimitsStep \/ ApiStep \/ TabStep
    \/ InsistingTabStep \/ TrailStep \/ UploadStep \/ ImpatientUploadStep \/ FilterStep
    \/ DocumentsStep \/ SheetStep \/ HubStep \/ AuthorityStep \/ ConnectorStep \/ ChatStep
    \/ ChatAloneStep \/ AnswerStep

\* A behaviour of these parts, or of another while these rest.
ServiceParts ==
    {"collection", "process", "fleet", "limits", "api", "signin", "insisting", "audit",
    "upload", "impatient", "filter", "documents", "sheet", "identity", "authority", "connector",
    "conversation", "alone", "answer"}
ServiceInit == ServiceAtRest /\ (part \in ServiceParts => ServiceStarts)
ServiceSpec == ServiceInit /\ [][ServiceNext]_serviceVars

-----------------------------------------------------------------------------
\* A putMany that stops leaves a prefix of its records, one that returned stored
\* them all, and a listing within its pages misses nothing that was there
\* (gcp.ts putMany, list); and what was answered committed is kept, unless another
\* instance gave its source the same identity.
StoredAsAcknowledged ==
    /\ part = "collection" =>
          Collection!StoredIsPrefix /\ Collection!AckedIsWhole /\ Collection!ListIsComplete
    /\ part = "fleet" => FleetOf!CommittedAloneIsKept

\* Requests that reach a cold process together are answered from one finished
\* registry, uploads are refused only for what was found out about the store, and
\* the narrowest persona is not turned away (main.ts knowledgeRuntime, personaState).
ColdStartIsWhole ==
    part = "process" =>
        Process!OneFinishedRegistry /\ Process!RefusalsAreFoundOut /\ Process!NobodyIsTurnedAway

\* A revoked session starts nothing, what is answered was authorised when it was
\* answered, and reading a sensitive field is on the log (dispatcher.ts,
\* identity-provider.ts, enforcement.ts).
AnswersAreAuthorised ==
    part = "api" =>
        Api!RevokedStartsNothing /\ Api!AnswersAreAuthorised /\ Api!AnswersAreAudited

\* In any window's length a caller gets through at most twice the limit
\* (access.ts), an upload needs a token and has a window of its own beside the
\* questions' (main.ts), and a tab may write only if the deployment lets everybody or the
\* code was typed in it (gl-access.ts).
NobodyGetsMore ==
    /\ part = "limits" => Limits!BurstIsBounded
    /\ part = "signin" => Tab!WritingIsPaidFor

\* A reader of the trail is shown its own actor's records, newest first (main.ts
\* /api/audit, gcp.ts).
TrailIsTheActors == part = "audit" => Trail!NarrowedToTheActor /\ Trail!NewestFirst

\* What is sent for ingestion is one file's name, bytes and mapping, with concepts
\* that matched exactly or were chosen, once a confirmation (gl-upload.ts); the
\* address, the controls and the links of a page all say the filter it shows
\* (gl-runtime.ts).
PagesSayWhatTheyHold ==
    /\ part = "upload" =>
          Upload!OneIngestAtATime /\ Upload!SentIsOneFile /\ Upload!UnmatchedIsChosen
    /\ part = "filter" =>
          /\ Filter!AddressSaysWhatIsShown /\ Filter!ControlsShowTheFilter
          /\ Filter!NavigationCarriesTheFilter

\* No step takes a document back to an earlier record, except a replacement its
\* sender gave up on where requests arrive late; an instance serves what it accepted
\* and starts with what is stored (gcp.ts put, registry.ts #persist, hydrate).
StoreGoesForward ==
    [][/\ part = "collection" => Collection!NothingOlder
       /\ part = "fleet" => FleetOf!AcceptedIsServed /\ FleetOf!StartsWithTheStore]_serviceVars

\* A refused session stays refused; a caller is refused for calls of its own; a short
\* trail is read whole and an append replaces only its own address; and a full sync
\* after any others completes what was handed over (identity-provider.ts, access.ts,
\* gcp.ts auditC, main.ts /api/audit, fixture-connector.ts).
NothingIsTakenBack ==
    [][/\ part = "api" => Api!RefusedForEver
       /\ part = "limits" => Limits!RefusalIsEarned
       /\ part = "audit" => Trail!ShortTrailIsWhole /\ Trail!OnlyItsOwnAddressIsReplaced
       /\ part = "connector" => Connector!FullSyncCompletes]_serviceVars

\* What retrieval finds are exactly the chunks of current versions, each once, and an
\* upload that was answered is stored (lexical-index.ts, document.ts, registry.ts
\* indexDocument).
DocumentsAreExact ==
    part = "documents" =>
        /\ Documents!RetrievedIsExact /\ Documents!ChunkedOnce
        /\ Documents!CurrentIsAdmitted /\ Documents!AnsweredIsStored

\* A project has one figure per concept and period, a row is taken in whole or not at
\* all, and a batch is its receipt and what is verified of it (structured.ts,
\* staging.ts, registry.ts verify).
FiguresAreWhole ==
    part = "sheet" =>
        /\ Sheet!OneRowPerFigure /\ Sheet!GoodHalvesStayOut
        /\ Sheet!BatchIsWhole /\ Sheet!ReceiptIsTheBatch

\* An identifier whose declarations agree resolves to their project, in whatever spelling and
\* however others are declared; no system's identifiers answer for another's, and a project's
\* panel shows what resolves to it alone (identity.ts).
IdentifiersKeepTheirProject ==
    part = "identity" => Hub!IdentifiersKeepTheirProject /\ Hub!PanelAgreesWithResolution

\* One source at most governs a concept, what it says is what is served, and who
\* disagrees materially is named (authority.ts, conflict.ts, registry.ts conflicts).
OneSourceGoverns ==
    part = "authority" =>
        /\ Authority!OneAuthority /\ Authority!GovernedIsStrongest
        /\ Authority!EveryDisagreementIsNamed

\* No sync hands a record over again, whatever the order of full and incremental
\* ones (fixture-connector.ts).
HandedOnce == part = "connector" => Connector!HandedOnce

\* A follow-up narrows what was asked and answers within the caller's scope; asked one
\* at a time, "those" are the projects on the screen (conversation.ts, gl-assistant.ts).
FollowUpsKeepScope ==
    /\ part = "conversation" =>
          Chat!FollowUpsNarrow /\ Chat!StatedFiltersHold /\ Chat!NarrowedAnswersKeepScope
    /\ part = "alone" => ChatAlone!ThoseAreOnTheScreen

\* Nothing reaches the hosted model unless it may, a refusal reaches none, and what a
\* model wrote is accounted for by the decision and the audit (routing.ts, policy.ts,
\* main.ts answerQuestion).
ModelsAreAccountedFor ==
    part = "answer" =>
        /\ Answer!NothingLeavesUnasked /\ Answer!ModelProseIsAccountedFor
        /\ Answer!RefusalsReachNoModel

\* A restart serves the current version of every document, the observations and the
\* rows of the sheets, under the sources that governed (registry.ts hydrate); and going
\* back over a step restores the view it was taken from (gl-runtime.ts syncUrl).
RestartKeeps ==
    [][/\ part = "documents" => Documents!RestartServesCurrent
       /\ part = "sheet" => Sheet!ObservationsSurvive /\ Sheet!LoneRowsSurvive
       /\ part = "authority" => Authority!GovernanceSurvives
       /\ part = "filter" => Filter!StepsCanBeUndone]_serviceVars
=============================================================================
