------------------------ MODULE StructuredIngestion ------------------------
(***************************************************************************)
(* A sheet ingested row by row under a confirmed mapping: the findings     *)
(* each row collects, the quarantine gate, the observations accepted rows  *)
(* contribute, and what of both the store gives back to the next process.  *)
(*                                                                         *)
(* A cell is blank, usable, or unusable (not a number, negative, outside a *)
(* percentage's range, not a status).  Columns the mapping does not name   *)
(* are left out.                                                           *)
(***************************************************************************)
EXTENDS Filtering, Functions

CONSTANTS
    Identities,   \* what the identity column may say, trimmed
    Blank,        \* an empty cell
    Resolution,   \* the identity hub: a project, or the reason there is none
    Projects,     \* the projects the uploader is authorised for
    Periods,      \* dates the pipeline accepts
    NotADate,     \* one it does not
    Effective,    \* `effectiveDate`, the period of a row that states none
    Columns,      \* the columns the mapping names, in its order
    Concepts,
    SafeId,       \* the document id a natural key gives
    MaxRows       \* bound: rows of the sheet

Unresolved == {"NOT_MAPPED", "AMBIGUOUS", "BLANK"}
NoProject == "none"

Fields == Range(Columns)

SheetAssumption ==
    /\ Columns \in Seq(Fields)
    /\ Blank \notin Identities \cup Periods
    /\ NoProject \notin Projects
    /\ Effective \in Periods
    /\ Resolution[Blank] = "BLANK"
    /\ MaxRows \in Nat \ {0}

Cells == {"blank", "usable", "unusable"}
Rows == [identity: Identities \cup {Blank},
         period: Periods \cup {Blank, NotADate},
         cells: [Fields -> Cells]]

VARIABLES
    periodField,  \* whether the mapping names a period column
    conceptOf,    \* the concept it gives each column
    required,     \* the columns it marks as required
    sheet,        \* the rows read so far
    seenIdentities, seenPeriodKeys,
    staged,       \* the verdict on each row
    observations, \* what the accepted rows contributed
    receipt,      \* what the source's receipt says of the batch
    phase         \* reading; stored, with or without its figures; restarted

NoReceipt == [detected |-> 0, accepted |-> 0, quarantined |-> 0,
              projectsMatched |-> 0, projectsUnresolved |-> 0, conceptsMapped |-> {}]

mapping == <<periodField, conceptOf, required>>
vars == <<mapping, sheet, seenIdentities, seenPeriodKeys, staged, observations, receipt, phase>>

Init ==
    /\ periodField \in BOOLEAN
    /\ conceptOf \in [Fields -> Concepts]
    /\ required \in SUBSET Fields
    /\ sheet = <<>> /\ staged = <<>> /\ observations = <<>>
    /\ seenIdentities = {} /\ seenPeriodKeys = {}
    /\ receipt = NoReceipt
    /\ phase = "reading"

-----------------------------------------------------------------------------
(* One row *)

ProjectOf(row) == IF Resolution[row.identity] \in Projects THEN Resolution[row.identity]
                                                           ELSE NoProject

\* `readPeriod`; no period is read from a date that is none.
PeriodOf(row) ==
    IF ~periodField \/ row.period = Blank THEN Effective
    ELSE IF row.period = NotADate THEN Blank
    ELSE row.period

\* Mutation: the key is built from the identifier, not from what it resolves to.
PeriodKeyByIdentity(row) == <<row.identity, PeriodOf(row)>>

PeriodKey(row) == <<ProjectOf(row), PeriodOf(row)>>

IdentityFindings(row) ==
    IF Resolution[row.identity] = "AMBIGUOUS" THEN {"AMBIGUOUS_MAPPING"}
    ELSE IF Resolution[row.identity] \in Unresolved THEN {"UNRESOLVED_IDENTITY"}
    ELSE IF ProjectOf(row) = NoProject THEN {"UNKNOWN_PROJECT"} ELSE {}

PeriodFindings(row) == IF periodField /\ row.period = NotADate THEN {"INVALID_DATE"} ELSE {}

DuplicateFindings(row) ==
    IF ProjectOf(row) = NoProject THEN {}
    ELSE (IF ~periodField /\ ProjectOf(row) \in seenIdentities THEN {"DUPLICATE_PROJECT_ID"} ELSE {})
         \cup (IF PeriodKey(row) \in seenPeriodKeys THEN {"DUPLICATE_PERIOD_RECORD"} ELSE {})

CellFindings(row) ==
    (IF \E f \in required : row.cells[f] = "blank" THEN {"MISSING_REQUIRED_FIELD"} ELSE {})
    \cup (IF \E f \in Fields : row.cells[f] = "unusable" THEN {"UNUSABLE_VALUE"} ELSE {})

Findings(row) == IdentityFindings(row) \cup PeriodFindings(row)
                 \cup DuplicateFindings(row) \cup CellFindings(row)

Disposition(row) == IF Findings(row) = {} /\ ProjectOf(row) # NoProject THEN "ACCEPTED"
                                                                        ELSE "QUARANTINED"

\* The row number stands in for a blank identity.
NaturalKey(row, n) == <<SafeId[row.identity], IF row.identity = Blank THEN n ELSE 0>>

Staged(row) == [key |-> NaturalKey(row, Len(sheet) + 1), row |-> Len(sheet) + 1,
                project |-> ProjectOf(row), disposition |-> Disposition(row)]

Observation(row, f) == [project |-> ProjectOf(row), concept |-> conceptOf[f],
                        period |-> PeriodOf(row), value |-> <<Len(sheet) + 1, f>>]

\* Columns in the mapping's order.
Observed(row) ==
    LET usable == Kept(Columns, {n \in DOMAIN Columns : row.cells[Columns[n]] = "usable"})
    IN  [i \in DOMAIN usable |-> Observation(row, usable[i])]

IngestRow(row) ==
    /\ phase = "reading" /\ Len(sheet) < MaxRows
    /\ sheet' = Append(sheet, row)
    /\ staged' = Append(staged, Staged(row))
    /\ observations' = IF Disposition(row) = "ACCEPTED" THEN observations \o Observed(row)
                                                        ELSE observations
    /\ IF ProjectOf(row) = NoProject THEN UNCHANGED <<seenIdentities, seenPeriodKeys>>
       ELSE /\ seenIdentities' = seenIdentities \cup {ProjectOf(row)}
            /\ seenPeriodKeys' = seenPeriodKeys \cup {PeriodKey(row)}
    /\ UNCHANGED <<mapping, receipt, phase>>

-----------------------------------------------------------------------------
(* What the store keeps of it *)

ObservationKeys(records) ==
    [n \in DOMAIN records |-> <<records[n].project, records[n].concept, records[n].period>>]
StagedKeys(records) == [n \in DOMAIN records |-> records[n].key]

\* A collection keeps the last record put under each key.
LastPerKey(records, keys) ==
    Kept(records, {n \in DOMAIN records : \A m \in DOMAIN records : keys[m] = keys[n] => m <= n})

\* `reconcile`: a count the source declared must be the count staged.
Reconciles(declared) == declared \in {0, Len(staged)}

Accepted == {s \in Range(staged) : s.disposition = "ACCEPTED"}

\* `quarantined()`
Quarantined == {s \in Range(staged) : s.disposition = "QUARANTINED"}

\* Mutation: the receipt counts what a batch that is not believed had accepted.
ReceiptAsRead(declared) ==
    [detected           |-> Len(sheet),
     accepted           |-> Cardinality(Accepted),
     quarantined        |-> Cardinality(Quarantined),
     projectsMatched    |-> Cardinality({s.project : s \in Accepted}),
     projectsUnresolved |-> Cardinality({s.key : s \in {q \in Quarantined : q.project = NoProject}}),
     conceptsMapped     |-> {conceptOf[f] : f \in Fields}]

\* A batch that is not believed accepted nothing, though its rows keep their verdicts.
Receipt(declared) ==
    [ReceiptAsRead(declared) EXCEPT
        !.accepted = IF Reconciles(declared) THEN @ ELSE 0,
        !.quarantined = IF Reconciles(declared) THEN @ ELSE Len(staged)]

\* The sheet is read.  A batch that does not reconcile contributes nothing.  A
\* source that declares no count is here one that declares 0.
Finish(declared) ==
    /\ phase = "reading" /\ sheet # <<>>
    /\ phase' = IF Reconciles(declared) THEN "stored" ELSE "unreconciled"
    /\ observations' = IF Reconciles(declared) THEN observations ELSE <<>>
    /\ receipt' = Receipt(declared)
    /\ UNCHANGED <<mapping, sheet, seenIdentities, seenPeriodKeys, staged>>

\* The next process has what the store holds.
Restart ==
    /\ phase \in {"stored", "unreconciled"}
    /\ phase' = "restarted"
    /\ staged' = LastPerKey(staged, StagedKeys(staged))
    /\ observations' = LastPerKey(observations, ObservationKeys(observations))
    /\ UNCHANGED <<mapping, sheet, seenIdentities, seenPeriodKeys, receipt>>

\* `verify`: what the page says of a source that is a sheet nothing has used yet.
Verify ==
    [validationState |-> receipt.quarantined = 0,
     verdict |-> IF phase = "reading" THEN "NOT_INGESTED"
                 ELSE IF receipt.accepted = 0 THEN "INGESTED_NOT_REACHABLE" ELSE "INGESTED_NOT_USED"]

\* `dataQuality`: whether it says that records are quarantined.
ValidationStatus == IF Quarantined = {} THEN "NONE_FAILED" ELSE "SOME_QUARANTINED"

Next == (\E row \in Rows : IngestRow(row)) \/ (\E declared \in 0..MaxRows : Finish(declared)) \/ Restart

Spec == Init /\ [][Next]_vars

-----------------------------------------------------------------------------
(* What ingestion keeps to *)

Verdicts == [key: {SafeId[i] : i \in Identities \cup {Blank}} \X Nat, row: 1..MaxRows,
             project: Projects \cup {NoProject}, disposition: {"ACCEPTED", "QUARANTINED"}]
Observations == [project: Projects, concept: Concepts, period: Periods, value: (1..MaxRows) \X Fields]

\* Every variable stays within its kind of value.
TypeOK ==
    /\ periodField \in BOOLEAN /\ conceptOf \in [Fields -> Concepts] /\ required \subseteq Fields
    /\ sheet \in Seq(Rows) /\ Len(sheet) <= MaxRows
    /\ seenIdentities \subseteq Projects
    /\ seenPeriodKeys \subseteq Projects \X (Periods \cup {Blank})
    /\ staged \in Seq(Verdicts)
    /\ observations \in Seq(Observations)
    /\ receipt.detected \in 0..MaxRows /\ receipt.projectsMatched \in Nat
    /\ receipt.conceptsMapped \subseteq Concepts
    /\ phase \in {"reading", "stored", "unreconciled", "restarted"}

\* One project and period is accepted from one row: a sheet never contributes
\* two rows to one figure, whether the period is stated, blank or the fallback,
\* and a sheet without periods contributes one row per project.
OneRowPerFigure ==
    \A s, t \in Accepted :
        s # t /\ s.project = t.project =>
            periodField /\ PeriodOf(sheet[s.row]) # PeriodOf(sheet[t.row])

\* The quarantine gate: an observation comes from an accepted row, all of whose
\* columns were usable or empty; nothing of a bad row reaches a total.
GoodHalvesStayOut ==
    \A o \in Range(observations) :
        /\ \A f \in Fields : sheet[o.value[1]].cells[f] # "unusable"
        /\ \A f \in required : sheet[o.value[1]].cells[f] # "blank"

\* Where no two columns give the same concept, the next process has every
\* observation this one had: each has a key of its own.
ObservationsSurvive ==
    phase' = "restarted" /\ IsInjective(conceptOf) =>
      Range(observations') = Range(observations)

\* A row with a natural key no other row has, or with none at all, is given back
\* with its verdict.
LoneRowsSurvive ==
    phase' = "restarted" =>
      \A s \in Range(staged) :
         (sheet[s.row].identity = Blank
           \/ \A n \in DOMAIN sheet \ {s.row} : SafeId[sheet[n].identity] # SafeId[sheet[s.row].identity])
         => s \in Range(staged')

\* A batch is believed whole or not at all: once a sheet is read its accepted
\* rows contributed every usable column, or, its count being wrong, none.
BatchIsWhole ==
    /\ phase = "unreconciled" => observations = <<>>
    /\ phase = "stored" =>
          \A s \in Accepted : \A f \in Fields :
              sheet[s.row].cells[f] = "usable" => \E o \in Range(observations) : o.value = <<s.row, f>>

\* The receipt accounts for every row and says no more than was kept, here and in the
\* next process: a source that is called not reachable supplies nothing, one that is not
\* supplies what its rows hold, what it supplies is among the concepts and no more
\* projects than its receipt names, and a batch that is believed is called clean on both
\* pages or on neither (ingestSheet beside `verify` and `dataQuality` of registry.ts).
ReceiptIsTheBatch ==
    phase # "reading" =>
      /\ receipt.accepted + receipt.quarantined = receipt.detected
      /\ Verify.verdict = "INGESTED_NOT_REACHABLE" => observations = <<>>
      /\ Verify.verdict = "INGESTED_NOT_USED" /\ observations = <<>> =>
            \A s \in Accepted, f \in Fields : sheet[s.row].cells[f] # "usable"
      /\ {o.concept : o \in Range(observations)} \subseteq receipt.conceptsMapped
      /\ Cardinality({o.project : o \in Range(observations)}) <= receipt.projectsMatched
      /\ phase = "stored" => (Verify.validationState <=> ValidationStatus = "NONE_FAILED")

-----------------------------------------------------------------------------
(* Why: a verdict is its row's, an accepted row is one no finding was made of and has *)
(* been seen, and an observation is a usable cell of an accepted row.                 *)

VerdictsAreTheRows ==
    /\ \A s \in Range(staged) :
          /\ s.row \in DOMAIN sheet
          /\ s.key = NaturalKey(sheet[s.row], s.row)
          /\ s.project = ProjectOf(sheet[s.row])
    /\ phase # "restarted" =>
          Len(staged) = Len(sheet) /\ \A n \in DOMAIN staged : staged[n].row = n

AcceptedIsClean ==
    \A s \in Accepted :
        /\ s.project \in seenIdentities
        /\ PeriodKey(sheet[s.row]) \in seenPeriodKeys
        /\ PeriodOf(sheet[s.row]) \in Periods
        /\ \A f \in Fields : sheet[s.row].cells[f] # "unusable"
        /\ \A f \in required : sheet[s.row].cells[f] # "blank"

ObservationsAreCells ==
    \A o \in Range(observations) :
        /\ o.value[1] \in DOMAIN sheet
        /\ o.project = ProjectOf(sheet[o.value[1]])
        /\ o.period = PeriodOf(sheet[o.value[1]])
        /\ o.concept = conceptOf[o.value[2]]
        /\ phase # "restarted" => \E s \in Accepted : s.row = o.value[1]

CellsAreObserved ==
    phase \in {"reading", "stored"} =>
        \A s \in Accepted : \A f \in Fields :
            sheet[s.row].cells[f] = "usable" => \E o \in Range(observations) : o.value = <<s.row, f>>

EveryRowIsCounted ==
    phase = "reading" =>
        /\ IsFiniteSet(Accepted) /\ IsFiniteSet(Quarantined)
        /\ Cardinality(Accepted) + Cardinality(Quarantined) = Len(sheet)

SheetInv ==
    /\ TypeOK /\ VerdictsAreTheRows /\ AcceptedIsClean /\ ObservationsAreCells
    /\ CellsAreObserved /\ EveryRowIsCounted
    /\ OneRowPerFigure /\ GoodHalvesStayOut /\ BatchIsWhole /\ ReceiptIsTheBatch
=============================================================================
