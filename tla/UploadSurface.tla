---------------------------- MODULE UploadSurface ----------------------------
(***************************************************************************)
(* The Add Knowledge page: a file is chosen and profiled on the server,    *)
(* its mapping is shown, altered and confirmed, and a receipt comes back.  *)
(* The page keeps one `current` file for calls that may overlap: nothing   *)
(* stops a second file being chosen while the first is being profiled.     *)
(*                                                                         *)
(* A file stands for its name, its bytes and its mapping, which the page   *)
(* keeps apart.                                                            *)
(***************************************************************************)
EXTENDS Naturals, Sequences, FiniteSets, Functions

CONSTANTS
    Files,
    Headers,        \* each file's columns in order
    Suggestion,     \* each file's columns' [confidence, concept]
    IdLike,         \* columns named like an identifier
    Concepts,
    Calls,          \* bound: requests open at once
    Overlapping     \* whether files are chosen while a request is open

SurfaceAssumption ==
    /\ "financialPeriod" \in Concepts /\ Overlapping \in BOOLEAN
    /\ \A f \in Files : Len(Headers[f]) > 0

VARIABLES
    calls,     \* the requests: the file their closure holds and where they are
    current,   \* the file being mapped and the bytes put beside it
    stage,     \* what the page shows, with the selects of a mapping
    picker,    \* the file input's value
    step,      \* the active step of the rail
    seen,      \* history: steps the rail has shown since the file was chosen
    sent       \* what was last posted for ingestion, if anything

vars == <<calls, current, stage, picker, step, seen, sent>>

None == "none"
Columns(f) == Range(Headers[f])
Idle == [file |-> None, at |-> "idle"]
Blank == [shows |-> "blank", file |-> None, identity |-> None, period |-> None,
          fields |-> <<>>, touched |-> {}, enabled |-> FALSE]
Showing(what, f) == [Blank EXCEPT !.shows = what, !.file = f]

Init ==
    /\ calls = [c \in Calls |-> Idle]
    /\ current = [file |-> None, bytes |-> None]
    /\ stage = Blank /\ picker = None
    /\ step = 0 /\ seen = {0} /\ sent = {}

\* `setStep`
Step(n) == step' = n /\ seen' = seen \cup {n}

\* The first column of f a test picks, or none.
FirstColumn(f, Test(_)) ==
    LET picked == SelectSeq(Headers[f], Test) IN IF picked = <<>> THEN None ELSE Head(picked)

\* The columns the two structural selects start on.
PeriodColumn(f) == FirstColumn(f, LAMBDA c : Suggestion[f][c].concept = "financialPeriod")

IdentityColumn(f) ==
    LET named == FirstColumn(f, LAMBDA c : Suggestion[f][c].confidence = "NONE" /\ c \in IdLike)
    IN  IF named = None THEN Head(Headers[f]) ELSE named

\* What a column's own select starts on.
Selected(f, c) == IF Suggestion[f][c].confidence = "EXACT" THEN Suggestion[f][c].concept ELSE None

\* `renderMapping`
Mapping(f) ==
    [shows |-> "mapping", file |-> f, identity |-> IdentityColumn(f), period |-> PeriodColumn(f),
     fields |-> [c \in Columns(f) \ {IdentityColumn(f), PeriodColumn(f)} |-> Selected(f, c)],
     touched |-> {}, enabled |-> TRUE]

Quiet == \A c \in Calls : calls[c] = Idle

\* `chosen`; a file input reports a file only when its value changes.
Choose(f, c) ==
    /\ calls[c] = Idle /\ picker # f
    /\ Overlapping \/ Quiet
    /\ picker' = f
    /\ calls' = [calls EXCEPT ![c] = [file |-> f, at |-> "profile"]]
    /\ stage' = Showing("parsing", f)
    /\ step' = 1 /\ seen' = {0, 1}
    /\ UNCHANGED <<current, sent>>

\* `failure`
Fail(c) ==
    /\ calls' = [calls EXCEPT ![c] = Idle]
    /\ stage' = Showing("failure", calls[c].file)
    /\ Step(1)
    /\ UNCHANGED current

\* Mutation: the profile is put over the file before and drawn at once.
ProfileAnswersEager(c) ==
    /\ calls[c].at = "profile"
    /\ \/ /\ current' = [current EXCEPT !.file = calls[c].file]
          /\ calls' = [calls EXCEPT ![c].at = "rereading"]
          /\ stage' = Mapping(calls[c].file)
          /\ UNCHANGED <<step, seen>>
       \/ Fail(c)
    /\ UNCHANGED <<picker, sent>>

\* The profile arrives and becomes `current`; the bytes are read a second time.
ProfileAnswers(c) ==
    /\ calls[c].at = "profile"
    /\ \/ /\ current' = [file |-> calls[c].file, bytes |-> None]
          /\ calls' = [calls EXCEPT ![c].at = "rereading"]
          /\ UNCHANGED <<stage, step, seen>>
       \/ Fail(c)
    /\ UNCHANGED <<picker, sent>>

\* The bytes are put beside whatever is current, and that is drawn; with
\* nothing current the handler throws.
Reread(c) ==
    /\ calls[c].at = "rereading"
    /\ IF current.file = None THEN Fail(c)
       ELSE /\ current' = [current EXCEPT !.bytes = calls[c].file]
            /\ calls' = [calls EXCEPT ![c] = Idle]
            /\ stage' = Mapping(current.file)
            /\ step' = 3 /\ seen' = seen \cup {2, 3}
    /\ UNCHANGED <<picker, sent>>

Alter ==
    /\ stage.shows = "mapping"
    /\ \/ \E c \in Columns(stage.file) :
            stage' = [stage EXCEPT !.identity = c, !.touched = @ \cup {c}]
       \/ \E c \in Columns(stage.file) \cup {None} :
            stage' = [stage EXCEPT !.period = c, !.touched = @ \cup {c}]
       \/ \E c \in DOMAIN stage.fields, k \in Concepts \cup {None} :
            stage' = [stage EXCEPT !.fields[c] = k, !.touched = @ \cup {c}]
    /\ UNCHANGED <<calls, current, picker, step, seen, sent>>

\* "Choose a different file", "Add another file"
Cancel ==
    /\ stage.shows \in {"mapping", "receipt"}
    /\ current' = [file |-> None, bytes |-> None]
    /\ stage' = Blank /\ picker' = None
    /\ Step(0)
    /\ UNCHANGED <<calls, sent>>

Posted ==
    [name |-> current.file, bytes |-> current.bytes, mapping |-> stage.file,
     identity |-> stage.identity, period |-> stage.period, touched |-> stage.touched,
     fields |-> {c \in DOMAIN stage.fields : stage.fields[c] # None},
     previewed |-> 5 \in seen]

\* A request without bytes is malformed, and refused.
Asked == IF current.bytes = None THEN "malformed" ELSE "ingest"

\* "Validate and preview"
Confirm(c) ==
    /\ stage.shows = "mapping" /\ stage.enabled /\ current.file # None /\ calls[c] = Idle
    /\ stage' = [stage EXCEPT !.enabled = FALSE]
    /\ sent' = {Posted}
    /\ calls' = [calls EXCEPT ![c] = [file |-> current.file, at |-> Asked]]
    /\ Step(4)
    /\ UNCHANGED <<current, picker>>

\* The receipt, or the refusal.
IngestAnswers(c) ==
    /\ calls[c].at \in {"ingest", "malformed"}
    /\ \/ /\ calls[c].at = "ingest"
          /\ calls' = [calls EXCEPT ![c] = Idle]
          /\ stage' = Showing("receipt", calls[c].file)
          /\ Step(7)
          /\ UNCHANGED current
       \/ Fail(c)
    /\ UNCHANGED <<picker, sent>>

Answer(c) == ProfileAnswers(c) \/ Reread(c) \/ IngestAnswers(c)

Next ==
    \/ \E f \in Files, c \in Calls : Choose(f, c)
    \/ \E c \in Calls : Answer(c) \/ Confirm(c)
    \/ Alter \/ Cancel

Spec == Init /\ [][Next]_vars

-----------------------------------------------------------------------------
Requests == [file : Files \cup {None}, at : {"idle", "profile", "rereading", "ingest", "malformed"}]

\* Every variable stays within its kind of value.
TypeOK ==
    /\ calls \in [Calls -> Requests]
    /\ current \in [file : Files \cup {None}, bytes : Files \cup {None}]
    /\ stage.shows \in {"blank", "parsing", "mapping", "failure", "receipt"}
    /\ stage.shows \in {"blank"} <=> stage.file = None
    /\ \A c \in DOMAIN stage.fields : stage.fields[c] \in Concepts \cup {None}
    /\ picker \in Files \cup {None} /\ step \in 0..7 /\ step \in seen

\* One confirmation, one ingestion: while a mapping's request is open it is
\* not sent again (gl-upload.ts: `target.disabled = true`).
OneIngestAtATime == Cardinality({c \in Calls : calls[c].at \in {"ingest", "malformed"}}) <= 1

\* One file at a time, what is sent is one file's name, bytes and mapping
\* (gl-upload.ts `chosen`, `current`).
SentIsOneFile ==
    \A p \in sent : p.bytes # None => p.name = p.bytes /\ p.name = p.mapping

ExactOrTouched(f, c, touched) == Suggestion[f][c].confidence = "EXACT" \/ c \in touched

\* A concept is sent for a column only where its name matched exactly or the
\* person chose it (gl-upload.ts:11-15).
UnmatchedIsChosen ==
    \A p \in sent : \A c \in p.fields : ExactOrTouched(p.mapping, c, p.touched)

\* Why: one request is open; while a file is profiled nothing else is shown; a mapping
\* that can be confirmed is the current file's, with its bytes, and no request is open;
\* and what a mapping has for a column matched exactly or was touched.
SurfaceInv ==
    /\ calls \in [Calls -> Requests]
    /\ current \in [file : Files \cup {None}, bytes : Files \cup {None}]
    /\ DOMAIN stage = DOMAIN Blank
    /\ \A c, d \in Calls : calls[c] # Idle /\ calls[d] # Idle => c = d
    /\ \A c \in Calls : calls[c].at \in {"profile", "rereading"} => stage.shows = "parsing"
    /\ \A c \in Calls : calls[c].at = "rereading" => current.file = calls[c].file
    /\ stage.shows = "mapping" /\ stage.enabled =>
          Quiet /\ stage.file = current.file /\ current.bytes = current.file
    /\ stage.shows = "mapping" => \A c \in DOMAIN stage.fields :
          stage.fields[c] # None => ExactOrTouched(stage.file, c, stage.touched)
    /\ SentIsOneFile /\ UnmatchedIsChosen

\* What does not last, however the page's requests end: the server answers each
\* or the browser gives it up.
Parsing == stage.shows = "parsing"
=============================================================================
