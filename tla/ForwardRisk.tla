---------------------------- MODULE ForwardRisk ----------------------------
(***************************************************************************)
(* The forward-risk page of one project: the early warnings of the week,   *)
(* what assurance and delivery do about each, the recovery plan's actions  *)
(* with the benefit each is allowed, the projected bands, the project's    *)
(* place in the queue and the late-detection rate of the reader's scope,   *)
(* put side by side from results that are each computed elsewhere.         *)
(***************************************************************************)
EXTENDS Integers, Sequences, FiniteSets
LOCAL INSTANCE SequencesExt

CONSTANTS
    Templates,  \* [revenue, cost, confidence, group, signal, executive, weeks, dated]
    Revenue, Cost, \* forecast revenue and estimate at completion
    Whole, Window, Baseline, Clock, BurnLevels, \* of EarlyWarning
    Outlooks,   \* [now, in30, in60]: the bands, or Unknown
    Scopes,     \* what a reader may ask with: [place, of, reaching] or Unscoped
    MaxActions, \* bound: corrective actions
    MaxRaised,  \* bound: warnings put to assurance
    LastWeek    \* bound: reporting weeks

Unknown == "not projected"
Unscoped == [place |-> 0, of |-> 0, reaching |-> 0]
Undated == 0

ForwardAssumption ==
    /\ Whole \in Nat \ {0} /\ Window \in Nat \ {0} /\ Baseline \in 1..LastWeek
    /\ Revenue \in Nat \ {0} /\ Cost \in Nat
    /\ \A o \in Outlooks : o.now # Unknown
    /\ Unscoped \in Scopes /\ \A s \in Scopes : s.place \in 0..s.of /\ s.reaching \in Nat

VARIABLES
    facts,  \* [progress, burn, dispositions, planned, actions, outlook, scope]
    page    \* the page over them

vars == <<facts, page>>

\* What the page is built from: the readings, what assurance and delivery recorded, the
\* projected bands, and the reader's scope.
ForwardRiskInput ==
    [progress : Seq(0..Whole), burn : BurnLevels, planned : BOOLEAN,
     dispositions : Seq([signal : {"BURN_GAP", "REQUIRED_VELOCITY_RATIO"},
                         raised : 1..LastWeek, due : Nat, done : 0..LastWeek,
                         verdict : {"none", "VALIDATED", "ACCEPTED_RISK"}]),
     actions : Seq([does : Templates, owned : BOOLEAN, due : 0..LastWeek,
                    status : {"PROPOSED", "COMPLETE", "ABANDONED"}]),
     outlook : Outlooks, scope : Scopes]

-----------------------------------------------------------------------------
(* The engines the page reads *)

Today(f) == Len(f.progress)

\* `actionLinksFor`: an action with no date is never late.
Links(f) ==
    [n \in DOMAIN f.actions |->
        [signal |-> f.actions[n].does.signal, status |-> f.actions[n].status,
         due |-> IF f.actions[n].due = Undated THEN LastWeek + 1 ELSE f.actions[n].due]]

Warning(f) == INSTANCE EarlyWarning WITH
    Actions <- 1..MaxActions, progress <- f.progress, burn <- f.burn,
    dispositions <- f.dispositions, actions <- Links(f)

Recovery == INSTANCE RecoveryCase WITH
    NoGroup <- "none", Discount <- 50, Floor <- 20, Plan <- MaxActions, LastDay <- LastWeek,
    actions <- facts.actions, today <- Today(facts), economics <- page.recovery

-----------------------------------------------------------------------------
(* The signals *)

\* In the order of the rules' ids, which breaks ties of severity.
Rules == <<"BURN_GAP", "REQUIRED_VELOCITY_RATIO">>

Severe == 3
MostSevereFirst(f) ==
    LET fired == SelectSeq(Rules, LAMBDA s : Warning(f)!Fired(s))
    IN  SortSeq(fired, LAMBDA s, t : Warning(f)!Severity(s) > Warning(f)!Severity(t))

\* The actions that answer a signal, in the order recorded.
LinkedActions(f, s) == SelectSeq(f.actions, LAMBDA a : a.does.signal = s)

NoAction == [owned |-> FALSE, due |-> Undated, status |-> "NONE"]
Shown(a) == [owned |-> a.owned, due |-> a.due, status |-> a.status]

\* Mutation: the first action of the signal, finished or not.
FirstAction(linked) == IF linked = <<>> THEN NoAction ELSE Shown(Head(linked))

\* `openAction`: the first that is not complete, else the first.
OpenAction(linked) ==
    LET unfinished == SelectSeq(linked, LAMBDA a : a.status # "COMPLETE")
    IN  IF linked = <<>> THEN NoAction
        ELSE Shown(IF unfinished = <<>> THEN Head(linked) ELSE Head(unfinished))

SignalRow(f, s) ==
    LET linked == LinkedActions(f, s)
    IN  [signal    |-> s,
         severity  |-> Warning(f)!Severity(s),
         lifecycle |-> Warning(f)!Lifecycle(s),
         action    |-> OpenAction(linked),
         executive |-> \E n \in DOMAIN linked : linked[n].does.executive]

Rows(f) == LET order == MostSevereFirst(f) IN [n \in DOMAIN order |-> SignalRow(f, order[n])]

Of(rows, lifecycle) == SelectSeq(rows, LAMBDA r : r.lifecycle = lifecycle)

Headline(rows) ==
    [firing |-> Len(rows), severe |-> Len(SelectSeq(rows, LAMBDA r : r.severity = Severe))]

NotEvaluated(f) == {s \in Warning(f)!Signals : Warning(f)!Reading(s).state # "OBSERVED"}
Clear(f) == Warning(f)!Signals \ (Warning(f)!Warnings \cup NotEvaluated(f))

\* `exceptions`, `validatedWithoutAction`, and the sentence there is nothing to report.
Assurance(rows) ==
    LET overdue == Of(rows, "OVERDUE_DISPOSITION")
        unacted == Of(rows, "VALIDATED_NO_ACTION")
    IN  [exceptions |-> overdue, validatedWithoutAction |-> unacted,
         clean |-> overdue = <<>> /\ unacted = <<>>]

-----------------------------------------------------------------------------
(* The outlook, the plan and the rest of the page *)

\* No horizon of ninety days is registered.
Outlook(o) == <<o.now, o.in30, o.in60, Unknown>>

\* `recoveryEconomicsFor`: nothing without a plan.
RecoveryEconomics(f) ==
    IF f.planned THEN <<Recovery!Economics(f.actions, Today(f))>> ELSE <<>>

\* Mutation: an action that is not counted shows its own promise.
ShowPromise(f, n, counted) == f.actions[n].does.revenue + f.actions[n].does.cost

\* `gmBenefit`: an action that is not counted banks nothing.
GmBenefit(f, n, counted) ==
    IF n \in counted THEN f.actions[n].does.revenue + f.actions[n].does.cost ELSE 0

RecoveryActions(f, economics) ==
    LET counted == IF economics = <<>> THEN {} ELSE economics[1].counted
    IN  [n \in DOMAIN f.actions |->
           [counted   |-> n \in counted,
            issue     |-> f.actions[n].does.signal,
            gmBenefit |-> GmBenefit(f, n, counted),
            scheduleBenefit |-> f.actions[n].does.weeks]]

\* `recoveryEconomics`: the counted weeks, and how many actions bank nothing.
RecoverySummary(rows) ==
    LET weeks[n \in 0..Len(rows)] ==
            IF n = 0 THEN 0
            ELSE weeks[n - 1] + (IF rows[n].counted THEN rows[n].scheduleBenefit ELSE 0)
    IN  [scheduleBenefitWeeks |-> weeks[Len(rows)],
         discarded |-> Cardinality({n \in DOMAIN rows : ~rows[n].counted})]

\* 0 is "not ranked in this scope".
InterventionRank(scope) == IF scope.place = 0 THEN <<>> ELSE <<scope.place, scope.of>>

\* The replay rewinds one dimension of four, so a rate is never an executive
\* conclusion; nobody turning RED is no rate at all.
LateDetectionShown(scope) ==
    CASE scope = Unscoped -> "not computed"
      [] scope # Unscoped /\ scope.reaching = 0 -> "not computable"
      [] scope.reaching > 0 -> "partial history"

BuildForwardRisk(f) ==
    LET rows      == Rows(f)
        economics == RecoveryEconomics(f)
        actions   == RecoveryActions(f, economics)
    IN  [signals       |-> rows,
         headline      |-> Headline(rows),
         clearSignals  |-> Clear(f),
         notEvaluated  |-> NotEvaluated(f),
         outlook       |-> Outlook(f.outlook),
         actions       |-> actions,
         recovery      |-> economics,
         summary       |-> RecoverySummary(actions),
         assurance     |-> Assurance(rows),
         rank          |-> InterventionRank(f.scope),
         lateDetection |-> LateDetectionShown(f.scope)]

-----------------------------------------------------------------------------
\* The week's facts change and the page is built anew.
Becomes(f) == facts' = f /\ page' = BuildForwardRisk(f)

Init ==
    \E burn \in BurnLevels, outlook \in Outlooks, scope \in Scopes :
       /\ facts = [progress |-> <<0>>, burn |-> burn, dispositions |-> <<>>, planned |-> FALSE,
                   actions |-> <<>>, outlook |-> outlook, scope |-> scope]
       /\ page = BuildForwardRisk(facts)

ReportWeek ==
    /\ Today(facts) < LastWeek
    /\ \E done \in {facts.progress[Today(facts)], facts.progress[Today(facts)] + 1} \cap 0..Whole :
          Becomes([facts EXCEPT !.progress = Append(@, done)])

MeasureBurn ==
    \E burn \in BurnLevels \ {facts.burn} : Becomes([facts EXCEPT !.burn = burn])

\* `warningDispositions`: a fired warning is put to assurance, once, and decided.
Raise(s) ==
    /\ Warning(facts)!Fired(s) /\ Len(facts.dispositions) < MaxRaised
    /\ \A n \in DOMAIN facts.dispositions : facts.dispositions[n].signal # s
    /\ Becomes([facts EXCEPT !.dispositions = Append(@,
          [signal |-> s, raised |-> Today(facts), due |-> Today(facts) + Clock,
           done |-> 0, verdict |-> "none"])])

Dispose(n, verdict) ==
    /\ facts.dispositions[n].done = 0
    /\ Becomes([facts EXCEPT !.dispositions[n].done = Today(facts),
                             !.dispositions[n].verdict = verdict])

OpenPlan == ~facts.planned /\ Becomes([facts EXCEPT !.planned = TRUE])

Propose(t) ==
    /\ facts.planned /\ Len(facts.actions) < MaxActions
    /\ LET due == IF t.dated THEN Today(facts) ELSE Undated
       IN  Becomes([facts EXCEPT !.actions = Append(@,
              [does |-> t, owned |-> t.dated, due |-> due, status |-> "PROPOSED"])])

Settle(n, status) ==
    /\ facts.actions[n].status = "PROPOSED"
    /\ Becomes([facts EXCEPT !.actions[n].status = status])

Next ==
    \/ ReportWeek \/ MeasureBurn \/ OpenPlan
    \/ \E n \in DOMAIN Rules : Raise(Rules[n])
    \/ \E n \in DOMAIN facts.dispositions, v \in {"VALIDATED", "ACCEPTED_RISK"} : Dispose(n, v)
    \/ \E t \in Templates : Propose(t)
    \/ \E n \in DOMAIN facts.actions, status \in {"COMPLETE", "ABANDONED"} : Settle(n, status)

Spec == Init /\ [][Next]_vars

-----------------------------------------------------------------------------
(* Properties *)

\* The shape of a row and of the page around it.
SignalRowDto(lifecycles) ==
    [signal : ToSet(Rules), severity : 1..Severe, lifecycle : lifecycles,
     action : [owned : BOOLEAN, due : 0..LastWeek,
               status : {"NONE", "PROPOSED", "COMPLETE", "ABANDONED"}],
     executive : BOOLEAN]

ForwardRiskView(p) ==
    /\ p.signals \in Seq(SignalRowDto(Warning(facts)!Lifecycles))
    /\ Len(p.signals) + Cardinality(p.clearSignals) + Cardinality(p.notEvaluated) = Len(Rules)
    /\ Len(p.actions) = Len(facts.actions)
    /\ p.lateDetection \in {"not computed", "not computable", "partial history"}

\* Every variable stays within its kind of value, and every rule of the register is
\* on the page exactly once: fired, clear or not evaluated.
TypeOK ==
    /\ facts \in ForwardRiskInput /\ Today(facts) <= LastWeek
    /\ ForwardRiskView(page)

Answering(s) == {n \in DOMAIN facts.actions : facts.actions[n].does.signal = s}
Pending(s) == \E n \in DOMAIN facts.dispositions :
                 /\ facts.dispositions[n].signal = s /\ facts.dispositions[n].done = 0
                 /\ facts.dispositions[n].due < Today(facts)
Agreed(s) == \E n \in DOMAIN facts.dispositions :
                /\ facts.dispositions[n].signal = s /\ facts.dispositions[n].verdict = "VALIDATED"

\* A page that reports no assurance exception hides none: no firing warning waits for
\* assurance past its date, and none was agreed to be real with nobody answering it
\* (`assurance.narrative`, forward-risk.ts).
CleanPageHidesNothing ==
    page.assurance.clean =>
      \A n \in DOMAIN page.signals :
         LET s == page.signals[n].signal
         IN  ~Pending(s) /\ (Agreed(s) => Answering(s) # {})

\* A row names who owes the work: unless everything answering the warning is finished,
\* the owner and date beside it are those of something unfinished, and a warning nobody
\* answers shows no owner, no date and no decision asked of an executive (`signalRow`).
RowsShowWhoOwes ==
    \A n \in DOMAIN page.signals :
      LET r == page.signals[n]
      IN  /\ r.lifecycle \in {"VALIDATED_ACTION_OPEN", "VALIDATED_ACTION_OVERDUE"} =>
                r.action.status \in {"PROPOSED", "ABANDONED"}
          /\ r.lifecycle = "VALIDATED_NO_ACTION" => r.action = NoAction /\ ~r.executive

\* The benefits on the rows are the recovery case: together they are exactly what the
\* case adds to today's forecast, and without a plan there is neither (`recoveryActions`
\* of forward-risk.ts beside computeRecoveryEconomics).
ShownBenefitsAreTheCase ==
    IF page.recovery = <<>> THEN page.actions = <<>>
    ELSE LET shown[n \in 0..Len(page.actions)] ==
                 IF n = 0 THEN 0 ELSE shown[n - 1] + page.actions[n].gmBenefit
             r == page.recovery[1]
         IN  /\ 100 * shown[Len(page.actions)] =
                   (r.case.revenue - r.base.revenue) + (r.base.cost - r.case.cost)
             /\ page.summary.discarded + Cardinality(r.counted) = Len(page.actions)

\* Work owed stays on the page: while its warning fires and neither assurance nor
\* delivery does anything, an overdue row stays overdue, under the same owner and date,
\* and an exception stays an exception (lifecycle, `openAction`).
WorkOwedStays ==
    (facts'.actions = facts.actions /\ facts'.dispositions = facts.dispositions) =>
      \A n \in DOMAIN page.signals, m \in DOMAIN page'.signals :
        (page.signals[n].signal = page'.signals[m].signal
           /\ page.signals[n].lifecycle \in {"VALIDATED_ACTION_OVERDUE", "OVERDUE_DISPOSITION"}
           /\ Today(facts') >= Today(facts)) =>
          /\ page'.signals[m].lifecycle = page.signals[n].lifecycle
          /\ page'.signals[m].action = page.signals[n].action
=============================================================================
