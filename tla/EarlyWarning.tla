--------------------------- MODULE EarlyWarning ---------------------------
(***************************************************************************)
(* Early warnings of one project over its reporting weeks: the delivery    *)
(* engine's required velocity and a cost signal are read by the warning    *)
(* rules, a fired warning is joined to what assurance decided and to the   *)
(* corrective actions delivery committed to, and its place in the life     *)
(* cycle is derived anew every week.                                       *)
(*                                                                         *)
(* Completion is counted in parts of the whole, ratios in hundredths.      *)
(***************************************************************************)
EXTENDS Integers, Sequences, FiniteSets, SequencesExt

CONSTANTS
    Whole,        \* parts of the work
    Window,       \* `velocityWindowWeeks`
    Baseline,     \* the week of the contractual completion
    LastWeek,     \* bound: reporting weeks looked at
    BurnLevels,   \* the burn gaps observed, in hundredths
    Clock,        \* weeks assurance has to disposition a warning
    Actions       \* corrective actions delivery may propose

Signals == {"REQUIRED_VELOCITY_RATIO", "BURN_GAP"}
Threshold == [s \in Signals |-> IF s = "BURN_GAP" THEN 8 ELSE 130]
Verdicts == {"VALIDATED", "CHALLENGED", "ACCEPTED_RISK"}
OpenStatuses == {"PROPOSED", "COMMITTED", "IN_PROGRESS"}
Statuses == OpenStatuses \cup {"COMPLETE", "ABANDONED"}

WarningAssumption ==
    /\ Whole \in Nat \ {0} /\ Window \in Nat \ {0} /\ Clock \in Nat
    /\ Baseline \in 1..LastWeek /\ LastWeek \in Nat
    /\ BurnLevels \subseteq Nat /\ BurnLevels # {}

VARIABLES
    progress,     \* the weekly completion claims, oldest first
    burn,         \* the burn gap
    dispositions, \* `warningDispositions`, in the order recorded
    actions       \* the corrective actions, by id

vars == <<progress, burn, dispositions, actions>>

Today == Len(progress)
Proposed == DOMAIN actions

-----------------------------------------------------------------------------
(* Readings *)

Finite(v) == [state |-> "OBSERVED", value |-> v]
NotComputable == [state |-> "NOT_COMPUTABLE", value |-> 0]
Unbounded == [state |-> "UNBOUNDED", value |-> 0]

\* MET-DEL-019, times the window.
Gained == progress[Today] - progress[Today - Window]

\* MET-DEL-018: MET-DEL-020 over MET-DEL-019.
VelocityRatio ==
    IF Today < Window + 1 \/ Today >= Baseline THEN NotComputable
    ELSE LET remaining == Whole - progress[Today]
         IN  IF Gained <= 0
             THEN IF remaining > 0 THEN Unbounded ELSE NotComputable
             ELSE Finite((remaining * Window * 100) \div ((Baseline - Today) * Gained))

\* What the metrics say, and what `warningReadingsFor` passes on of it: the
\* value alone.
Metric(s) == IF s = "BURN_GAP" THEN Finite(burn) ELSE VelocityRatio
Reading(s) == IF Metric(s).state = "OBSERVED" THEN Metric(s) ELSE NotComputable

Fired(s) == Reading(s).state = "OBSERVED" /\ Reading(s).value >= Threshold[s]

\* 1 ELEVATED, 2 HIGH, 3 SEVERE: multiples 1, 1.75 and 3 of the threshold.
Severity(s) ==
    LET v == Reading(s).value * 100
    IN  IF v >= 300 * Threshold[s] THEN 3 ELSE IF v >= 175 * Threshold[s] THEN 2 ELSE 1

-----------------------------------------------------------------------------
(* The life cycle *)

NoDisposition == [signal |-> "none", raised |-> 0, due |-> 0, done |-> 0, verdict |-> "none"]

\* Mutation: the first disposition of a signal stands for all of them.
DispositionOfFirst(s) ==
    IF \E n \in DOMAIN dispositions : dispositions[n].signal = s
    THEN SelectSeq(dispositions, LAMBDA d : d.signal = s)[1]
    ELSE NoDisposition

\* A map built from the records in order: the last of a signal is kept.
DispositionOf(s) ==
    IF \E n \in DOMAIN dispositions : dispositions[n].signal = s
    THEN Last(SelectSeq(dispositions, LAMBDA d : d.signal = s))
    ELSE NoDisposition

Linked(s) == {a \in Proposed : actions[a].signal = s}
Overdue(a) == actions[a].status \in OpenStatuses /\ actions[a].due < Today

Lifecycle(s) ==
    LET d == DispositionOf(s)
    IN  CASE d = NoDisposition -> "AWAITING_DISPOSITION"
          [] d # NoDisposition /\ d.done = 0 ->
               IF Today > d.due THEN "OVERDUE_DISPOSITION" ELSE "AWAITING_DISPOSITION"
          [] d # NoDisposition /\ d.done > 0 ->
               IF d.verdict # "VALIDATED" THEN d.verdict
               ELSE IF Linked(s) = {} THEN "VALIDATED_NO_ACTION"
               ELSE IF \A a \in Linked(s) : actions[a].status = "COMPLETE" THEN "VALIDATED_ACTION_COMPLETE"
               ELSE IF \E a \in Linked(s) : Overdue(a) THEN "VALIDATED_ACTION_OVERDUE"
               ELSE "VALIDATED_ACTION_OPEN"

Lifecycles == {"AWAITING_DISPOSITION", "OVERDUE_DISPOSITION", "VALIDATED_NO_ACTION",
               "VALIDATED_ACTION_OPEN", "VALIDATED_ACTION_OVERDUE",
               "VALIDATED_ACTION_COMPLETE", "CHALLENGED", "ACCEPTED_RISK"}

\* `warnings`, `assuranceExceptions`, `validatedWithoutAction`
Warnings == {s \in Signals : Fired(s)}
Exceptions == {s \in Warnings : Lifecycle(s) = "OVERDUE_DISPOSITION"}

-----------------------------------------------------------------------------
Init ==
    /\ progress = <<0>> /\ burn \in BurnLevels
    /\ dispositions = <<>> /\ actions = << >>

\* A week is claimed: completion moves by at most one part, either way.
ReportWeek ==
    /\ Today < LastWeek
    /\ \E c \in {progress[Today] - 1, progress[Today], progress[Today] + 1} \cap 0..Whole :
          progress' = Append(progress, c)
    /\ UNCHANGED <<burn, dispositions, actions>>

MeasureBurn ==
    /\ burn' \in BurnLevels \ {burn}
    /\ UNCHANGED <<progress, dispositions, actions>>

\* A fired warning is put to assurance; one is open per signal at a time.
Raise(s) ==
    /\ Fired(s) /\ Len(dispositions) < 2
    /\ DispositionOf(s) = NoDisposition \/ DispositionOf(s).done > 0
    /\ dispositions' = Append(dispositions,
           [signal |-> s, raised |-> Today, due |-> Today + Clock, done |-> 0, verdict |-> "none"])
    /\ UNCHANGED <<progress, burn, actions>>

Dispose(n, verdict) ==
    /\ dispositions[n].done = 0
    /\ dispositions' = [dispositions EXCEPT ![n].done = Today, ![n].verdict = verdict]
    /\ UNCHANGED <<progress, burn, actions>>

Propose(a, s) ==
    /\ a \notin Proposed /\ Fired(s)
    /\ actions' = [b \in Proposed \cup {a} |->
           IF b = a THEN [signal |-> s, status |-> "PROPOSED", due |-> Today + 1] ELSE actions[b]]
    /\ UNCHANGED <<progress, burn, dispositions>>

Follow(a, status) ==
    /\ actions[a].status \in OpenStatuses /\ status \in {"IN_PROGRESS", "COMPLETE", "ABANDONED"}
    /\ actions' = [actions EXCEPT ![a].status = status]
    /\ UNCHANGED <<progress, burn, dispositions>>

Next ==
    \/ ReportWeek \/ MeasureBurn
    \/ \E s \in Signals : Raise(s)
    \/ \E n \in DOMAIN dispositions, v \in Verdicts : Dispose(n, v)
    \/ \E a \in Actions, s \in Signals : Propose(a, s)
    \/ \E a \in Proposed, st \in Statuses : Follow(a, st)

Spec == Init /\ [][Next]_vars

-----------------------------------------------------------------------------
(* Properties *)

TypeOK ==
    /\ progress \in Seq(0..Whole) /\ Today \in 1..LastWeek
    /\ burn \in BurnLevels
    /\ \A s \in Signals : /\ Lifecycle(s) \in Lifecycles
                          /\ Reading(s).value >= 0
    /\ \A a \in Proposed : actions[a].status \in Statuses

Worse(s) == /\ Reading(s).state = "OBSERVED" /\ Reading(s)'.state = "OBSERVED"
            /\ Reading(s)'.value > Reading(s).value

\* While its signal is read as a number and the number gets worse, a warning
\* neither disappears nor loses severity, and past three times its threshold
\* it is severe (evaluateRules, severityFor).
WorseIsNoLessSevere ==
    \A s \in Signals : (Fired(s) /\ Worse(s)) =>
      /\ Fired(s)' /\ Severity(s)' >= Severity(s)
      /\ Reading(s)'.value >= 3 * Threshold[s] => Severity(s)' = 3

\* Once assurance's clock is broken the warning stays an exception until
\* assurance decides or the signal no longer reads past its threshold: no new
\* action, week or reading of another signal hides it (evaluateEarlyWarnings).
ExceptionStands ==
    \A s \in Exceptions :
      s \in Exceptions' \/ ~Fired(s)' \/ DispositionOf(s)' # DispositionOf(s)

\* A broken clock is an exception whenever the warning fires: the last record
\* of the signal is undecided and late (DispositionInput.dueOn).
BrokenClockIsException ==
    \A n \in DOMAIN dispositions :
        (/\ dispositions[n].done = 0 /\ dispositions[n].due < Today
         /\ Fired(dispositions[n].signal)) => dispositions[n].signal \in Exceptions
=============================================================================
