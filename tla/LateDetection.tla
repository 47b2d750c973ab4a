---------------------------- MODULE LateDetection ----------------------------
(***************************************************************************)
(* MET-FCST-030, the rate that measures early detection itself. Projects   *)
(* claim progress every week; their bands are replayed on the reporting    *)
(* cadence over a trailing window, the first RED of the replay is located  *)
(* and the period before it is asked whether it was AMBER or warned.       *)
(***************************************************************************)
EXTENDS Integers, Sequences, FiniteSets, SequencesExt

CONSTANTS
    Projects,
    Cadence,    \* weeks between sampled periods
    Window,     \* sampled periods kept
    Dimensions, \* the dimensions of the health model
    Rewound,    \* those the replay can rewind
    LastWeek    \* bound: weekly claims

LateDetectionAssumption ==
    /\ Cadence \in Nat \ {0} /\ Window \in Nat \ {0} /\ Rewound \subseteq Dimensions

\* What the replayed assessment of a week says: its band, and whether a
\* warning rule fired on the evidence of that week.
Assessments == [band : {"GREEN", "AMBER", "RED"}, warned : BOOLEAN]

VARIABLES
    history,    \* project -> the assessment of each weekly claim, oldest first
    rate        \* what was computed last

vars == <<history, rate>>

-----------------------------------------------------------------------------

\* Every Cadence-th claim from the first, the last Window of them.
SampledWeeks(p) ==
    LET n == Len(history[p])
        weeks == SelectSeq([w \in 1..n |-> w], LAMBDA w : (w - 1) % Cadence = 0)
    IN  SubSeq(weeks, IF Len(weeks) <= Window THEN 1 ELSE Len(weeks) - Window + 1, Len(weeks))

RedAt(p, i) == history[p][SampledWeeks(p)[i]].band = "RED"

FirstRed(p) ==
    LET reds == {i \in DOMAIN SampledWeeks(p) : RedAt(p, i)}
    IN  IF reds = {} THEN 0 ELSE CHOOSE i \in reds : \A j \in reds : i <= j

IsCase(p) == Len(SampledWeeks(p)) >= 2 /\ FirstRed(p) > 1

Detected(p) ==
    LET prior == history[p][SampledWeeks(p)[FirstRed(p) - 1]]
    IN  prior.band = "AMBER" \/ prior.warned

Cases == {p \in Projects : IsCase(p)}

Coverage == IF Dimensions \ Rewound = {}
            THEN IF Rewound = {} THEN "NONE" ELSE "COMPLETE"
            ELSE "PARTIAL"

None == -1

\* In hundredths of a percent.
Computed ==
    LET late == {p \in Cases : ~Detected(p)}
    IN  [reaching |-> Cardinality(Cases), late |-> Cardinality(late),
         rate |-> IF Cases = {} THEN None ELSE (10000 * Cardinality(late)) \div Cardinality(Cases),
         found |-> {<<p, SampledWeeks(p)[FirstRed(p)], Detected(p)>> : p \in Cases},
         quotable |-> Cases # {} /\ Coverage = "COMPLETE"]

LateDetectionRate ==
    [reaching: 0..Cardinality(Projects), late: 0..Cardinality(Projects), rate: 0..10000 \cup {None},
     found: SUBSET (Projects \X (1..LastWeek) \X BOOLEAN), quotable: BOOLEAN]

-----------------------------------------------------------------------------
Init ==
    /\ history = [p \in Projects |-> <<>>]
    /\ rate = Computed

Claim(p) ==
    /\ Len(history[p]) < LastWeek
    /\ \E a \in Assessments : /\ a.band # "GREEN" => ~a.warned
                              /\ history' = [history EXCEPT ![p] = Append(@, a)]
    /\ rate' = Computed'

Next == \E p \in Projects : Claim(p)

Spec == Init /\ [][Next]_vars

-----------------------------------------------------------------------------
(* Properties *)

TypeOK ==
    /\ \A p \in Projects : history[p] \in Seq(Assessments)
    /\ rate \in LateDetectionRate /\ rate.late <= rate.reaching
    /\ rate.quotable => Rewound = Dimensions

\* The verdict on a project's turn to RED does not change afterwards: no later
\* week makes a late detection a timely one or the reverse (the samples are
\* counted from the first claim, and only the period before is asked).
VerdictStands ==
    \A f \in rate.found, g \in rate'.found : (f[1] = g[1] /\ f[2] = g[2]) => f[3] = g[3]

\* Somebody's project did turn: every project counted has a period that was not
\* RED directly before the RED one, and a rate is given exactly when there is
\* such a project (firstRedIndex; "not a 0% late-detection rate").
CountedProjectsTurned ==
    /\ \A f \in rate.found :
          \E w \in 1..Len(history[f[1]]) :
             /\ w + Cadence = f[2] /\ history[f[1]][w].band # "RED"
             /\ history[f[1]][f[2]].band = "RED"
    /\ rate.rate = None <=> rate.found = {}
=============================================================================
