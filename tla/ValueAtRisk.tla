---------------------------- MODULE ValueAtRisk ----------------------------
(***************************************************************************)
(* The portfolio's gross margin at risk, and where it clusters. Projects   *)
(* are supplied to a report, perhaps twice; every distinct one counts      *)
(* once. Shared causes describe the total and never reduce it. Within one  *)
(* project the amount is divided over its causes, the rounding going to    *)
(* the largest part.                                                       *)
(*                                                                         *)
(* An amount is a whole number of the smallest unit that is kept, so that  *)
(* a division rounds.                                                      *)
(***************************************************************************)
EXTENDS Integers, Sequences, FiniteSets

LOCAL INSTANCE FiniteSetsExt
LOCAL INSTANCE SequencesExt

CONSTANTS
    Projects, Causes,
    Amounts,        \* values at risk, and weighted impacts of a risk
    MaxSupplied     \* bound: entries in one request, a project may occur twice

RiskAssumption == Projects \subseteq Nat /\ Causes \subseteq Nat /\ Amounts \subseteq Nat

VARIABLES
    gm,         \* project -> MET-FIN-019
    impact,     \* project -> [the causes of its open risks -> probability-weighted impact]
    supplied,   \* what the application hands over, in its order
    report

vars == <<gm, impact, supplied, report>>

SumOf(f) == MapThenSumSet(LAMBDA x : f[x], DOMAIN f)
MaxOf(is) == CHOOSE i \in is : \A j \in is : j <= i

-----------------------------------------------------------------------------
(* One project *)

\* Half a unit is rounded up, as the decimal library does.
Scaled(total, part, whole) == (2 * total * part + whole) \div (2 * whole)

\* Shares of the project's amount in proportion to its causes; the residual goes to the
\* first of the largest.
Attribution(total, by) ==
    LET part == [c \in DOMAIN by |-> Scaled(total, by[c], SumOf(by))]
        largest == {c \in DOMAIN by : part[c] = MaxOf({part[d] : d \in DOMAIN by})}
        dominant == CHOOSE c \in largest : \A d \in largest : c <= d
    IN  [part EXCEPT ![dominant] = @ + (total - SumOf(part))]

Attributable(total, by) == DOMAIN by # {} /\ SumOf(by) > 0 /\ total # 0

Attribute(total, by) == IF Attributable(total, by) THEN Attribution(total, by) ELSE <<>>

-----------------------------------------------------------------------------
(* The portfolio *)

Total(ps, g) == MapThenSumSet(LAMBDA p : g[p], Range(ps))

Portfolio(ps, g, by) == Total(ps, g)

Members(ps, by, c) == {p \in Range(ps) : c \in DOMAIN by[p]}

\* Every project that carries the cause, at its full amount.
Exposed(ps, g, by, c) == MapThenSumSet(LAMBDA p : g[p], Members(ps, by, c))

Concentration(ps, g, by) ==
    [c \in UNION {DOMAIN by[p] : p \in Range(ps)} |->
        [count |-> Cardinality(Members(ps, by, c)),
         exposed |-> Exposed(ps, g, by, c),
         largest |-> MaxOf({g[p] : p \in Members(ps, by, c)})]]

Report(ps, g, by) ==
    [total |-> Portfolio(ps, g, by),
     count |-> Cardinality(Range(ps)),
     concentration |-> Concentration(ps, g, by),
     attributions |-> [p \in Range(ps) |-> Attribute(g[p], by[p])]]

-----------------------------------------------------------------------------
Init ==
    /\ gm = [p \in Projects |-> 0]
    /\ impact = [p \in Projects |-> <<>>]
    /\ supplied = <<>>
    /\ report = Report(supplied, gm, impact)

Reassess(p, a) == gm' = [gm EXCEPT ![p] = a] /\ UNCHANGED <<impact, supplied>>

\* Risks on one cause add up; the impact may be nil.
OpenRisk(p, c, a) ==
    /\ c \notin DOMAIN impact[p]
    /\ impact' = [impact EXCEPT ![p] = [d \in DOMAIN @ \cup {c} |-> IF d = c THEN a ELSE @[d]]]
    /\ UNCHANGED <<gm, supplied>>

CloseRisks(p, c) ==
    /\ c \in DOMAIN impact[p]
    /\ impact' = [impact EXCEPT ![p] = [d \in DOMAIN @ \ {c} |-> @[d]]]
    /\ UNCHANGED <<gm, supplied>>

Supply(p) ==
    /\ Len(supplied) < MaxSupplied
    /\ supplied' = Append(supplied, p)
    /\ UNCHANGED <<gm, impact>>

Next ==
    /\ \E p \in Projects :
          \/ \E a \in Amounts : Reassess(p, a)
          \/ \E c \in Causes, a \in Amounts : OpenRisk(p, c, a)
          \/ \E c \in Causes : CloseRisks(p, c)
          \/ Supply(p)
    /\ report' = Report(supplied', gm', impact')

Spec == Init /\ [][Next]_vars

-----------------------------------------------------------------------------
(* Properties *)

TypeOK ==
    /\ gm \in [Projects -> Amounts]
    /\ \A p \in Projects : DOMAIN impact[p] \subseteq Causes
    /\ Range(supplied) \subseteq Projects
    /\ DOMAIN report.attributions = Range(supplied)

\* No cause takes a cent off the portfolio: while the projects and their amounts stay, risks
\* opened, closed or shared leave the total where it is, and so does a project supplied a
\* second time (`portfolioValueAtRisk`; the superseded deduction it records).
CausesNeverReduce ==
    gm' = gm /\ Range(supplied') = Range(supplied) => report'.total = report.total

\* No money lies outside the total: a cause's row is at least its largest project and at most
\* the portfolio, and the rows together cover every project that carries a cause.
RowsLieWithinTheTotal ==
    LET rows == report.concentration
    IN  /\ \A c \in DOMAIN rows : rows[c].largest <= rows[c].exposed /\ rows[c].exposed <= report.total
        /\ \A p \in Range(supplied) : \A c \in DOMAIN impact[p] : rows[c].exposed >= gm[p]

\* An attributed project is divided to the last unit, among its own causes, and no part is
\* negative (`attributeProject`, "the shares sum exactly").
PartsSumExactly ==
    \A p \in Range(supplied) :
        LET a == report.attributions[p]
        IN  DOMAIN a # {} =>
                DOMAIN a = DOMAIN impact[p] /\ SumOf(a) = gm[p] /\ \A c \in DOMAIN a : a[c] >= 0
=============================================================================
