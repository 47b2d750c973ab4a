---------------------------- MODULE RecoveryCase ----------------------------
(***************************************************************************)
(* The recovery plan of one project: corrective actions are proposed,      *)
(* owned, carried out, abandoned or let past their date, and each day the  *)
(* recovery engine says what the margin would be if all of them landed,    *)
(* what it would be given how likely they are, and how credible the plan   *)
(* is. The forward-risk page joins that result to the actions' own facts.  *)
(*                                                                         *)
(* Money is in units of the contract, confidence in percent.               *)
(***************************************************************************)
EXTENDS Integers, Sequences, FiniteSets

CONSTANTS
    Templates,  \* [revenue, cost, confidence, group]: what an action may promise
    NoGroup,    \* the group of an independent action
    Revenue, Cost, \* forecast revenue and estimate at completion
    Discount,   \* `overdueDiscount`, in percent
    Floor,      \* `confidenceFloor`, in percent
    Plan,       \* bound: actions of the plan
    LastDay     \* bound: days

Open == {"PROPOSED", "COMMITTED", "IN_PROGRESS"}
Active == Open \cup {"COMPLETE"}
Undated == 0

RecoveryAssumption ==
    /\ \A t \in Templates : t.revenue \in Nat /\ t.cost \in Nat /\ t.confidence \in 0..100
    /\ Revenue \in Nat \ {0} /\ Cost \in Nat /\ Discount \in 0..100 /\ Floor \in 0..100

VARIABLES
    actions,    \* in the order recorded: [does, owned, due, status]
    today,
    economics   \* what the page says of the plan today

vars == <<actions, today, economics>>

-----------------------------------------------------------------------------
(* The engine, over a list of actions and a day *)

Live(as) == {n \in DOMAIN as : as[n].status \in Active}
Benefit(as, n) == as[n].does.revenue + as[n].does.cost
SameProblem(as, m, n) == as[m].does.group = as[n].does.group /\ as[n].does.group # NoGroup

\* Mutation: a later action of the same benefit is counted too.
CountedTies(as) ==
    {n \in Live(as) : \A m \in Live(as) \ {n} :
        SameProblem(as, m, n) => Benefit(as, m) <= Benefit(as, n)}

\* The first of a group's largest benefits stands for the group.
Counted(as) ==
    {n \in Live(as) : \A m \in Live(as) \ {n} :
        SameProblem(as, m, n) => \/ Benefit(as, m) < Benefit(as, n)
                                 \/ Benefit(as, m) = Benefit(as, n) /\ n < m}

Overdue(a, day) == a.status # "COMPLETE" /\ a.due # Undated /\ a.due < day

\* Mutation: the discount is taken while the date is still ahead.
AppliedEarly(a, day) ==
    LET d == IF a.status # "COMPLETE" /\ a.due >= day
             THEN (a.does.confidence * (100 - Discount)) \div 100 ELSE a.does.confidence
    IN  IF d < Floor THEN 0 ELSE d

\* In percent, discounted once overdue and nothing below the floor.
Applied(a, day) ==
    LET d == IF Overdue(a, day) THEN (a.does.confidence * (100 - Discount)) \div 100
             ELSE a.does.confidence
    IN  IF d < Floor THEN 0 ELSE d

Total(S, f(_)) ==
    LET upTo[n \in 0..Plan] == IF n = 0 THEN 0 ELSE upTo[n - 1] + (IF n \in S THEN f(n) ELSE 0)
    IN  upTo[Plan]

\* Revenue and cost when each counted benefit lands by its weight in percent.
Outturn(as, weight) ==
    [revenue |-> 100 * Revenue + Total(Counted(as), LAMBDA n : as[n].does.revenue * weight[n]),
     cost    |-> 100 * Cost - Total(Counted(as), LAMBDA n : as[n].does.cost * weight[n])]

\* Gross margin of x is no more than that of y: (r - c) / r, both r positive.
NoBetter(x, y) == y.cost * x.revenue <= x.cost * y.revenue

Count(as, P(_)) == Cardinality({n \in Live(as) : P(as[n])})
OnTime(a, day) == a.status = "COMPLETE" \/ a.due = Undated \/ a.due >= day

None == -1

\* 0 to 100: owned and dated, on time, complete, over the live actions.
Credibility(as, day) ==
    IF Live(as) = {} THEN None
    ELSE (40 * Count(as, LAMBDA a : a.owned /\ a.due # Undated)
            + 30 * Count(as, LAMBDA a : OnTime(a, day))
            + 30 * Count(as, LAMBDA a : a.status = "COMPLETE")) \div Cardinality(Live(as))

-----------------------------------------------------------------------------
(* The page *)

\* `discarded`: every action the engine did not count.
Discarded(as) == DOMAIN as \ Counted(as)

Economics(as, day) ==
    [base        |-> Outturn(as, [n \in DOMAIN as |-> 0]),
     case        |-> Outturn(as, [n \in DOMAIN as |-> 100]),
     adjusted    |-> Outturn(as, [n \in DOMAIN as |-> Applied(as[n], day)]),
     credibility |-> Credibility(as, day),
     counted     |-> Counted(as),
     discarded   |-> Discarded(as)]

RecoveryEconomics ==
    LET Money == [revenue: Nat \ {0}, cost: Int]
    IN  [base: Money, case: Money, adjusted: Money, credibility: 0..100 \cup {None},
         counted: SUBSET (1..Plan), discarded: SUBSET (1..Plan)]

Review == economics' = Economics(actions', today')

-----------------------------------------------------------------------------
Init == actions = <<>> /\ today = 1 /\ economics = Economics(<<>>, 1)

Propose ==
    /\ Len(actions) < Plan
    /\ \E t \in Templates, owned \in BOOLEAN, due \in {Undated, today} :
          actions' = Append(actions, [does |-> t, owned |-> owned, due |-> due, status |-> "PROPOSED"])
    /\ UNCHANGED today /\ Review

\* Delivery takes it forward: PROPOSED, IN_PROGRESS, COMPLETE.
Advance(n) ==
    /\ actions[n].status \in Open
    /\ actions' = [actions EXCEPT ![n].status =
           IF @ = "PROPOSED" THEN "IN_PROGRESS" ELSE "COMPLETE"]
    /\ UNCHANGED today /\ Review

Abandon(n) ==
    /\ actions[n].status \in Open
    /\ actions' = [actions EXCEPT ![n].status = "ABANDONED"]
    /\ UNCHANGED today /\ Review

Assign(n) ==
    /\ ~actions[n].owned
    /\ actions' = [actions EXCEPT ![n].owned = TRUE]
    /\ UNCHANGED today /\ Review

NextDay == today < LastDay /\ today' = today + 1 /\ UNCHANGED actions /\ Review

Next == \/ Propose \/ NextDay
        \/ \E n \in DOMAIN actions : Advance(n) \/ Abandon(n) \/ Assign(n)

Spec == Init /\ [][Next]_vars

-----------------------------------------------------------------------------
(* Properties *)

TypeOK ==
    /\ actions \in Seq([does : Templates, owned : BOOLEAN, due : {Undated} \cup 1..LastDay,
                        status : Active \cup {"ABANDONED"}])
    /\ today \in 1..LastDay
    /\ economics \in RecoveryEconomics

\* Each problem is fixed once: of the live actions of a group exactly one is
\* counted, one of the largest, and every independent live action is (the
\* incompatibility groups of computeRecoveryEconomics).
OneFixPerProblem ==
    /\ \A n \in Live(actions) : Cardinality({m \in economics.counted :
            m = n \/ SameProblem(actions, m, n)}) = 1
    /\ \A n \in Live(actions) : \E m \in economics.counted :
            /\ m = n \/ SameProblem(actions, m, n)
            /\ Benefit(actions, m) >= Benefit(actions, n)
    /\ economics.counted \subseteq Live(actions)

\* The likely margin lies between today's forecast and the whole plan's
\* (REC-001 and REC-002 are read side by side).
LikelyLiesBetween ==
    /\ NoBetter(economics.base, economics.adjusted)
    /\ NoBetter(economics.adjusted, economics.case)

\* With nothing done, a day passing never raises the likely margin or the
\* plan's credibility, and leaves the full case alone.
TimeOnlyErodes ==
    today' # today =>
      /\ NoBetter(economics'.adjusted, economics.adjusted)
      /\ economics'.credibility <= economics.credibility
      /\ economics'.case = economics.case

\* Work on an action, or taking ownership of it, never costs the plan margin or
\* credibility.
WorkNeverCosts ==
    (/\ Len(actions') = Len(actions) /\ today' = today
      /\ \A n \in DOMAIN actions : actions'[n].status = "ABANDONED" => actions'[n] = actions[n]) =>
      /\ NoBetter(economics.adjusted, economics'.adjusted)
      /\ economics.credibility <= economics'.credibility
=============================================================================
