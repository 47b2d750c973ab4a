-------------------------- MODULE ProjectEconomics --------------------------
(***************************************************************************)
(* The economics of one project, computed in one pass from its facts. The  *)
(* project lives: changes are proposed, executed or withdrawn, risks are   *)
(* opened, provisioned inside the estimate to complete, mitigated or       *)
(* realised, money is spent and committed, progress is claimed. After each *)
(* step the engine computes every figure anew.                             *)
(*                                                                         *)
(* Amounts are whole numbers, completions per cent, None where unclaimed.  *)
(***************************************************************************)
EXTENDS Integers, FiniteSets

LOCAL INSTANCE FiniteSetsExt

CONSTANTS
    Changes, Value, CostOf, Likelihood,  \* change -> value, cost, and probability in per cent
    Risks, Impact,                       \* risk -> probability-weighted cost impact
    ContractValue, BudgetedCost,         \* as sold
    Lump,                                \* the amount one posting or revision moves
    Completions, Maturity,               \* claims in per cent, and the EAC-v1 threshold
    MaxCost,                             \* bound: no posting or revision past this EAC
    None

EconomicsAssumption == Lump \in Nat \ {0} /\ Completions \subseteq 0..100 /\ None \notin Int

VARIABLES
    change,     \* change -> none | pending | executed
    risk,       \* risk -> none | open | provisioned | mitigated | realised
    cost, etc, committed,
    physical, planned, credible,
    economics   \* what computeEconomics returns for these facts

facts == <<change, risk, cost, etc, committed, physical, planned, credible>>
vars == <<facts, economics>>

Total(S, f(_)) == MapThenSumSet(f, S)
Executed(ch) == {c \in Changes : ch[c] = "executed"}
Pending(ch) == {c \in Changes : ch[c] = "pending"}

-----------------------------------------------------------------------------
(* The figures *)

\* Executed contractual change only; it is the contractual revenue as well.
ForecastRevenue(ch) == ContractValue + Total(Executed(ch), LAMBDA c : Value[c])

Budget(ch) == BudgetedCost + Total(Executed(ch), LAMBDA c : CostOf[c])

EstimateAtCompletion(atd, left, bound) == atd + left + bound

OpenRisks(rs) == {r \in Risks : rs[r] \in {"open", "provisioned"}}

\* Mutation: every open risk is deducted, the provisioned ones once more.
IncrementalAll(rs) == OpenRisks(rs)

\* Only risk that is not already in the estimate to complete.
Incremental(rs) == OpenRisks(rs) \ {r \in Risks : rs[r] = "provisioned"}

Exposure(rs) == Total(rs, LAMBDA r : Impact[r])

RiskAdjustedGm(adjusted, eac, exposure) == adjusted - eac - exposure

ExpectedRecovery(ch) == Total(Pending(ch), LAMBDA c : (Value[c] * Likelihood[c]) \div 100)

\* The outturn that progress implies, behind the maturity gate.
Implied(atd, done, ok) ==
    IF done = None \/ done = 0 \/ ~ok \/ done < Maturity THEN None ELSE (atd * 100) \div done

OptimismGap(implied, eac) ==
    CASE implied = None -> None
      [] implied > eac -> implied - eac
      [] OTHER -> 0

\* Mutation: neither clamped nor capped.
ValueAtRiskRaw(raw, revenue) == raw

\* A project cannot put more at risk than it is worth.
ValueAtRisk(raw, revenue) ==
    CASE raw < 0 -> 0
      [] raw > revenue -> revenue
      [] OTHER -> raw

\* Ratios in hundredths of a per cent; None over a zero denominator.
Per(part, whole) == IF whole = 0 THEN None ELSE (part * 10000) \div whole

\* Mutation: the operands are swapped.
GapReversed(ratio, done) == IF ratio = None \/ done = None THEN None ELSE done * 100 - ratio

Gap(ratio, done) == IF ratio = None \/ done = None THEN None ELSE ratio - done * 100

Share(amount, done) == IF done = None THEN None ELSE (amount * done) \div 100

Difference(a, b) == IF a = None \/ b = None THEN None ELSE a - b

ComputeEconomics(ch, rs, atd, left, bound, done, due, ok) ==
    LET revenue == ForecastRevenue(ch)
        eac == EstimateAtCompletion(atd, left, bound)
        gm == revenue - eac
        sold == ContractValue - BudgetedCost
        implied == Implied(atd, done, ok)
        adjusted == revenue + ExpectedRecovery(ch)
        adjustedGm == RiskAdjustedGm(adjusted, eac, Exposure(Incremental(rs)))
        earned == Share(Budget(ch), done)
        value == Share(Budget(ch), due)
    IN  [forecastRevenue |-> revenue,
         forecastGm |-> gm,
         erosion |-> sold - gm,
         eac |-> eac,
         burnGap |-> Gap(Per(atd, Budget(ch)), done),
         progressVariance |-> Difference(done, due),
         implied |-> implied,
         optimismGap |-> OptimismGap(implied, eac),
         gross |-> Exposure(OpenRisks(rs)),
         incremental |-> Exposure(Incremental(rs)),
         riskAdjustedRevenue |-> adjusted,
         riskAdjustedGm |-> adjustedGm,
         valueAtRisk |-> ValueAtRisk(sold - adjustedGm, revenue),
         costVariance |-> Difference(earned, atd),
         scheduleVariance |-> Difference(earned, value)]

-----------------------------------------------------------------------------
Recompute ==
    economics' = ComputeEconomics(change', risk', cost', etc', committed', physical', planned', credible')

\* Money, with None where a figure cannot be computed.
EconomicsResult ==
    LET Figure == Int \cup {None}
    IN  [forecastRevenue: Int, forecastGm: Int, erosion: Int, eac: Nat, burnGap: Figure,
         progressVariance: Figure, implied: Figure, optimismGap: Nat \cup {None}, gross: Nat,
         incremental: Nat, riskAdjustedRevenue: Int, riskAdjustedGm: Int, valueAtRisk: Nat,
         costVariance: Figure, scheduleVariance: Figure]

Init ==
    /\ change = [c \in Changes |-> "none"]
    /\ risk = [r \in Risks |-> "none"]
    /\ cost = 0 /\ etc = BudgetedCost /\ committed = 0
    /\ physical = None /\ planned = None /\ credible = TRUE
    /\ economics = ComputeEconomics(change, risk, cost, etc, committed, physical, planned, credible)

Fits(n) == cost + etc + committed + n <= MaxCost

(* Contract *)

ChangeMoves(c, from, to) ==
    /\ change[c] = from
    /\ change' = [change EXCEPT ![c] = to]
    /\ UNCHANGED <<risk, cost, etc, committed, physical, planned, credible>>

Propose(c) == ChangeMoves(c, "none", "pending")
Withdraw(c) == ChangeMoves(c, "pending", "none")
Execute(c) == ChangeMoves(c, "pending", "executed")

(* Risk *)

RiskMoves(r, from, to) == risk[r] = from /\ risk' = [risk EXCEPT ![r] = to]

RaiseRisk(r) ==
    /\ RiskMoves(r, "none", "open")
    /\ UNCHANGED <<change, cost, etc, committed, physical, planned, credible>>

\* The weighted amount moves inside the estimate to complete, and the flag says so.
Provision(r) ==
    /\ RiskMoves(r, "open", "provisioned")
    /\ Fits(Impact[r])
    /\ etc' = etc + Impact[r]
    /\ UNCHANGED <<change, cost, committed, physical, planned, credible>>

Mitigate(r) ==
    /\ \E from \in {"open", "provisioned"} : RiskMoves(r, from, "mitigated")
    /\ UNCHANGED <<change, cost, etc, committed, physical, planned, credible>>

\* The provision is used where there is one.
Realise(r) ==
    /\ \/ RiskMoves(r, "open", "realised") /\ Fits(Impact[r]) /\ UNCHANGED etc
       \/ RiskMoves(r, "provisioned", "realised") /\ etc >= Impact[r] /\ etc' = etc - Impact[r]
    /\ cost' = cost + Impact[r]
    /\ UNCHANGED <<change, committed, physical, planned, credible>>

(* Money and progress *)

\* As estimated, or against a commitment.
Spend ==
    /\ \/ etc >= Lump /\ etc' = etc - Lump /\ UNCHANGED committed
       \/ committed >= Lump /\ committed' = committed - Lump /\ UNCHANGED etc
    /\ cost' = cost + Lump
    /\ UNCHANGED <<change, risk, physical, planned, credible>>

Commit ==
    /\ etc >= Lump
    /\ etc' = etc - Lump
    /\ committed' = committed + Lump
    /\ UNCHANGED <<change, risk, cost, physical, planned, credible>>

ReviseEstimate ==
    /\ \/ Fits(Lump) /\ etc' = etc + Lump
       \/ etc >= Lump /\ etc' = etc - Lump
    /\ UNCHANGED <<change, risk, cost, committed, physical, planned, credible>>

Claim(done) ==
    /\ physical' = done
    /\ UNCHANGED <<change, risk, cost, etc, committed, planned, credible>>

Baseline(due) ==
    /\ planned' = due
    /\ UNCHANGED <<change, risk, cost, etc, committed, physical, credible>>

Assess ==
    /\ credible' = ~credible
    /\ UNCHANGED <<change, risk, cost, etc, committed, physical, planned>>

Next ==
    /\ \/ \E c \in Changes : Propose(c) \/ Withdraw(c) \/ Execute(c)
       \/ \E r \in Risks : RaiseRisk(r) \/ Provision(r) \/ Mitigate(r) \/ Realise(r)
       \/ Spend \/ Commit \/ ReviseEstimate \/ Assess
       \/ \E p \in Completions \cup {None} : Claim(p) \/ Baseline(p)
    /\ Recompute

Spec == Init /\ [][Next]_vars

-----------------------------------------------------------------------------
(* Properties *)

TypeOK ==
    /\ change \in [Changes -> {"none", "pending", "executed"}]
    /\ risk \in [Risks -> {"none", "open", "provisioned", "mitigated", "realised"}]
    /\ cost \in Nat /\ etc \in Nat /\ committed \in Nat
    /\ cost + etc + committed <= MaxCost
    /\ {physical, planned} \subseteq Completions \cup {None}
    /\ economics \in EconomicsResult /\ economics.valueAtRisk <= economics.forecastRevenue

\* There is no path by which an unexecuted change raises the forecast: until one is executed
\* or a cost moves, the forecast and its margin stay (REQ-FIN-005, `computeEconomics`).
HopeIsNotForecast ==
    Executed(change') = Executed(change) /\ cost' + etc' + committed' = cost + etc + committed
     => /\ economics'.forecastRevenue = economics.forecastRevenue
        /\ economics'.forecastGm = economics.forecastGm
        /\ economics'.erosion = economics.erosion

\* A risk is deducted once, wherever it is carried: to provision one, or to realise one that
\* was provisioned, moves the amount and leaves the risk-adjusted margin where it was.
RiskIsCountedOnce ==
    \A r \in Risks :
       \/ risk[r] = "open" /\ risk'[r] = "provisioned"
       \/ risk[r] = "provisioned" /\ risk'[r] = "realised"
     => economics'.riskAdjustedGm = economics.riskAdjustedGm

\* A change is counted once, expected or executed: execution adds what the expectation had
\* left out and nothing more (`expectedPendingCrRecovery`, `riskAdjustedRevenue`).
ChangeIsCountedOnce ==
    \A c \in Changes : change[c] = "pending" /\ change'[c] = "executed"
     => economics'.riskAdjustedRevenue - economics.riskAdjustedRevenue
           = Value[c] - (Value[c] * Likelihood[c]) \div 100

\* Money that moves as it was estimated leaves the outturn where it is, so that spending
\* without progress can only widen the gap between the estimate and what progress implies.
SpendingConfirmsNothing ==
    cost' + etc' + committed' = cost + etc + committed /\ cost' >= cost /\ physical' = physical
     => /\ economics'.eac = economics.eac
        /\ {economics.optimismGap, economics'.optimismGap} \subseteq Nat
             => economics'.optimismGap >= economics.optimismGap

\* Bad news never lowers what is at risk: a risk opened or a dearer estimate, with the
\* contract as it was, leaves it the same or more (`gmValueAtRisk`).
BadNewsNeverHelps ==
    change' = change /\ cost' + etc' + committed' >= cost + etc + committed
       /\ OpenRisks(risk) \subseteq OpenRisks(risk')
     => economics'.valueAtRisk >= economics.valueAtRisk

\* Two readings of the same work agree on who is behind: cost ahead of progress is a negative
\* cost variance, and progress behind plan a negative schedule variance.
ReadingsAgree ==
    LET e == economics
    IN  /\ physical # None => (e.burnGap > 0 <=> e.costVariance < 0)
        /\ physical # None /\ planned # None => (e.progressVariance < 0 <=> e.scheduleVariance < 0)

\* Progress too early to extrapolate, unclaimed or not credible implies no outturn and no
\* optimism, and whatever is implied stays within a hundred over the threshold of what was spent.
NoNoiseForecast ==
    economics.implied # None =>
        credible /\ cost <= economics.implied /\ economics.implied * Maturity <= cost * 100
=============================================================================
