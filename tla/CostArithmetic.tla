--------------------------- MODULE CostArithmetic ---------------------------
(***************************************************************************)
(* The sums of an estimate, each computed twice: transport and finance of  *)
(* the commercial cost models (domain/commercial_costs.py), the lines of   *)
(* the project calculation and of a scenario over it                       *)
(* (domain/calculation.py, domain/scenarios.py), and the risk reserve      *)
(* (domain/risk.py, application/risks.py).  The second path adds and multiplies in another order *)
(* and goes day by day where the first goes by interval; a number is       *)
(* accepted only when both agree within the tolerance.                     *)
(***************************************************************************)
EXTENDS Decimals, FiniteSets, FiniteSetsExt, Sequences, SequencesExt

CONSTANTS
    Leg,        \* transport legs
    Plan,       \* contract finance plans
    Costing,    \* atomic cost inputs of one calculation, in their order
    Override,   \* quantity a scenario gives its first input
    Risk,       \* verified risks: probability and three impacts
    DayCount,   \* day_count_basis
    Required,   \* sections or cash flow kinds a model must have
    Scale,      \* rounding scale of a line and of a reserve; totals are whole
    Tolerance,  \* independent_tolerance
    AllowZeroTotal, \* allow_zero_total of the commercial policy
    NoResult

\* The policies of risks take the first two only.
HalfMode == {"ROUND_HALF_UP", "ROUND_HALF_EVEN"}
ModeName == HalfMode \cup {"ROUND_UP", "ROUND_DOWN"}

VARIABLES
    sum,     \* what is summed
    mode,    \* rounding_mode of the policy
    result   \* the stored evaluation

sumVars == <<sum, mode, result>>

Add(seq) == FoldLeft(Plus, Zero, seq)
Product(seq) == FoldLeft(Times, Whole(1), seq)
Total(ints) == FoldLeft(+, 0, ints)

Line(a) == Quantized(a, Scale, mode)

\* A total of lines, in whole units.
Rounded(lines) == Nearest(Total(lines), Ten[Scale], mode)

-----------------------------------------------------------------------------
\* leg.cargo: <<cargo, capacity>> of the dimensions that are given.

\* _trip_count: every ratio is rounded up.
TripCount(leg) ==
    Max({LET q == Over(d[1], d[2]) IN
             IF HasFraction(q) THEN Truncated(q) + 1 ELSE Truncated(q) : d \in leg.cargo})

\* Mutant: a last trip that is not full is forgotten.
FullTripCount(leg) == Max({1} \cup {Truncated(Over(d[1], d[2])) : d \in leg.cargo})

\* _independent_trip_count: at least one trip, a remainder needs one more.
IndependentTripCount(leg) ==
    Max({1} \cup {LET q == Over(d[1], d[2]) IN
                      Truncated(q) + (IF HasFraction(q) THEN 1 ELSE 0) : d \in leg.cargo})

\* _primary_logistics and the same leg in _calculate_independently.
PrimaryLeg(leg) ==
    Times(Whole(TripCount(leg)),
          Add(<<leg.fixed, Product(<<leg.distance, leg.factor, leg.rate>>), leg.toll>>))

IndependentLeg(leg) ==
    LET trips == Whole(IndependentTripCount(leg)) IN
    Add(<<Times(trips, leg.fixed), Product(<<trips, leg.distance, leg.factor, leg.rate>>),
          Times(trips, leg.toll)>>)

\* Handling, storage and mobilisation multiply the same factors in two orders.
PrimaryItem(leg) == Product(leg.item)
IndependentItem(leg) == Product(Reverse(leg.item))

-----------------------------------------------------------------------------
\* A finance plan: flows [day, amount], rate periods [from, to, rate], one
\* guarantee [notional, rate, days], between the days 0 and plan.end.
Balance(plan, day) ==
    MapThenSumSet(LAMBDA f : plan.flows[f].amount, {f \in DOMAIN plan.flows : plan.flows[f].day <= day})

Boundaries(plan) ==
    {0, plan.end} \cup {plan.flows[f].day : f \in DOMAIN plan.flows}
        \cup UNION {{p.from, p.to} : p \in plan.periods}

\* pairwise(ordered): the intervals between neighbouring boundaries.
Intervals(plan) ==
    LET days == SetToSortSeq(Boundaries(plan), <)
    IN  [i \in 1 .. Len(days) - 1 |-> [from |-> days[i], to |-> days[i + 1]]]

\* _funding_rate_for_interval and _funding_rate_for_day.
PeriodsOver(plan, from, to) == {p \in plan.periods : p.from <= from /\ to <= p.to}

Indebted(plan, day) == Balance(plan, day) < 0

\* Both paths refuse a negative balance that no single period covers.
PrimaryCovered(plan) ==
    \A i \in DOMAIN Intervals(plan) : LET v == Intervals(plan)[i] IN
        Indebted(plan, v.from) => Cardinality(PeriodsOver(plan, v.from, v.to)) = 1
IndependentCovered(plan) ==
    \A day \in 0 .. plan.end - 1 :
        Indebted(plan, day) => Cardinality(PeriodsOver(plan, day, day + 1)) = 1

RateOver(plan, from, to) == (CHOOSE p \in PeriodsOver(plan, from, to) : TRUE).rate

\* _primary_contract_finance: by interval, one division each.
IntervalInterest(plan, v) ==
    IF ~ Indebted(plan, v.from) THEN Zero
    ELSE Over(Product(<<Whole(- Balance(plan, v.from)), RateOver(plan, v.from, v.to),
                        Whole(v.to - v.from)>>), Whole(DayCount))

PrimaryInterest(plan) ==
    Add([i \in DOMAIN Intervals(plan) |-> IntervalInterest(plan, Intervals(plan)[i])])

\* _calculate_independently: day by day.
DayInterest(plan, day) ==
    IF ~ Indebted(plan, day) THEN Zero
    ELSE Over(Times(Whole(- Balance(plan, day)), RateOver(plan, day, day + 1)), Whole(DayCount))

\* Mutant: the last day of the horizon counts as well.
InterestToTheEnd(plan) ==
    Add([i \in 1 .. plan.end + 1 |-> DayInterest(plan, IF i > plan.end THEN plan.end - 1 ELSE i - 1)])

IndependentInterest(plan) == Add([i \in 1 .. plan.end |-> DayInterest(plan, i - 1)])

PrimaryFee(plan) ==
    Over(Product(<<plan.fee.notional, plan.fee.rate, Whole(plan.fee.days)>>), Whole(DayCount))
IndependentFee(plan) ==
    Add([i \in 1 .. plan.fee.days |->
            Over(Times(plan.fee.notional, plan.fee.rate), Whole(DayCount))])

-----------------------------------------------------------------------------
\* p * (sum / 3) and p * sum / 3 (calculate_risk_reserve, _independent_recalculation).
Impacts(r) == Add(<<r.low, r.likely, r.high>>)
PrimaryRisk(r) == Times(r.probability, Over(Impacts(r), Whole(3)))
IndependentRisk(r) == Over(Times(r.probability, Impacts(r)), Whole(3))

\* The project calculation runs at 160 digits, where products are exact: a line
\* is quantity * rate * factor * sign, rounded, then summed by category.
Exactly(x) == [c |-> x.quantity.c * x.rate.c * x.factor.c * x.sign,
               e |-> x.quantity.e + x.rate.e + x.factor.e]

InCategory(lines, k) == SelectSeq(lines, LAMBDA x : x.category = k)
Categories(lines) == {lines[i].category : i \in DOMAIN lines}

\* Lines are in units of 10^-Scale, categories and totals in whole units.
CategoryTotal(lines, k) ==
    Rounded([i \in DOMAIN InCategory(lines, k) |-> Line(Exactly(InCategory(lines, k)[i]))])

PrimaryTotal(lines) == MapThenSumSet(LAMBDA k : CategoryTotal(lines, k), Categories(lines))

\* validate_independently folds over the inputs, a subtotal per category.
IndependentTotal(lines) ==
    LET subtotals == FoldLeft(LAMBDA acc, x :
                        [acc EXCEPT ![x.category] = @ + Line(Exactly(x))],
                        [k \in Categories(lines) |-> 0], lines)
    IN  MapThenSumSet(LAMBDA k : Nearest(subtotals[k], Ten[Scale], mode), Categories(lines))

\* A repeated component of a WBS node is counted twice, whatever the totals say.
NothingTwice(lines) ==
    \A i, j \in DOMAIN lines : lines[i].key = lines[j].key => i = j

\* calculate_scenario: the same inputs, one of them overridden.
Overridden(lines) == [lines EXCEPT ![1].quantity = Override]

-----------------------------------------------------------------------------
SumInit ==
    /\ sum \in [leg : Leg] \cup [plan : Plan] \cup [risk : Risk]
               \cup [lines : Costing, scenario : BOOLEAN]
    /\ mode \in IF "risk" \in DOMAIN sum THEN HalfMode ELSE ModeName
    /\ result = NoResult

Evaluation(primary, independent, passed) ==
    [primary |-> primary, independent |-> independent,
     passed |-> passed /\ Size(primary - independent) <= Tolerance]

\* _completeness_findings, and a total of nothing that the policy forbids.
Complete(model, total) ==
    Required \subseteq model.parts /\ (AllowZeroTotal \/ total # 0)

\* evaluate_commercial_cost of a logistics or mobilisation model.
EvaluateLogistics ==
    /\ result = NoResult /\ "leg" \in DOMAIN sum
    /\ LET primary == Rounded(<<Line(PrimaryLeg(sum.leg)), Line(PrimaryItem(sum.leg))>>)
           independent == Rounded(<<Line(IndependentItem(sum.leg)), Line(IndependentLeg(sum.leg))>>)
       IN  result' = Evaluation(primary, independent, Complete(sum.leg, primary))
    /\ UNCHANGED <<sum, mode>>

\* evaluate_commercial_cost of a finance model; an uncovered balance raises.
EvaluateFinance ==
    /\ result = NoResult /\ "plan" \in DOMAIN sum /\ PrimaryCovered(sum.plan)
    /\ LET primary == Rounded(<<Line(PrimaryInterest(sum.plan)), Line(PrimaryFee(sum.plan))>>)
           independent == Rounded(<<Line(IndependentInterest(sum.plan)),
                                    Line(IndependentFee(sum.plan))>>)
       IN  result' = Evaluation(primary, independent, Complete(sum.plan, primary))
    /\ UNCHANGED <<sum, mode>>

\* calculate_reserve raises unless both paths are the same number.
CalculateReserve ==
    /\ result = NoResult /\ "risk" \in DOMAIN sum
    /\ result' = [primary |-> Line(PrimaryRisk(sum.risk)),
                  independent |-> Line(IndependentRisk(sum.risk)),
                  passed |-> Line(PrimaryRisk(sum.risk)) = Line(IndependentRisk(sum.risk))]
    /\ UNCHANGED <<sum, mode>>

\* execute, of the calculation itself or of a scenario over its snapshot.
CalculateProject ==
    /\ result = NoResult /\ "lines" \in DOMAIN sum
    /\ LET lines == IF sum.scenario THEN Overridden(sum.lines) ELSE sum.lines IN
       result' = Evaluation(PrimaryTotal(lines), IndependentTotal(lines), NothingTwice(lines))
    /\ UNCHANGED <<sum, mode>>

SumNext == EvaluateLogistics \/ EvaluateFinance \/ CalculateReserve \/ CalculateProject

SumSpec == SumInit /\ [][SumNext]_sumVars

-----------------------------------------------------------------------------
Evaluated == result # NoResult

\* Exact products leave nothing to differ; elsewhere a last digit may, which
\* at a tie or, rounded up, at an exact amount is worth a unit.
Allowed == IF "lines" \in DOMAIN sum THEN 0 ELSE 1

\* The two paths of a leg, a plan or a risk differ by no more than one unit of
\* what they round to, accepted or not: what differs more was computed from
\* something else (a trip, a day, an impact).  Those of a calculation are equal.
PathsAgree == Evaluated => Size(result.primary - result.independent) <= Allowed

\* Both paths refuse the same plans.
RefusalsAgree ==
    "plan" \in DOMAIN sum => (PrimaryCovered(sum.plan) <=> IndependentCovered(sum.plan))

\* What is summed, computed without rounding: a fraction <<n, d>>.
Milli(a) == a.c * Ten[a.e + 3]

ExactTrips(leg) ==
    Min({n \in 1 .. 9 : \A d \in leg.cargo : Milli(d[1]) <= n * Milli(d[2])})

ExactLeg(leg) ==
    LET way == Num(leg.distance.c * leg.factor.c * leg.rate.c,
                   leg.distance.e + leg.factor.e + leg.rate.e)
        item == Num(leg.item[1].c * leg.item[2].c * leg.item[3].c,
                    leg.item[1].e + leg.item[2].e + leg.item[3].e)
    IN  <<ExactTrips(leg) * (Milli(leg.fixed) + Milli(way) + Milli(leg.toll)) + Milli(item), Ten[3]>>

ExactPlan(plan) ==
    LET owed == FoldLeft(+, 0, [i \in 1 .. plan.end |->
            IF Indebted(plan, i - 1)
            THEN - Balance(plan, i - 1) * Milli(RateOver(plan, i - 1, i)) ELSE 0])
    IN  <<owed + plan.fee.notional.c * Milli(plan.fee.rate) * plan.fee.days, Ten[3] * DayCount>>

ExactRisk(r) == <<Milli(r.probability) * (r.low.c + r.likely.c + r.high.c), 3 * Ten[3]>>

\* An accepted number is the exact one, as near as it is rounded: a reserve to
\* one unit of its scale, a total to one unit and one of the scale of a line
\* for each of its two lines.  It is not enough that both paths agree.
AcceptedIsExact ==
    Evaluated /\ result.passed /\ "lines" \notin DOMAIN sum =>
        LET exact == CASE "leg" \in DOMAIN sum -> ExactLeg(sum.leg)
                       [] "plan" \in DOMAIN sum -> ExactPlan(sum.plan)
                       [] "risk" \in DOMAIN sum -> ExactRisk(sum.risk)
            risk == "risk" \in DOMAIN sum
            stored == IF risk THEN result.primary ELSE result.primary * Ten[Scale]
            error == Size(stored * exact[2] - exact[1] * Ten[Scale])
        IN  error <= exact[2] * (IF risk THEN 1 ELSE Ten[Scale] + 2)

SumsStand == PathsAgree /\ RefusalsAgree /\ AcceptedIsExact
=============================================================================
