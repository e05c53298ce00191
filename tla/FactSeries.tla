----------------------------- MODULE FactSeries -----------------------------
(***************************************************************************)
(* What fo-sec-facts analyze makes of the facts a company reported: a      *)
(* series of points for every metric, restatements, derived metrics, the   *)
(* change to the point before and the alerts (sec_fact_analysis.rs).       *)
(*                                                                         *)
(* Dates are days, 0 for a date that is missing; fiscal periods are 1 (FY) *)
(* and 2..5 (Q1..Q4), 0 if missing and more for other texts; both in the   *)
(* order of their texts.  Reported values are integers and what is         *)
(* computed from them is exact, where the code rounds to 64 and 32 bits.   *)
(* A value that may be missing is a set of at most one.                    *)
(***************************************************************************)
EXTENDS Basics

MetricOrder ==
    <<"revenue", "cost_of_revenue", "gross_profit", "gross_margin", "research", "selling",
      "operating_income", "operating_margin", "net_income", "operating_cash_flow",
      "capital_expenditures", "free_cash_flow", "cash", "current_debt", "long_term_debt",
      "total_debt", "net_debt", "current_assets", "current_liabilities", "current_ratio",
      "receivable", "inventory", "payable", "deferred_revenue", "goodwill", "intangibles",
      "equity", "repurchases", "dividends", "stock_compensation", "diluted_shares", "interest",
      "income_tax", "lease_liability">>
Derived ==
    {"gross_margin", "operating_margin", "free_cash_flow", "total_debt", "net_debt",
     "current_ratio"}
Aliases(m) ==
    CASE m \in {"revenue", "cost_of_revenue", "current_debt"} -> 1..3
      [] m \in {"net_income", "operating_cash_flow", "capital_expenditures", "cash",
                "long_term_debt", "receivable", "deferred_revenue", "intangibles", "equity",
                "dividends", "interest", "lease_liability"} -> 1..2
      [] m \in Derived -> {}
      [] OTHER -> {1}
ExpectedUnit(m) ==
    CASE m \in {"gross_margin", "operating_margin", "current_ratio"} -> "ratio"
      [] m = "diluted_shares" -> "shares"
      [] OTHER -> "USD"
UnitOrder == <<"EUR", "USD", "shares">>
TypeOrder == <<"annual", "quarterly", "instant", "other">>
AnnualForms == {"10-K", "10-K/A", "20-F", "20-F/A", "40-F", "40-F/A"}
QuarterlyForms == {"10-Q", "10-Q/A"}
IndexIn(order, x) == CHOOSE i \in DOMAIN order : order[i] = x
-----------------------------------------------------------------------------
(* The series of a metric.  An observation is [id, concept, unit, value,   *)
(* numeric, start, end, accession, year, period, form, filed]; a concept   *)
(* is a metric and the number of the alias.                                *)

ChooseUnit(m, observations) ==
    LET units == {o.unit : o \in observations}
        count(u) == Cardinality({o \in observations : o.unit = u})
        preferred == IF m = "diluted_shares" THEN "shares" ELSE "USD"
    IN  IF preferred \in units THEN preferred
        ELSE Ordered(units, LAMBDA u : <<-count(u), IndexIn(UnitOrder, u)>>)[1]
PeriodOf(o) == <<o.start, o.end, o.period>>
Candidates(m, observations) ==
    LET of(k) == {o \in observations : o.concept = <<m, k>>}
        in(k) == ChooseUnit(m, of(k))
    IN  {[alias |-> k, unit |-> in(k), observations |-> {o \in of(k) : o.unit = in(k)}] :
            k \in {a \in Aliases(m) : of(a) # {}}}
BestAlias(candidates) ==
    Ordered(candidates,
            LAMBDA c : <<-Cardinality({PeriodOf(o) : o \in c.observations}), c.alias>>)[1]

PeriodType(o) ==
    CASE o.start = 0 -> "instant"
      [] o.start # 0 /\ o.period = 1 -> "annual"
      [] o.start # 0 /\ o.period \in 2..5 -> "quarterly"
      [] o.start # 0 /\ o.period \notin 1..5 /\ o.form \in AnnualForms -> "annual"
      [] o.start # 0 /\ o.period \notin 1..5 /\ o.form \in QuarterlyForms -> "quarterly"
      [] OTHER -> "other"
Point(m, o) ==
    [metric |-> m, value |-> Exact(o.value), start |-> o.start, end |-> o.end, year |-> o.year,
     period |-> o.period, type |-> PeriodType(o), filed |-> o.filed, accession |-> o.accession,
     id |-> o.id, from |-> <<>>]
PeriodKey(p) == <<p.start, p.end, IndexIn(TypeOrder, p.type), p.period>>
\* Mutation: the first value filed for a period is kept.
Earliest(points) == Ordered(points, LAMBDA p : <<p.filed, p.accession, p.id>>)[1]
LatestFiled(points) == Ordered(points, LAMBDA p : <<-p.filed, -p.accession, p.id>>)[1]
LatestByPeriod(points) ==
    {LatestFiled({p \in points : PeriodKey(p) = key}) : key \in {PeriodKey(p) : p \in points}}
ByTime(points) ==
    Ordered(points, LAMBDA p : <<p.end, IndexIn(TypeOrder, p.type), p.start, p.period>>)
Newest(points, options) ==
    SubSeq(points, 1 + Monus(Len(points), options.maximumPoints), Len(points))

\* Observations of one period whose first and last filed values differ, in two
\* filings at least.
Restatement(group, options) ==
    LET byFiling == Ordered(group, LAMBDA o : <<o.filed, o.accession, o.id>>)
        first == byFiling[1]
        last == byFiling[Len(byFiling)]
        earliest == Exact(first.value)
        revision == Exact(last.value - first.value)
    IN  [period |-> PeriodOf(first), end |-> first.end, start |-> first.start,
         earliest |-> earliest, latest |-> Exact(last.value), revision |-> revision,
         relative |-> IF Less(options.absoluteTolerance, Magnitude(earliest))
                      THEN {Over(revision, Magnitude(earliest))} ELSE {},
         accessions |-> {o.accession : o \in group}]
Material(r, options) ==
    /\ Less(options.absoluteTolerance, Magnitude(r.revision))
    /\ \A x \in r.relative : Less(options.relativeTolerance, Magnitude(x))
    /\ Cardinality(r.accessions) > 1
DetectRestatements(observations, options) ==
    LET dated == {o \in observations : o.end # 0}
        all == {Restatement({o \in dated : PeriodOf(o) = p}, options) :
                   p \in {PeriodOf(o) : o \in dated}}
    IN  Ordered({r \in all : Material(r, options)}, LAMBDA r : <<-r.end, r.start, r.period[3]>>)
-----------------------------------------------------------------------------
(* The change to the point before.                                         *)

RelativeChange(value, previous) ==
    IF previous = Zero THEN {} ELSE {Over(Minus(value, previous), Magnitude(previous))}
ComparablePrevious(points) ==
    LET current == points[Len(points)]
        alike == {i \in 1..(Len(points) - 1) : points[i].type = current.type}
        same == {i \in alike : current.type = "quarterly" /\ points[i].period = current.period
                                  /\ points[i].year # current.year}
    IN  IF same # {} THEN {Max(same)} ELSE IF alike # {} THEN {Max(alike)} ELSE {}
Basis(current, previous) ==
    CASE current.type = "annual" -> "year_over_year"
      [] current.type = "quarterly" ->
            IF current.period = previous.period /\ current.year # previous.year
            THEN "year_over_year_quarter" ELSE "sequential_quarter"
      [] current.type = "instant" -> "prior_reported_instant"
      [] current.type = "other" -> "prior_duration"
HistoricalChanges(points, type) ==
    LET of == SelectSeq(points, LAMBDA p : p.type = type)
    IN  Concat([i \in 1..Monus(Len(of), 1) |->
                   SetToSeq(RelativeChange(of[i + 1].value, of[i].value))])
Median(values) ==
    LET sorted == SortSeq(values, Less)
        middle == Len(values) \div 2
    IN  IF Len(values) % 2 = 1 THEN sorted[middle + 1]
        ELSE Over(Plus(sorted[middle], sorted[middle + 1]), Exact(2))
\* 29/43 stands for 0.67448975.
RobustZ(value, history) ==
    LET center == Median(history)
        mad == Median([i \in DOMAIN history |-> Magnitude(Minus(history[i], center))])
    IN  IF mad = Zero THEN {} ELSE {Times(<<29, 43>>, Over(Minus(value, center), mad))}
Delta(points, i, options) ==
    LET current == points[Len(points)]
        previous == points[i]
        history == HistoricalChanges(points, current.type)
        relative == RelativeChange(current.value, previous.value)
    IN  [current |-> current, previous |-> previous,
         change |-> Minus(current.value, previous.value), relative |-> relative,
         basis |-> Basis(current, previous),
         z |-> IF Len(history) < options.minimumPoints THEN {}
               ELSE UNION {RobustZ(value, history) : value \in relative}]
LatestDelta(points, options) == {Delta(points, i, options) : i \in ComparablePrevious(points)}

SeriesOf(best, points, restatements, options) ==
    [alias |-> best.alias, unit |-> best.unit, points |-> points,
     delta |-> IF points = <<>> THEN {} ELSE LatestDelta(points, options),
     restatements |-> restatements]
BuildMetricSeries(m, candidates, options) ==
    LET best == BestAlias(candidates)
        points == {Point(m, o) : o \in {x \in best.observations : x.end # 0}}
    IN  SeriesOf(best, Newest(ByTime(LatestByPeriod(points)), options),
                 DetectRestatements(best.observations, options), options)
BaseSeries(observations, options) ==
    [m \in {x \in Range(MetricOrder) : Candidates(x, observations) # {}} |->
        BuildMetricSeries(m, Candidates(m, observations), options)]
-----------------------------------------------------------------------------
(* Derived metrics.                                                        *)

Combined(m, left, right, value) ==
    LET later == IF left.filed >= right.filed THEN left ELSE right
    IN  [left EXCEPT !.metric = m, !.value = value, !.filed = later.filed,
                     !.accession = later.accession, !.from = <<left.id, right.id>>,
                     !.id = <<left.id, right.id>>, !.year = IF @ = 0 THEN right.year ELSE @]
\* Nothing is divided by zero.
Combination(operation, left, right) ==
    CASE operation = "difference" -> {Minus(left, right)}
      [] operation = "sum" -> {Plus(left, right)}
      [] operation = "ratio" -> IF right = Zero THEN {} ELSE {Over(left, right)}
CombinePoints(m, operation, left, right) ==
    Concat([i \in DOMAIN left |->
        LET partners == {p \in Range(right) : PeriodKey(p) = PeriodKey(left[i])}
        IN  IF partners = {} THEN <<>>
            ELSE LET partner == CHOOSE p \in partners : TRUE
                 IN  MappedSeq(SetToSeq(Combination(operation, left[i].value, partner.value)),
                               LAMBDA v : Combined(m, left[i], partner, v))])
DerivedSeries(m, points, options) ==
    SeriesOf([alias |-> 0, unit |-> ExpectedUnit(m)], Newest(points, options), <<>>, options)
Derive(series, m, operation, left, right, options) ==
    IF ~({left, right} \subseteq DOMAIN series) THEN series
    ELSE LET points == CombinePoints(m, operation, series[left].points, series[right].points)
         IN  IF points = <<>> THEN series ELSE m :> DerivedSeries(m, points, options) @@ series
Derivations ==
    <<<<"free_cash_flow", "difference", "operating_cash_flow", "capital_expenditures">>,
      <<"total_debt", "sum", "current_debt", "long_term_debt">>,
      <<"net_debt", "difference", "total_debt", "cash">>,
      <<"gross_margin", "ratio", "gross_profit", "revenue">>,
      <<"operating_margin", "ratio", "operating_income", "revenue">>,
      <<"current_ratio", "ratio", "current_assets", "current_liabilities">>>>
AllSeries(observations, options) ==
    FoldLeft(LAMBDA series, d : Derive(series, d[1], d[2], d[3], d[4], options),
             BaseSeries(observations, options), Derivations)
-----------------------------------------------------------------------------
(* Alerts.                                                                 *)

CodeOrder ==
    <<"cash_conversion_deterioration", "cash_conversion_improvement", "diluted_share_growth",
      "fact_change_anomaly", "fact_restatement", "margin_compression", "margin_expansion",
      "material_fact_change", "net_debt_increase", "net_debt_reduction",
      "stock_compensation_acceleration", "working_capital_build">>
Alert(code, m, period, severity, value, previous) ==
    [code |-> code, metric |-> m, period |-> period,
     severity |-> Clamped(severity, Zero, One), value |-> value, previous |-> previous]
DeltaAlert(code, d, severity) ==
    Alert(code, d.current.metric, PeriodOf(d.current), severity, d.current.value, d.previous.value)
RestatementAlert(m, r) ==
    LET magnitude == IF r.relative = {} THEN <<1, 2>>
                     ELSE Clamped(Times(Exact(4), Magnitude(CHOOSE x \in r.relative : TRUE)), <<1, 4>>, One)
    IN  Alert("fact_restatement", m, r.period, Plus(<<11, 20>>, Times(<<9, 20>>, magnitude)),
              r.latest, r.earliest)
Deltas(series, m) == IF m \in DOMAIN series THEN series[m].delta ELSE {}
\* Changes with their relative size, where the point before is not zero.
Relatives(series, m) ==
    {[delta |-> d, size |-> size] :
        d \in Deltas(series, m), size \in UNION {e.relative : e \in Deltas(series, m)}}

RestatementAlerts(series) ==
    UNION {{RestatementAlert(m, r) : r \in Range(series[m].restatements)} : m \in DOMAIN series}
ChangeAlerts(series, options) ==
    UNION {{DeltaAlert("material_fact_change", r.delta, Times(Exact(2), Magnitude(r.size))) :
               r \in {x \in Relatives(series, m) : ~Less(Magnitude(x.size), options.materialChange)}} :
             m \in DOMAIN series}
AnomalyAlerts(series, options) ==
    UNION {UNION {{DeltaAlert("fact_change_anomaly", d, Over(Magnitude(z), Exact(8))) :
                      z \in {x \in d.z : ~Less(Magnitude(x), options.anomaly)}} : d \in Deltas(series, m)} :
             m \in DOMAIN series}
MarginAlerts(series, options) ==
    UNION {{DeltaAlert(IF Less(d.change, Zero) THEN "margin_compression" ELSE "margin_expansion",
                       d, Times(Exact(10), Magnitude(d.change))) :
               d \in {x \in Deltas(series, m) : ~Less(Magnitude(x.change), options.marginPoints)}} :
             m \in {"gross_margin", "operating_margin"}}
BalanceSheetAlerts(series, options) ==
    {DeltaAlert(IF Less(Zero, r.size) THEN "net_debt_increase" ELSE "net_debt_reduction",
                r.delta, Times(Exact(2), Magnitude(r.size))) :
        r \in {x \in Relatives(series, "net_debt") : ~Less(Magnitude(x.size), options.materialChange)}}
\* How much faster than revenue a metric grew.
Spreads(series, m) ==
    UNION {{[delta |-> r.delta, size |-> Minus(r.size, revenue.size)] : r \in Relatives(series, m)} :
              revenue \in Relatives(series, "revenue")}
CashConversionAlerts(series, options) ==
    {DeltaAlert(IF Less(s.size, Zero) THEN "cash_conversion_deterioration"
                ELSE "cash_conversion_improvement", s.delta, Times(Exact(2), Magnitude(s.size))) :
        s \in {x \in Spreads(series, "operating_cash_flow") : ~Less(Magnitude(x.size), options.spread)}}
DilutionAlerts(series, options) ==
    {DeltaAlert("diluted_share_growth", r.delta, Over(r.size, <<3, 20>>)) :
        r \in {x \in Relatives(series, "diluted_shares") : ~Less(x.size, options.dilution)}}
Outgrowing(series, m, options, code, full) ==
    {DeltaAlert(code, s.delta, Over(s.size, full)) :
        s \in {x \in Spreads(series, m) : ~Less(x.size, options.spread)}}
WorkingCapitalAlerts(series, options) ==
    UNION {Outgrowing(series, m, options, "working_capital_build", <<1, 2>>) :
              m \in {"receivable", "inventory"}}
StockCompAlerts(series, options) ==
    Outgrowing(series, "stock_compensation", options, "stock_compensation_acceleration", <<3, 4>>)
BuildAlerts(series, options) ==
    RestatementAlerts(series) \cup ChangeAlerts(series, options) \cup AnomalyAlerts(series, options)
    \cup MarginAlerts(series, options) \cup BalanceSheetAlerts(series, options)
    \cup CashConversionAlerts(series, options) \cup DilutionAlerts(series, options)
    \cup WorkingCapitalAlerts(series, options) \cup StockCompAlerts(series, options)
Ranked(alerts) ==
    LET severities == {a.severity : a \in alerts}
    IN  Ordered(alerts, LAMBDA a : <<Above(a.severity, severities), a.period[2], IndexIn(CodeOrder, a.code),
                                     IndexIn(MetricOrder, a.metric), a.period[1], a.period[3]>>)

\* A date that is none is negative.
ValidOptions(options) ==
    /\ options.forms # {} /\ Cardinality(options.forms) =< 256
    /\ options.maximumPoints > 0 /\ options.minimumPoints >= 3 /\ options.maximumAlerts > 0
    /\ Less(Zero, options.anomaly) /\ options.earliest >= 0
    /\ \A x \in {options.materialChange, options.absoluteTolerance, options.relativeTolerance,
                 options.marginPoints, options.dilution, options.spread} : ~Less(x, Zero)
Considered(observations, options) ==
    {o \in observations : o.form \in options.forms /\ o.filed >= options.earliest /\ o.numeric}
Analysis(considered, series, options) ==
    [considered |-> Cardinality(considered), series |-> series,
     alerts |-> Take(Ranked(BuildAlerts(series, options)), options.maximumAlerts),
     missing |-> Range(MetricOrder) \ DOMAIN series]
AnalyzeObservations(considered, options) ==
    Analysis(considered, AllSeries(considered, options), options)
AnalyzeFacts(observations, options) ==
    AnalyzeObservations(Considered(observations, options), options)
=============================================================================
