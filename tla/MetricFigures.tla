---------------------------- MODULE MetricFigures ----------------------------
(***************************************************************************)
(* The figures of one definition for one subject of one source: populations*)
(* and kinds (metrics/compute.py), follow-up and censoring                 *)
(* (metrics/censoring.py), suppression (metrics/suppression.py) and the    *)
(* member family behind them.  A rate is the pair <<numerator,             *)
(* denominator>>; a median is kept doubled.                                *)
(***************************************************************************)
EXTENDS Cohorts

Families == INSTANCE MemberFamilies WITH NoSlot <- None

DescriptiveKinds == {"count", "share", "windowed_rate", "survival", "distribution", "median"}
NoRate == None

\* What a definition's figures may be about: the rows and the instant that dates one.
MemberKindOf(population) ==
  CASE population \in {"cases", "defendants", "disposed_cases"} -> "court_case"
    [] population = "pretrial_decisions" -> "decision"
    [] population = "disposed_charges" -> "charge"
    [] population = "sentences" -> "sentence"

MemberKindOfIndex(kind) ==
  CASE kind = "pretrial_release" -> "decision"
    [] kind = "disposition" -> "court_case"
    [] kind = "sentence" -> "sentence"

Anchor(population, r) ==
  CASE population \in {"cases", "defendants"} -> r.filed
    [] population \in {"pretrial_decisions", "disposed_cases", "sentences"} -> r.at
    [] population = "disposed_charges" -> r.disposed
    [] population = "index_events" -> r.anchor

(***************************************************************************)
(* Subjects: every judge a row of the frame names, every court of a case.  *)
(***************************************************************************)
SubjectsOf(frame) ==
  {Subject("judge", r.judge) :
     r \in {x \in frame.assignments \cup frame.decisions \cup frame.sentences \cup frame.charges :
              x.judge # None}}
  \cup {Subject("court", c.court) : c \in frame.cases}

(***************************************************************************)
(* Populations: the rows of a metric with their anchors.                   *)
(***************************************************************************)
IsCounted(def, r) == \A c \in def.counted : r[c.column] = c.value

PopulationRows(frame, def, subject) ==
  LET disposed == DisposedCharges(frame)
      rows == CASE def.population \in {"cases", "defendants"} ->
                     AttributedCases(frame, def.rule, subject, [r \in Cases(frame) |-> None])
                [] def.population = "pretrial_decisions" ->
                     AttributedDecisions(frame, def.rule, subject)
                [] def.population = "disposed_charges" ->
                     AttributedCharges(frame, def.rule, subject) \cap disposed
                [] def.population = "disposed_cases" ->
                     AttributedCases(frame, def.rule, subject, [r \in DisposedCases(frame) |-> r.at])
                [] def.population = "sentences" -> AttributedSentences(frame, def.rule, subject)
      anchored == [r \in rows |-> Anchor(def.population, r)]
  IN [r \in WithinCoverage(frame, anchored) |-> anchored[r]]

\* The distinct persons named by a charge, decision or sentence of the cases.
DistinctPersons(frame, cases) ==
  {r.person : r \in {x \in frame.charges \cup frame.decisions \cup frame.sentences :
                       x.person # None /\ x.case \in cases}}

(***************************************************************************)
(* One observation before it is stored, with its suppression.              *)
(***************************************************************************)
ReasonFor(cohort, threshold) == IF cohort < threshold THEN "below_threshold" ELSE None

Draft(def, subject, year, window, dimension, eligible, cohort, observed, value) ==
  [slug |-> def.slug, subject |-> subject, year |-> year, window |-> window,
   dimension |-> dimension, eligible |-> eligible, cohort |-> cohort, observed |-> observed,
   value |-> value, suppressed |-> ReasonFor(cohort, def.threshold)]

Rate(n, d) == IF d = 0 THEN NoRate ELSE <<n, d>>
SameRate(a, b) == IF a = NoRate \/ b = NoRate THEN a = b ELSE a[1] * b[2] = b[1] * a[2]

\* "at" anchors the rows; "has" and "follows" are the counted and the followed.
PopulationFamily(def, at, mode, has, follows, dimension) ==
  LET slot(set, r) == IF r \in set THEN {None} ELSE {}
  IN Families!MemberFamily(MemberKindOf(def.population), mode, {None},
       {Families!Atom(r.id, r.id, YearOf(at[r]), dimension[r], slot(has, r), slot(follows, r)) :
          r \in DOMAIN at})

Plain(def, at) ==
  PopulationFamily(def, at, "plain", {r \in DOMAIN at : IsCounted(def, r)}, DOMAIN at,
                   [r \in DOMAIN at |-> None])

(***************************************************************************)
(* Counts and shares.                                                      *)
(***************************************************************************)
ComputeCount(frame, def, subject) ==
  LET at == PopulationRows(frame, def, subject)
      draft(year) ==
        LET of == RowsOf(at, year)
            matching == {r \in of : IsCounted(def, r)}
            observed == IF def.population = "defendants"
                        THEN DistinctPersons(frame, {r.id : r \in matching}) ELSE matching
        IN Draft(def, subject, year, None, None, Cardinality(of), Cardinality(of),
                 Cardinality(observed), None)
  IN [drafts |-> {draft(year) : year \in Periods(at, def.byYear)},
      family |-> Plain(def, at)]

ComputeShare(frame, def, subject) ==
  LET at == PopulationRows(frame, def, subject)
      draft(year) ==
        LET of == RowsOf(at, year)
            n == Cardinality({r \in of : IsCounted(def, r)})
        IN Draft(def, subject, year, None, None, Cardinality(of), Cardinality(of), n,
                 Rate(n, Cardinality(of)))
  IN [drafts |-> {draft(year) : year \in Periods(at, def.byYear)},
      family |-> Plain(def, at)]

(***************************************************************************)
(* Windowed rates and survival: a cohort, its first outcomes, and per      *)
(* window who was followed and who is counted.                             *)
(***************************************************************************)
Cohort(frame, def, subject) ==
  FirstOutcomes(frame, def.outcome,
    WithExposure(frame, def.index, IndexEvents(frame, def.index, def.rule, subject)))

Reaches(m, window) == m.first # None /\ m.first <= m.start + window
IsFollowed(m, window, end) == m.start + window < end
IsEvent(m, end) == m.first # None /\ m.first - m.start < end - m.start
Duration(m, end) == IF IsEvent(m, end) THEN m.first - m.start ELSE end - m.start

\* Mutation of CohortFamily: members are counted whether followed or not.
CohortFamilyUnfollowed(def, cohort, end) ==
  Families!MemberFamily(MemberKindOfIndex(def.index), "plain", def.windows,
    {Families!Atom(<<m.id, m.person>>, m.id, YearOf(m.anchor), None,
                   {w \in def.windows : Reaches(m, w)}, {w \in def.windows : IsFollowed(m, w, end)}) :
       m \in cohort})

CohortFamily(def, cohort, end) ==
  LET survival == def.kind = "survival"
      counted(m) == {w \in def.windows :
                       Reaches(m, w) /\ (IF survival THEN m.first < end ELSE IsFollowed(m, w, end))}
      followed(m) == {w \in def.windows : survival \/ IsFollowed(m, w, end)}
  IN Families!MemberFamily(MemberKindOfIndex(def.index), "plain", def.windows,
       {Families!Atom(<<m.id, m.person>>, m.id, YearOf(m.anchor), None, counted(m), followed(m)) :
          m \in cohort})

FixedWindowRate(def, subject, year, window, cohort, end) ==
  LET followed == {m \in cohort : IsFollowed(m, window, end)}
      n == Cardinality({m \in followed : Reaches(m, window)})
  IN Draft(def, subject, year, window, None, Cardinality(cohort), Cardinality(followed), n,
           Rate(n, Cardinality(followed)))

\* The product-limit estimate: the product over the event times, one after another, of
\* the share at risk that survives it.  Zero once everyone at risk failed.
Survival(cohort, end, at) ==
  LET events == {m \in cohort : IsEvent(m, end) /\ Duration(m, end) <= at}
      times == {Duration(m, end) : m \in events}
      atRisk(t) == Cardinality({m \in cohort : Duration(m, end) >= t})
      failed(t) == Cardinality({m \in events : Duration(m, end) = t})
      curve[n \in 0 .. Cardinality(times)] ==
        IF n = 0 THEN [left |-> times, product |-> <<1, 1>>]
        ELSE LET now == curve[n - 1]
                 t == Min(now.left)
             IN IF now.left = {} THEN now
                ELSE [left |-> now.left \ {t},
                      product |-> <<now.product[1] * (atRisk(t) - failed(t)), now.product[2] * atRisk(t)>>]
  IN curve[Cardinality(times)].product

SurvivalPoint(def, subject, year, window, cohort, end) ==
  LET n == Cardinality(cohort)
      s == Survival(cohort, end, window)
      events == Cardinality({m \in cohort : IsEvent(m, end) /\ Duration(m, end) <= window})
  IN Draft(def, subject, year, window, None, n, n, events,
           IF n = 0 THEN NoRate ELSE <<s[2] - s[1], s[2]>>)

ComputeWindows(frame, def, subject) ==
  LET cohort == Cohort(frame, def, subject)
      at == [m \in cohort |-> m.anchor]
      point(year, w) ==
        LET of == RowsOf(at, year)
        IN IF def.kind = "survival" THEN SurvivalPoint(def, subject, year, w, of, frame.end)
           ELSE FixedWindowRate(def, subject, year, w, of, frame.end)
  IN [drafts |-> {point(year, w) : year \in Periods(at, def.byYear), w \in def.windows},
      family |-> CohortFamily(def, cohort, frame.end)]

(***************************************************************************)
(* Distributions and medians.                                              *)
(***************************************************************************)
ComputeDistribution(frame, def, subject) ==
  LET at == PopulationRows(frame, def, subject)
      draft(year, v) ==
        LET of == RowsOf(at, year)
        IN Draft(def, subject, year, None, v, Cardinality(of), Cardinality(of),
                 Cardinality({r \in of : r.disposition = v}), None)
  IN [drafts |-> {draft(year, v) : year \in Periods(at, def.byYear), v \in FinalDispositions},
      family |-> PopulationFamily(def, at, "counted_in", {}, DOMAIN at,
                                  [r \in DOMAIN at |-> r.disposition])]

\* The category of a case's most severe convicted charge.
LeadCategory(frame, case) ==
  LET convicted == {c \in frame.charges : c.case = case /\ c.disposition \in Convicted}
      lead == CHOOSE c \in convicted : \A d \in convicted :
                c.severity < d.severity \/ (c.severity = d.severity /\ c.id <= d.id)
  IN IF convicted = {} \/ lead.category = None THEN "unknown" ELSE lead.category

Measure(def, r) ==
  IF def.measure = "days_to_disposition"
  THEN IF r.filed # None /\ r.at >= r.filed THEN r.at - r.filed ELSE None
  ELSE r[def.measure]

\* The k-th smallest value of a function, and the median doubled.
Nth(value, k) ==
  Min({v \in Range(value) : Cardinality({r \in DOMAIN value : value[r] <= v}) >= k})
TwiceMedian(value) ==
  LET n == Cardinality(DOMAIN value)
  IN IF n = 0 THEN None ELSE Nth(value, (n + 1) \div 2) + Nth(value, (n \div 2) + 1)

MedianDraft(def, subject, year, category, rows) ==
  LET valued == {r \in rows : Measure(def, r) # None}
  IN Draft(def, subject, year, None, category, Cardinality(rows), Cardinality(valued),
           Cardinality(valued), TwiceMedian([r \in valued |-> Measure(def, r)]))

ComputeMedian(frame, def, subject) ==
  LET at == PopulationRows(frame, def, subject)
      valued == {r \in DOMAIN at : Measure(def, r) # None}
      CategoryOf(r) == IF def.dimension = None THEN None ELSE LeadCategory(frame, r.case)
      draft(year, category) ==
        MedianDraft(def, subject, year, category,
                    {r \in RowsOf(at, year) : CategoryOf(r) = category})
      present(year) == IF def.dimension = None THEN {None}
                       ELSE {CategoryOf(r) : r \in RowsOf(at, year) \cap valued}
  IN [drafts |-> UNION {{draft(year, c) : c \in present(year)} : year \in Periods(at, def.byYear)},
      family |-> PopulationFamily(def, at, Families!ModeFor("median", def.dimension), valued, valued,
                                  [r \in DOMAIN at |-> CategoryOf(r)])]

(***************************************************************************)
(* One metric for one subject.  A judge's figure is not published when the *)
(* source does not record the gate, nor any figure about an outcome that   *)
(* it does not document.                                                   *)
(***************************************************************************)
NotAttributable(frame, def, subject) ==
  /\ subject.type = "judge"
  /\ def.rule.gate # "court_of_case"
  /\ def.rule.gate \notin frame.gates

NotObservable(frame, def) ==
  /\ def.kind \in {"windowed_rate", "survival"}
  /\ ~IsObservable(frame, def.outcome, def.scope)

Nothing == [drafts |-> {}, family |-> None]

ComputeMetric(frame, def, subject) ==
  IF NotAttributable(frame, def, subject) \/ NotObservable(frame, def) THEN Nothing
  ELSE CASE def.kind = "count" -> ComputeCount(frame, def, subject)
         [] def.kind = "share" -> ComputeShare(frame, def, subject)
         [] def.kind \in {"windowed_rate", "survival"} -> ComputeWindows(frame, def, subject)
         [] def.kind = "distribution" -> ComputeDistribution(frame, def, subject)
         [] def.kind = "median" -> ComputeMedian(frame, def, subject)

\* Every figure of the descriptive definitions for one subject of a frame.
Descriptive(frame, definitions, subject) ==
  [def \in {d \in definitions : subject.type \in d.subjects /\ d.kind \in DescriptiveKinds} |->
     ComputeMetric(frame, def, subject)]

\* Every subject's figures over every source that can be computed.
ComputeAll(rows, merged, definitions) ==
  [s \in ComputedSources(rows) |->
     LET frame == Frame(rows, merged, s)
     IN [subject \in SubjectsOf(frame) |-> Descriptive(frame, definitions, subject)]]

=============================================================================
