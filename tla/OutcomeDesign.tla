---------------------------- MODULE OutcomeDesign ----------------------------
(***************************************************************************)
(* The design of an expected-outcome model over the frame of one source:   *)
(* its index events, the level of each feature, the missing rule and the   *)
(* encoding (metrics/adjustment/features.py), whether it can be fitted     *)
(* (fit.py) and what the ratios count of it for each judge (expected.py,   *)
(* ratios.py).  What a fitted model predicts is left out.                  *)
(***************************************************************************)
EXTENDS MetricFigures, OutcomeSpec

(***************************************************************************)
(* Index events.  Each is one judge's: the judge the gate attributes it to.*)
(***************************************************************************)
JudgesOf(frame) == {s.id : s \in {x \in SubjectsOf(frame) : x.type = "judge"}}

TargetEvent(m, judge, decided, at, outcome) ==
  [id |-> m.id, case |-> m.case, person |-> m.person, judge |-> judge, decided |-> decided,
   at |-> at, outcome |-> outcome]

\* Rows of every judge, each with the first of the judges it is attributed to.
Owned(judges, RowsFor(_)) ==
  LET rows == UNION {RowsFor(j) : j \in judges}
  IN [r \in rows |-> CHOOSE j \in judges : r \in RowsFor(j)]

DecisionEvents(frame, rule) ==
  LET owner == Owned(JudgesOf(frame), LAMBDA j : PretrialDecisions(frame, rule, Subject("judge", j)))
  IN {TargetEvent(d, owner[d], d.at, d.at, d.detained = "false") :
        d \in {x \in DOMAIN owner : x.detained # None}}

\* Mutation of ReleaseEvents: who left before the window ended is kept.
ReleasedEvents(frame, rule, outcome, window) ==
  LET released(j) == IndexEvents(frame, "pretrial_release", rule, Subject("judge", j))
      owner == Owned(JudgesOf(frame), released)
  IN {TargetEvent(m, owner[IndexEvent(m.id, m.case, m.person, m.anchor)], m.anchor, m.anchor,
                  Reaches(m, window)) :
        m \in FirstOutcomes(frame, outcome, WithExposure(frame, "pretrial_release", DOMAIN owner))}

ReleaseEvents(frame, rule, outcome, window) ==
  LET released(j) == IndexEvents(frame, "pretrial_release", rule, Subject("judge", j))
      owner == Owned(JudgesOf(frame), released)
      decided(m) == (CHOOSE d \in frame.decisions : d.id = m.id).at
      cohort == FirstOutcomes(frame, outcome, WithExposure(frame, "pretrial_release", DOMAIN owner))
      judge(m) == owner[IndexEvent(m.id, m.case, m.person, m.anchor)]
  IN {TargetEvent(m, judge(m), decided(m), m.anchor, Reaches(m, window)) :
        m \in {x \in cohort : IsFollowed(x, window, frame.end)}}

TargetEvents(frame, target, rule, window) ==
  IF target.index = "decision" THEN DecisionEvents(frame, rule)
  ELSE ReleaseEvents(frame, rule, target.outcome, window)

(***************************************************************************)
(* Levels.  None is an unknown level.  What is known at the decision is    *)
(* read from the charges of the index case, what is known at its filing    *)
(* from the person's other cases.                                          *)
(***************************************************************************)
CaseRow(frame, e) == CHOOSE k \in frame.cases : k.id = e.case
FiledAt(frame, e) == CaseRow(frame, e).filed
Before(instant, limit) == instant # None /\ limit # None /\ instant < limit

IndexCharges(frame, e) ==
  {c \in frame.charges : c.case = e.case /\ c.person = e.person /\ Before(c.filed, e.decided)}

LeadCharge(charges) ==
  CHOOSE c \in charges : \A d \in charges :
    c.severity < d.severity \/ (c.severity = d.severity /\ c.id <= d.id)

LeadLevel(frame, e, column) ==
  LET charges == IndexCharges(frame, e)
  IN IF charges = {} THEN None ELSE LeadCharge(charges)[column]

\* The band of a count: the largest lower bound it reaches, or the first band.
Band(feature, n) == Max({feature.bands[1]} \cup {b \in Bands(feature) : b <= n})

EarlierCases(frame, e) ==
  {k.id : k \in {x \in frame.cases :
                   /\ x.id # e.case /\ Before(x.filed, FiledAt(frame, e))
                   /\ \E c \in frame.charges : c.case = x.id /\ c.person = e.person}}

\* Mutation of EarlierCharges: the charges filed later in those cases too.
EveryCharge(frame, e) ==
  {c \in frame.charges : c.person = e.person /\ c.case \in EarlierCases(frame, e)}

EarlierCharges(frame, e) ==
  {c \in frame.charges : /\ c.person = e.person /\ c.case \in EarlierCases(frame, e)
                         /\ Before(c.filed, FiledAt(frame, e))}

ConvictedCases(frame, e) ==
  {c.case : c \in {x \in EarlierCharges(frame, e) :
                     x.disposition \in Convicted /\ Before(x.disposed, FiledAt(frame, e))}}

EarlierFailures(frame, e) ==
  {o \in frame.outcomes : /\ o.type = "failure_to_appear" /\ o.person = e.person
                          /\ Before(o.at, FiledAt(frame, e))}

\* An earlier case is pending when none of its charges was disposed of before
\* the filing, or one was pending then; a charge without a disposition is ignored.
IsPending(charges, filed) ==
  LET recorded(c) == c.disposition \notin {None, "pending"} /\ c.disposed # None
  IN \/ \A c \in charges : ~(recorded(c) /\ c.disposed < filed)
     \/ \E c \in charges : c.disposition = "pending" \/ (recorded(c) /\ c.disposed >= filed)

HasPendingCase(frame, e) ==
  LET charges == EarlierCharges(frame, e)
  IN \E k \in {c.case : c \in charges} :
       IsPending({c \in charges : c.case = k}, FiledAt(frame, e))

Truth(holds) == IF holds THEN "true" ELSE "false"

HistoryLevel(frame, name, feature, e) ==
  IF FiledAt(frame, e) = None THEN None
  ELSE CASE name = "prior_cases" -> Band(feature, Cardinality(EarlierCases(frame, e)))
         [] name = "prior_convictions" -> Band(feature, Cardinality(ConvictedCases(frame, e)))
         [] name = "prior_failures_to_appear" ->
              Band(feature, Cardinality(EarlierFailures(frame, e)))
         [] name = "pending_case" -> Truth(HasPendingCase(frame, e))
         [] name = "history_truncated" ->
              Truth(FiledAt(frame, e) < frame.start + feature.parameters.lookback_days)

Level(frame, name, feature, e) ==
  CASE name = "lead_severity" -> LeadLevel(frame, e, "severity")
    [] name = "lead_category" -> LeadLevel(frame, e, "category")
    [] name = "charge_count" ->
         LET charges == IndexCharges(frame, e)
         IN IF charges = {} THEN None ELSE Band(feature, Cardinality(charges))
    [] name = "court" -> CaseRow(frame, e).court
    [] name = "jurisdiction" -> Jurisdiction[CaseRow(frame, e).court]
    [] name = "calendar_year" -> YearOf(e.at)
    [] OTHER -> HistoryLevel(frame, name, feature, e)

\* A feature that needs events the source does not document is dropped.
ActiveFeatures(frame, spec) ==
  {name \in DOMAIN spec.features :
     spec.features[name].parameters.requires_outcome \in {None} \cup frame.observable}

(***************************************************************************)
(* The missing rule, and the rows of the design with their levels.         *)
(***************************************************************************)
IsKept(levels, features) ==
  \A name \in DOMAIN levels : features[name].missing = "exclude" => levels[name] # None
Filled(levels, features) ==
  [name \in DOMAIN levels |->
     IF levels[name] = None THEN features[name].missingLevel ELSE levels[name]]

DesignRows(frame, spec, events) ==
  LET features == spec.features
      levels == [e \in events |->
                   [name \in ActiveFeatures(frame, spec) |-> Level(frame, name, features[name], e)]]
      kept == {e \in events : IsKept(levels[e], features)}
  IN {[event |-> e, levels |-> Filled(levels[e], features)] : e \in kept}

(***************************************************************************)
(* Encoding.  A level of the data is named by its rank: by rows, then by a *)
(* key that the source assigned, the earliest charge filed in the court.   *)
(* The reference of such a feature is its busiest level.                   *)
(***************************************************************************)
ChargeKey(c) == <<c.filed, c.id>>
Precedes(k, l) == k[1] < l[1] \/ (k[1] = l[1] /\ k[2] < l[2])
FirstKey(keys) == CHOOSE k \in keys : \A l \in keys : l = k \/ Precedes(k, l)

SourceKey(frame, name, value) ==
  LET courts == IF name = "court" THEN {value} ELSE {c \in DOMAIN Jurisdiction : Jurisdiction[c] = value}
      cases == {k.id : k \in {x \in frame.cases : x.court \in courts}}
  IN IF name = "calendar_year" THEN <<value, 0>>
     ELSE FirstKey({ChargeKey(c) : c \in {x \in frame.charges : x.case \in cases}})

RankOf(frame, name, missing, rows, value) ==
  LET values == {r.levels[name] : r \in rows} \ {missing}
      count(v) == Cardinality({r \in rows : r.levels[name] = v})
  IN 1 + Cardinality({v \in values \ {value} :
           \/ count(v) > count(value)
           \/ count(v) = count(value)
              /\ Precedes(SourceKey(frame, name, v), SourceKey(frame, name, value))})

\* A year is named by itself, an unrecorded level by the feature's missing level.
Label(frame, name, feature, rows, value) ==
  IF feature.data /\ feature.unseen # "latest" /\ value # feature.missingLevel
  THEN RankOf(frame, name, feature.missingLevel, rows, value) ELSE value

Reference(frame, name, feature, rows) ==
  LET values == {r.levels[name] : r \in rows} \ {feature.missingLevel}
      first == CHOOSE v \in values : RankOf(frame, name, feature.missingLevel, rows, v) = 1
  IN IF ~feature.data THEN feature.reference
     ELSE IF values = {} THEN feature.missingLevel ELSE Label(frame, name, feature, rows, first)

Encoded(frame, features, rows) ==
  {[r EXCEPT !.levels =
      [name \in DOMAIN r.levels |-> Label(frame, name, features[name], rows, r.levels[name])]] :
     r \in rows}

\* A person in a design is named by the earliest charge filed against it.
ClusterKey(frame, person) ==
  LET charges == {c \in frame.charges : c.person = person}
  IN IF charges = {} THEN None ELSE FirstKey({ChargeKey(c) : c \in charges})

Design(frame, spec, target, rule, window) ==
  LET events == TargetEvents(frame, target, rule, window)
      rows == DesignRows(frame, spec, events)
      encoded == Encoded(frame, spec.features, rows)
      active == ActiveFeatures(frame, spec)
      reference == [name \in active |-> Reference(frame, name, spec.features[name], rows)]
      \* The columns besides the intercept: levels that some row has, but the reference.
      columns == {c \in UNION {{<<name, r.levels[name]>> : name \in active} : r \in encoded} :
                    c[2] # reference[c[1]]}
  IN [rows |-> encoded, columns |-> columns, eligible |-> Cardinality(events)]

Width(design) == 1 + Cardinality(design.columns)

\* The rarer outcome must have enough rows for each column of the design.
HasEnoughEvents(spec, design) ==
  LET events == Cardinality({r \in design.rows : r.event.outcome})
  IN Min({events, Cardinality(design.rows) - events}) >= spec.minEvents * Width(design)

(***************************************************************************)
(* Ratios.  An adjusted definition names its target; its cohort is every   *)
(* row of the judge before follow-up, its members those in the design.     *)
(***************************************************************************)
TargetOf(spec, def) == CHOOSE t \in spec.targets : t.name = def.target

\* Whether the entry is what its target's population attributes and follows.
MatchesTarget(def, target, registry) ==
  LET population == PopulationOf(target, registry)
  IN /\ def.rule = population.rule
     /\ def.windows = target.windows
     /\ target.index # "decision" => def.outcome = target.outcome

RatioCohort(frame, target, rule, judge) ==
  {r.id : r \in IF target.index = "decision"
                THEN PretrialDecisions(frame, rule, Subject("judge", judge))
                ELSE IndexEvents(frame, "pretrial_release", rule, Subject("judge", judge))}

InRatio(design, judge) == {r.event : r \in {x \in design.rows : x.event.judge = judge}}

RatioDraft(def, judge, window, cohort, members) ==
  [slug |-> def.slug, subject |-> Subject("judge", judge), window |-> window,
   eligible |-> Cardinality(cohort), cohort |-> Cardinality(members),
   observed |-> Cardinality({m \in members : m.outcome})]

\* One judge's family: the decisions of the cohort, a slot for each window.
RatioFamily(target, cohort, membersIn) ==
  LET slots(holds) == {w \in WindowsOf(target) : holds[w]}
  IN Families!MemberFamily("decision", "plain", WindowsOf(target),
       {Families!Atom(id, id, None, None,
          slots([w \in WindowsOf(target) |-> \E m \in membersIn[w] : m.id = id /\ m.outcome]),
          slots([w \in WindowsOf(target) |-> \E m \in membersIn[w] : m.id = id])) : id \in cohort})

JudgeRatios(def, target, judge, cohort, members) ==
  [drafts |-> {RatioDraft(def, judge, w, cohort, members[w]) : w \in WindowsOf(target)},
   family |-> RatioFamily(target, cohort, members),
   stray |-> UNION {{m.id : m \in members[w]} : w \in WindowsOf(target)} \ cohort]

\* For every judge, from one design for each window.
AdjustedObservations(frame, spec, def) ==
  LET target == TargetOf(spec, def)
      designs == [w \in WindowsOf(target) |-> Design(frame, spec, target, def.rule, w)]
      members(judge) == [w \in WindowsOf(target) |-> InRatio(designs[w], judge)]
  IN [judge \in JudgesOf(frame) |->
        JudgeRatios(def, target, judge, RatioCohort(frame, target, def.rule, judge), members(judge))]

=============================================================================
