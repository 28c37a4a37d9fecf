--------------------------- MODULE SyntheticTruth ---------------------------
(***************************************************************************)
(* The figures that the synthetic generator itself says are true           *)
(* (synthetic/truth.py, synthetic/model.py), computed from its world and   *)
(* not from the published rows' tables: a case with one person, at most    *)
(* one pretrial decision and one sentence, and the events of the case.     *)
(***************************************************************************)
EXTENDS CaseFrames, SequencesExt

CONSTANT Synthetic   \* the name of the synthetic source

Of(rows, name, case) == {r \in Table(rows, name) : r.case = case}
CasesOf(rows) == {c.id : c \in {k \in Table(rows, "court_case") : k.source = Synthetic}}

\* The rows are those of a world: what the generator draws.
IsWorld(rows, merged) ==
  /\ \A c \in Table(rows, "court_case") : c.source = Synthetic
  /\ \A case \in CasesOf(rows) :
       /\ Cardinality({Survivor(merged, r.person) :
            r \in Of(rows, "charge", case) \cup Of(rows, "decision", case) \cup Of(rows, "sentence", case)}) = 1
       /\ Cardinality(Of(rows, "sentence", case)) <= 1
       /\ Cardinality({d \in Of(rows, "decision", case) : d.type = "pretrial_release"}) <= 1

World(rows, merged) ==
  {[id |-> c.id, court |-> c.court, filed |-> c.filed,
    person |-> Survivor(merged, (CHOOSE h \in Of(rows, "charge", c.id) : TRUE).person),
    charges |-> Of(rows, "charge", c.id), assignments |-> Of(rows, "judge_assignment", c.id),
    decisions |-> Of(rows, "decision", c.id), sentences |-> Of(rows, "sentence", c.id),
    events |-> Of(rows, "court_event", c.id)] :
     c \in Table(rows, "court_case")}

(***************************************************************************)
(* The model of a case.                                                    *)
(***************************************************************************)
JudicialDiscretionary(d) == d.actor = "judge" /\ d.discretion = "discretionary"
Disposed(h) == h.disposed # None /\ h.disposition \notin {None, "pending"}
DispositionAt(case) ==
  LET times == {h.disposed : h \in {x \in case.charges : Disposed(x)}}
  IN IF times = {} THEN None ELSE Max(times)
AssignedJudgeAt(case, t, judge) ==
  \E a \in case.assignments : a.judge = judge /\ a.start <= t /\ (a.stop = None \/ t < a.stop)
ReleaseDecisions(case) == {d \in case.decisions : d.type = "pretrial_release"}
TermEnd(case) ==
  IF \E z \in case.sentences : z.days # None /\ z.days > 0
  THEN LET z == CHOOSE z \in case.sentences : TRUE IN z.at + z.days ELSE None

(***************************************************************************)
(* Whose case it is: the Membership callables of judge_metrics and         *)
(* court_metrics.                                                          *)
(***************************************************************************)
Eligible(case, subject) ==
  IF subject.type = "court" THEN case.court = subject.id
  ELSE \E a \in case.assignments : a.judge = subject.id
PretrialAttributed(case, d, subject) ==
  IF subject.type = "court" THEN case.court = subject.id ELSE d.judge = subject.id
DispositionAttributed(case, t, subject) ==
  IF subject.type = "court" THEN case.court = subject.id ELSE AssignedJudgeAt(case, t, subject.id)
SentenceAttributed(case, z, subject) ==
  IF subject.type = "court" THEN case.court = subject.id ELSE z.judge = subject.id

(***************************************************************************)
(* Outcomes of a person, and the terms the person serves.                  *)
(***************************************************************************)
Happened(case, type, at) == [case |-> case, type |-> type, at |-> at]
OutcomesOf(case) ==
  {Happened(case.id, "new_case", case.filed)}
  \cup UNION {{Happened(case.id, "new_charge", h.filed)}
              \cup (IF h.disposition \in Convicted /\ h.disposed # None
                    THEN {Happened(case.id, "reconviction", h.disposed)} ELSE {}) : h \in case.charges}
  \cup {Happened(case.id, e.type, e.at) :
          e \in {x \in case.events : x.type \in {"failure_to_appear", "revocation"}}}

Timeline(world, person) == UNION {OutcomesOf(c) : c \in {k \in world : k.person = person}}

TermsOf(world, person) ==
  {<<z.at, z.at + z.days>> :
     z \in UNION {{y \in c.sentences : y.days # None /\ y.days > 0} : c \in {k \in world : k.person = person}}}

\* Moved to the end of the term that ends last of those that contain the
\* start, until none does.
DeferredStart(terms, start) ==
  LET step[n \in 0 .. Cardinality(terms) + 1] ==
        IF n = 0 THEN start
        ELSE LET ends == {t[2] : t \in {u \in terms : u[1] <= step[n - 1] /\ step[n - 1] < u[2]}}
             IN IF ends = {} THEN step[n - 1] ELSE Max(ends)
  IN step[Cardinality(terms) + 1]

(***************************************************************************)
(* Cohorts.                                                                *)
(***************************************************************************)
CohortMember(world, case, at, own) ==
  [case |-> case.id, person |-> case.person, at |-> at,
   start |-> DeferredStart(TermsOf(world, case.person), IF own = None THEN at ELSE own)]

CohortMembers(world, kind, subject) ==
  CASE kind = "pretrial_release" ->
         UNION {{CohortMember(world, c, d.release, None) :
                   d \in {x \in ReleaseDecisions(c) : /\ JudicialDiscretionary(x)
                                                     /\ PretrialAttributed(c, x, subject)
                                                     /\ x.detained = "false" /\ x.release # None}} : c \in world}
    [] kind = "disposition" ->
         {CohortMember(world, c, DispositionAt(c), TermEnd(c)) :
            c \in {k \in world : DispositionAt(k) # None
                                 /\ DispositionAttributed(k, DispositionAt(k), subject)}}
    [] kind = "sentence" ->
         UNION {{CohortMember(world, c, z.at, None) :
                   z \in {x \in c.sentences : SentenceAttributed(c, x, subject)}} : c \in world}

FirstOutcomeAt(world, member, type) ==
  LET after == {o \in Timeline(world, member.person) :
                  o.type = type /\ o.at > member.start
                  /\ (type \in OtherCaseOutcomes => o.case # member.case)}
  IN IF after = {} THEN None ELSE Min({o.at : o \in after})

WindowedTruth(world, members, type, window, end) ==
  LET followed == {m \in members : m.start + window < end}
      hits == {m \in followed : LET f == FirstOutcomeAt(world, m, type)
                                IN f # None /\ f <= m.start + window}
  IN [eligible |-> Cardinality(members), observed |-> Cardinality(hits),
      value |-> IF followed = {} THEN None ELSE <<Cardinality(hits), Cardinality(followed)>>]

(***************************************************************************)
(* The product limit, event time after event time in order.                *)
(***************************************************************************)
ProductLimit(durations, times) ==
  LET step[n \in 0 .. Len(times)] ==
        IF n = 0 THEN <<1, 1>>
        ELSE LET risk == Cardinality({d \in durations : d.time >= times[n]})
                 failed == Cardinality({d \in durations : d.event /\ d.time = times[n]})
             IN <<step[n - 1][1] * (risk - failed), step[n - 1][2] * risk>>
  IN step[Len(times)]

SurvivalTruth(world, members, type, window, end) ==
  LET first(m) == FirstOutcomeAt(world, m, type)
      event(m) == first(m) # None /\ first(m) < end
      durations == {[member |-> m, event |-> event(m),
                     time |-> IF event(m) THEN first(m) - m.start ELSE end - m.start] : m \in members}
      counted == {d \in durations : d.event /\ d.time <= window}
      s == ProductLimit(durations, SetToSortSeq({d.time : d \in counted}, LAMBDA a, b : a < b))
  IN [eligible |-> Cardinality(members), observed |-> Cardinality(counted),
      value |-> IF members = {} THEN None ELSE <<s[2] - s[1], s[2]>>]

(***************************************************************************)
(* A subject's figures.                                                    *)
(***************************************************************************)
Count(n) == [eligible |-> n, observed |-> n, value |-> None]
RateOf(n, d) == [eligible |-> d, observed |-> n, value |-> IF d = 0 THEN None ELSE <<n, d>>]

\* The doubled median of pairs <<who, value>>.
MedianTruth(pairs) ==
  LET s == SetToSortSeq(pairs, LAMBDA a, b : a[2] < b[2])
      n == Len(s)
  IN IF n = 0 THEN None ELSE s[(n + 1) \div 2][2] + s[(n \div 2) + 1][2]

AttributedPretrial(world, subject) ==
  UNION {{d \in ReleaseDecisions(c) : JudicialDiscretionary(d) /\ PretrialAttributed(c, d, subject)} :
           c \in world}
AttributedDisposed(world, subject) ==
  UNION {{h \in c.charges : Disposed(h) /\ DispositionAttributed(c, h.disposed, subject)} : c \in world}
AttributedSentencings(world, subject) ==
  UNION {{z \in c.sentences : SentenceAttributed(c, z, subject)} : c \in world}

LeadConvicted(case) ==
  LET convicted == {h \in case.charges : h.disposition \in Convicted}
      lead == CHOOSE h \in convicted : \A g \in convicted :
                h.severity < g.severity \/ (h.severity = g.severity /\ h.id <= g.id)
  IN IF convicted = {} THEN "unknown" ELSE lead.category

SubjectTruth(world, slug, subject, dimension) ==
  LET eligible == {c \in world : Eligible(c, subject)}
      pretrial == AttributedPretrial(world, subject)
      released == {d \in pretrial : d.detained = "false"}
      disposed == AttributedDisposed(world, subject)
      closed == {c \in world : DispositionAt(c) # None /\ DispositionAttributed(c, DispositionAt(c), subject)}
  IN CASE slug = "eligible_cases" -> Count(Cardinality(eligible))
       [] slug = "eligible_defendants" ->
            [eligible |-> Cardinality(eligible), observed |-> Cardinality({c.person : c \in eligible}),
             value |-> None]
       [] slug = "pretrial_release_share" -> RateOf(Cardinality(released), Cardinality(pretrial))
       [] slug = "statutory_release_count" ->
            Count(Cardinality(UNION {{d \in ReleaseDecisions(c) : d.discretion = "mandatory"} : c \in eligible}))
       [] slug = "judicial_dismissal_rate" ->
            RateOf(Cardinality({h \in disposed : h.disposition = "dismissed" /\ h.actor = "judge"}),
                   Cardinality(disposed))
       [] slug = "disposition_distribution" ->
            [eligible |-> Cardinality(disposed), value |-> None,
             observed |-> Cardinality({h \in disposed : h.disposition = dimension})]
       [] slug = "median_days_to_disposition" ->
            [eligible |-> Cardinality(closed), observed |-> Cardinality(closed),
             value |-> MedianTruth({<<c.id, DispositionAt(c) - c.filed>> : c \in closed})]
       [] slug = "incarceration_days_median_by_offense_category" ->
            LET of == {z \in AttributedSentencings(world, subject) :
                         LeadConvicted(CHOOSE c \in world : c.id = z.case) = dimension}
                valued == {z \in of : z.days # None}
            IN [eligible |-> Cardinality(of), observed |-> Cardinality(valued),
                value |-> MedianTruth({<<z.id, z.days>> : z \in valued})]

=============================================================================
