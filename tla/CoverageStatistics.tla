------------------------- MODULE CoverageStatistics -------------------------
(***************************************************************************)
(* How completely the rows of a source support the figures                 *)
(* (metrics/coverage.py): seven statistics of the frame for the source, for*)
(* each jurisdiction of its courts and for each court, and how those of a  *)
(* snapshot are stored and compared.  A statistic is the rows it counts    *)
(* among the rows it is about.                                             *)
(***************************************************************************)
EXTENDS Cohorts

CONSTANT UnclassifiedSeverity   \* the severity of a charge that is not classified

\* A year of outcomes can be observed of a case.
AdequateFollowUpDays == YearDays
Unclassified == "unclassified"
Unknown == "unknown"

(***************************************************************************)
(* The cases of a statistic.                                               *)
(***************************************************************************)
Judged(frame) == frame.charges \cup frame.decisions \cup frame.sentences \cup frame.events

\* Mutation of IdentifiedJudge: the judge who disposed of a charge names no one.
AssignedJudge(frame, case) ==
  \/ \E a \in frame.assignments : a.case = case.id
  \/ \E r \in frame.decisions \cup frame.sentences \cup frame.events : r.case = case.id /\ r.judge # None

IdentifiedJudge(frame, case) ==
  \/ \E a \in frame.assignments : a.case = case.id
  \/ \E r \in Judged(frame) : r.case = case.id /\ r.judge # None

ResolvedPerson(frame, case) ==
  \E r \in frame.charges \cup frame.decisions \cup frame.sentences :
    r.case = case.id /\ r.person \in frame.persons

\* The case disposition when the case is disposed, else its filing.
FollowUpAnchor(frame, case) ==
  LET disposed == {k \in DisposedCases(frame) : k.id = case.id}
  IN IF disposed = {} THEN case.filed ELSE (CHOOSE k \in disposed : TRUE).at
AdequatelyFollowed(frame, case) ==
  FollowUpAnchor(frame, case) # None /\ FollowUpAnchor(frame, case) <= frame.end - AdequateFollowUpDays

ChargesOf(frame, case) == {h \in frame.charges : h.case = case.id}
Classified(h) ==
  h.category \notin {None, Unclassified} /\ h.severity \notin {None, UnclassifiedSeverity}

(***************************************************************************)
(* The statistics of some cases of a frame: <<counted, about>>.            *)
(***************************************************************************)
Statistics(frame, cases) ==
  LET ids == {c.id : c \in cases}
      OfThem(some) == {r \in some : r.case \in ids}
      disposed == {k.id : k \in DisposedCases(frame)}
      charged == {c \in cases : ChargesOf(frame, c) # {}}
      records == cases \cup OfThem(Judged(frame))
      decided == OfThem(frame.decisions)
      final == OfThem(DisposedCharges(frame))
  IN [cases_with_identified_judge |-> <<{c \in cases : IdentifiedJudge(frame, c)}, cases>>,
      cases_with_final_disposition |-> <<{c \in cases : c.id \in disposed}, cases>>,
      cases_with_person_resolution |-> <<{c \in cases : ResolvedPerson(frame, c)}, cases>>,
      cases_with_adequate_follow_up |-> <<{c \in cases : AdequatelyFollowed(frame, c)}, cases>>,
      cases_with_complete_charge_classification |->
        <<{c \in charged : \A h \in ChargesOf(frame, c) : Classified(h)}, charged>>,
      records_with_provenance |-> <<records, records>>,
      unknown_actor_share |->
        <<{d \in decided : d.actor = Unknown} \cup {h \in final : h.actor \in {None, Unknown}},
          decided \cup final>>]

(***************************************************************************)
(* Scopes: the source, the jurisdictions and the courts of its cases.      *)
(***************************************************************************)
Scope(type, id) == [type |-> type, id |-> id]
ScopesOf(frame) ==
  {Scope("source", frame.source)}
  \cup {Scope("jurisdiction", Jurisdiction[c.court]) : c \in frame.cases}
  \cup {Scope("court", c.court) : c \in frame.cases}

CasesIn(frame, scope) ==
  {c \in frame.cases : CASE scope.type = "source" -> TRUE
                         [] scope.type = "jurisdiction" -> Jurisdiction[c.court] = scope.id
                         [] scope.type = "court" -> c.court = scope.id}

FrameStatistics(frame) ==
  UNION {LET all == Statistics(frame, CasesIn(frame, scope))
         IN {[source |-> frame.source, scope |-> scope, statistic |-> name,
              numerator |-> Cardinality(all[name][1]), denominator |-> Cardinality(all[name][2])] :
               name \in DOMAIN all} : scope \in ScopesOf(frame)}

\* Every source with cases and a coverage window, whatever sources are computed.
ComputeStatistics(rows, merged) ==
  UNION {FrameStatistics(Frame(rows, merged, s)) : s \in ComputedSources(rows)}

(***************************************************************************)
(* coverage_statistic: the statistics of a snapshot, one row for each key. *)
(* A row whose values are the same is not written, and none is removed.    *)
(***************************************************************************)
SameStatistic(r, s) ==
  r.source = s.source /\ r.scope = s.scope /\ r.statistic = s.statistic
StatisticRow(snapshot, draft, methodology) ==
  [snapshot |-> snapshot, draft |-> draft, methodology |-> methodology]

PublishStatistics(stored, snapshot, drafts, methodology) ==
  {r \in stored : r.snapshot # snapshot \/ \A d \in drafts : ~SameStatistic(r.draft, d)}
  \cup {StatisticRow(snapshot, d, methodology) : d \in drafts}
StatisticsWritten(stored, snapshot, drafts, methodology) ==
  {StatisticRow(snapshot, d, methodology) : d \in drafts} \ stored

\* What a recompute of the snapshot does not give back, and what is not stored.
CompareStatistics(stored, snapshot, drafts) ==
  LET kept == {r.draft : r \in {x \in stored : x.snapshot = snapshot}}
  IN (kept \ drafts) \cup {d \in drafts : \A k \in kept : ~SameStatistic(k, d)}

=============================================================================
