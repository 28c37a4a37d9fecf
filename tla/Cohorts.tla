------------------------------- MODULE Cohorts -------------------------------
(***************************************************************************)
(* Whose row a figure counts and when a person is at risk: attribution of  *)
(* rows to judges and courts (metrics/attribution.py), index events        *)
(* (metrics/index_events.py), exposure (metrics/exposure.py) and first     *)
(* outcomes (metrics/windows.py).  Every operator is a function of a frame.*)
(***************************************************************************)
EXTENDS CaseFrames

Subject(type, id) == [type |-> type, id |-> id]
JudgeColumnGates == {"deciding_judge", "sentencing_judge", "disposing_judge"}
JudgeExcludedActors == {"legislature_or_mandatory_rule", "unknown"}
JudgeExcludedDiscretion == {"mandatory", "unknown"}

(***************************************************************************)
(* Attribution.  A row to attribute carries its case and the judge it      *)
(* names; "at" maps the rows to the instants the gate looks at.  A court takes the rows of its       *)
(* cases; for a judge the rule's gate decides, and court_of_case attributes*)
(* nothing to a judge (the code raises).                                   *)
(***************************************************************************)
RowsOfCourt(frame, court, rows) ==
  {r \in rows : \E c \in frame.cases : c.id = r.case /\ c.court = court}

AssignedAt(frame, judge, case, at) ==
  \E a \in frame.assignments :
    /\ a.judge = judge /\ a.case = case /\ at # None
    /\ a.start <= at /\ (a.stop = None \/ at < a.stop)

AssignedEver(frame, judge, case) ==
  \E a \in frame.assignments : a.judge = judge /\ a.case = case

GateRows(frame, gate, subject, at) ==
  LET rows == DOMAIN at IN
  IF subject.type = "court" THEN RowsOfCourt(frame, subject.id, rows)
  ELSE IF gate \in JudgeColumnGates THEN {r \in rows : r.judge = subject.id}
  ELSE IF gate = "assigned_at_time"
       THEN {r \in rows : AssignedAt(frame, subject.id, r.case, at[r])}
  ELSE {r \in rows : gate = "assigned_ever" /\ AssignedEver(frame, subject.id, r.case)}

Admits(values, v) == values = None \/ v \in values

AttributedDecisions(frame, rule, subject) ==
  LET rows == {d \in frame.decisions :
                 /\ rule.type = None \/ d.type = rule.type
                 /\ Admits(rule.actors, d.actor)
                 /\ Admits(rule.discretion, d.discretion)
                 /\ subject.type = "judge" =>
                      /\ d.actor \notin JudgeExcludedActors
                      /\ d.discretion \notin JudgeExcludedDiscretion}
  IN GateRows(frame, rule.gate, subject, [d \in rows |-> d.at])

AttributedCharges(frame, rule, subject) ==
  GateRows(frame, rule.gate, subject,
           [c \in {x \in frame.charges : Admits(rule.actors, x.actor)} |-> c.disposed])

AttributedSentences(frame, rule, subject) ==
  GateRows(frame, rule.gate, subject, [s \in frame.sentences |-> s.at])

PretrialDecisions(frame, rule, subject) ==
  {d \in AttributedDecisions(frame, [rule EXCEPT !.type = "pretrial_release"], subject) :
     InCoverage(frame, d.at)}

(***************************************************************************)
(* Disposed charges and cases.  A case is disposed when the last of its    *)
(* finally disposed charges is, by the judge of that charge; charges       *)
(* disposed at one instant are ordered by their id.                        *)
(***************************************************************************)
DisposedCharges(frame) ==
  {c \in frame.charges : c.disposition \in FinalDispositions /\ c.disposed # None}

LastDisposed(charges) ==
  CHOOSE c \in charges : \A d \in charges :
    d.disposed < c.disposed \/ (d.disposed = c.disposed /\ c.id <= d.id)

DisposedCases(frame) ==
  LET of(c) == {d \in DisposedCharges(frame) : d.case = c.id}
  IN {[id |-> c.id, case |-> c.id, court |-> c.court, filed |-> c.filed,
       at |-> LastDisposed(of(c)).disposed, judge |-> LastDisposed(of(c)).judge] :
        c \in {k \in frame.cases : of(k) # {}}}

Cases(frame) == {[id |-> c.id, case |-> c.id, court |-> c.court, filed |-> c.filed] : c \in frame.cases}

\* A case has no deciding or sentencing judge: those gates attribute none.
AttributedCases(frame, rule, subject, at) ==
  IF subject.type = "judge" /\ rule.gate \in {"deciding_judge", "sentencing_judge"} THEN {}
  ELSE GateRows(frame, rule.gate, subject, at)

(***************************************************************************)
(* Index events: the moments a follow-up starts from.                      *)
(***************************************************************************)
IndexEvent(id, case, person, at) ==
  [id |-> id, case |-> case, person |-> person, anchor |-> at]

PretrialReleaseIndex(frame, rule, subject) ==
  {IndexEvent(d.id, d.case, d.person, d.release) :
     d \in {e \in PretrialDecisions(frame, rule, subject) :
              e.detained = "false" /\ e.release # None}}

\* One index event for each person with a disposed charge in the case.
DispositionIndex(frame, rule, subject) ==
  UNION {{IndexEvent(k.id, k.id, c.person, k.at) :
            c \in {d \in DisposedCharges(frame) : d.case = k.id}} :
         k \in AttributedCases(frame, rule, subject, [r \in DisposedCases(frame) |-> r.at])}

SentenceIndex(frame, rule, subject) ==
  {IndexEvent(s.id, s.case, s.person, s.at) : s \in AttributedSentences(frame, rule, subject)}

IndexEvents(frame, kind, rule, subject) ==
  LET events == CASE kind = "pretrial_release" -> PretrialReleaseIndex(frame, rule, subject)
                  [] kind = "disposition" -> DispositionIndex(frame, rule, subject)
                  [] kind = "sentence" -> SentenceIndex(frame, rule, subject)
  IN WithinCoverage(frame, [e \in events |-> e.anchor])

(***************************************************************************)
(* Exposure: the index time, moved past the terms of incarceration.        *)
(***************************************************************************)
IncarcerationTerms(frame) ==
  {[id |-> s.id, case |-> s.case, person |-> s.person, start |-> s.at, end |-> s.at + s.days,
    days |-> s.days] : s \in {x \in frame.sentences : x.days # None /\ x.days > 0}}

\* The term that ends last, the longer of two that end together.
Latest(terms) ==
  CHOOSE t \in terms : \A u \in terms :
    u.end < t.end \/ (u.end = t.end /\ u.days <= t.days)

\* A disposition moves to the end of the case's own term, if that is later.
OwnTerm(terms, e) ==
  LET own == {t \in terms : t.case = e.case /\ t.person = e.person}
  IN IF own # {} /\ Latest(own).end > e.anchor
     THEN [start |-> Latest(own).end, deferral |-> Latest(own).days]
     ELSE [start |-> e.anchor, deferral |-> 0]

\* Then past each term of the person that contains the start, until none does.
Defer(terms, person, first) ==
  LET step[n \in 0 .. Cardinality(terms) + 1] ==
        IF n = 0 THEN first
        ELSE LET now == step[n - 1]
                 hits == {t \in terms : t.person = person /\ t.start <= now.start
                                                         /\ now.start < t.end}
             IN IF hits = {} THEN now
                ELSE [start |-> Latest(hits).end, deferral |-> now.deferral + Latest(hits).days]
  IN step[Cardinality(terms) + 1]

WithExposure(frame, kind, events) ==
  LET terms == IncarcerationTerms(frame)
      at(e) == Defer(terms, e.person,
                     IF kind = "disposition" THEN OwnTerm(terms, e)
                     ELSE [start |-> e.anchor, deferral |-> 0])
  IN {[id |-> e.id, case |-> e.case, person |-> e.person, anchor |-> e.anchor,
       start |-> at(e).start, deferral |-> at(e).deferral] : e \in events}

(***************************************************************************)
(* The first outcome after the exposure start, or None.                    *)
(***************************************************************************)
IsObservable(frame, outcome, scope) ==
  outcome \in frame.observable /\ (scope = None \/ scope \in frame.scopes)

\* Mutation of FirstOutcome: the index case counts among the other cases.
FirstAnywhere(frame, outcome, m) ==
  LET after == {o \in frame.outcomes : o.type = outcome /\ o.person = m.person /\ o.at >= m.start}
  IN IF after = {} THEN None ELSE Min({o.at : o \in after})

FirstOutcome(frame, outcome, m) ==
  LET after == {o \in frame.outcomes :
                  /\ o.type = outcome /\ o.person = m.person /\ o.at > m.start
                  /\ outcome \in OtherCaseOutcomes => o.related \notin {None, m.case}}
  IN IF after = {} THEN None ELSE Min({o.at : o \in after})

FirstOutcomes(frame, outcome, cohort) ==
  {[id |-> m.id, case |-> m.case, person |-> m.person, anchor |-> m.anchor,
    start |-> m.start, deferral |-> m.deferral,
    first |-> FirstOutcome(frame, outcome, m)] : m \in cohort}

=============================================================================
