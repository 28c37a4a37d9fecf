----------------------------- MODULE CaseFrames -----------------------------
(***************************************************************************)
(* The tables metrics are computed from: the published rows of every       *)
(* source and the merges of persons, and the frame that a snapshot cuts    *)
(* from them for one source (metrics/frame.py, metrics/snapshot.py,        *)
(* metrics/periods.py).  A row is a record whose "table" field names its   *)
(* table; an instant is a number of days.                                  *)
(***************************************************************************)
EXTENDS Integers, FiniteSets, FiniteSetsExt, Functions

CONSTANTS
  None,       \* SQL's null
  Persons,    \* persons, merged or not, numbered as they were created
  Sources,    \* names of the sources
  Profile,    \* Profile[s]: what source s declares about itself
  YearDays,   \* days of a calendar year
  Jurisdiction \* Jurisdiction[c]: the jurisdiction of court c

AnyCaseOutcomes == {"failure_to_appear", "release_violation", "revocation", "rearrest"}
OtherCaseOutcomes == {"new_case", "new_charge", "reconviction"}
Gates == {"assigned_at_time", "assigned_ever", "deciding_judge", "disposing_judge",
          "sentencing_judge"}
Convicted == {"convicted_plea", "convicted_verdict"}
FinalDispositions == Convicted \cup {"acquitted", "dismissed"}

ASSUME NullAssumption == None \notin Int   \* null is no number
ASSUME PersonsAssumption == Persons \subseteq Nat /\ IsFiniteSet(Persons)
ASSUME ProfileAssumption ==
  /\ YearDays \in Nat \ {0}
  /\ \A s \in Sources :
       /\ {Profile[s].start, Profile[s].end} \subseteq Int \cup {None}
       /\ Profile[s].start = None \/ Profile[s].start <= Profile[s].end
       /\ Profile[s].observable \subseteq AnyCaseOutcomes \cup OtherCaseOutcomes
       /\ Profile[s].gates \subseteq Gates

Table(rows, name) == {r \in rows : r.table = name}

(***************************************************************************)
(* Persons after merges: the end of the chain of merged_into_person_id.    *)
(***************************************************************************)
Survivor(merged, p) ==
  LET step[n \in 0 .. Cardinality(Persons)] ==
        IF n = 0 THEN p
        ELSE IF step[n - 1] \in Persons /\ merged[step[n - 1]] # None
             THEN merged[step[n - 1]] ELSE step[n - 1]
  IN step[Cardinality(Persons)]

ResolvePersons(merged, rows) ==
  {[r EXCEPT !.person = Survivor(merged, @)] : r \in rows}

\* Mutation of Family: the aliases are forgotten.
NoAliases(merged, persons) == persons

\* The persons and every alias whose chain ends in one of them.
Family(merged, persons) ==
  persons \cup {p \in Persons : Survivor(merged, p) \in persons}

(***************************************************************************)
(* What happens to a person later: the stored events that count in any     *)
(* case, and the outcomes derived from every charge of the person,         *)
(* whatever its source, for the types the source observes.                 *)
(***************************************************************************)
Outcome(type, person, at, related) ==
  [type |-> type, person |-> person, at |-> at, related |-> related]

StoredOutcomes(rows, merged, family) ==
  {Outcome(r.type, r.person, r.at, r.related) :
     r \in ResolvePersons(merged, {e \in Table(rows, "justice_event") :
                                     /\ e.person \in family
                                     /\ e.type \in AnyCaseOutcomes})}

DerivedOutcomes(rows, merged, family, wanted) ==
  LET charges == ResolvePersons(merged, {c \in Table(rows, "charge") : c.person \in family})
      Earliest(c) == \A d \in charges :
                       d.person = c.person /\ d.case = c.case => c.filed <= d.filed
      Of(type, picked, Instant(_)) ==
        IF type \in wanted
        THEN {Outcome(type, c.person, Instant(c), c.case) : c \in picked} ELSE {}
  IN UNION {Of("new_charge", charges, LAMBDA c : c.filed),
            Of("new_case", {c \in charges : Earliest(c)}, LAMBDA c : c.filed),
            Of("reconviction", {c \in charges : c.disposition \in Convicted /\ c.disposed # None},
               LAMBDA c : c.disposed)}

JusticeEvents(rows, merged, persons, observable) ==
  LET family == Family(merged, persons)
  IN StoredOutcomes(rows, merged, family)
     \cup DerivedOutcomes(rows, merged, family, OtherCaseOutcomes \cap observable)

(***************************************************************************)
(* The frame of one source.                                                *)
(***************************************************************************)
HasCoverage(s) == Profile[s].start # None /\ Profile[s].end # None

Frame(rows, merged, s) ==
  LET cases == {c \in Table(rows, "court_case") : c.source = s}
      ids == {c.id : c \in cases}
      Of(name) == {r \in Table(rows, name) : r.case \in ids}
      charges == ResolvePersons(merged, Of("charge"))
      decisions == ResolvePersons(merged, Of("decision"))
      sentences == ResolvePersons(merged, {r \in Of("sentence") : ~r.replaced})
      events == ResolvePersons(merged, Of("court_event"))
      persons == {r.person : r \in charges \cup decisions \cup sentences \cup events} \ {None}
  IN [source |-> s, cases |-> cases, assignments |-> Of("judge_assignment"),
      charges |-> charges, decisions |-> decisions, sentences |-> sentences,
      events |-> events, persons |-> persons,
      outcomes |-> JusticeEvents(rows, merged, persons, Profile[s].observable),
      start |-> Profile[s].start, end |-> Profile[s].end + 1,
      observable |-> Profile[s].observable, gates |-> Profile[s].gates,
      scopes |-> Profile[s].scopes]

\* The sources that have cases and a coverage window; no other is computed.
ComputedSources(rows) ==
  {s \in Sources : HasCoverage(s) /\ \E c \in Table(rows, "court_case") : c.source = s}

(***************************************************************************)
(* Periods: rows inside the coverage window, whole and by calendar year.   *)
(* Rows are given with their anchors, as a function from the rows.  "end"  *)
(* of a frame is exclusive.                                                *)
(***************************************************************************)
YearOf(t) == t \div YearDays
InCoverage(frame, t) == t # None /\ frame.start <= t /\ t < frame.end
WithinCoverage(frame, at) == {r \in DOMAIN at : InCoverage(frame, at[r])}

\* The periods of some rows: None is the whole window.
Periods(at, byYear) == {None} \cup (IF byYear THEN {YearOf(at[r]) : r \in DOMAIN at} ELSE {})

RowsOf(at, year) == {r \in DOMAIN at : year = None \/ YearOf(at[r]) = year}

=============================================================================
