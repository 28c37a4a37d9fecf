--------------------------- MODULE AdjustedFigures ---------------------------
(***************************************************************************)
(* The designs of the outcome models over the rows that CaseMetrics lets   *)
(* be published and merged, and the ratios counted from them (the adjusted *)
(* part of metrics/compute.py): what a design may know, what it may read,  *)
(* and how its ratios relate to the descriptive figures.                   *)
(***************************************************************************)
EXTENDS CaseMetrics, OutcomeDesign

CONSTANT Specification   \* the outcome model specification

ASSUME SpecificationAssumption ==
  /\ Accepts(Specification, Definitions, Vocabularies)
  /\ \A def \in AdjustedEntries :
       MatchesTarget(def, TargetOf(Specification, def), Definitions)

\* The definitions with a model of the source, and the judge's figure of their population.
Modelled(s) ==
  {def \in AdjustedEntries :
     UnavailableReason(Specification, TargetOf(Specification, def), Profile[s], Definitions) = None}
PopulationFigure(s, judge, def) ==
  figures[s][Subject("judge", judge)][PopulationOf(TargetOf(Specification, def), Definitions)].drafts

\* Every level of every row of every design: its feature and its index event.
EveryLevel(Holds(_, _, _)) ==
  \A s \in ComputedSources(rows) :
    LET frame == Frame(rows, merged, s)
    IN \A def \in Modelled(s) :
         LET target == TargetOf(Specification, def)
         IN \A w \in WindowsOf(target) : \A e \in TargetEvents(frame, target, def.rule, w) :
              \A name \in ActiveFeatures(frame, Specification) : Holds(frame, name, e)

LevelOf(frame, name, e) == Level(frame, name, Specification.features[name], e)
\* The event has one and the same level in each of the frames.
SameIn(frames, name, e) == Cardinality({LevelOf(f, name, e) : f \in frames}) = 1

(***************************************************************************)
(* What was known at an instant: the rows of before, and a charge disposed *)
(* of later still pending.                                                 *)
(***************************************************************************)
KnownAt(frame, name, e) ==
  LET known == Specification.features[name].known
  IN IF known = "decision_at" THEN e.decided ELSE IF known = "index_at" THEN e.at ELSE FiledAt(frame, e)

AsKnown(frame, e, instant) ==
  LET undisposed(c) == IF c.disposed # None /\ c.disposed >= instant
                       THEN [c EXCEPT !.disposition = "pending", !.disposed = None] ELSE c
  IN [frame EXCEPT
        !.cases = {k \in @ : k.id = e.case \/ Before(k.filed, instant)},
        !.charges = {undisposed(c) : c \in {x \in @ : Before(x.filed, instant)}},
        !.outcomes = {o \in @ : Before(o.at, instant)}]

\* No feature but prior_cases tells an index event from what was known when it is
\* said to be known: rows of later, and later dispositions, change no level
\* (features.py).  prior_cases counts a case in which the person is charged only
\* later: spec.py lets it read no instant of the charge.
NoHindsight(frame, name, e) ==
  name # "prior_cases" => SameIn({frame, AsKnown(frame, e, KnownAt(frame, name, e))}, name, e)

(***************************************************************************)
(* The frame with every column hidden that a feature does not state.  The  *)
(* keys that join the tables stay, and the instant the level is known at.  *)
(***************************************************************************)
Hidden(frame, e, stated, known) ==
  LET Keep(table, column, value) == IF <<table, column>> \in stated THEN value ELSE None
      case(k) == [k EXCEPT !.filed = IF k.id = e.case /\ known = "filed_at" THEN @
                                     ELSE Keep("court_case", "filed", @)]
      charge(c) == [c EXCEPT !.filed = Keep("charge", "filed", @),
                             !.severity = Keep("charge", "severity", @),
                             !.category = Keep("charge", "category", @),
                             !.disposition = Keep("charge", "disposition", @),
                             !.disposed = Keep("charge", "disposed", @),
                             !.judge = None, !.actor = None]
      outcome(o) == [o EXCEPT !.type = Keep("justice_event", "type", @),
                              !.at = Keep("justice_event", "at", @), !.related = None]
  IN [frame EXCEPT !.cases = {case(k) : k \in @}, !.charges = {charge(c) : c \in @},
                   !.outcomes = {outcome(o) : o \in @}, !.sentences = {}, !.assignments = {},
                   !.decisions = {}]

\* A builder reads the columns its feature states in the file, the keys and the
\* instant it is known at, and nothing else: the contract that spec.py holds the
\* file to is what features.py does.
ReadsWhatIsStated(frame, name, e) ==
  LET feature == Specification.features[name]
  IN SameIn({frame, Hidden(frame, e, feature.source, feature.known)}, name, e)

\* Each feature of a design keeps its contract: it knows nothing of later than the
\* instant it says, and reads nothing but what it states (spec.py, features.py).
FeaturesKeepContract ==
  EveryLevel(LAMBDA frame, name, e : NoHindsight(frame, name, e) /\ ReadsWhatIsStated(frame, name, e))

(***************************************************************************)
(* The frame under other canonical ids: judges, courts and persons are     *)
(* renamed, what the source assigned is not.                               *)
(***************************************************************************)
Renamed(frame, NewCourt(_), NewJudge(_), NewPerson(_)) ==
  LET judged(r) == [r EXCEPT !.judge = NewJudge(@)]
      both(r) == [r EXCEPT !.judge = NewJudge(@), !.person = NewPerson(@)]
  IN [frame EXCEPT
        !.cases = {[k EXCEPT !.court = NewCourt(@)] : k \in @},
        !.assignments = {judged(a) : a \in @},
        !.charges = {both(c) : c \in @}, !.decisions = {both(d) : d \in @},
        !.sentences = {both(x) : x \in @},
        !.outcomes = {[o EXCEPT !.person = NewPerson(@)] : o \in @}]

\* The columns of a design, and how many rows have the same levels, instant,
\* outcome and cluster: what the fit sees of it.
Fitted(frame, design) ==
  LET seen(r) == [levels |-> r.levels, at |-> r.event.at, outcome |-> r.event.outcome,
                  cluster |-> ClusterKey(frame, r.event.person)]
      copies(v) == Cardinality({r \in design.rows : seen(r) = v})
  IN [columns |-> design.columns, rows |-> {<<v, copies(v)>> : v \in {seen(r) : r \in design.rows}},
      enough |-> HasEnoughEvents(Specification, design)]

\* Exchanging the canonical ids of courts, judges and persons leaves every design
\* as it was: columns, rows and clusters hang on what the source assigned
\* (features.py).
IdentifiersInvisible(NewCourt(_), NewJudge(_), NewPerson(_)) ==
  \A s \in ComputedSources(rows) :
    LET frame == Frame(rows, merged, s)
        renamed == Renamed(frame, NewCourt, NewJudge, NewPerson)
    IN \A def \in Modelled(s) :
         LET target == TargetOf(Specification, def)
         IN \A w \in WindowsOf(target) :
              Cardinality({Fitted(f, Design(f, Specification, target, def.rule, w)) : f \in {frame, renamed}}) = 1

(***************************************************************************)
(* Ratios against the figures of the population they adjust.               *)
(***************************************************************************)
\* The index events of a judge that the missing rule leaves out of a design.
LeftOut(frame, def, judge, w) ==
  LET target == TargetOf(Specification, def)
      features == Specification.features
  IN {e \in TargetEvents(frame, target, def.rule, w) :
        /\ e.judge = judge
        /\ ~IsKept([n \in ActiveFeatures(frame, Specification) |-> LevelOf(frame, n, e)], features)}

\* One ratio against a figure, the index events left out of it and its members.
RatioMeetsFigure(r, figure, out, unknown, members) ==
  /\ r.eligible = figure.eligible
  /\ r.cohort + Cardinality(out) + unknown = figure.cohort
  /\ r.observed + Cardinality({e \in out : e.outcome}) = figure.observed
  /\ Families!Copies(members) = r.eligible
  /\ Families!Followed(members) = r.cohort /\ Families!Counted(members) = r.observed

JudgeRatiosMeet(s, frame, def, judge, ratios) ==
  LET figure(w) == CHOOSE d \in PopulationFigure(s, judge, def) : d.year = None /\ d.window = w
      unknown(w) == IF w # None THEN 0
                    ELSE Cardinality({d \in PretrialDecisions(frame, def.rule, Subject("judge", judge)) :
                                        d.detained = None})
  IN /\ ratios.stray = {}
     /\ \A r \in ratios.drafts :
          RatioMeetsFigure(r, figure(r.window), LeftOut(frame, def, judge, r.window), unknown(r.window),
                           Families!Project(ratios.family, None, r.window, None))

EveryRatioMeets(s, frame, def, observations) ==
  \A judge \in DOMAIN observations : JudgeRatiosMeet(s, frame, def, judge, observations[judge])

\* A ratio's eligible, members and outcomes are those of the judge's figure of the
\* same population, but for the index events that the missing rule leaves out and
\* decisions without a detention flag; no member lies outside the judge's cohort
\* (which would fail the compute); the family gives the counts back (ratios.py
\* against compute.py).
RatiosMeetFigures ==
  \A s \in ComputedSources(rows) :
    LET frame == Frame(rows, merged, s)
    IN \A def \in Modelled(s) :
         EveryRatioMeets(s, frame, def, AdjustedObservations(frame, Specification, def))

=============================================================================
