----------------------------- MODULE CaseMetrics -----------------------------
(***************************************************************************)
(* Published rows that change and the figures computed from them: runs     *)
(* that publish batches of rows (ingest/publish.py), merges of persons     *)
(* (entity_resolution/merge.py), and the subjects step 13 recomputes       *)
(* (ingest/runner.py).  "figures" is what the engine computes from the     *)
(* rows as they are; MetricPublication models how figures are stored.      *)
(***************************************************************************)
EXTENDS SyntheticSource, CoverageStatistics

CONSTANT Batches         \* the sets of rows a run may publish together

VARIABLES
  rows,           \* the published rows of every table
  merged,         \* person -> the person it was merged into, or None
  figures         \* source -> subject -> definition -> its drafts and family

vars == <<rows, merged, figures>>

PersonTables == {"charge", "court_event", "decision", "sentence", "justice_event"}

\* The columns that tell whose row it is and which; every batch's rows have them.
Identifying(table) ==
  {"table", "id", "person"} \cup (IF table = "justice_event" THEN {"type", "related"} ELSE {"case", "judge"})
                          \cup (IF table = "sentence" THEN {"replaced"} ELSE {})
                          \cup (IF table = "charge" THEN {"disposed"} ELSE {})
\* The charges of a case are ordered by when they are disposed of and by their id.
WellFormed(r) ==
  /\ r = [column \in DOMAIN r |-> r[column]] /\ "table" \in DOMAIN r
  /\ r.table \in PersonTables => Identifying(r.table) \subseteq DOMAIN r
  /\ r.table = "charge" => r.id \in Nat /\ r.disposed \in Int \cup {None}

\* The columns that are days or ranks, and those that are so or null.
NumberColumns(table) ==
  CASE table = "charge" -> {"filed", "severity"}
    [] table \in {"decision", "sentence", "justice_event"} -> {"at"}
    [] OTHER -> {}
NullableColumns(table) ==
  CASE table = "court_case" -> {"filed"}
    [] table = "charge" -> {"disposed"}
    [] table = "decision" -> {"release"}
    [] table = "sentence" -> {"days", "probation"}
    [] OTHER -> {}
Dated(r) ==
  /\ NumberColumns(r.table) \cup NullableColumns(r.table) \subseteq DOMAIN r
  /\ r.table = "charge" => "category" \in DOMAIN r
  /\ \A column \in NumberColumns(r.table) : r[column] \in Int
  /\ \A column \in NullableColumns(r.table) : r[column] \in Int \cup {None}

ASSUME BatchesAssumption ==
  \A batch \in Batches : IsFiniteSet(batch) /\ \A r \in batch : WellFormed(r) /\ Dated(r)

(***************************************************************************)
(* Publication.  A row is written over the row of the same table and key;  *)
(* a row that names a case needs the case.  The person written is the      *)
(* survivor, or the person itself when the run looked the person up before *)
(* a merge that has committed since.                                       *)
(***************************************************************************)
CaseOf(r) == IF r.table = "court_case" THEN r.id
             ELSE IF r.table = "justice_event" THEN r.related ELSE r.case
HasCase(r, all) == CaseOf(r) \in {c.id : c \in Table(all, "court_case")}

Published(batch, stale) ==
  {IF r.table \in PersonTables /\ ~stale THEN [r EXCEPT !.person = Survivor(merged, @)] ELSE r :
     r \in batch}

SameRow(r, s) == r.table = s.table /\ r.id = s.id
\* Mutation of Upsert: the rows of a case that are not written again go.
ReplaceCase(all, drafts) ==
  {r \in all : CaseOf(r) \notin {CaseOf(d) : d \in drafts} \/ r.table = "court_case"} \cup drafts

Upsert(all, drafts) == {r \in all : \A d \in drafts : ~SameRow(r, d)} \cup drafts

Recompute ==
  figures' = IF UNCHANGED <<rows, merged>> THEN figures ELSE ComputeAll(rows', merged', Definitions)

WriteRows(batch, stale) ==
  /\ stale => \E p \in Persons : merged[p] # None
  /\ \A r \in batch : HasCase(r, rows \cup batch)
  /\ rows' = Upsert(rows, Published(batch, stale))
  /\ UNCHANGED merged
Publish(batch, stale) == WriteRows(batch, stale) /\ Recompute

\* Every row of the later person moves to the one created first.
Repointed(all, keep, drop) ==
  {IF r.table \in PersonTables /\ r.person = drop THEN [r EXCEPT !.person = keep] ELSE r : r \in all}

MergePersons(keep, drop) ==
  /\ keep < drop /\ merged[keep] = None /\ merged[drop] = None
  /\ merged' = [merged EXCEPT ![drop] = keep]
  /\ rows' = Repointed(rows, keep, drop)
  /\ Recompute

Init == rows = {} /\ merged = [p \in Persons |-> None] /\ figures = <<>>
Next ==
  \/ \E batch \in Batches, stale \in BOOLEAN : Publish(batch, stale)
  \/ \E keep, drop \in Persons : MergePersons(keep, drop)
Spec == Init /\ [][Next]_vars

(***************************************************************************)
(* Step 13: the subjects a run recomputes.  The cases and persons that the *)
(* published rows name are closed once: the persons charged in the cases,  *)
(* every case in which such a person is charged.                           *)
(***************************************************************************)
Touched(drafts) ==
  [cases |-> {CaseOf(d) : d \in drafts} \ {None},
   persons |-> {d.person : d \in {e \in drafts : e.table \in PersonTables}} \ {None},
   judges |-> {d.judge : d \in {e \in drafts : e.table \in {"judge_assignment", "decision", "sentence"}}} \ {None},
   courts |-> {d.court : d \in Table(drafts, "court_case")}]

\* Mutation of ClosedCases: not widened to the other cases of the persons.
OwnCases(all, touched) == touched.cases

ClosedCases(all, touched) ==
  LET charges == Table(all, "charge")
      persons == touched.persons \cup {c.person : c \in {d \in charges : d.case \in touched.cases}}
  IN touched.cases \cup {c.case : c \in {d \in charges : d.person \in persons}}

CloseImpacted(all, touched) ==
  LET cases == ClosedCases(all, touched)
      naming == UNION {Table(all, t) : t \in {"judge_assignment", "decision", "sentence"}}
  IN {Subject("judge", j) : j \in touched.judges
        \cup ({r.judge : r \in {x \in naming : x.case \in cases}} \ {None})}
     \cup {Subject("court", c) : c \in touched.courts
        \cup {k.court : k \in {x \in Table(all, "court_case") : x.id \in cases}}}

Impacted(drafts) == CloseImpacted(rows', Touched(drafts))

(***************************************************************************)
(* Properties of the figures, in every state that publication and merges   *)
(* can reach.                                                              *)
(***************************************************************************)
\* Every figure computed: the definition, the drafts and the family.
EveryFigure(Holds(_)) ==
  \A s \in DOMAIN figures : \A j \in DOMAIN figures[s] : \A d \in DOMAIN figures[s][j] :
       LET result == figures[s][j][d]
       IN result # Nothing => Holds([source |-> s, subject |-> j, def |-> d, drafts |-> result.drafts,
                                     family |-> result.family])

Window(f, d) == IF f.def.windows = {} THEN None ELSE d.window
Members(f, d) == Families!Project(f.family, IF d.year = None THEN None ELSE d.year, Window(f, d), d.dimension)

\* A row that still names a merged person counts as the survivor's: neither the figures
\* nor the coverage statistics tell when a merge and a publication crossed (snapshot.py).
AliasesInvisible ==
  LET resolved == {IF r.table \in PersonTables THEN [r EXCEPT !.person = Survivor(merged, @)] ELSE r : r \in rows}
  IN /\ figures = ComputeAll(resolved, merged, Definitions)
     /\ ComputeStatistics(rows, merged) = ComputeStatistics(resolved, merged)

\* The cases behind a figure, before follow-up.
CasesBehind(frame, def, subject) ==
  {r.case : r \in IF def.kind \in WindowedKinds THEN Cohort(frame, def, subject)
                  ELSE DOMAIN PopulationRows(frame, def, subject)}

\* A case without an identified judge is behind no judge's figure, whatever gate
\* attributes it (coverage.py: "can enter only court-level metrics").
OnlyIdentifiedCases ==
  \A s \in ComputedSources(rows) :
    LET frame == Frame(rows, merged, s)
        identified == {c.id : c \in {k \in frame.cases : IdentifiedJudge(frame, k)}}
    IN \A def \in Definitions : \A j \in SubjectsOf(frame) :
         j.type = "judge" => CasesBehind(frame, def, j) \subseteq identified

\* A publication of the statistics is never refused: they are one row for each key of
\* coverage_statistic, and none counts more rows than it is about (db/models/metrics.py).
StatisticsFit ==
  LET all == ComputeStatistics(rows, merged)
  IN \A r \in all : r.numerator <= r.denominator /\ \A s \in all : SameStatistic(r, s) => r = s

\* What is read of the frames tells no alias, judges are judged by their cases, and the
\* statistics of how far the rows support the figures can be stored.
FramesSound == AliasesInvisible /\ OnlyIdentifiedCases /\ StatisticsFit

\* Written to the nine files and read back, with cases planted as duplicates or not, the
\* world gives every published row again, one draft for what is one thing, whatever the
\* draft names, and of derived events those that a snapshot would derive (writer.py
\* against normalize.py).
FilesGiveRows ==
  IsWorld(rows, merged) =>
    \A duplicates \in {{}, CasesOf(rows)} :
      LET files == RenderSource(World(rows, merged), duplicates)
          drafts == ReadSource(ManifestOf(files), files)
          of(tables) == {d \in drafts : d.table \in tables}
          published(all) == {AsDraft(rows, merged, r) : r \in all}
          events == Table(rows, "justice_event")
          children == (PersonTables \cup {"judge_assignment"}) \ {"justice_event"}
      IN /\ Cardinality({NaturalKey(d) : d \in drafts}) = Cardinality(drafts)
         /\ of(children \cup {"court_case"}) = published(rows \ events)
         /\ of({"justice_event"}) = published(events \cup FollowingOutcomes(rows, merged))
         /\ {d.judge : d \in of(children)} \ {None} \subseteq {d.judge : d \in of({"judge"})}
         /\ {d.person : d \in of(PersonTables)} = {d.person : d \in of({"person"})}
         /\ {d.case : d \in of({"case_party"})} = {d.case : d \in of({"court_case"})}

\* Whatever rows of the synthetic source are published, the engine's figures
\* over the whole window are those that the generator's own truth gives
\* (compute.py against truth.py).
FiguresMatchTruth ==
  IsWorld(rows, merged) =>
    LET world == World(rows, merged)
        end == Profile[Synthetic].end + 1
        truth(f, d) ==
          LET members == CohortMembers(world, f.def.index, f.subject)
          IN CASE f.def.kind = "windowed_rate" -> WindowedTruth(world, members, f.def.outcome, d.window, end)
               [] f.def.kind = "survival" -> SurvivalTruth(world, members, f.def.outcome, d.window, end)
               [] OTHER -> SubjectTruth(world, f.def.slug, f.subject, d.dimension)
    IN EveryFigure(LAMBDA f : \A d \in f.drafts :
         d.year = None =>
           LET t == truth(f, d)
           IN /\ d.eligible = t.eligible /\ d.observed = t.observed
              /\ IF f.def.kind = "median" THEN d.value = t.value ELSE SameRate(d.value, t.value))

\* What the generator draws is what its files say, and what the engine makes of them.
SourceTellsTruth == FilesGiveRows /\ FiguresMatchTruth

\* The family stored behind a figure gives its counts back (members.py): its
\* eligible, followed and counted members, year by year and window by window.
FamiliesExplain ==
  EveryFigure(LAMBDA f : \A d \in f.drafts :
    LET m == Members(f, d)
    IN /\ Families!Copies(m) = d.eligible
       /\ f.def.kind \in {"windowed_rate", "median"} => Families!Followed(m) = d.cohort
       /\ f.def.population # "defendants" => Families!Counted(m) = d.observed)

\* Once everyone was followed for a window, the cumulative incidence is the
\* fixed-window rate (censoring.py).
SurvivalMeetsRate ==
  EveryFigure(LAMBDA f : f.def.kind = "survival" =>
    \A g \in Definitions :
      (/\ g.kind = "windowed_rate" /\ g.index = f.def.index
       /\ g.outcome = f.def.outcome /\ g.rule = f.def.rule)
      => \A d \in f.drafts, e \in figures[f.source][f.subject][g].drafts :
           d.year = e.year /\ d.window = e.window /\ e.cohort = e.eligible => SameRate(d.value, e.value))

(***************************************************************************)
(* Step 13 against what a publication changes.                             *)
(***************************************************************************)
FiguresOf(all, subject) ==
  [s \in {t \in DOMAIN all : subject \in DOMAIN all[t]} |-> all[s][subject]]
SubjectsIn(all) == UNION {DOMAIN all[s] : s \in DOMAIN all}
\* The subjects whose figures the step changes and step 13 leaves out.
Missed(impacted) ==
  {j \in (SubjectsIn(figures) \cup SubjectsIn(figures')) \ impacted :
     FiguresOf(figures, j) # FiguresOf(figures', j)}

NamesSurvivors(all) == \A r \in all : r.table \in PersonTables => Survivor(merged, r.person) = r.person

\* Where every row names the survivor of its person, step 13 leaves out no court,
\* and of the judges at most those that the touched cases name only as disposing
\* judges of charges, or that a replaced row named.
ImpactedButForJudges ==
  [][\A batch \in Batches :
       WriteRows(batch, FALSE) /\ NamesSurvivors(rows) =>
         LET drafts == Published(batch, FALSE)
             cases == ClosedCases(rows', Touched(drafts))
             disposing == {c \in Table(rows \cup rows', "charge") : c.case \in cases}
             replaced == {x \in rows : \E d \in drafts : SameRow(x, d)} \ Table(rows, "court_case")
             judged == {x \in replaced : x.table # "justice_event"}
         IN Missed(Impacted(drafts)) \subseteq {Subject("judge", r.judge) : r \in disposing \cup judged}]_vars

=============================================================================
