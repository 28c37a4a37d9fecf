----------------------------- MODULE FigureReads -----------------------------
(***************************************************************************)
(* What a reader of the interface gets of the figures: the observations of *)
(* a subject and the comparison of the judges of a court or jurisdiction   *)
(* (services/metrics.py, repositories/metrics.py), with the suppression of *)
(* the response schema (schemas/metrics.py), and the chain from a figure   *)
(* to the rows behind it (metrics/provenance.py).                          *)
(***************************************************************************)
EXTENDS AdjustedFigures

CONSTANTS
  JudgeName,    \* JudgeName[j]: the canonical name of judge j
  Service,      \* the service records of judges: where, and since when or None
  Collation,    \* the database's order of names, ids and dimension values
  Queries       \* the comparisons asked for

\* What a value of a dimension may be: a final disposition, or a charge's category.
DimensionValues ==
  FinalDispositions \cup {"unknown", None}
  \cup {r.category : r \in UNION {Table(batch, "charge") : batch \in Batches}}
Sorts == {"rate", "value", "numerator", "denominator", "name"}

ASSUME ReadsAssumption ==
  /\ DimensionValues \cup DOMAIN JudgeName \cup {JudgeName[j] : j \in DOMAIN JudgeName} \subseteq DOMAIN Collation
  /\ \A t \in DOMAIN Collation : Collation[t] \in Int
  /\ \A t, u \in DOMAIN Collation : Collation[t] = Collation[u] => t = u
  /\ \A t \in DOMAIN Collation : Collation[t] <= Collation[None]
  /\ \A v \in Service : v.judge \in DOMAIN JudgeName /\ v.court \in DOMAIN Jurisdiction
  /\ \A q \in Queries : q.sort \in Sorts /\ q.limit \in Nat \ {0}

(***************************************************************************)
(* The current observations: one for each draft.                           *)
(***************************************************************************)
Observation(s, subject, def, draft) ==
  [source |-> s, subject |-> subject, def |-> def, draft |-> draft]
ObservationsOf(s, subject) ==
  UNION {{Observation(s, subject, def, draft) : draft \in figures[s][subject][def].drafts} :
           def \in DOMAIN figures[s][subject]}
Observations ==
  UNION {UNION {ObservationsOf(s, subject) : subject \in DOMAIN figures[s]} : s \in DOMAIN figures}

Period(o) ==
  IF o.draft.year = None THEN <<Profile[o.source].start, Profile[o.source].end>>
  ELSE <<o.draft.year * YearDays, (o.draft.year + 1) * YearDays - 1>>
Documents(o) == o.def.outcome = None \/ o.def.outcome \in Profile[o.source].observable

Rated == {"share", "windowed_rate", "survival"}
RateOfRow(o) == IF o.def.kind \in Rated THEN o.draft.value ELSE None
ValueOfRow(o) == IF o.def.kind = "median" THEN o.draft.value ELSE None

\* A response withholds every figure of a suppressed row; the size of its cohort
\* before follow-up and the reason stay.
Served(o) ==
  LET Shown(x) == IF o.draft.suppressed = None THEN x ELSE None
  IN [slug |-> o.def.slug, subject |-> o.subject, source |-> o.source, period |-> Period(o),
      window |-> o.draft.window, dimension |-> o.draft.dimension, eligible |-> o.draft.eligible,
      numerator |-> Shown(o.draft.observed), denominator |-> Shown(o.draft.cohort),
      rate |-> Shown(RateOfRow(o)), value |-> Shown(ValueOfRow(o)),
      suppressed |-> o.draft.suppressed, observable |-> Documents(o)]

\* The observations of a judge or a court: whole windows only.
SubjectMetrics(all, subject) ==
  {Served(o) : o \in {x \in all : x.subject = subject /\ x.draft.year = None}}

(***************************************************************************)
(* A comparison: one metric, one window and the judges with a service      *)
(* record at a court, or at a court of a jurisdiction.                     *)
(***************************************************************************)
Answerable(q) ==
  /\ \E def \in Definitions :
       /\ def.slug = q.slug /\ "judge" \in def.subjects
       /\ IF def.windows = {} THEN q.window = None ELSE q.window \in def.windows
  /\ q.start # None /\ q.end # None => q.start <= q.end

InCohort(q, court) == IF q.scope = "court" THEN court = q.of ELSE Jurisdiction[court] = q.of
KnownCohort(q) == \E c \in DOMAIN Jurisdiction : InCohort(q, c)
Serving(q, judge) == {v \in Service : v.judge = judge /\ InCohort(q, v.court)}

\* The judge's court within the cohort: of the latest service record there.
CourtOf(q, judge) ==
  LET of == Serving(q, judge)
      Later(v, u) == \/ v.start # None /\ (u.start = None \/ v.start > u.start)
                     \/ v.start = u.start /\ v.id <= u.id
  IN (CHOOSE v \in of : \A u \in of : Later(v, u)).court

CohortRows(all, q) ==
  {o \in all :
     /\ o.def.slug = q.slug /\ o.draft.window = q.window
     /\ o.subject.type = "judge" /\ Serving(q, o.subject.id) # {}
     /\ q.start # None => Period(o)[1] = q.start
     /\ q.end # None => Period(o)[2] = q.end
     /\ q.start = None /\ q.end = None => o.draft.year = None}

(***************************************************************************)
(* The order of the rows: a figure that a suppressed row does not have,    *)
(* nulls last either way, then the judge's name and id, then the dimension.*)
(* A figure is compared as a fraction.                                     *)
(***************************************************************************)
Whole(n) == IF n = None THEN None ELSE <<n, 1>>
StoredFigure(o, sort) ==
  CASE sort = "rate" -> RateOfRow(o)
    [] sort = "value" -> Whole(ValueOfRow(o))
    [] sort = "numerator" -> Whole(o.draft.observed)
    [] sort = "denominator" -> Whole(o.draft.cohort)
    [] sort = "name" -> Whole(Collation[JudgeName[o.subject.id]])

\* Mutation of SortFigure: a withheld figure still sorts.
SortStored(o, sort) == StoredFigure(o, sort)

SortFigure(o, sort) ==
  IF sort # "name" /\ o.draft.suppressed # None THEN None ELSE StoredFigure(o, sort)

Ahead(a, b, order) ==
  a # None /\ (b = None \/ (IF order = "desc" THEN b[1] * a[2] < a[1] * b[2]
                                              ELSE a[1] * b[2] < b[1] * a[2]))
\* Mutation of TieBreak: judges of one name are not told apart.
TieBreakByName(o) == <<Collation[JudgeName[o.subject.id]], Collation[o.draft.dimension]>>

TieBreak(o) ==
  <<Collation[JudgeName[o.subject.id]], Collation[o.subject.id], Collation[o.draft.dimension]>>
Lexicographic(k, l) ==
  \E n \in DOMAIN k : k[n] < l[n] /\ \A m \in 1 .. n - 1 : k[m] = l[m]

RowBefore(o, p, q) ==
  LET a == SortFigure(o, q.sort)
      b == SortFigure(p, q.sort)
  IN Ahead(a, b, q.order) \/ (~Ahead(b, a, q.order) /\ Lexicographic(TieBreak(o), TieBreak(p)))
Position(rowset, o, q) == Cardinality({p \in rowset : RowBefore(p, o, q)})

(***************************************************************************)
(* Pages, and the period the rows are compared with: the one asked for, or *)
(* the one most rows of the whole cohort share, the earliest of several.   *)
(***************************************************************************)
PageOf(rowset, q, offset) ==
  {o \in rowset : Position(rowset, o, q) \in offset .. offset + q.limit - 1}
NextOffset(total, q, offset) == IF offset + q.limit < total THEN offset + q.limit ELSE None

MostShared(rowset) ==
  LET sharing(p) == Cardinality({o \in rowset : Period(o) = p})
      periods == {Period(o) : o \in rowset}
  IN CHOOSE p \in periods : \A r \in periods :
       \/ sharing(p) > sharing(r)
       \/ sharing(p) = sharing(r) /\ (p = r \/ Lexicographic(p, r))
ReferencePeriod(rowset, q, page) ==
  IF q.start # None /\ q.end # None THEN <<q.start, q.end>>
  ELSE IF page # {} THEN MostShared(rowset) ELSE None

Warnings(o, reference) ==
  (IF reference # None /\ Period(o) # reference THEN {"period differs"} ELSE {})
  \cup (IF Documents(o) THEN {} ELSE {"not observable"})

\* None: the query is refused, or its court or jurisdiction is not found.
Compare(all, q, offset) ==
  IF ~Answerable(q) \/ ~KnownCohort(q) THEN None
  ELSE LET rowset == CohortRows(all, q)
           page == PageOf(rowset, q, offset)
           reference == ReferencePeriod(rowset, q, page)
       IN [items |-> {[at |-> Position(rowset, o, q), row |-> Served(o),
                       court |-> CourtOf(q, o.subject.id), warnings |-> Warnings(o, reference)] :
                        o \in page},
           total |-> Cardinality(rowset), next |-> NextOffset(Cardinality(rowset), q, offset),
           reference |-> reference]

\* The offsets of a client that follows next_offset from the first page until it is null.
Followed(total, q) == {0} \cup {n \in {k * q.limit : k \in 1 .. total} : n < total}

(***************************************************************************)
(* Properties of the responses.                                            *)
(***************************************************************************)
\* The row with other figures where it is suppressed.
OtherFigures(o) ==
  IF o.draft.suppressed = None THEN o
  ELSE [o EXCEPT !.draft.observed = 0, !.draft.cohort = 0, !.draft.value = None]

\* What is withheld of a suppressed row shows in no list of rows, of a subject or of a
\* comparison: neither in the row itself, nor in where it stands, nor in what else is on
\* the page (repositories/metrics.py: "the order of a page can never leak a withheld
\* number").  The third response, the chain of one observation, gives its counts
\* suppressed or not: ChainsLast.
ListsTellNothing ==
  LET all == Observations
      others == {OtherFigures(o) : o \in all}
  IN /\ \A j \in SubjectsIn(figures) : SubjectMetrics(all, j) = SubjectMetrics(others, j)
     /\ \A q \in Queries : \A n \in Followed(Cardinality(CohortRows(all, q)), q) :
          Compare(all, q, n) = Compare(others, q, n)

\* Where a judge has at most one row of a source and a kind of period in the cohort, a
\* client that follows next_offset reads every row exactly once, and every page but the
\* last is full.  (A judge with rows of two sources, or of a year and a whole window that
\* both match a period, may stand twice at one position: the order ends with the dimension.)
PagesPartition ==
  LET all == Observations
  IN \A q \in {p \in Queries : Answerable(p)} :
       LET rowset == CohortRows(all, q)
           total == Cardinality(rowset)
           offsets == Followed(total, q)
           Single(o, p) == o.subject = p.subject => o.source = p.source /\ o.draft.year = p.draft.year
       IN (\A o, p \in rowset : Single(o, p)) =>
            /\ \A o \in rowset : \E n \in offsets :
                 \A m \in offsets : o \in PageOf(rowset, q, m) <=> m = n
            /\ \A n \in offsets :
                 LET page == Cardinality(PageOf(rowset, q, n))
                 IN IF NextOffset(total, q, n) = None THEN page = total - n ELSE page = q.limit

(***************************************************************************)
(* The chain of an observation: the members its family gives, identical    *)
(* ones as one with their copies, each with the row it names if it is      *)
(* still there, and the totals over all of them.                           *)
(***************************************************************************)
NoRow == [case |-> None]
LiveRow(live, kind, id) ==
  LET found == {r \in Table(live, kind) : r.id = id}
  IN IF found = {} THEN NoRow ELSE [case |-> CaseOf(CHOOSE r \in found : TRUE)]

\* The family cut for one observation.
Projection(o, family) ==
  Families!Project(family, o.draft.year, IF o.def.windows = {} THEN None ELSE o.draft.window, o.draft.dimension)

ResolvedMembers(o, family, live) ==
  LET copies == Families!Multiset(Projection(o, family))
  IN {[id |-> k[1], counted |-> k[2], followed |-> k[3], copies |-> copies[k],
       case |-> LiveRow(live, family.kind, k[1]).case] : k \in DOMAIN copies}

Totals(members) ==
  LET resolved == {m \in members : m.case # None}
  IN [members |-> Families!Copies(members), counted |-> Families!Counted(members),
      followed |-> Families!Followed(members), resolved |-> Families!Copies(resolved),
      cases |-> Cardinality({m.case : m \in resolved})]

Trace(o, family, live) ==
  LET totals == Totals(ResolvedMembers(o, family, live))
  IN [totals |-> totals, complete |-> totals.members = totals.resolved]

\* The rows of a source's cases.
RowsOfSource(s) ==
  LET cases == {k.id : k \in {c \in Table(rows, "court_case") : c.source = s}}
  IN {r \in rows : CaseOf(r) \in cases}

\* The totals of a chain give back the counts of its observation, those that the lists
\* withhold of a suppressed one included (services/metrics.py serves them for every
\* observation).  Where people are counted, the members counted are their rows.
GivesCounts(totals, o) ==
  /\ totals.members = o.draft.eligible /\ totals.followed = o.draft.cohort
  /\ o.def.population # "defendants" => totals.counted = o.draft.observed

\* A figure keeps its chain: after any later publication or merge every member of an
\* observation made before, suppressed or not, still names a row, of as many cases of the
\* observation's own source as when it was made, and the chain gives the counts it states
\* (provenance.py traces an observation against the rows of now, not of its snapshot).
ChainsLast ==
  [][rows' # rows =>
       \A o \in {x \in Observations : x.draft.year = None} :
         LET family == figures[o.source][o.subject][o.def].family
             later == Trace(o, family, rows')
         IN /\ later.complete /\ GivesCounts(later.totals, o)
            /\ later = Trace(o, family, RowsOfSource(o.source))]_vars

=============================================================================
