--------------------------- MODULE MetricRegistry ---------------------------
(***************************************************************************)
(* The registry of metrics (metrics/registry.py): what its loader accepts  *)
(* of the file, the definitions it makes of the entries, and the rows of   *)
(* metric_definition that a sync writes.  A list of the file is a sequence *)
(* and null is None; names, prose and the kinds of scalars are left out.   *)
(***************************************************************************)
EXTENDS MetricFigures, Sequences

CONSTANTS
  RegistryFile,   \* [version, periods, scopes, metrics, thresholds, measurements]
  Vocabularies,   \* the values of each kind of the case vocabulary
  WindowsDays     \* the observation windows of the program, a sequence of days

ASSUME WindowsAssumption == WindowsDays \in Seq(Nat)

ObservedExpected == "observed_expected"
Kinds == DescriptiveKinds \cup {ObservedExpected}
WindowedKinds == {"windowed_rate", "survival"}
SubjectTypes == {"judge", "court"}
PlainPopulations ==
  {"cases", "defendants", "pretrial_decisions", "disposed_charges", "disposed_cases", "sentences"}
Populations == PlainPopulations \cup {"index_events"}
AssignmentGates == Gates \cup {"court_of_case"}
IndexKinds == {"pretrial_release", "disposition", "sentence"}
Dimensions == {"disposition", "offense_category"}
Units == {"count", "share", "days", "ratio"}
Measures == {"days_to_disposition", "days", "probation"}
RevocationScopes == {"release", "supervision"}

\* The instant that places a row in a calendar year, for each population.
PopulationAnchors ==
  [population \in Populations |->
     CASE population \in {"cases", "defendants"} -> "filed"
       [] population \in {"pretrial_decisions", "disposed_cases", "sentences"} -> "at"
       [] population = "disposed_charges" -> "disposed"
       [] population = "index_events" -> "anchor"]

\* The columns a condition may name, with the vocabulary of the value; a flag has none.
CountedColumns == [detained |-> None, disposition |-> "charge_disposition", actor |-> "actor_type"]

(***************************************************************************)
(* One entry.                                                              *)
(***************************************************************************)
IsList(values) == values \in Seq(Range(values))
Distinct(values) == IsList(values) /\ values # <<>> /\ IsInjective(values)

OneOf(value, allowed) == value = None \/ value \in allowed
VocabularyList(values, kind) ==
  values # None => Distinct(values) /\ Range(values) \subseteq Vocabularies[kind]

AcceptsAttribution(rule) ==
  /\ DOMAIN rule = {"type", "actors", "discretion", "gate"}
  /\ OneOf(rule.type, Vocabularies["decision_type"])
  /\ VocabularyList(rule.actors, "actor_type")
  /\ VocabularyList(rule.discretion, "judicial_discretion_classification")
  /\ rule.gate \in AssignmentGates

AcceptsCounted(counted) ==
  counted # None =>
    /\ counted # {}
    /\ \A c \in counted :
         /\ c.column \in DOMAIN CountedColumns
         /\ c.value \in IF CountedColumns[c.column] = None THEN {"true", "false"}
                        ELSE Vocabularies[CountedColumns[c.column]]

FollowUp(entry) == <<entry.index, entry.outcome, entry.windows>>
HasFollowUp(entry) == \A n \in 1 .. 3 : FollowUp(entry)[n] # None
NoFollowUp(entry) == \A n \in 1 .. 3 : FollowUp(entry)[n] = None

\* An adjusted ratio compares judges, over decisions or over a release cohort.
AcceptsAdjusted(entry) ==
  /\ entry.subjects = <<"judge">> /\ entry.unit = "ratio"
  /\ entry.dimension = None /\ entry.counted = None
  /\ entry.adjustment # None /\ DOMAIN entry.adjustment = {"target", "minimum"}
  /\ entry.adjustment.target # None /\ entry.adjustment.minimum >= 0
  /\ \/ entry.population = "pretrial_decisions" /\ NoFollowUp(entry)
     \/ entry.population = "index_events" /\ HasFollowUp(entry) /\ entry.index = "pretrial_release"

AcceptsDescriptive(entry) ==
  /\ entry.unit # "ratio" /\ entry.adjustment = None
  /\ IF entry.kind \in WindowedKinds THEN HasFollowUp(entry) /\ entry.population = "index_events"
     ELSE NoFollowUp(entry) /\ entry.population # "index_events"
  /\ entry.kind = "distribution" => entry.dimension # None

\* The judge of a disposition can be asked only of what has one.
AcceptsGate(entry) ==
  entry.rule.gate = "disposing_judge" =>
    \/ entry.population \in {"disposed_charges", "disposed_cases"}
    \/ entry.population = "index_events" /\ entry.index = "disposition"

AcceptsEntry(entry) ==
  /\ entry.kind \in Kinds /\ entry.population \in Populations /\ entry.unit \in Units
  /\ Distinct(entry.subjects) /\ Range(entry.subjects) \subseteq SubjectTypes
  /\ OneOf(entry.index, IndexKinds) /\ OneOf(entry.outcome, Vocabularies["justice_event_type"])
  /\ OneOf(entry.windows, {WindowsDays}) /\ OneOf(entry.dimension, Dimensions)
  /\ OneOf(entry.measure, Measures) /\ (entry.measure # None <=> entry.kind = "median")
  /\ IF entry.kind = ObservedExpected THEN AcceptsAdjusted(entry) ELSE AcceptsDescriptive(entry)
  /\ AcceptsAttribution(entry.rule) /\ AcceptsCounted(entry.counted)
  /\ entry.threshold \in Nat
  /\ AcceptsGate(entry)

(***************************************************************************)
(* The blocks beside the entries.                                          *)
(***************************************************************************)
AcceptsPeriods(periods) ==
  /\ Distinct(periods.kinds) /\ Range(periods.kinds) \subseteq DescriptiveKinds
  /\ periods.anchors = PopulationAnchors

AcceptsScopes(scopes) == DOMAIN scopes = IndexKinds /\ Range(scopes) \subseteq RevocationScopes

Slugs(file) == {entry.slug : entry \in Range(file.metrics)}
ThresholdOf(file, slug) == (CHOOSE entry \in Range(file.metrics) : entry.slug = slug).threshold

\* Every metric once, in the group of its own threshold.
AcceptsThresholds(file) ==
  LET groups == file.thresholds
  IN /\ IsList(groups) /\ groups # <<>>
     /\ \A n \in DOMAIN groups :
          /\ groups[n].threshold \in Nat /\ Distinct(groups[n].metrics)
          /\ \A slug \in Range(groups[n].metrics) :
               /\ slug \in Slugs(file) /\ ThresholdOf(file, slug) = groups[n].threshold
               /\ \A m \in DOMAIN groups : slug \in Range(groups[m].metrics) => m = n
     /\ Slugs(file) = UNION {Range(group.metrics) : group \in Range(groups)}

\* A measured cohort: counts, quantiles that do not decrease, and a share as a fraction.
AcceptsSize(size) ==
  /\ size.subject \in SubjectTypes /\ size.period \in {"whole_window", "calendar_year"}
  /\ OneOf(size.window, Range(WindowsDays))
  /\ size.cohorts \in Nat
  /\ \A n \in 1 .. 5 : size.quantiles[n] \in Nat /\ (n > 1 => size.quantiles[n - 1] <= size.quantiles[n])
  /\ 0 <= size.under[1] /\ size.under[1] <= size.under[2]

\* Each measurement is of metrics of one threshold; a metric that is suppressed was measured.
AcceptsMeasurements(file) ==
  LET cohorts == file.measurements
  IN /\ IsList(cohorts) /\ cohorts # <<>>
     /\ \A cohort \in Range(cohorts) :
          /\ Distinct(cohort.metrics) /\ Range(cohort.metrics) \subseteq Slugs(file)
          /\ Cardinality({ThresholdOf(file, slug) : slug \in Range(cohort.metrics)}) = 1
          /\ IsList(cohort.sizes) /\ cohort.sizes # <<>>
          /\ \A size \in Range(cohort.sizes) : AcceptsSize(size)
     /\ \A slug \in Slugs(file) :
          ThresholdOf(file, slug) > 0 => \E cohort \in Range(cohorts) : slug \in Range(cohort.metrics)

\* Mutation of Loads: one slug may be listed twice.
LoadsDuplicates(file) ==
  IsList(file.metrics) /\ \A entry \in Range(file.metrics) : AcceptsEntry(entry)

Loads(file) ==
  /\ file.version >= 1
  /\ IsList(file.metrics) /\ file.metrics # <<>>
  /\ AcceptsPeriods(file.periods) /\ AcceptsScopes(file.scopes)
  /\ \A entry \in Range(file.metrics) : AcceptsEntry(entry)
  /\ \A m, n \in DOMAIN file.metrics : file.metrics[m].slug = file.metrics[n].slug => m = n
  /\ AcceptsThresholds(file) /\ AcceptsMeasurements(file)

(***************************************************************************)
(* The definitions of a file.  A revocation metric carries the scope of    *)
(* its index event; the kinds with calendar years are listed once for all. *)
(***************************************************************************)
SetOf(values) == IF values = None THEN {} ELSE Range(values)
SetOrNone(values) == IF values = None THEN None ELSE Range(values)

ScopeOf(file, entry) ==
  IF entry.outcome = "revocation" /\ entry.index # None THEN file.scopes[entry.index] ELSE None

Definition(file, entry) ==
  [slug |-> entry.slug, kind |-> entry.kind, subjects |-> Range(entry.subjects),
   population |-> entry.population,
   rule |-> [entry.rule EXCEPT !.actors = SetOrNone(@), !.discretion = SetOrNone(@)],
   counted |-> IF entry.counted = None THEN {} ELSE entry.counted,
   index |-> entry.index, outcome |-> entry.outcome, scope |-> ScopeOf(file, entry),
   windows |-> SetOf(entry.windows), dimension |-> entry.dimension, measure |-> entry.measure,
   threshold |-> entry.threshold, byYear |-> entry.kind \in Range(file.periods.kinds),
   target |-> IF entry.adjustment = None THEN None ELSE entry.adjustment.target]

DefinitionsOf(file, kinds) ==
  {Definition(file, entry) : entry \in {e \in Range(file.metrics) : e.kind \in kinds}}

ASSUME RegistryAssumption == Loads(RegistryFile)

Definitions == DefinitionsOf(RegistryFile, DescriptiveKinds)

\* A median measures what the rows of its population have; of another the file loads
\* and the computation fails.
ASSUME MediansAssumption ==
  \A def \in Definitions : def.kind = "median" =>
    def.population = IF def.measure = "days_to_disposition" THEN "disposed_cases" ELSE "sentences"

AdjustedEntries == DefinitionsOf(RegistryFile, {ObservedExpected})

(***************************************************************************)
(* metric_definition: one row for each slug and version.  A sync inserts   *)
(* and updates what the file states and leaves every other row; what       *)
(* steers the computation only (population, counted, measure) is not in it.*)
(***************************************************************************)
DefinitionRow(file, entry) ==
  [slug |-> entry.slug, version |-> entry.version, kind |-> entry.kind, subjects |-> entry.subjects,
   rule |-> entry.rule, index |-> entry.index, outcome |-> entry.outcome, windows |-> entry.windows,
   dimension |-> entry.dimension, threshold |-> entry.threshold, unit |-> entry.unit,
   registry |-> file.version]
DefinitionRows(file) == {DefinitionRow(file, entry) : entry \in Range(file.metrics)}

SameDefinition(r, s) == r.slug = s.slug /\ r.version = s.version
SyncDefinitions(stored, file) ==
  {r \in stored : \A s \in DefinitionRows(file) : ~SameDefinition(r, s)} \cup DefinitionRows(file)
\* The rows that a sync inserts or updates.
SyncWrites(stored, file) == DefinitionRows(file) \ stored

=============================================================================
