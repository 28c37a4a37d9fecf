---------------------------- MODULE MCCaseMetrics ----------------------------
(***************************************************************************)
(* A small instance of CaseMetrics: years of ten days, two sources and two *)
(* courts, three judges, and persons of whom one may be an alias.  k1 and  *)
(* k2 end in terms that overlap; k3 is filed after them; k4 is a case that *)
(* another source, which documents no such outcome, has of the same person.*)
(***************************************************************************)
EXTENDS FigureReads, MemberStorage

CONSTANT Unrecorded      \* the level of a feature whose value is not recorded

Case(id, source, court, filed) ==
  [table |-> "court_case", id |-> id, source |-> source, court |-> court, filed |-> filed]
Assigned(id, case, judge, start, stop) ==
  [table |-> "judge_assignment", id |-> id, case |-> case, judge |-> judge, start |-> start, stop |-> stop]
Charge(id, case, person, filed, disposed, disposition, judge, severity, category) ==
  [table |-> "charge", id |-> id, case |-> case, person |-> person, filed |-> filed,
   disposed |-> disposed, disposition |-> disposition, judge |-> judge,
   actor |-> IF disposition = "dismissed" THEN "judge" ELSE None,
   severity |-> severity, category |-> category]
Decided(id, case, person, judge, at, actor, discretion, release, detained) ==
  [table |-> "decision", id |-> id, case |-> case, person |-> person, judge |-> judge,
   type |-> "pretrial_release", at |-> at, actor |-> actor, discretion |-> discretion,
   release |-> release, detained |-> detained]
Sentenced(id, case, person, judge, at, days) ==
  [table |-> "sentence", id |-> id, case |-> case, person |-> person, judge |-> judge, at |-> at,
   days |-> days, probation |-> None, replaced |-> FALSE]
Heard(id, case, person, judge, type, at) ==
  [table |-> "court_event", id |-> id, case |-> case, person |-> person, judge |-> judge, type |-> type, at |-> at]
Failed(id, case, person, at) ==
  {Heard(id, case, person, None, "failure_to_appear", at),
   [table |-> "justice_event", id |-> id, person |-> person, type |-> "failure_to_appear", at |-> at,
    related |-> case]}

MCBatches ==
  {{Case("k1", "syn", "c1", 1), Assigned(1, "k1", "j1", 0, 6), Assigned(2, "k1", "j2", 6, None),
    Charge(1, "k1", 1, 1, None, "pending", None, 2, "drug")},
   {Decided(1, "k1", 1, "j3", 2, "judge", "discretionary", 3, "false")},
   {Decided(1, "k1", 1, "j2", 1, "judge", "discretionary", 3, "false")} \cup Failed(1, "k1", 1, 4),
   {Charge(1, "k1", 1, 1, 8, "convicted_plea", "j2", 2, "drug"), Sentenced(1, "k1", 1, "j2", 8, 6)},
   {Charge(5, "k1", 2, 1, 8, "dismissed", "j2", 3, "drug")},
   {Case("k2", "syn", "c1", 10), Assigned(3, "k2", "j1", 10, None),
    Charge(2, "k2", 2, 10, 12, "convicted_verdict", "j1", 1, "property"),
    Decided(2, "k2", 2, None, 11, "legislature_or_mandatory_rule", "mandatory", 11, "false"),
    Sentenced(2, "k2", 2, "j1", 12, 10)},
   {Case("k3", "syn", "c2", 24), Assigned(4, "k3", "j1", 24, None),
    Charge(3, "k3", 1, 24, 30, "convicted_plea", "j1", 1, "property"),
    Decided(3, "k3", 1, "j1", 25, "judge", "discretionary", 28, "false"),
    Sentenced(3, "k3", 1, "j1", 30, None)} \cup Failed(2, "k3", 1, 33),
   {Charge(6, "k2", 1, 26, None, "pending", None, 2, "drug"), Heard(3, "k2", None, "j2", "hearing", 27),
    Heard(4, "k2", 2, None, "hearing", 28),
    Case("k4", "other", "c2", 26), Charge(4, "k4", 1, 26, 30, "convicted_plea", "j3", 1, "drug"),
    Sentenced(4, "k4", 1, None, 33, 5)}}

MCProfile ==
  [s \in Sources |->
     IF s = "syn"
     THEN [start |-> 0, end |-> 39, gates |-> Gates, crosses |-> TRUE, scopes |-> {"release", "supervision"},
           observable |-> {"failure_to_appear", "new_case", "reconviction"}]
     ELSE [start |-> 20, end |-> 31, gates |-> {"disposing_judge", "sentencing_judge"},
           crosses |-> FALSE, scopes |-> {"supervision"}, observable |-> {"revocation"}]]

(***************************************************************************)
(* The registry file.                                                      *)
(***************************************************************************)
MCWindowsDays == <<5, 12>>

Rule(type, actors, discretion, gate) ==
  [type |-> type, actors |-> actors, discretion |-> discretion, gate |-> gate]
Judicial == Rule("pretrial_release", <<"judge">>, <<"discretionary">>, "deciding_judge")
ByGate(gate) == Rule(None, None, None, gate)
Figure(slug, kind, population, rule, unit) ==
  [slug |-> slug, kind |-> kind, subjects |-> <<"judge", "court">>, population |-> population,
   rule |-> rule, counted |-> None, index |-> None, outcome |-> None, windows |-> None,
   dimension |-> None, measure |-> None, threshold |-> 0, unit |-> unit, version |-> 1,
   adjustment |-> None]
After(slug, kind, index, rule, outcome) ==
  [Figure(slug, kind, "index_events", rule, "share") EXCEPT
     !.index = index, !.outcome = outcome, !.windows = MCWindowsDays, !.threshold = 2]
Adjusted(slug, target, population, index, outcome, windows) ==
  [Figure(slug, ObservedExpected, population, Judicial, "ratio") EXCEPT
     !.subjects = <<"judge">>, !.index = index, !.outcome = outcome, !.windows = windows,
     !.threshold = 2, !.adjustment = [target |-> target, minimum |-> 5]]

MCMetrics ==
  <<Figure("eligible_cases", "count", "cases", ByGate("assigned_ever"), "count"),
    Figure("eligible_defendants", "count", "defendants", ByGate("assigned_ever"), "count"),
    [Figure("pretrial_release_share", "share", "pretrial_decisions", Judicial, "share") EXCEPT
       !.counted = {[column |-> "detained", value |-> "false"]}],
    [Figure("statutory_release_count", "count", "pretrial_decisions",
            Rule("pretrial_release", <<"legislature_or_mandatory_rule">>, <<"mandatory">>, "court_of_case"),
            "count")
       EXCEPT !.subjects = <<"court">>],
    [Figure("judicial_dismissal_rate", "share", "disposed_charges", ByGate("disposing_judge"), "share") EXCEPT
       !.counted = {[column |-> "disposition", value |-> "dismissed"], [column |-> "actor", value |-> "judge"]}],
    [Figure("disposition_distribution", "distribution", "disposed_charges", ByGate("disposing_judge"), "share")
       EXCEPT !.dimension = "disposition"],
    [Figure("median_days_to_disposition", "median", "disposed_cases", ByGate("disposing_judge"), "days") EXCEPT
       !.measure = "days_to_disposition"],
    [Figure("incarceration_days_median_by_offense_category", "median", "sentences",
            ByGate("sentencing_judge"), "days")
       EXCEPT !.measure = "days", !.dimension = "offense_category"],
    After("failure_to_appear_rate", "windowed_rate", "pretrial_release", Judicial, "failure_to_appear"),
    After("new_case_rate", "windowed_rate", "pretrial_release", Judicial, "new_case"),
    After("new_case_survival", "survival", "pretrial_release", Judicial, "new_case"),
    After("reconviction_rate_after_disposition", "windowed_rate", "disposition", ByGate("disposing_judge"),
          "reconviction"),
    After("new_case_rate_after_sentence", "windowed_rate", "sentence", ByGate("sentencing_judge"), "new_case"),
    Adjusted("adjusted_pretrial_release_ratio", "pretrial_release", "pretrial_decisions", None, None, None),
    Adjusted("adjusted_new_case_ratio", "new_case", "index_events", "pretrial_release", "new_case",
             MCWindowsDays),
    Adjusted("adjusted_failure_to_appear_ratio", "failure_to_appear", "index_events", "pretrial_release",
             "failure_to_appear", MCWindowsDays)>>

SlugsOf(threshold) ==
  LET listed == SelectSeq(MCMetrics, LAMBDA entry : entry.threshold = threshold)
  IN [n \in DOMAIN listed |-> listed[n].slug]
MCRegistryFile ==
  [version |-> 3, metrics |-> MCMetrics,
   periods |-> [kinds |-> <<"count", "share", "windowed_rate", "survival", "distribution", "median">>,
                anchors |-> PopulationAnchors],
   scopes |-> [index \in IndexKinds |-> IF index = "pretrial_release" THEN "release" ELSE "supervision"],
   thresholds |-> <<[threshold |-> 0, metrics |-> SlugsOf(0)], [threshold |-> 2, metrics |-> SlugsOf(2)]>>,
   measurements |->
     <<[metrics |-> SlugsOf(2),
        sizes |-> <<[subject |-> "judge", period |-> "whole_window", window |-> 12, cohorts |-> 3,
                     quantiles |-> <<1, 1, 2, 3, 4>>, under |-> <<1, 3>>]>>]>>]

MCVocabularies ==
  [event_type |-> {"hearing", "failure_to_appear", "revocation"}, party_type |-> {"defendant"},
   synthetic_group |-> {"A", "B"}, severity |-> 1 .. 3, offense_category |-> {"drug", "property"}, restricted_attribute |-> {"race", "sex"},
   decision_type |-> {"pretrial_release"}, actor_type |-> {"judge", "legislature_or_mandatory_rule"},
   judicial_discretion_classification |-> {"discretionary", "mandatory"},
   charge_disposition |-> {"pending", "dismissed", "acquitted", "convicted_plea", "convicted_verdict"},
   justice_event_type |-> {"failure_to_appear", "new_case", "reconviction", "revocation"}]

(***************************************************************************)
(* The synthetic world's judges and persons; person 1 turns 25 on day 10.  *)
(***************************************************************************)
Tenure(judge, court, start, stop) == [judge |-> judge, court |-> court, start |-> start, stop |-> stop]
MCTenures ==
  {Tenure("j1", "c1", 0, 19), Tenure("j1", "c2", 20, None), Tenure("j2", "c1", 0, 29), Tenure("j3", "c1", 0, None)}
MCDescribed ==
  [p \in Persons |-> IF p = 1 THEN [born |-> -240, group |-> "A"] ELSE [born |-> None, group |-> "B"]]

\* A set of files is not read of which one is missing, another than the manifest lists,
\* without a column, or of another version of the generator.
ASSUME SourceRefusalsAssumption ==
  LET files == RenderSource({}, {})
      manifest == ManifestOf(files)
      bare == [files EXCEPT !["courts"] = {[court_code |-> r.court_code] : r \in @}]
  IN /\ Accepted(manifest, files)
     /\ ~Accepted(manifest, [f \in SourceFiles \ {"events"} |-> files[f]])
     /\ ~Accepted(manifest, [files EXCEPT !["judges"] = {}])
     /\ ~Accepted(ManifestOf(bare), bare)
     /\ ~Accepted([manifest EXCEPT !.version = "2"], files)
     /\ ~Accepted([manifest EXCEPT !.corpus = <<9, 8>>], files)

\* One change to an entry of the file.
Edited(n, entry) == [MCRegistryFile EXCEPT !.metrics[n] = entry]
\* A file does not load that lists a slug twice, gates by the disposing judge what has
\* none, asks a window of a plain figure or none of a cohort, adjusts for a court,
\* names a value out of the vocabulary, or forgets the threshold it is grouped by.
ASSUME RegistryRefusalsAssumption ==
  \A file \in {Edited(2, MCMetrics[1]),
               Edited(1, [MCMetrics[1] EXCEPT !.rule.gate = "disposing_judge"]),
               Edited(1, [MCMetrics[1] EXCEPT !.index = "sentence"]),
               Edited(7, [MCMetrics[7] EXCEPT !.measure = None]),
               Edited(6, [MCMetrics[6] EXCEPT !.dimension = None]),
               Edited(9, [MCMetrics[9] EXCEPT !.windows = <<12, 5>>]),
               Edited(9, [MCMetrics[9] EXCEPT !.outcome = "arrest"]),
               Edited(9, [MCMetrics[9] EXCEPT !.threshold = 0]),
               Edited(14, [MCMetrics[14] EXCEPT !.subjects = <<"judge", "court">>]),
               Edited(15, [MCMetrics[15] EXCEPT !.index = "disposition"]),
               [MCRegistryFile EXCEPT !.periods.kinds = <<"count", ObservedExpected>>],
               [MCRegistryFile EXCEPT !.measurements[1].sizes[1].quantiles = <<1, 2, 1, 3, 4>>]} :
    ~Loads(file)

\* A sync of the file on a database that holds an older version of it keeps the rows
\* of that version as history, and one more sync of the same file writes nothing.
Older == [MCRegistryFile EXCEPT !.version = 2, !.metrics = <<[MCMetrics[1] EXCEPT !.version = 0]>> \o Tail(@)]
ASSUME SyncAssumption ==
  LET first == SyncDefinitions({}, Older)
      second == SyncDefinitions(first, MCRegistryFile)
  IN /\ SyncWrites(first, Older) = {} /\ SyncWrites(second, MCRegistryFile) = {}
     /\ Cardinality(second) = Len(MCMetrics) + 1
     /\ SyncWrites(first, MCRegistryFile) = DefinitionRows(MCRegistryFile)

(***************************************************************************)
(* The outcome models.                                                     *)
(***************************************************************************)
MCJurisdiction == [c \in {"c1", "c2"} |-> IF c = "c1" THEN "g1" ELSE "g2"]

Parameters == [lookback_days |-> None, requires_outcome |-> None]
Feature(name, reference) ==
  LET contract == FeatureContracts[name]
  IN [source |-> contract.reads, kind |-> contract.kind, known |-> contract.known,
      reference |-> reference, missing |-> "exclude", missingLevel |-> None, levels |-> {}, data |-> FALSE,
      bands |-> <<>>, vocabulary |-> None, unseen |-> None, parameters |-> Parameters,
      history |-> contract.history]
Listed(name, reference, vocabulary) ==
  [Feature(name, reference) EXCEPT !.vocabulary = vocabulary, !.levels = MCVocabularies[vocabulary]]
Recorded(f) == [f EXCEPT !.missing = "level", !.missingLevel = Unrecorded]
Banded(name, bands) == [Feature(name, bands[1]) EXCEPT !.bands = bands]
FromData(name, unseen) == [Feature(name, "most_frequent") EXCEPT !.data = TRUE, !.unseen = unseen]

MCFeatures ==
  [lead_severity |-> Listed("lead_severity", 1, "severity"),
   lead_category |-> Listed("lead_category", "drug", "offense_category"),
   charge_count |-> Banded("charge_count", <<1, 2>>),
   prior_cases |-> Recorded(Banded("prior_cases", <<0, 1, 2>>)),
   prior_convictions |-> Recorded(Banded("prior_convictions", <<0, 1>>)),
   prior_failures_to_appear |->
     [Recorded(Banded("prior_failures_to_appear", <<0, 1>>)) EXCEPT
        !.parameters.requires_outcome = "failure_to_appear"],
   pending_case |-> Recorded(Feature("pending_case", "false")),
   history_truncated |-> [Recorded(Feature("history_truncated", "false")) EXCEPT !.parameters.lookback_days = 5],
   court |-> FromData("court", "reference"),
   jurisdiction |-> Recorded(FromData("jurisdiction", "reference")),
   calendar_year |-> FromData("calendar_year", "latest")]

Target(name, population, index, outcome, windows) ==
  [name |-> name, population |-> population, index |-> index, outcome |-> outcome, windows |-> windows]
MCSpecification ==
  [version |-> 3, features |-> MCFeatures, minEvents |-> 1,
   targets |-> {Target("pretrial_release", "pretrial_release_share", "decision", "released", {}),
                Target("new_case", "new_case_rate", "release", "new_case", {5, 12}),
                Target("failure_to_appear", "failure_to_appear_rate", "release", "failure_to_appear", {5, 12})},
   excluded |-> {[name |-> "restricted_attributes", from |-> "restricted_attribute", columns |-> {}],
                 [name |-> "judge", from |-> None, columns |-> {<<"decision", "judge">>}]}]

\* One change to a feature of the specification.
Changed(name, f) == [MCSpecification EXCEPT !.features[name] = f]
\* A file that says of a feature what its builder does not compute, or that lets in
\* what it excludes, does not load.
ASSUME RefusalsAssumption ==
  \A spec \in {Changed("charge_count", [MCFeatures.charge_count EXCEPT !.known = "filed_at"]),
               Changed("charge_count", [MCFeatures.charge_count EXCEPT !.bands = <<1, 1>>]),
               Changed("charge_count", [MCFeatures.charge_count EXCEPT !.source = Charges({"filed"})]),
               Changed("lead_severity", [MCFeatures.lead_severity EXCEPT !.levels = {1, 2}]),
               Changed("pending_case", [MCFeatures.pending_case EXCEPT !.history = FALSE]),
               Changed("prior_cases", [MCFeatures.prior_cases EXCEPT !.missingLevel = 2]),
               Changed("court", [MCFeatures.court EXCEPT !.unseen = "latest"]),
               Changed("lead_category", [MCFeatures.lead_category EXCEPT !.vocabulary = RestrictedKind]),
               [MCSpecification EXCEPT !.excluded = {x \in @ : x.from = None}]} :
    ~Accepts(spec, Definitions, MCVocabularies)

\* Courts, judges and persons under each other's ids.
Swap(x, a, b) == IF x = a THEN b ELSE IF x = b THEN a ELSE x
DesignsIgnoreIdentifiers ==
  IdentifiersInvisible(LAMBDA c : Swap(c, "c1", "c2"), LAMBDA j : Swap(j, "j1", "j3"),
                       LAMBDA p : Swap(p, 1, 2))

\* The designs of adjusted figures know nothing of later than the instant they say,
\* read nothing but what they state, are the same models under other canonical ids,
\* and their ratios are about the members of the figures they adjust (spec.py,
\* features.py, the adjusted part of metrics/compute.py).
DesignsSound == FeaturesKeepContract /\ DesignsIgnoreIdentifiers /\ RatiosMeetFigures

(***************************************************************************)
(* Readers.                                                                *)
(***************************************************************************)
MCJudgeName == [j \in {"j1", "j2", "j3"} |-> IF j = "j2" THEN "jones" ELSE "smith"]
Serves(id, judge, court, start) == [id |-> id, judge |-> judge, court |-> court, start |-> start]
MCService == {Serves(1, "j1", "c1", 0), Serves(2, "j1", "c2", 20), Serves(3, "j2", "c1", None),
              Serves(4, "j3", "c2", 5), Serves(5, "j3", "c1", None), Serves(6, "j3", "c2", None)}

Texts == <<"acquitted", "convicted_plea", "convicted_verdict", "dismissed", "drug", "j1", "j2", "j3",
           "jones", "property", "smith", "unknown", None>>
MCCollation == [t \in Range(Texts) |-> CHOOSE n \in DOMAIN Texts : Texts[n] = t]

Ask(slug, window, sort, order, limit) ==
  [slug |-> slug, window |-> window, scope |-> "court", of |-> "c1", start |-> None, end |-> None,
   sort |-> sort, order |-> order, limit |-> limit]
Between(q, start, end) == [q EXCEPT !.start = start, !.end = end]
Within(q, jurisdiction) == [q EXCEPT !.scope = "jurisdiction", !.of = jurisdiction]
MCQueries ==
  LET appearance == Ask("failure_to_appear_rate", 12, "rate", "desc", 1)
      released == Ask("pretrial_release_share", None, "rate", "desc", 2)
      days == Ask("median_days_to_disposition", None, "value", "asc", 1)
  IN {appearance, [appearance EXCEPT !.order = "asc"], [appearance EXCEPT !.sort = "numerator"],
      Within(appearance, "g1"), Between(appearance, 0, 9), Between(appearance, 9, 0),
      [appearance EXCEPT !.of = "c9"], [appearance EXCEPT !.window = None],
      released, Between(released, 0, 39), Between(released, 0, None), Between(released, None, 29),
      [released EXCEPT !.window = 5], [released EXCEPT !.sort = "denominator"],
      days, [days EXCEPT !.sort = "name"], Within(days, "g2"),
      Ask("new_case_survival", 12, "rate", "asc", 2),
      Within(Ask("disposition_distribution", None, "numerator", "desc", 3), "g2"),
      Ask("incarceration_days_median_by_offense_category", None, "value", "desc", 1),
      Ask("statutory_release_count", None, "numerator", "desc", 1)}

=============================================================================
