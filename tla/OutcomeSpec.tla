----------------------------- MODULE OutcomeSpec -----------------------------
(***************************************************************************)
(* The specification of the expected-outcome models and what its loader    *)
(* accepts (metrics/adjustment/spec.py), and which source can support a    *)
(* target (metrics/adjustment/availability.py).  A specification is        *)
(*   [version, targets, features, excluded, minEvents]:          *)
(* "features" is a function from names; a column of the frame is a pair of *)
(* its table and its name; a band is named by its lower bound.             *)
(***************************************************************************)
EXTENDS CaseFrames, Sequences

(***************************************************************************)
(* What the builders of features compute: the kind, the instant a level is *)
(* known at, the columns read besides the keys that join the tables, and   *)
(* whether the levels are the data's own, ordered, or the person's history.*)
(***************************************************************************)
Contract(kind, known, reads) ==
  [kind |-> kind, known |-> known, reads |-> reads, parameters |-> {}, data |-> FALSE,
   ordered |-> FALSE, history |-> FALSE]

Charges(columns) == {<<"charge", c>> : c \in columns}
Filing == {<<"court_case", "filed">>}

FeatureContracts ==
  LET history(c) == [c EXCEPT !.history = TRUE]
      data(c) == [c EXCEPT !.data = TRUE, !.parameters = {"unseen"}]
      taking(c, parameter) == [c EXCEPT !.parameters = {parameter}]
  IN [lead_severity |-> Contract("categorical", "decision_at", Charges({"filed", "severity"})),
      lead_category |-> Contract("categorical", "decision_at",
                                 Charges({"filed", "category", "severity", "id"})),
      charge_count |-> Contract("banded_count", "decision_at", Charges({"filed", "id"})),
      prior_cases |-> history(Contract("banded_count", "filed_at",
                                       Filing \cup Charges({"case", "person"}))),
      prior_convictions |-> history(Contract("banded_count", "filed_at",
                                             Filing \cup Charges({"disposed", "disposition", "filed"}))),
      prior_failures_to_appear |->
        history(taking(Contract("banded_count", "filed_at",
                                {<<"justice_event", "at">>, <<"justice_event", "type">>}),
                       "requires_outcome")),
      pending_case |-> history(Contract("binary", "filed_at",
                                        Filing \cup Charges({"disposed", "disposition", "filed"}))),
      history_truncated |-> taking(Contract("binary", "filed_at", Filing), "lookback_days"),
      court |-> data(Contract("categorical", "filed_at", {<<"court_case", "court">>})),
      jurisdiction |-> data(Contract("categorical", "filed_at", {<<"court", "jurisdiction">>})),
      calendar_year |-> [data(Contract("categorical", "index_at",
                                       {<<"decision", "at">>, <<"decision", "release">>}))
                           EXCEPT !.ordered = TRUE]]

(***************************************************************************)
(* Targets: one model is fitted for each window, or one without.  The      *)
(* population is a registry metric whose attribution is the gate.          *)
(***************************************************************************)
WindowsOf(target) == IF target.windows = {} THEN {None} ELSE target.windows
PopulationOf(target, registry) == CHOOSE m \in registry : m.slug = target.population

AcceptsTarget(target, registry) ==
  \E metric \in registry :
    /\ metric.slug = target.population
    /\ \/ /\ target.index = "decision" /\ target.outcome = "released" /\ target.windows = {}
          /\ metric.population = "pretrial_decisions"
       \/ /\ target.index = "release" /\ target.windows # {}
          /\ metric.kind = "windowed_rate" /\ metric.index = "pretrial_release"
          /\ metric.outcome = target.outcome /\ metric.windows = target.windows

(***************************************************************************)
(* Features.  Whatever else is wrong, one that names a restricted          *)
(* attribute, or what the file excludes, is not accepted.                  *)
(***************************************************************************)
RestrictedKind == "restricted_attribute"
Restricted(vocabularies) == vocabularies[RestrictedKind]

NamesRestricted(name, f, vocabularies) ==
  LET restricted == Restricted(vocabularies)
  IN name \in restricted \/ f.vocabulary \in restricted \cup {RestrictedKind}
     \/ \E c \in f.source : c[1] \in restricted \/ c[2] \in restricted

ExcludedNames(entry, vocabularies) ==
  {entry.name} \cup (IF entry.from = None THEN {} ELSE vocabularies[entry.from])

NamesExcluded(name, f, excluded, vocabularies) ==
  \E entry \in excluded :
    name \in ExcludedNames(entry, vocabularies) \/ f.source \cap entry.columns # {}

Bands(f) == {f.bands[n] : n \in DOMAIN f.bands}
FixedLevels(f) ==
  CASE f.kind = "binary" -> {"false", "true"} [] f.kind = "banded_count" -> Bands(f)
    [] OTHER -> f.levels

AcceptsLevels(f, contract, vocabularies) ==
  CASE contract.data ->
         /\ f.data /\ f.vocabulary = None /\ f.bands = <<>> /\ f.reference = "most_frequent"
         /\ f.unseen \in {"reference"} \cup (IF contract.ordered THEN {"latest"} ELSE {})
    [] contract.kind = "categorical" /\ ~contract.data ->
         /\ f.bands = <<>> /\ f.vocabulary \in DOMAIN vocabularies
         /\ f.levels = vocabularies[f.vocabulary] /\ f.reference \in f.levels
    [] contract.kind = "binary" ->
         f.levels = {} /\ f.vocabulary = None /\ f.bands = <<>> /\ f.reference = "false"
    [] contract.kind = "banded_count" ->
         /\ f.levels = {} /\ f.vocabulary = None /\ f.bands # <<>>
         /\ \A n \in DOMAIN f.bands : f.bands[n] \in Nat /\ (n > 1 => f.bands[n - 1] < f.bands[n])
         /\ f.reference \in Bands(f)

AcceptsMissing(f) ==
  CASE f.missing = "exclude" -> f.missingLevel = None
    [] f.missing = "level" -> f.missingLevel # None /\ (f.data \/ f.missingLevel \notin FixedLevels(f))

AcceptsFeature(name, f, excluded, vocabularies) ==
  /\ ~NamesRestricted(name, f, vocabularies)
  /\ ~NamesExcluded(name, f, excluded, vocabularies)
  /\ name \in DOMAIN FeatureContracts
  /\ LET contract == FeatureContracts[name]
         given == {p \in {"lookback_days", "requires_outcome"} : f.parameters[p] # None}
     IN /\ f.kind = contract.kind /\ f.known = contract.known
        /\ f.source = contract.reads
        /\ AcceptsLevels(f, contract, vocabularies)
        /\ ~contract.data => f.unseen = None
        /\ AcceptsMissing(f)
        /\ given = contract.parameters \ {"unseen"}
        /\ f.history = contract.history

(***************************************************************************)
(* The whole file.                                                         *)
(***************************************************************************)
Accepts(spec, registry, vocabularies) ==
  /\ spec.version >= 1
  /\ spec.targets # {} /\ \A t \in spec.targets : AcceptsTarget(t, registry)
  /\ \A t, u \in spec.targets : t.name = u.name => t = u
  /\ \E entry \in spec.excluded : entry.from = RestrictedKind
  /\ \A entry \in spec.excluded : entry.from \in {None} \cup DOMAIN vocabularies
  /\ DOMAIN spec.features # {}
  /\ \A name \in DOMAIN spec.features :
       AcceptsFeature(name, spec.features[name], spec.excluded, vocabularies)
  /\ spec.minEvents >= 0

(***************************************************************************)
(* Whether a source can support a target: the first condition it fails, or *)
(* None.  The released-or-not outcome is the decision itself.              *)
(***************************************************************************)
PersonHistory(spec) == {name \in DOMAIN spec.features : spec.features[name].history}

UnavailableReason(spec, target, source, registry) ==
  IF PopulationOf(target, registry).rule.gate \notin source.gates THEN "gate"
  ELSE IF target.index # "decision" /\ target.outcome \notin source.observable THEN "outcome"
  ELSE IF PersonHistory(spec) # {} /\ ~source.crosses THEN "person_key"
  ELSE None

=============================================================================
