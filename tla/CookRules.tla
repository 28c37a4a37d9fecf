------------------------------ MODULE CookRules ------------------------------
(***************************************************************************)
(* The rule tables of the Cook County source (ingest/cook_sao/rules.py):   *)
(* what the loader accepts, and the matchers that turn a coded value into  *)
(* a canonical one.                                                        *)
(*                                                                         *)
(* A record t holds the seven tables.  A table is a sequence of entries,   *)
(* each a record with its source value as the key.  The shape of a YAML    *)
(* block (missing and unknown fields, types, texts that must not be empty, *)
(* citations) is left out: an entry has exactly its fields.  explained     *)
(* stands for a rationale that holds the text UNKNOWN_REASON.              *)
(***************************************************************************)
EXTENDS Integers, Sequences, FiniteSets

CONSTANTS
  Vocabulary,  \* the values of each kind of the case vocabulary
  NormalName,  \* the normalized form of each judge string
  NormalLabel  \* the normalized form of each race or gender label

Blank == ""    \* a cell, or a value of a table, that is not there
Unknown == "unknown"
NonJudicialActors == {"prosecutor", "jury", "law_enforcement"}
Regimes == {"monetary_bail", "pretrial_fairness_act"}
\* f over g.
Over(f, g) == [x \in DOMAIN f \cup DOMAIN g |-> IF x \in DOMAIN f THEN f[x] ELSE g[x]]
NoDays == -1   \* a term without a day count
BlankTerm == -1
UnreadableTerm == -2

Known(kind, value) == value \in Vocabulary[kind]
KnownOrBlank(kind, value) == value = Blank \/ Known(kind, value)

Entries(table) == {table[i] : i \in DOMAIN table}
Keys(table) == {entry.key : entry \in Entries(table)}
\* _unique: no source value is listed twice.
Unique(table) == \A i, j \in DOMAIN table : table[i].key = table[j].key => i = j
\* The entries of a key: one or none in an accepted table.
Listed(table, key) == {entry \in Entries(table) : entry.key = key}
The(entries) == CHOOSE entry \in entries : TRUE
EntryOr(table, key, fallback) == The(IF key \in Keys(table) THEN Listed(table, key) ELSE {fallback})
-----------------------------------------------------------------------------
(* What the loader accepts. *)

\* The actor and the discretion are checked against each other and the rationale.
Attributed(r) ==
  /\ Known("actor_type", r.actor)
  /\ Known("judicial_discretion_classification", r.discretion)
  /\ r.actor \in NonJudicialActors => r.discretion = "non_judicial"
  /\ r.actor = Unknown => r.discretion = Unknown
  /\ Unknown \in {r.actor, r.discretion} => r.explained

ValidDisposition(r) ==
  /\ Known("charge_disposition", r.disposition)
  /\ r.final <=> r.disposition \in Vocabulary["final_charge_disposition"]
  /\ Attributed(r)
  /\ KnownOrBlank("judicial_ruling", r.ruling)
  /\ KnownOrBlank("event_type", r.event)

ValidDispositions(t) ==
  /\ Unique(t.dispositions)
  /\ \A r \in Entries(t.dispositions) : ValidDisposition(r) /\ r.key[1] # Blank
  /\ ValidDisposition(t.fallback) /\ ~t.fallback.final /\ t.fallback.actor = Unknown

ValidReviews(t) ==
  /\ Unique(t.reviews)
  /\ \A r \in Entries(t.reviews) \cup {t.reviewFallback} :
       KnownOrBlank("charging_outcome", r.outcome) /\ Attributed(r)

ValidPrograms(t) ==
  /\ Unique(t.programs)
  /\ \A r \in Entries(t.programs) \cup {t.programFallback} :
       /\ KnownOrBlank("diversion_stage", r.stage) /\ Attributed(r)
       /\ r.stage = Blank => r.explained

ValidEvents(t) ==
  /\ Unique(t.results) /\ Unique(t.events)
  /\ \A r \in Entries(t.results) \cup Entries(t.events) \cup {t.resultFallback} :
       KnownOrBlank("event_type", r.event)
  /\ Known("event_type", t.finding.event) /\ Known("actor_type", t.finding.actor)
  /\ Known("judicial_ruling", t.finding.ruling) /\ t.finding.value # Blank

ValidBondUnclaimed(r) ==  \* mutant
  Attributed(r) /\ Known("release_type", r.release) /\ r.key[2] \in Regimes
ValidBond(r) ==
  /\ Attributed(r)
  /\ Known("release_type", r.release) /\ r.key[1] # Blank /\ r.key[2] \in Regimes
  /\ r.detained <=> r.release = "detained"
  /\ r.releases => ~r.detained /\ r.release # "monetary_bond"

ValidPretrial(t) ==
  /\ t.until = t.actEffective
  /\ Unique(t.bonds)
  /\ \A r \in Entries(t.bonds) : ValidBond(r)
  /\ \A key \in Keys(t.bonds), regime \in Regimes : <<key[1], regime>> \in Keys(t.bonds)
  /\ Known("release_condition", t.monitoring.condition) /\ t.monitoring.value # Blank

\* A unit's factor is in ten-thousandths of a day, 0 without one.
ValidUnits(t) ==
  /\ Unique(t.units) /\ t.maximumDays >= 1
  /\ \A u \in Entries(t.units) :
       KnownOrBlank("sentence_term_flag", u.flag) /\ (u.factor = 0 <=> u.flag # Blank)

ValidPhases(t) ==
  /\ Unique(t.phases)
  /\ \A p \in Entries(t.phases) :
       KnownOrBlank("sentence_phase", p.phase) /\ (p.ignored <=> p.phase = Blank)

ValidSentenceTypes(t) ==
  /\ Unique(t.types)
  /\ \A s \in Entries(t.types) :
       /\ KnownOrBlank("sentence_component", s.component)
       /\ KnownOrBlank("sentence_term_flag", s.flag)
       /\ s.terminates \in {Blank, "instanter", "satisfactory", "unsatisfactory"}
       /\ s.terminates # Blank => s.component = Blank

ValidCommitments(t) ==
  /\ Unique(t.commitments)
  /\ \A c \in Entries(t.commitments) :
       KnownOrBlank("sentence_component", c.component) /\ KnownOrBlank("sentence_term_flag", c.flag)

OffenseKind == [offense_category |-> "offense_category", class |-> "severity"]
ValidOffenses(t) ==
  /\ Unique(t.offenses)
  /\ \A o \in Entries(t.offenses) :
       /\ o.key[1] \in DOMAIN OffenseKind
       /\ Known(OffenseKind[o.key[1]], o.value) /\ o.value # Unknown

ValidCourts(t) ==
  /\ Unique(t.courts) /\ Unique(t.courtNames) /\ Unique(t.facilities)
  /\ Cardinality({c \in Entries(t.courts) : c.parent = Blank}) = 1
  /\ \A c \in Entries(t.courts) :
       c.parent \in Keys(t.courts) \cup {Blank} /\ (c.district = 0 <=> c.parent = Blank)
  /\ \A n \in Entries(t.courtNames) : n.court \in Keys(t.courts)
  /\ \A f \in Entries(t.facilities) : f.court \in Keys(t.courts) \cup {Blank}
  /\ Blank \in Keys(t.courtNames) /\ Blank \in Keys(t.facilities)

ResolvingRules == {"exact", "spacing_or_case", "family_given_order", "middle_present_or_absent"}
HoldingRules ==
  {"given_initial_only", "family_name_only", "given_name_variant", "family_name_variant"}

ValidAlias(t, a) ==
  /\ a.key # Blank /\ a.normalized = NormalName[a.key]
  /\ a.status \in {"resolved", "ambiguous", "unresolved"}
  /\ a.status = "resolved" =>
       a.judge \in Keys(t.judges) /\ a.rule \in ResolvingRules /\ a.candidates = {}
  /\ a.status # "resolved" => a.judge = Blank /\ a.rule \in HoldingRules
  /\ a.status = "ambiguous" => Cardinality(a.candidates) >= 2
  /\ a.candidates \subseteq Keys(t.judges)
  /\ a.rule # "exact" => a.reasoned

ValidJudges(t) ==
  /\ Unique(t.judges) /\ \A j \in Entries(t.judges) : Known("position", j.position)
  /\ Unique(t.aliases)
  /\ \A i, j \in DOMAIN t.aliases : t.aliases[i].normalized = t.aliases[j].normalized => i = j
  /\ \A a \in Entries(t.aliases) : ValidAlias(t, a)
  /\ Keys(t.judges) = {a.judge : a \in Entries(t.aliases)} \ {Blank}

ValidTables(t) ==
  /\ ValidDispositions(t) /\ ValidReviews(t) /\ ValidPrograms(t) /\ ValidEvents(t)
  /\ ValidPretrial(t)
  /\ ValidUnits(t) /\ ValidPhases(t) /\ ValidSentenceTypes(t) /\ ValidCommitments(t)
  /\ ValidOffenses(t) /\ ValidCourts(t) /\ ValidJudges(t)
-----------------------------------------------------------------------------
(* The matchers. *)

\* The exact pair's rule, else the disposition's wildcard rule, else the fallback.
DispositionRule(t, disposition, reason) ==
  LET pair == <<disposition, reason>>
      any  == <<disposition, "*">>
  IN  EntryOr(t.dispositions, pair, EntryOr(t.dispositions, any, t.fallback))

ReviewRule(t, result) == EntryOr(t.reviews, result, t.reviewFallback)
ProgramRule(t, program) == EntryOr(t.programs, program, t.programFallback)
ResultRule(t, result) == EntryOr(t.results, result, t.resultFallback)

\* A bond is read under the regime that its own day falls in.
Regime(t, day) == IF day >= t.actEffective THEN "pretrial_fairness_act" ELSE "monetary_bail"
BondRules(t, type, day) == Listed(t.bonds, <<type, Regime(t, day)>>)
Monitored(t, flag) == flag = t.monitoring.value

\* term is in tenths of the unit; the product is rounded half up to a whole day.
TermDays(t, term, unit) ==
  LET units == Listed(t.units, unit)
      u     == The(units)
      days  == (term * u.factor + 50000) \div 100000
  IN  CASE unit = Blank                 -> [days |-> NoDays, flag |-> "missing_term"]
        [] unit # Blank /\ units = {}   -> [days |-> NoDays, flag |-> "unparseable_term"]
        [] units # {} /\ u.factor = 0   -> [days |-> NoDays, flag |-> u.flag]
        [] units # {} /\ u.factor # 0 /\ term = BlankTerm ->
             [days |-> NoDays, flag |-> "missing_term"]
        [] units # {} /\ u.factor # 0 /\ term = UnreadableTerm ->
             [days |-> NoDays, flag |-> "unparseable_term"]
        [] units # {} /\ u.factor # 0 /\ term >= 0 ->
             IF days > t.maximumDays THEN [days |-> NoDays, flag |-> "implausible_term"]
             ELSE [days |-> days, flag |-> Blank]

\* The rules a Sentencing row matches: a phase, a type and, when it has one, a commitment.
SentenceMatched(t, r) ==
  /\ r.phase \in Keys(t.phases) /\ r.type \in Keys(t.types)
  /\ r.commitment \in Keys(t.commitments) \cup {Blank}

\* A matched row: what it adds to the sentence, and the term it adds days to.
SentenceRow(t, r) ==
  LET phase == The(Listed(t.phases, r.phase))
      type  == The(Listed(t.types, r.type))
      named == {c.component : c \in Listed(t.commitments, r.commitment)} \ {Blank}
      term  == IF type.terminates # Blank THEN Blank
               ELSE The(IF named # {} THEN named ELSE {type.component})
      converted == TermDays(t, r.term, r.unit)
  IN  [phase |-> phase.phase, supersedes |-> phase.supersedes, corrects |-> phase.corrects,
       revocation |-> phase.revocation, terminates |-> type.terminates,
       components |-> IF type.terminates # Blank THEN {} ELSE {type.component, term} \ {Blank},
       term |-> term, days |-> IF term # Blank THEN converted.days ELSE NoDays,
       flags |-> ({converted.flag, type.flag} \cup
                  {c.flag : c \in {c \in Listed(t.commitments, r.commitment) : type.terminates = Blank}})
                   \ {Blank}]

Offense(t, field, value) == {o.value : o \in Listed(t.offenses, <<field, value>>)}
OffenseCategory(t, value) == IF value = Blank THEN {} ELSE Offense(t, "offense_category", value)
Severity(t, class) == Offense(t, "class", class)

\* A row's court: its court name's, or a district courthouse's when the name is blank.
CourtsOfRow(t, name, facility) ==
  LET of(f) == f.court
      placed == {of(f) : f \in Listed(t.facilities, facility)} \ {Blank}
  IN  IF name \notin Keys(t.courtNames) \/ facility \notin Keys(t.facilities) THEN {}
      ELSE IF name = Blank /\ placed # {} THEN placed
      ELSE {n.court : n \in Listed(t.courtNames, name)}

\* A case's court from its rows' courts: its one district, else the parent court.
CaseCourt(t, rowCourts) ==
  LET parent    == The({c.key : c \in {c \in Entries(t.courts) : c.parent = Blank}})
      districts == rowCourts \ {parent}
  IN  IF Cardinality(districts) = 1 THEN The(districts) ELSE parent

\* The judges a string resolves to, by the string and then by its normalized form.
JudgesNamed(t, string) ==
  LET exact == Listed(t.aliases, string)
      alike == {a \in Entries(t.aliases) : a.normalized = NormalName[string]}
  IN  IF string = Blank THEN {}
      ELSE {a.judge : a \in IF exact # {} THEN exact ELSE alike} \ {Blank}

\* A race or gender label is accepted when the vocabulary lists its normalized form.
RestrictedCategory(kind, label) == {NormalLabel[label]} \cap Vocabulary[kind]
=============================================================================
