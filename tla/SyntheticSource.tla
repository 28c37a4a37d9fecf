-------------------------- MODULE SyntheticSource --------------------------
(***************************************************************************)
(* The synthetic world as files: the rows the generator writes of it       *)
(* (synthetic/writer.py, synthetic/generate.py), what the connector checks *)
(* and reads of them (ingest/synthetic/connector.py, parse.py, schema.py), *)
(* and the drafts it makes of the rows (normalize.py, ingest/base.py).  A  *)
(* file is the set of its rows, an empty cell is None; columns that are    *)
(* prose or an amount of money are left out.                               *)
(***************************************************************************)
EXTENDS SyntheticTruth, MetricRegistry

CONSTANTS
  Tenures,      \* the service records of the judges: [judge, court, start, stop]
  Described     \* Described[p]: the birth of person p, None when withheld, and the group

ASSUME TenuresAssumption == \A t \in Tenures : DOMAIN t = {"judge", "court", "start", "stop"}
ASSUME DescribedAssumption == \A p \in Persons : DOMAIN Described[p] = {"born", "group"}

(***************************************************************************)
(* The nine files.                                                         *)
(***************************************************************************)
OfCase == {"case_number", "court_code"}
ExpectedHeaders ==
  [courts |-> {"court_code", "jurisdiction"},
   judges |-> {"judge_code", "court_code", "start_date", "end_date"},
   cases |-> OfCase \cup {"filed_date"},
   participants |-> OfCase \cup {"participant_id", "party_type", "date_of_birth", "age_at_filing",
                                 "synthetic_group"},
   charges |-> OfCase \cup {"participant_id", "charge_id", "offense_category", "severity", "filed_at",
                            "disposed_at", "disposition", "disposition_actor"},
   assignments |-> OfCase \cup {"assignment_id", "judge_code", "start_at", "end_at"},
   events |-> OfCase \cup {"participant_id", "event_id", "judge_code", "event_type", "event_at"},
   decisions |-> OfCase \cup {"participant_id", "decision_id", "judge_code", "decision_type",
                              "decision_at", "actor", "discretion", "detained", "release_at"},
   sentences |-> OfCase \cup {"participant_id", "sentence_id", "judge_code", "sentence_at",
                              "incarceration_days", "probation_days"}]
SourceFiles == DOMAIN ExpectedHeaders

\* A copy of a case is written with its number in another form; both normalize alike.
Written(case, copy) == <<case, copy>>
Normalized(number) == number[1]

\* Calendar years since the birth, as the writer counts them on the filing.
AgeOn(born, day) == IF born = None THEN None ELSE YearOf(day - born)

RowsOfCase(case, copy) ==
  LET number == [case_number |-> Written(case.id, copy), court_code |-> case.court]
      own == number @@ [participant_id |-> case.person]
      defendant == Described[case.person]
  IN [cases |-> {number @@ [filed_date |-> case.filed]},
      participants |->
        {own @@ [party_type |-> "defendant", date_of_birth |-> defendant.born,
                 age_at_filing |-> AgeOn(defendant.born, case.filed), synthetic_group |-> defendant.group]},
      charges |->
        {own @@ [charge_id |-> h.id, offense_category |-> h.category, severity |-> h.severity,
                 filed_at |-> h.filed, disposed_at |-> h.disposed, disposition |-> h.disposition,
                 disposition_actor |-> h.actor] : h \in case.charges},
      assignments |->
        {number @@ [assignment_id |-> a.id, judge_code |-> a.judge, start_at |-> a.start, end_at |-> a.stop] :
           a \in case.assignments},
      events |->
        {own @@ [event_id |-> e.id, judge_code |-> e.judge, event_type |-> e.type, event_at |-> e.at] :
           e \in case.events},
      decisions |->
        {own @@ [decision_id |-> d.id, judge_code |-> d.judge, decision_type |-> d.type, decision_at |-> d.at,
                 actor |-> d.actor, discretion |-> d.discretion, detained |-> d.detained,
                 release_at |-> d.release] : d \in case.decisions},
      sentences |->
        {own @@ [sentence_id |-> z.id, judge_code |-> z.judge, sentence_at |-> z.at,
                 incarceration_days |-> z.days, probation_days |-> z.probation] : z \in case.sentences}]

\* The cases that are planted as duplicates are written twice.
RenderSource(world, duplicates) ==
  [file \in SourceFiles |->
     CASE file = "courts" -> {[court_code |-> c, jurisdiction |-> Jurisdiction[c]] : c \in DOMAIN Jurisdiction}
       [] file = "judges" ->
            {[judge_code |-> t.judge, court_code |-> t.court, start_date |-> t.start, end_date |-> t.stop] :
               t \in Tenures}
       [] OTHER -> UNION {RowsOfCase(case, FALSE)[file] : case \in world}
                   \cup UNION {RowsOfCase(case, TRUE)[file] : case \in {c \in world : c.id \in duplicates}}]

(***************************************************************************)
(* The manifest, and what of a retrieved set of files the connector takes. *)
(* A digest is the content; a file without rows has its headers still.     *)
(***************************************************************************)
GeneratorVersion == "3"
ManifestOf(files) ==
  [version |-> GeneratorVersion, files |-> files,
   corpus |-> <<Profile[Synthetic].start, Profile[Synthetic].end>>]

Drifted(manifest, retrieved) ==
  {f \in SourceFiles : \/ f \notin DOMAIN retrieved \/ f \notin DOMAIN manifest.files
                       \/ retrieved[f] # manifest.files[f]}
ValidManifest(manifest) == manifest.version = GeneratorVersion /\ manifest.corpus[1] <= manifest.corpus[2]
ValidHeaders(file, content) == \A row \in content : ExpectedHeaders[file] \subseteq DOMAIN row

Accepted(manifest, retrieved) ==
  /\ Drifted(manifest, retrieved) = {}
  /\ ValidManifest(manifest)
  /\ \A f \in SourceFiles : ValidHeaders(f, retrieved[f])

\* Columns that are not expected are read past.
Parsed(retrieved) ==
  [f \in SourceFiles |-> {[column \in ExpectedHeaders[f] |-> row[column]] : row \in retrieved[f]}]

(***************************************************************************)
(* Rows that are rejected: a cell that must be there is empty, or a value  *)
(* is not in the case vocabulary.                                          *)
(***************************************************************************)
RequiredCells ==
  [courts |-> {"court_code", "jurisdiction"}, judges |-> {"judge_code"}, cases |-> {"case_number"},
   participants |-> {"case_number", "participant_id", "party_type"},
   charges |-> {"case_number", "participant_id", "charge_id", "offense_category", "severity", "filed_at"},
   assignments |-> {"case_number", "assignment_id", "judge_code", "start_at"},
   events |-> {"case_number", "event_id", "event_type", "event_at"},
   decisions |-> {"case_number", "participant_id", "decision_id", "decision_type", "decision_at"},
   sentences |-> {"case_number", "participant_id", "sentence_id", "sentence_at"}]

VocabularyOf ==
  [offense_category |-> "offense_category", severity |-> "severity", disposition |-> "charge_disposition",
   disposition_actor |-> "actor_type", actor |-> "actor_type", event_type |-> "event_type",
   decision_type |-> "decision_type", discretion |-> "judicial_discretion_classification",
   party_type |-> "party_type", synthetic_group |-> "synthetic_group"]

MinAge == 0
MaxAge == 130
Admissible(courts, file, row) ==
  /\ \A column \in RequiredCells[file] : row[column] # None
  /\ \A column \in DOMAIN row \cap DOMAIN VocabularyOf : OneOf(row[column], Vocabularies[VocabularyOf[column]])
  /\ row.court_code \in courts
  /\ file = "participants" => row.age_at_filing = None \/ row.age_at_filing \in MinAge .. MaxAge
  /\ file = "decisions" /\ row.decision_type = "pretrial_release" => row.detained # None

(***************************************************************************)
(* What the rows of one file need of the others.                           *)
(***************************************************************************)
CaseKey(row) == <<row.court_code, Normalized(row.case_number)>>

\* Rows that the lookups are built from; what else is wrong with them is found later.
ContextCells ==
  [charges |-> {"case_number", "participant_id", "filed_at"},
   participants |-> {"case_number", "participant_id", "party_type"},
   assignments |-> {"case_number", "judge_code", "start_at"}]
Legible(courts, file, row) ==
  /\ \A column \in ContextCells[file] : row[column] # None
  /\ row.court_code \in courts
  /\ file = "participants" => row.party_type \in Vocabularies["party_type"]

BuildContext(files) ==
  LET whole == {r \in files["courts"] : \A column \in RequiredCells["courts"] : r[column] # None}
      courts == {r.court_code : r \in whole}
      legible(f) == {r \in files[f] : Legible(courts, f, r)}
      facts(person, case) ==
        LET charges == {h \in legible("charges") : h.participant_id = person /\ CaseKey(h) = case}
        IN [person |-> person, case |-> case, filed |-> Min({h.filed_at : h \in charges}),
            disposed |-> {h.disposed_at : h \in charges} \ {None}]
  IN [courts |-> courts,
      active |-> {r.judge_code : r \in {s \in files["judges"] : s.end_date = None}},
      cases |-> {facts(h.participant_id, CaseKey(h)) : h \in legible("charges")},
      parties |-> {<<CaseKey(r), r.party_type, r.participant_id>> : r \in legible("participants")},
      assignments |-> {[case |-> CaseKey(r), start |-> r.start_at, stop |-> r.end_at, judge |-> r.judge_code] :
                         r \in legible("assignments")}]

\* The judge who holds the case at an instant; of two, the one assigned later.  Of two
\* assigned at once the code takes the greater judge code; codes have no order here, and
\* the generator assigns no two judges to a case at once.
JudgeAssignedAt(context, case, t) ==
  LET holding == {a \in context.assignments : a.case = case /\ a.start <= t /\ (a.stop = None \/ t < a.stop)}
  IN IF holding = {} THEN None
     ELSE (CHOOSE a \in holding : a.start = Max({b.start : b \in holding})).judge

\* A party of a case is known by its rank, so that its id is not.
PartyRank(context, row) ==
  Cardinality({p \in context.parties : p[1] = CaseKey(row) /\ p[2] = row.party_type
                                       /\ p[3] <= row.participant_id})

(***************************************************************************)
(* The drafts of a row.                                                    *)
(***************************************************************************)
CourtDrafts(row) ==
  {[table |-> "jurisdiction", name |-> row.jurisdiction],
   [table |-> "court", court |-> row.court_code, jurisdiction |-> row.jurisdiction]}
JudgeDrafts(context, row) ==
  {[table |-> "judge", judge |-> row.judge_code, active |-> row.judge_code \in context.active],
   [table |-> "judge_service", judge |-> row.judge_code, court |-> row.court_code, start |-> row.start_date,
    stop |-> row.end_date]}
CaseDraft(row) == [table |-> "court_case", case |-> CaseKey(row), filed |-> row.filed_date]

\* A person is the hashes of what identifies it; neither name nor birth is kept.
PersonDraft(row) ==
  [table |-> "person", person |-> row.participant_id,
   hashed |-> {"source_participant_id", "full_name"}
              \cup IF row.date_of_birth = None THEN {} ELSE {"date_of_birth", "name_dob"}]

BandFloors == ("18-24" :> 18) @@ ("25-34" :> 25) @@ ("35-44" :> 35) @@ ("45-54" :> 45) @@ ("55+" :> 55)
AgeBand(age) ==
  LET reached == {band \in DOMAIN BandFloors : BandFloors[band] <= age}
  IN IF age = None \/ reached = {} THEN "unknown"
     ELSE CHOOSE band \in reached : \A other \in reached : BandFloors[other] <= BandFloors[band]
ParticipantDrafts(context, row) ==
  LET party == [case |-> CaseKey(row), type |-> row.party_type, rank |-> PartyRank(context, row)]
      has(attribute, value) == party @@ [table |-> "party_attribute", attribute |-> attribute, value |-> value]
  IN {PersonDraft(row), party @@ [table |-> "case_party", person |-> row.participant_id],
      has("age_band", AgeBand(row.age_at_filing))}
     \cup IF row.synthetic_group = None THEN {} ELSE {has("synthetic_group", row.synthetic_group)}

JusticeDraft(row, type, at) ==
  [table |-> "justice_event", case |-> CaseKey(row), person |-> row.participant_id, type |-> type, at |-> at]

\* A case filed after another of the person, a conviction after a disposition of another.
DerivedEvents(context, row) ==
  LET own == {c \in context.cases : c.person = row.participant_id}
      this == CHOOSE c \in own : c.case = CaseKey(row)
      others == own \ {this}
  IN (IF \E c \in others : c.filed < this.filed THEN {JusticeDraft(row, "new_case", this.filed)} ELSE {})
     \cup (IF /\ row.disposition \in Convicted /\ row.disposed_at # None
              /\ \E c \in others : \E t \in c.disposed : t < row.disposed_at
           THEN {JusticeDraft(row, "reconviction", row.disposed_at)} ELSE {})

DisposingJudge(context, row) ==
  IF row.disposed_at = None THEN None ELSE JudgeAssignedAt(context, CaseKey(row), row.disposed_at)
ChargeDrafts(context, row) ==
  {[table |-> "charge", id |-> row.charge_id, case |-> CaseKey(row), person |-> row.participant_id,
    filed |-> row.filed_at, disposed |-> row.disposed_at, disposition |-> row.disposition,
    judge |-> DisposingJudge(context, row), actor |-> row.disposition_actor, severity |-> row.severity,
    category |-> row.offense_category]}
  \cup DerivedEvents(context, row)

AssignmentDraft(row) ==
  [table |-> "judge_assignment", id |-> row.assignment_id, case |-> CaseKey(row), judge |-> row.judge_code,
   start |-> row.start_at, stop |-> row.end_at]

EventDrafts(row) ==
  {[table |-> "court_event", id |-> row.event_id, case |-> CaseKey(row), person |-> row.participant_id,
    judge |-> row.judge_code, type |-> row.event_type, at |-> row.event_at]}
  \cup IF row.participant_id # None /\ row.event_type \in {"failure_to_appear", "revocation"}
       THEN {JusticeDraft(row, row.event_type, row.event_at)} ELSE {}

\* What is not said is unknown; only a pretrial release says who is free and since when.
OrUnknown(value) == IF value = None THEN "unknown" ELSE value
DecisionDraft(row) ==
  LET pretrial(value) == IF row.decision_type = "pretrial_release" THEN value ELSE None
  IN [table |-> "decision", id |-> row.decision_id, case |-> CaseKey(row), person |-> row.participant_id,
      judge |-> row.judge_code, type |-> row.decision_type, at |-> row.decision_at,
      actor |-> OrUnknown(row.actor), discretion |-> OrUnknown(row.discretion),
      release |-> pretrial(row.release_at), detained |-> pretrial(row.detained)]

SentenceDraft(row) ==
  [table |-> "sentence", id |-> row.sentence_id, case |-> CaseKey(row), person |-> row.participant_id,
   judge |-> row.judge_code, at |-> row.sentence_at, days |-> row.incarceration_days,
   probation |-> row.probation_days]

Normalize(context, file, row) ==
  CASE file = "courts" -> CourtDrafts(row)
    [] file = "judges" -> JudgeDrafts(context, row)
    [] file = "cases" -> {CaseDraft(row)}
    [] file = "participants" -> ParticipantDrafts(context, row)
    [] file = "charges" -> ChargeDrafts(context, row)
    [] file = "assignments" -> {AssignmentDraft(row)}
    [] file = "events" -> EventDrafts(row)
    [] file = "decisions" -> {DecisionDraft(row)}
    [] file = "sentences" -> {SentenceDraft(row)}

\* What a run reads of the files; nothing of files that are not those of the manifest.
ReadSource(manifest, retrieved) ==
  LET files == Parsed(retrieved)
      context == BuildContext(files)
      read(f) == UNION {Normalize(context, f, row) : row \in {r \in files[f] : Admissible(context.courts, f, r)}}
  IN IF Accepted(manifest, retrieved) THEN UNION {read(f) : f \in SourceFiles} ELSE {}

\* What a draft is the draft of, whatever else it says: a row of a case is known in its case.
RowKey(draft) == <<draft.table, draft.case, draft.id>>
NaturalKey(draft) ==
  CASE draft.table = "jurisdiction" -> <<draft.table, draft.name>>
    [] draft.table = "court" -> <<draft.table, draft.court>>
    [] draft.table = "judge" -> <<draft.table, draft.judge>>
    [] draft.table = "judge_service" -> <<draft.table, draft.judge, draft.court, draft.start>>
    [] draft.table = "court_case" -> <<draft.table, draft.case>>
    [] draft.table = "person" -> <<draft.table, draft.person>>
    [] draft.table = "case_party" -> <<draft.table, draft.case, draft.type, draft.rank>>
    [] draft.table = "party_attribute" -> <<draft.table, draft.case, draft.type, draft.rank, draft.attribute>>
    [] draft.table = "justice_event" -> <<draft.table, draft.person, draft.type, draft.at, draft.case>>
    [] OTHER -> RowKey(draft)

(***************************************************************************)
(* The drafts against the published rows.                                  *)
(***************************************************************************)
\* A published row under the natural keys, with what its draft said of it.
AsDraft(rows, merged, r) ==
  LET key(id) == LET c == CHOOSE c \in Table(rows, "court_case") : c.id = id IN <<c.court, c.id>>
      said == IF r.table = "sentence" THEN [column \in DOMAIN r \ {"replaced"} |-> r[column]] ELSE r
  IN CASE r.table = "court_case" -> [table |-> r.table, case |-> key(r.id), filed |-> r.filed]
       [] r.table = "judge_assignment" -> [r EXCEPT !.case = key(@)]
       [] r.table = "justice_event" ->
            [table |-> r.table, case |-> key(r.related), person |-> Survivor(merged, r.person), type |-> r.type,
             at |-> r.at]
       [] OTHER -> [said EXCEPT !.case = key(@), !.person = Survivor(merged, @)]

\* Of the outcomes that a snapshot derives, those that the connector makes an event of:
\* they follow an earlier filing of another case of the person, or an earlier disposition.
FollowingOutcomes(rows, merged) ==
  LET charges == ResolvePersons(merged, Table(rows, "charge"))
      follows(o, Instant(_)) == \E h \in charges : /\ h.person = o.person /\ h.case # o.related
                                                   /\ Instant(h) # None /\ Instant(h) < o.at
  IN {[table |-> "justice_event"] @@ o : o \in
        {o \in DerivedOutcomes(rows, merged, Persons, {"new_case"}) : follows(o, LAMBDA h : h.filed)}
        \cup {o \in DerivedOutcomes(rows, merged, Persons, {"reconviction"}) : follows(o, LAMBDA h : h.disposed)}}

=============================================================================
