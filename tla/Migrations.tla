----------------------------- MODULE Migrations -----------------------------
(***************************************************************************)
(* The thirteen revisions of alembic/versions as sequences of statements:  *)
(* Up[n] takes revision n - 1 to n, Down[n] takes it back.  Statements over*)
(* columns that no key, reference or check names are left out.             *)
(***************************************************************************)
EXTENDS Catalog

App == "app"
Ingest == "ingest"
FromRecord == Must("source_record_id", "source_record")
SourceRow == Key({"case_id", "source_row_id"})
ExternalId(system) == OnlyFor(Key({"external_ids." \o system}), "external_ids ? " \o system)
MemberKinds == Check("member_kind", {"decision", "charge", "court_case", "sentence", "court_event", "justice_event"})

(***************************************************************************)
(* 0001: the twenty-three tables.                                          *)
(***************************************************************************)
BaselineReview ==
  <<Create("correction_request", {}, {}, {}), Create("entity_resolution_candidate", {}, {}, {})>>
BaselineReference ==
  <<Create("judge", {}, {}, {}),
    Create("jurisdiction", {May("parent_jurisdiction_id", "jurisdiction")}, {}, {}),
    Create("metric_definition", {}, {Key({"slug", "version"})}, {}),
    Create("person", {}, {Key({"public_person_key"})}, {}),
    Create("court", {Must("jurisdiction_id", "jurisdiction")}, {}, {})>>
BaselineObservation ==
  <<Create("metric_observation", {Must("metric_definition_id", "metric_definition")}, {}, {})>>
BaselineProvenance ==
  <<Create("source", {May("jurisdiction_id", "jurisdiction")}, {Key({"name"})}, {}),
    Create("ingest_run", {Must("source_id", "source")}, {}, {}),
    Create("source_record", {Must("ingest_run_id", "ingest_run"), Must("source_id", "source")}, {}, {})>>
BaselineCase ==
  <<Create("court_case", {Must("court_id", "court"), FromRecord}, {Key({"court_id", "case_number_normalized"})}, {}),
    Create("data_quality_issue", {May("source_record_id", "source_record")}, {}, {})>>
BaselinePersons ==
  <<Create("judge_service", {Must("court_id", "court"), Part("judge_id", "judge"), FromRecord}, {}, {}),
    Create("person_identifier", {Part("person_id", "person"), FromRecord}, {}, {})>>
BaselineParties ==
  <<Create("case_party", {Part("case_id", "court_case"), May("person_id", "person"), FromRecord}, {}, {}),
    Create("charge", {Part("case_id", "court_case"), Must("person_id", "person"), FromRecord}, {}, {})>>
BaselineEvents ==
  <<Create("court_event", {Part("case_id", "court_case"), May("judge_id", "judge"), May("person_id", "person"),
                           FromRecord}, {}, {}),
    Create("decision", {Part("case_id", "court_case"), May("judge_id", "judge"), Must("person_id", "person"),
                        FromRecord}, {}, {})>>
BaselineAssignments ==
  <<Create("judge_assignment", {Part("case_id", "court_case"), Must("judge_id", "judge"), FromRecord}, {}, {}),
    Create("justice_event", {Must("person_id", "person"), May("related_case_id", "court_case"), FromRecord}, {}, {})>>
BaselineOutcomes ==
  <<Create("sentence", {Part("case_id", "court_case"), May("judge_id", "judge"), Must("person_id", "person"),
                        FromRecord}, {}, {}),
    Create("pretrial_release", {Part("decision_id", "decision")}, {Key({"decision_id"})}, {}),
    Add("judge", {}, {ExternalId("fjc_nid")}, {})>>
BaselineTables ==
  BaselineReview \o BaselineReference \o BaselineObservation \o BaselineProvenance \o BaselineCase
  \o BaselinePersons \o BaselineParties \o BaselineEvents \o BaselineAssignments \o BaselineOutcomes
BaselineNames == {BaselineTables[i].table : i \in DOMAIN BaselineTables}
BaselineGrants ==
  Each({IF t \in {"person_identifier", "correction_request"} THEN RevokeAll(App, t)
        ELSE Grant(App, {"SELECT"}, t) : t \in BaselineNames}
       \cup {Grant(Ingest, Dml, t) : t \in BaselineNames})
Up1 == BaselineTables \o BaselineGrants
\* The tables in the reverse order, children first.
Down1 ==
  LET order == Reverse(SelectSeq(BaselineTables, LAMBDA s : s.op = "create"))
  IN [i \in DOMAIN order |-> Drop(order[i].table)]

(***************************************************************************)
(* 0002: where reference rows come from.                                   *)
(***************************************************************************)
ProvenanceTables == {"jurisdiction", "court", "judge"}
NaturalKeys ==
  <<Add("jurisdiction", {}, {Key({"name", "type"})}, {}),
    Add("court", {}, {Key({"canonical_name", "court_type"})}, {}),
    Add("judge_service", {}, {NullsEqual({"judge_id", "court_id", "position_type", "start_date"})}, {}),
    Add("source_record", {}, {NullsEqual({"source_id", "external_record_id", "raw_sha256"})}, {})>>
Undone(statements) ==
  LET back == Reverse(statements)
  IN [i \in DOMAIN back |-> [back[i] EXCEPT !.op = "remove"]]
RecordReferences == Each({Add(t, {FromRecord}, {}, {}) : t \in ProvenanceTables})
Up2 == RecordReferences \o <<NewColumn("ingest_run")>> \o NaturalKeys
Down2 == Undone(NaturalKeys) \o Undone(RecordReferences)

(***************************************************************************)
(* 0003: natural keys of the case-level rows.                              *)
(***************************************************************************)
SourceRowTables == {"case_party", "judge_assignment", "charge", "court_event", "decision", "sentence"}
CaseLevelTables == {"person", "person_identifier", "court_case", "pretrial_release", "justice_event"} \cup SourceRowTables
RowKeys == Each({Add(t, {}, {SourceRow}, {}) : t \in SourceRowTables})
PersonKeys ==
  <<Add("justice_event", {}, {NullsEqual({"person_id", "event_type", "event_at", "related_case_id"})}, {}),
    Add("person", {May("source_record_id", "source_record")}, {}, {}),
    Add("person_identifier", {}, {OnlyFor(Key({"identifier_type", "value_hash"}), "stable"),
                                  Key({"person_id", "identifier_type", "value_hash"})}, {}),
    Add("judge", {}, {ExternalId("synthetic_judge_code")}, {})>>
ReassertGrants ==
  Each({IF t = "person_identifier" THEN RevokeAll(App, t) ELSE Grant(App, {"SELECT"}, t) : t \in CaseLevelTables}
       \cup {Grant(Ingest, Dml, t) : t \in CaseLevelTables})
Up3 == Each({NewColumn(t) : t \in SourceRowTables}) \o RowKeys \o PersonKeys \o ReassertGrants
Down3 == Undone(PersonKeys) \o Undone(RowKeys)

(***************************************************************************)
(* 0004: the review queue, the merge pointer and the audit log.            *)
(***************************************************************************)
ReviewQueue ==
  <<Add("entity_resolution_candidate", {Mention("ingest_run_id", "ingest_run")},
        {Key({"entity_type", "left_record_id", "right_record_id", "model_version"})}, {Holds("ordered_pair")}),
    Add("person", {May("merged_into_person_id", "person")}, {}, {})>>
AuditGrants ==
  <<RevokeAll(App, "audit_log"), RevokeAll(App, "entity_resolution_candidate"), RevokeAll(Ingest, "audit_log"),
    Grant(Ingest, {"SELECT", "INSERT"}, "audit_log"), Grant(Ingest, Dml, "entity_resolution_candidate")>>
Up4 == <<NewColumn("entity_resolution_candidate")>> \o ReviewQueue \o <<Create("audit_log", {}, {}, {})>> \o AuditGrants
Down4 == <<Drop("audit_log")>> \o Undone(ReviewQueue) \o <<Grant(App, {"SELECT"}, "entity_resolution_candidate")>>

(***************************************************************************)
(* 0005 and 0006: definitions, snapshots, observations and their members.  *)
(***************************************************************************)
KeyBefore == {"metric_definition_id", "subject_type", "subject_id", "source_id", "period_start", "period_end",
              "window_days", "dimension_value", "snapshot_id"}
ObservationMembers ==
  Create("metric_observation_member", {Part("observation_id", "metric_observation")}, {}, {MemberKinds})
Observations ==
  <<Add("metric_observation", {Must("snapshot_id", "metric_snapshot"), Must("source_id", "source")},
        {NullsEqual(KeyBefore)}, {})>>
Shared(table) == <<Grant(App, {"SELECT"}, table), Grant(Ingest, Dml, table)>>
Up5 ==
  <<NewColumn("metric_definition"), Create("metric_snapshot", {}, {Key({"content_hash"})}, {}),
    NewColumn("metric_observation")>> \o Observations \o <<ObservationMembers>>
  \o Shared("metric_snapshot") \o Shared("metric_observation_member")
Down5 == <<Drop("metric_observation_member")>> \o Undone(Observations) \o <<Drop("metric_snapshot")>>

RunSnapshot == <<Add("ingest_run", {May("metrics_snapshot_id", "metric_snapshot")}, {}, {})>>
Up6 == RunSnapshot
Down6 == Undone(RunSnapshot)

(***************************************************************************)
(* 0007 and 0008: corrections, and the restricted schema.  The keys of the *)
(* parties are rewritten as ranks within the case, which are unique.       *)
(***************************************************************************)
Up7 == <<Grant(App, {"INSERT"}, "correction_request")>>
Down7 == <<Revoke(App, {"INSERT"}, "correction_request")>>

PartyAttribute ==
  Create("party_attribute", {Part("case_party_id", "case_party"), FromRecord}, {Key({"case_party_id", "attribute"})}, {})
RestrictedGrants == <<RevokeAll(App, "party_attribute"), Grant(Ingest, Dml, "party_attribute")>>
RewritePartyKeys == <<Withdraw("case_party", {}, {SourceRow}, {}), Add("case_party", {}, {SourceRow}, {})>>
Up8 == <<PartyAttribute>> \o RestrictedGrants \o RewritePartyKeys
Down8 == <<Drop("party_attribute")>>

(***************************************************************************)
(* 0009 and 0010: outcome models and the observations adjusted by them.    *)
(***************************************************************************)
StatusesBefore == {"fitted", "insufficient_events", "not_converged"}
OutcomeModel ==
  Create("outcome_model", {Must("snapshot_id", "metric_snapshot"), Must("source_id", "source")},
         {Key({"content_hash"}),
          NullsEqual({"snapshot_id", "source_id", "spec_version", "target", "window_days", "seed"})},
         {Check("status", StatusesBefore)})
Up9 == <<OutcomeModel>> \o Shared("outcome_model")
Down9 == <<Drop("outcome_model")>>

Reasons == {"below_threshold", "expected_below_minimum", "model_unavailable"}
AdjustedBy == Add("metric_observation", {May("outcome_model_id", "outcome_model")}, {}, {})
ReasonChecks == Add("metric_observation", {}, {}, {Check("suppression_reason", Reasons), Holds("suppression_reason_flag")})
\* Mutation of Up10: the reasons are checked before they are filled in.
Up10Checked == <<AdjustedBy, ReasonChecks, Rows("backfill reasons")>>

Up10 == <<AdjustedBy, Rows("backfill reasons"), ReasonChecks>>
Down10 == Undone(<<AdjustedBy, ReasonChecks>>) \o <<Rows("forget models")>>

(***************************************************************************)
(* 0011 and 0012: a charge's judge; calendar years, coverage statistics and*)
(* unavailable models.                                                     *)
(***************************************************************************)
ChargeJudge ==
  <<Add("judge", {}, {ExternalId("cook_sao_judge")}, {}), Add("charge", {May("judge_id", "judge")}, {}, {})>>
Up11 == ChargeJudge \o <<RevokeAll(App, "data_quality_issue")>>
Down11 == <<Grant(App, {"SELECT"}, "data_quality_issue")>> \o Undone(ChargeJudge)

CoverageScopes == {"source", "jurisdiction", "court"}
CoverageStatistics ==
  {"cases_with_identified_judge", "cases_with_final_disposition", "cases_with_person_resolution",
   "cases_with_adequate_follow_up", "cases_with_complete_charge_classification", "records_with_provenance",
   "unknown_actor_share"}
CoverageTable ==
  Create("coverage_statistic", {Must("snapshot_id", "metric_snapshot"), Must("source_id", "source")},
         {Key({"snapshot_id", "source_id", "scope_type", "scope_id", "statistic"})},
         {Check("scope_type", CoverageScopes), Check("statistic", CoverageStatistics), Holds("numerator_denominator")})
\* Mutation of KeyAfter: the year is left out of the key.
KeyUndated == KeyBefore

KeyAfter == KeyBefore \cup {"calendar_year"}
Rekeyed(from, to) == <<Withdraw("metric_observation", {}, {NullsEqual(from)}, {}), Add("metric_observation", {}, {NullsEqual(to)}, {})>>
Statuses(from, to) ==
  <<Withdraw("outcome_model", {}, {}, {Check("status", from)}), Add("outcome_model", {}, {}, {Check("status", to)})>>
StatusesAfter == StatusesBefore \cup {"unavailable"}
YearCheck == Add("metric_observation", {}, {}, {Holds("calendar_year_period")})
Up12 ==
  <<CoverageTable>> \o Shared("coverage_statistic") \o <<YearCheck>> \o Rekeyed(KeyBefore, KeyAfter)
  \o Statuses(StatusesBefore, StatusesAfter)
Down12 ==
  <<Rows("delete figures of unavailable models"), Rows("delete unavailable models")>>
  \o Statuses(StatusesAfter, StatusesBefore)
  \o <<Rows("delete yearly figures")>> \o Rekeyed(KeyAfter, KeyBefore)
  \o Undone(<<YearCheck>>) \o <<Drop("coverage_statistic")>>

(***************************************************************************)
(* 0013: members in families.  Conversion itself is MemberConversion.      *)
(***************************************************************************)
FamilyTable ==
  Create("metric_member_family",
         {Must("metric_definition_id", "metric_definition"), Must("source_id", "source"),
          Must("snapshot_id", "metric_snapshot")},
         {Key({"metric_definition_id", "subject_type", "subject_id", "source_id", "snapshot_id", "members_hash"})},
         {MemberKinds, Holds("counts")})
MemberTable ==
  Create("metric_member", {Part("family_id", "metric_member_family")}, {}, {Holds("multiplicity"), Holds("masks")})
FamilyOf == May("member_family_id", "metric_member_family")
Up13 ==
  <<FamilyTable, MemberTable>> \o Shared("metric_member_family") \o Shared("metric_member")
  \o <<Add("metric_observation", {FamilyOf}, {}, {}), Rows("convert up"),
       SetNotNull(Must("member_family_id", "metric_member_family"), "metric_observation"),
       Drop("metric_observation_member")>>
Down13 ==
  <<ObservationMembers>> \o Shared("metric_observation_member")
  \o <<Rows("convert down"),
       Withdraw("metric_observation", {Must("member_family_id", "metric_member_family")}, {}, {}),
       Drop("metric_member"), Drop("metric_member_family")>>

Up == <<Up1, Up2, Up3, Up4, Up5, Up6, Up7, Up8, Up9, Up10, Up11, Up12, Up13>>
Down == <<Down1, Down2, Down3, Down4, Down5, Down6, Down7, Down8, Down9, Down10, Down11, Down12, Down13>>
HeadRevision == Len(Up)

=============================================================================
