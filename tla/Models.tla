------------------------------- MODULE Models -------------------------------
(***************************************************************************)
(* The schema as the models of db/models declare it, one definition for    *)
(* each group of tables, and what other code assumes of it.                *)
(***************************************************************************)
EXTENDS Catalog

Recorded == Must("source_record_id", "source_record")
SourceRowIndex == Key({"case_id", "source_row_id"})
Identity(system) == OnlyFor(Key({"external_ids." \o system}), "external_ids ? " \o system)

Places ==
  {Table("jurisdiction", {May("parent_jurisdiction_id", "jurisdiction"), Recorded}, {Key({"name", "type"})}, {}),
   Table("court", {Must("jurisdiction_id", "jurisdiction"), Recorded}, {Key({"canonical_name", "court_type"})}, {})}

Judges ==
  {Table("judge", {Recorded}, {Identity("fjc_nid"), Identity("synthetic_judge_code"), Identity("cook_sao_judge")}, {}),
   Table("judge_service", {Part("judge_id", "judge"), Must("court_id", "court"), Recorded},
         {NullsEqual({"judge_id", "court_id", "position_type", "start_date"})}, {})}

Filings ==
  LET row(name, refs) == Table(name, refs \cup {Part("case_id", "court_case"), Recorded}, {SourceRowIndex}, {})
  IN {Table("court_case", {Must("court_id", "court"), Recorded}, {Key({"court_id", "case_number_normalized"})}, {}),
      row("case_party", {May("person_id", "person")}),
      row("judge_assignment", {Must("judge_id", "judge")}),
      row("charge", {Must("person_id", "person"), May("judge_id", "judge")})}

Proceedings ==
  LET row(name, refs) == Table(name, refs \cup {Part("case_id", "court_case"), Recorded}, {SourceRowIndex}, {})
  IN {row("court_event", {May("person_id", "person"), May("judge_id", "judge")}),
      row("decision", {Must("person_id", "person"), May("judge_id", "judge")}),
      Table("pretrial_release", {Part("decision_id", "decision")}, {Key({"decision_id"})}, {}),
      row("sentence", {Must("person_id", "person"), May("judge_id", "judge")})}

People ==
  {Table("person", {May("source_record_id", "source_record"), May("merged_into_person_id", "person")},
         {Key({"public_person_key"})}, {}),
   Table("person_identifier", {Part("person_id", "person"), Recorded},
         {OnlyFor(Key({"identifier_type", "value_hash"}), "stable"),
          Key({"person_id", "identifier_type", "value_hash"})}, {}),
   Table("justice_event", {Must("person_id", "person"), May("related_case_id", "court_case"), Recorded},
         {NullsEqual({"person_id", "event_type", "event_at", "related_case_id"})}, {})}

Provenance ==
  {Table("source", {May("jurisdiction_id", "jurisdiction")}, {Key({"name"})}, {}),
   Table("ingest_run", {Must("source_id", "source"), May("metrics_snapshot_id", "metric_snapshot")}, {}, {}),
   Table("source_record", {Must("source_id", "source"), Must("ingest_run_id", "ingest_run")},
         {NullsEqual({"source_id", "external_record_id", "raw_sha256"})}, {}),
   Table("data_quality_issue", {May("source_record_id", "source_record")}, {}, {})}

Kinds == Check("member_kind", {"decision", "charge", "court_case", "sentence", "court_event", "justice_event"})
OfSnapshot == {Must("snapshot_id", "metric_snapshot"), Must("source_id", "source")}

MetricTables ==
  {Table("metric_definition", {}, {Key({"slug", "version"})}, {}),
   Table("metric_snapshot", {}, {Key({"content_hash"})}, {})}

ObservationTable ==
  {Table("metric_observation",
         OfSnapshot \cup {Must("metric_definition_id", "metric_definition"), May("outcome_model_id", "outcome_model"),
                          Must("member_family_id", "metric_member_family")},
         {NullsEqual({"metric_definition_id", "subject_type", "subject_id", "source_id", "period_start", "period_end",
                      "window_days", "dimension_value", "calendar_year", "snapshot_id"})},
         {Check("suppression_reason", {"below_threshold", "expected_below_minimum", "model_unavailable"}),
          Holds("suppression_reason_flag"), Holds("calendar_year_period")})}

MemberTables ==
  {Table("metric_member_family", OfSnapshot \cup {Must("metric_definition_id", "metric_definition")},
         {Key({"metric_definition_id", "subject_type", "subject_id", "source_id", "snapshot_id", "members_hash"})},
         {Kinds, Holds("counts")}),
   Table("metric_member", {Part("family_id", "metric_member_family")}, {}, {Holds("multiplicity"), Holds("masks")})}

CoverageTables ==
  {Table("coverage_statistic", OfSnapshot, {Key({"snapshot_id", "source_id", "scope_type", "scope_id", "statistic"})},
         {Check("scope_type", {"source", "jurisdiction", "court"}),
          Check("statistic", {"cases_with_identified_judge", "cases_with_final_disposition",
                              "cases_with_person_resolution", "cases_with_adequate_follow_up",
                              "cases_with_complete_charge_classification", "records_with_provenance",
                              "unknown_actor_share"}),
          Holds("numerator_denominator")})}

OutcomeModels ==
  {Table("outcome_model", OfSnapshot,
         {Key({"content_hash"}), NullsEqual({"snapshot_id", "source_id", "spec_version", "target", "window_days", "seed"})},
         {Check("status", {"fitted", "insufficient_events", "not_converged", "unavailable"})})}

Candidates ==
  {Table("entity_resolution_candidate", {Mention("ingest_run_id", "ingest_run")},
         {Key({"entity_type", "left_record_id", "right_record_id", "model_version"})}, {Holds("ordered_pair")})}

PartyAttributes ==
  {Table("party_attribute", {Part("case_party_id", "case_party"), Recorded}, {Key({"case_party_id", "attribute"})}, {})}
AuditLog == {Table("audit_log", {}, {}, {})}
CorrectionRequests == {Table("correction_request", {}, {}, {})}

AllModels ==
  Places \cup Judges \cup Filings \cup Proceedings \cup People \cup Provenance \cup MetricTables \cup ObservationTable
  \cup MemberTables \cup CoverageTables \cup OutcomeModels \cup Candidates \cup PartyAttributes \cup AuditLog
  \cup CorrectionRequests

\* The tables that the public role never reads.
RestrictedTables == {"person_identifier", "correction_request", "entity_resolution_candidate", "audit_log",
                     "data_quality_issue", "party_attribute"}

(***************************************************************************)
(* Lists of tables and columns kept by hand elsewhere.                     *)
(***************************************************************************)
\* The columns that move when persons merge (merge.py): the simple tables, and
\* the two handled for collisions.
MovedByMerge ==
  {<<t, "person_id">> : t \in {"case_party", "charge", "court_event", "decision", "sentence"}}
  \cup {<<"person_identifier", "person_id">>, <<"justice_event", "person_id">>}

\* What may still cite a row that a retirement would delete (retire.py).
PersonReferences ==
  {<<t, "person_id">> : t \in {"case_party", "charge", "court_event", "decision", "sentence", "justice_event"}}
  \cup {<<"person", "merged_into_person_id">>}
ReferencedBy ==
  [judge |-> {<<t, "judge_id">> : t \in {"judge_service", "judge_assignment", "decision", "sentence", "court_event", "charge"}},
   court |-> {<<"judge_service", "court_id">>, <<"court_case", "court_id">>},
   jurisdiction |-> {<<"court", "jurisdiction_id">>, <<"source", "jurisdiction_id">>,
                     <<"jurisdiction", "parent_jurisdiction_id">>}]

\* The tables that a snapshot reads (snapshot.py).
ExportedTables ==
  {"court_case", "judge_assignment", "charge", "decision", "pretrial_release", "sentence", "court_event",
   "justice_event", "person", "judge", "court", "source", "source_record"}

=============================================================================
