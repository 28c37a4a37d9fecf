------------------------------- MODULE Schema -------------------------------
(***************************************************************************)
(* A database under migration: revisions applied and undone one at a time  *)
(* (db/migrations.py, one transaction each), the role script that runs     *)
(* again at every start (03-test-database.sql), and the rows that the      *)
(* program of a revision writes in between.                                *)
(***************************************************************************)
EXTENDS Migrations, Models

VARIABLES
  revision,     \* the revision of the database; 0 is an empty one
  db,           \* the database
  written       \* the latest revision at which rows were written, 0 if none were

vars == <<revision, db, written>>

After(statements) == Run(db, statements)

\* A migration that fails is rolled back.
Upgrade ==
  /\ revision < HeadRevision /\ After(Up[revision + 1]).ok
  /\ db' = After(Up[revision + 1]) /\ revision' = revision + 1
  /\ UNCHANGED written

Downgrade ==
  /\ revision > 0 /\ After(Down[revision]).ok
  /\ db' = After(Down[revision]) /\ revision' = revision - 1
  /\ UNCHANGED written

(***************************************************************************)
(* The script's blanket grants and the revokes it applies again.           *)
(***************************************************************************)
InPublicSchema == db.tables \ {"party_attribute"}
Reopened == {<<"app", "SELECT", t>> : t \in InPublicSchema} \cup {<<"ingest", p, t>> : p \in Dml, t \in InPublicSchema}
\* Mutation of RevokedAgain: the issues of 0011 are not in the script's list.
RevokedFirst == {"person_identifier", "correction_request", "audit_log", "entity_resolution_candidate"}

RevokedAgain == {"person_identifier", "correction_request", "audit_log", "entity_resolution_candidate", "data_quality_issue"}

Bootstrap ==
  LET revokes == Each({RevokeAll(App, t) : t \in RevokedAgain \cap db.tables})
      audit == <<RevokeAll(Ingest, "audit_log"), Grant(Ingest, {"SELECT", "INSERT"}, "audit_log")>>
      corrections == <<Grant(App, {"INSERT"}, "correction_request")>>
      restricted == <<RevokeAll(App, "party_attribute")>>
      when(table, statements) == IF table \in db.tables THEN statements ELSE <<>>
  IN /\ db' = Run([db EXCEPT !.may = @ \cup Reopened],
                  revokes \o when("correction_request", corrections) \o when("audit_log", audit)
                  \o when("party_attribute", restricted))
     /\ UNCHANGED <<revision, written>>

(***************************************************************************)
(* Rows, in the order a deployment writes them.                            *)
(***************************************************************************)
FirstRows == [reference |-> 2, cases |-> 3, review |-> 4, metrics |-> 5, corrections |-> 7]
Needs == [reference |-> {}, cases |-> {"judge"}, review |-> {"person"}, metrics |-> {"person"}, corrections |-> {}]
TablesOf ==
  [reference |-> {"source", "ingest_run", "source_record", "jurisdiction", "court", "judge", "judge_service"},
   cases |-> {"person", "person_identifier", "court_case", "case_party", "charge", "court_event", "decision",
              "pretrial_release", "sentence", "judge_assignment", "justice_event", "data_quality_issue", "party_attribute"},
   review |-> {"entity_resolution_candidate", "audit_log"},
   metrics |-> {"metric_definition", "metric_snapshot", "metric_observation", "metric_observation_member",
                "metric_member_family", "metric_member", "outcome_model", "coverage_statistic"},
   corrections |-> {"correction_request"}]

\* The figures that the program of the revision writes: one large enough, one
\* too small, and later one each with a thin expectation, without a model, and
\* of one calendar year.
WrittenFigures ==
  LET small == Figure("small", TRUE, None, IF revision >= 10 THEN "below_threshold" ELSE None)
      adjusted == IF revision < 10 THEN {}
                  ELSE {Figure("thin", TRUE, "fitted", "expected_below_minimum"),
                        Figure("weak", TRUE, "insufficient_events", "model_unavailable")}
      dated == IF revision < 12 THEN {}
               ELSE {Figure("unfit", TRUE, "unavailable", "model_unavailable"), Figure("yearly", FALSE, None, None)}
  IN {[f EXCEPT !.family = revision >= 13] : f \in {Figure("plain", FALSE, None, None), small} \cup adjusted \cup dated}

Fill(stage) ==
  /\ revision >= FirstRows[stage] /\ Needs[stage] \subseteq db.filled
  /\ db' = [db EXCEPT !.filled = @ \cup (TablesOf[stage] \cap db.tables),
                      !.figures = IF stage = "metrics" THEN @ \cup WrittenFigures ELSE @,
                      !.models = IF stage # "metrics" \/ revision < 9 THEN @
                                 ELSE @ \cup ({f.model : f \in WrittenFigures} \ {None})]
  /\ written' = Max({written, revision})
  /\ UNCHANGED revision

Init == revision = 0 /\ db = EmptyDatabase /\ written = 0
Next == Upgrade \/ Downgrade \/ Bootstrap \/ \E stage \in DOMAIN TablesOf : Fill(stage)
Spec == Init /\ [][Next]_vars

(***************************************************************************)
(* Properties.                                                             *)
(***************************************************************************)
\* By whatever path the database came to the head revision, it is the one that
\* the models describe (alembic/versions against db/models).
HeadIsModels == revision = HeadRevision => StructureOf(db) = Structure(AllModels)

\* Every revision can be undone, and every one can be applied again but those
\* that add a required column to rows carried down through it (0002 to 0005).
MigrationsRun ==
  /\ revision > 0 => After(Down[revision]).ok
  /\ revision < HeadRevision /\ ~After(Up[revision + 1]).ok => revision + 1 \in 2 .. 5 /\ written > revision

\* Whatever order revisions and the role script came in, the public role reads
\* no restricted table from the revision that restricts it, writes corrections
\* only, and reads every other table at the head; nobody rewrites the audit log.
RestrictedSince ==
  [person_identifier |-> 1, correction_request |-> 1, entity_resolution_candidate |-> 4, audit_log |-> 4,
   party_attribute |-> 8, data_quality_issue |-> 11]
AppReadsPublicOnly ==
  /\ \A t \in DOMAIN RestrictedSince : revision >= RestrictedSince[t] => <<"app", "SELECT", t>> \notin db.may
  /\ \A m \in db.may : m[1] = "app" => m[2] = "SELECT" \/ m = <<"app", "INSERT", "correction_request">>
  /\ {<<"ingest", "UPDATE", "audit_log">>, <<"ingest", "DELETE", "audit_log">>} \cap db.may = {}
  /\ revision = HeadRevision => {t \in db.tables : <<"app", "SELECT", t>> \in db.may} = db.tables \ RestrictedTables

\* The lists of tables kept by hand cover the foreign keys of the schema: every
\* reference to a person moves in a merge, or is what a merge sets; every
\* restricting reference to a row that a retirement deletes is looked at first;
\* a snapshot reads no restricted table.
CodeCoversReferences ==
  revision = HeadRevision =>
    LET citing(t) == {<<r.table, r.column>> : r \in {q \in db.refs : q.target = t}}
        restricting(t) == {<<r.table, r.column>> : r \in {q \in db.refs : q.target = t /\ q.onDelete = "RESTRICT"}}
    IN /\ citing("person") = MovedByMerge \cup {<<"person", "merged_into_person_id">>}
       /\ restricting("person") = PersonReferences
       /\ \A t \in DOMAIN ReferencedBy : citing(t) = ReferencedBy[t]
       /\ ExportedTables \cap RestrictedTables = {}

\* However the head was reached, by upgrades, downgrades and reruns of the role script,
\* it is the schema of the models (db/models), and what the program keeps by hand beside
\* the foreign keys matches it (merge.py, retire.py, snapshot.py).
HeadServesProgram == HeadIsModels /\ CodeCoversReferences

=============================================================================
