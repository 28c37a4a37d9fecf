# judge-metrics in TLA+

This directory specifies and verifies the parts of judge-metrics whose
correctness is hard to test: what concurrent commands, crashes and long
sequences of legal calls do to the database. TLC checks every module on small
instances, and the theorems are proved with TLAPS for every value of the
constants. Paths below are relative to `src/judgemetrics/` unless they start
with `docs/`.

## The system

judge-metrics ingests court records from several sources, resolves the people
in them to persons, publishes cases and their rows, and computes metrics about
judges and courts with full provenance. There is no server process that writes:
every writer is an operator's command with one database session at PostgreSQL's
default READ COMMITTED, and nothing stops two commands from running at once (no
advisory lock, no `FOR UPDATE`). The API and the web front end only read, except
for the corrections form.

| Part | State it keeps | Operations | Hard behaviour |
|---|---|---|---|
| Entity resolution (`entity_resolution/`) | `person`, `person_identifier`, `case_party.person_id`, `entity_resolution_candidate`, `audit_log` | resolve, block, evaluate, upsert, merge; review decide; rerun | merges are irreversible and move rows of seven tables; the checks are unlocked reads; a human decision must survive reruns |
| Ingest runner (`ingest/runner.py`) | `ingest_run`, `source_record`, checkpoint | fourteen steps of one run; force; refusal | crash between lake and database, two runs of one source, content that returns |
| Raw lake (`ingest/store.py`) | immutable objects by content | put, get, exists | objects outside the transaction |
| Publication (`ingest/publish.py`) | case-level rows | keyed upserts | row locks; ids resolved earlier |
| Retirement (`ingest/retire.py`) | deletes all of one source | retire | order forced by references; refuses on cross-source persons |
| Metric publication (`metrics/publish.py`, `engine.py`, `member_store.py`, `snapshot.py`) | `metric_snapshot`, `metric_observation`, member families | publish, supersede, revive | two publishers; data that returns; subjects that lose their drafts |
| Cook County connector (`ingest/cook_sao/`, `ingest/http.py`) | record metadata, rule tables | fetch with retries, parse five exports at once, draft cases | exports that are re-published and reordered, rule tables that change, headers that do not |
| Impacted subjects (`ingest/runner.py`) | none (derived) | close over what a run touched | what the run took away |
| Metric algorithms (`metrics/compute.py`, `attribution.py`, `censoring.py`, ...) | none (pure) | frames, cohorts, windows, rates, member families | boundaries; aliases of merged persons; follow-up |
| Outcome models (`metrics/adjustment/`, `metrics/features.py`, `models/`) | `outcome_model`, artifacts | list, fit, record, read back; verify | two commands that fit one model, a crash between artifact and row, a verify beside a publisher; features that know the future |
| Figures served (`services/metrics.py`, `repositories/metrics.py`, `metrics/provenance.py`) | none (derived) | a subject's metrics, a comparison, a chain | suppression, order and pages, rows that moved since |
| Database schema (`alembic/versions/`, `db/models/`) | the schema itself | thirteen revisions up and down, the role script | privileges and keys that drift from the models; rows carried through a downgrade |
| Rate limiter (`api/ratelimit.py`) | token buckets per key | acquire, prune | clock read before the lock; the bound on keys |
| Corrections (`services/corrections.py`) | `correction_request` | one insert | none |
| Registry (`metrics/registry.py`) | `metric_definition` | load or refuse, sync | a file that loads must be one the engine can compute; history of versions |
| Coverage statistics (`metrics/coverage.py`) | `coverage_statistic` | compute, publish, compare | agreement with the gates that attribute rows; one row for each key |
| Synthetic source (`synthetic/`, `ingest/synthetic/`) | none (derived) | write the world, check the manifest, read, draft | two programs that must mean the same by a row; planted duplicates |
| Quality checks, methodology document, normalization, security, FJC connector, validation, web | none shared | pure | not modelled (see the end) |

How they interact: the runner calls `resolve_persons` (step 10), publishes (12),
calls `resolve_candidates`, then recomputes the metrics of the impacted subjects
(13), all in one transaction. `er run` and `er review decide` work on the same
tables in transactions of their own. `metrics compute` publishes the same
observation tables as step 13, and `models fit` writes the artifacts and rows
that a compute's adjusted figures cite. `metrics verify` reads all of it while
they run.

## Modules

| Module | Models | Kind |
|---|---|---|
| `ResolutionStages` | `features.py`, `stages.py`, `deterministic.py`, `rules.py`, `scoring.py`, `pipeline.evaluate` | pure operators |
| `StagedDecisions` | the verdict on one pair while records join either person | state machine over `ResolutionStages` |
| `PersonResolution` | `pipeline.py`, `merge.py`, `queue.py`, `candidates.py` as concurrent transactions; the persons and parties of `publish.py` | state machine over `ResolutionStages` |
| `PersonPartition` | what entity resolution promises everyone else | abstract specification, implemented by `PersonResolution` |
| `IngestRun` | `ingest/runner.py`, `store.py`, `retire.py` and the upserts of `publish.py`: the runs of one source | state machine |
| `MetricPublication` | `metrics/snapshot.py` (export), `publish.py`, `engine.py` and step 13 of `ingest/runner.py`: commands that publish figures | state machine |
| `CookRules`, `CookCase`, `CookExports` | `ingest/cook_sao/`: the rule tables and what they refuse; one case drafted from its rows; the five exports read, sorted and grouped | pure operators, each extending the one before |
| `SourcePublication` | `runner._deduplicate`, `_resolve` and the compared upserts of `publish.py` over the tables of a source | operators over `CookExports` |
| `CookCounty` | the portal, the rule tables and the runs of the Cook County source, one after another | state machine over `SourcePublication` |
| `CaseFrames`, `Cohorts`, `MetricFigures` | `metrics/snapshot.py` (frames), `attribution.py`, `index_events.py`, `exposure.py`, `windows.py`, `censoring.py`, `suppression.py`, `compute.py` | pure operators, each extending the one before |
| `MemberFamilies`, `MemberConversion` | `metrics/members.py`; the conversion of stored members by `alembic/versions/0013` | pure operators |
| `MemberStorage` | the members of `CaseMetrics`' figures carried through the conversion | operators and properties |
| `MetricRegistry` | `metrics/registry.py`: what a registry file may say, the definitions made of it, the sync of `metric_definition` | pure operators over `MetricFigures` |
| `CoverageStatistics` | `metrics/coverage.py`: the seven statistics of a frame by scope, published and compared | pure operators over `Cohorts` |
| `SyntheticTruth` | `synthetic/truth.py`: every figure computed a second way | reference definition |
| `SyntheticSource` | `synthetic/writer.py`, `generate.py`, `ingest/synthetic/`, `ingest/base.py`: the world as nine files, the manifest and header checks, the rows rejected, the drafts of the rest | pure operators over `SyntheticTruth` and `MetricRegistry` |
| `CaseMetrics` | rows published and persons merged, the figures they give, step 13's closure | state machine over `SyntheticSource` and `CoverageStatistics` |
| `OutcomeSpec`, `OutcomeDesign` | `metrics/adjustment/`: what a specification may say; events, levels, encoding of a design | pure operators |
| `AdjustedFigures` | designs and ratios over the rows of `CaseMetrics` | operators and properties |
| `FigureReads` | a subject's metrics, the comparison, the chain, over the figures of `AdjustedFigures` | operators and properties |
| `ModelCatalog` | `models fit`, `metrics compute` over chosen subjects, `metrics verify`, as concurrent commands | state machine |
| `Catalog`, `Migrations`, `Models`, `Schema` | what a DDL statement does; the thirteen revisions; `db/models`; a database under migration | operators and a state machine |
| `MCPersonResolution`, `MCStagedDecisions`, `MCIngestRun`, `MCMetricPublication`, `MCCookCounty`, `MCCaseMetrics`, `MCModelCatalog` | small instances (`Schema` has no constants) | model checking |
| `PersonResolutionProofs`, `SerialResolutionProofs`, `StagedDecisionsProofs`, `IngestRunProofs`, `MetricPublicationProofs`, `ModelCatalogProofs`, `CookCountyProofs`, `FigureProofs` | theorems | TLAPS |

### PersonResolution

A *record* is one participant row of a source; a stable identifier (hash of the
source's participant id) creates at most one person
(`uq_person_identifier_stable`), so a record and the person first created for it
share one number, and numbers are the order `(created_at, id)` by which a merge
keeps the earlier person. `row[r].holder` is the person that holds the
stable identifier of record `r`; `row[r].party` stands for the party row and the
other person-bearing rows of its cases, which move by the same statement. `Drafts[r]`
is what the source may publish of a record: its name and date of birth may be corrected
from one publication to the next, and every publication adds the hashes of its draft to
the person (`ident`), which keeps the earlier ones too.

| Variable | Code |
|---|---|
| `person` | `person.merged_into_person_id`, `resolution_status` |
| `row` | `person_identifier.person_id` of the stable identifier, `case_party.person_id` and the like |
| `ident` | the other rows of `person_identifier`: person and hash of a name, a date of birth or both |
| `cand` | `entity_resolution_candidate` of the current model version |
| `audit` | `audit_log` |
| `wPerson`, `wRow`, `wIdent`, `wCand`, `wAudit` | what a transaction wrote and has not committed |
| `pc`, `kind`, `batch`, `ids`, `due`, `pairs`, `verdict`, `todo`, `current`, `choice`, `keep`, `drop` | the locals of the command |

Each statement that reads or writes shared rows is an action; a statement sees
the rows committed when it starts and its own transaction's writes
(`PersonSeen`, `RowSeen`, `IdentSeen`, `CandSeen`), and a write of a row that another
transaction has written waits for it (`PersonLocked`, ...). `Crash` ends any
command at any point with a rollback. `AbortDeadlocked` is PostgreSQL's deadlock
detector.

| Actions | Code |
|---|---|
| `BeginIngest`, `ResolvePersons`, `UpsertIdentifiers`, `Publish` | `runner.run_ingest`, `pipeline.resolve_persons`, `publish.upsert_person_identifiers` for every draft of the batch, `publish.upsert_parties` |
| `BeginRerun`, `Block`, `EvaluatePairs`, `UpsertCandidates` | `pipeline.rerun`, `resolve_candidates`, `_resolve_pairs`, `candidates.upsert_candidates` |
| `NextMatched`, `CheckMerge`, `MoveRows`, `MarkMerged` | `_apply_system_merge`, `merge_persons` |
| `BeginReview`, `DecideCandidate`, `FailReview` | `queue.decide`, `er review decide` |
| `Commit`, `Crash` | the session of the command |

What is abstracted: candidate pairs are ordered by random UUID in the code and
by number here, which changes nothing because features are symmetric
(`OrderIrrelevant`, proved) and the survivor is chosen by creation order.
`resolve_persons`' lookup and inserts of persons are one step, its upsert of
identifiers another. A related case number, which a publication may change
(`publish.py:302-309`), is constant here. The moves of a merge are one
step: the party rows are locked by the first statement, and the later
`_move_unique` reads run under those locks. A batch may contain records seen
before (a forced re-parse) and new ones; two runs over one new artifact collide
on its `source_record`, so no two runs create one record's person. The scorer is
the one the code ships, which declines every pair; `StagedDecisions` covers
scorers that answer. `filing_gap_days` is stored but never decides.

### StagedDecisions

One pair of persons, each a set of records. A step attaches a record to either
person, as a publication or a merge does; the verdict is recomputed from
`load_profiles` through the stages. The scorer's answer is any percentage in
`Probability`, or none.

### IngestRun

The runs of one source, each a process with one session, beside the world that
changes under them: the source's export, the deployed code, a retirement. A *key*
`<<artifact, content>>` is `(external_record_id, raw_sha256)`, on which
`source_record` is unique within a source; `Derived[key][version]` gives the rows
that a parser draws from those bytes.

| Variable | Code |
|---|---|
| `lake` | the keys whose object the raw lake holds |
| `record` | `source_record`: `retrieved_at`, `parser_version`, `ingest_run_id` |
| `canonical` | the published rows, each with its value and `source_record_id` |
| `status`, `pc` | `ingest_run.status` and where the process is |
| `export`, `deployed` | what the source serves and the parser version installed |
| `pending`, `bumped`, `overlay` | what a run has flushed and not committed: new records, raised versions, rows |
| `loaded`, `fetched`, `reparse`, `got`, `parser`, `forced`, `at` | the locals of `run_ingest` and `_retrieve` |

| Actions | Code |
|---|---|
| `Start`, `Refuse`, `Execute` | `run_ingest`: the row committed as RUNNING, `_refusal_reason` |
| `Look`, `NotModified`, `FetchKnown`, `FetchNew` | `_retrieve` up to the digest lookup |
| `Put`, `Insert` | object first, then the record |
| `Reuse` | a recorded artifact: parse again under `--force` or another version |
| `Publish`, `Finish` | steps 6 to 12, then the one commit of records, rows and SUCCEEDED |
| `Fail`, `Conflict`, `RecordFailure`, `Crash` | the exception path: rollback, then FAILED in a commit of its own; a killed process |
| `Retire`, `ChangeExport`, `Upgrade` | `retire_source`; the world |

`loaded` keeps what the session read before a fetch that may take minutes: an
object already in the session's identity map keeps the version it was loaded
with, so a decision to skip an artifact rests on it. `WholeCorpus` is the
connector that parses every artifact once one must be parsed (`cook_sao`).
`Rolling` lets a new parser be deployed while a run is in flight. `Foreign` is the
set of rows that another source cites, which a retirement keeps together with
their records.

What is abstracted: a row is drawn from the one artifact it is attributed to;
the upserts of steps 9 to 12 are one step that waits for every session holding
one of the rows, and so are the statements of a retirement (`retire.py:161-302`, about twenty
at READ COMMITTED); the month in an object's key is left out, because a key's
content names it already; storing an object again is a no-op, as nothing removes
objects. Persons are in `PersonResolution`; issues, checkpoint, coverage and
metrics are not in this module.

### MetricPublication

The commands that publish figures: a full `metrics compute`, and step 13 of an
ingest run inside the run's transaction. The canonical data are a function from a
few *cells* to *levels*, an export is that function itself (its content names it),
and `Drafts[content][registry][subject]` gives the value of every figure that the
compute draws from it. A *key* `<<subject, slot, definition version, content>>` is
what `uq_metric_observation_key` is unique on; a *slot* stands for the metric,
source, period, window, year and dimension of a figure.

| Variable | Code |
|---|---|
| `data` | the committed canonical tables |
| `dir` | `snapshot_root/<content_hash>`: absent, made without a manifest, complete |
| `snap` | `metric_snapshot`: content hash, `registry_version` |
| `obs` | `metric_observation`: value, `registry_version`, `superseded_at IS NULL`, the order of its id |
| `deployed`, `registry` | the registry installed, and the one a process loaded |
| `cell`, `newSnap`, `write` | what a transaction wrote and has not committed: canonical rows, the snapshot's row, observations |
| `full`, `content`, `todo`, `known`, `pc` | the locals of `compute_and_publish` and `_publish_subject` |

| Actions | Code |
|---|---|
| `BeginCompute`, `BeginIngest` | `metrics compute`; an ingest run at step 13, or one that deferred it |
| `Export`, `MakeDirectory`, `FillDirectory`, `Unreadable` | `export_snapshot`, `_read_manifest` |
| `ReuseSnapshot`, `MissSnapshot`, `InsertSnapshot`, `SnapshotConflict` | `upsert_snapshot` and the unique hash |
| `SkipUnchanged`, `LoadChanged`, `Supersede`, `FindRevivable`, `WriteRows`, `RowConflict` | the statements of `_publish_subject` |
| `Commit`, `Fail`, `Crash`, `Upgrade` | the caller's commit, any failure, a killed process, a new registry |

What is abstracted: the export reads all tables in one step; the tables keep no
separate step for definitions, member families, coverage statistics and fitted
models; an `UPDATE` or a batch of inserts takes all its row locks at once; a full
compute selects every subject and every kind (the `--subject` and `--source`
options are left out); the compute itself is `Drafts`, any function. A slot of
the model holds the source, which the code keeps beside it and groups by
(`publish.py:453-457`, `633-638`). Ids are
random in the code: `Ids` orders the rows of one slot and snapshot in every way.
The locals of a command that is over are reset, which nothing reads.

### CookCounty and the modules under it

`CookRules` says what `load_tables` accepts (`ValidTables`), `CookCase` what one
case's rows give: charges with their dispositions, decisions with what they claim
of a judge or a bond, sentences with their supersession, the status of the case.
`CookExports` reads the five exports, sorts them by every column read, groups them
by case and drafts. `SourcePublication` deduplicates the drafts, resolves their
references and upserts row by row, writing only what differs.

| Variable | Code |
|---|---|
| `portal` | the release of each export that the portal serves; its number stands for digest and rows-updated time |
| `disk` | the rule tables on disk and the edition the code's pinned digest names |
| `code` | the parser version |
| `record` | `source_record` of each release: parser version, recorded rows-updated time |
| `db`, `issues` | the published rows of fourteen tables with their compared columns; `data_quality_issue` |
| `run` | the locals of the run in hand: what it got, what it will parse, the tries left |

| Actions | Code |
|---|---|
| `Republish`, `EditTable`, `BumpVersion` | the portal, an operator who edits the tables, a release of the parser |
| `Begin` | `run_ingest`; the tables loaded or refused |
| `ReadMetadata`, `Download`, `TryAgain`, `DownloadFails` | `connector.fetch`, `http.py` with its retries, `_retrieve` |
| `Unchanged`, `Publish`, `ParseFails` | nothing to parse; `parse`, deduplicate, resolve, upsert, commit; unverified headers or a failure |

What is abstracted: statutes, titles, amounts, the list of a sentence's terms and
the texts of findings; a finding is a count per code and export in the code and
names its row here. `FindingsOfCase` has the findings about cases, charges and
sentences; those about bonds, undated facts, restricted and ignored values
(`bond_not_drafted`, `fact_undated`, `restricted_value_*`, `ignored_value`;
`case.py:440-848`) are left out, so that `NothingLost` speaks of charge versions and
sentencing rows. The identifiers of judges are left out, and so are entity resolution and
metrics, which follow in the same transaction.

### CaseMetrics and the modules over it

`rows` holds the published rows, `merged` is `person.merged_into_person_id`, and
`figures` is what the engine computes from them: source, subject, definition to
drafts and member family. `Publish(batch, stale)` is the upsert of a run's rows,
with persons looked up before a merge when `stale`; `MergePersons` is
`merge_persons`. Each recomputes the figures, because the properties compare the
figures of every state with the rows of that state; what step 13 would recompute
is `Impacted`. `SyntheticTruth` restates `synthetic/truth.py`, which computes the
figures from the generator's world and not from the tables. `AdjustedFigures` adds
the designs of the outcome models over the same states and `FigureReads` what the
interface returns of them. Instants are integer days. Left out: court and
jurisdiction subjects of some kinds, the interval of a rate;
the regression, the temporal split, the bootstrap and the pooling.

The definitions are not given: `MetricRegistry` has a registry *file* as a constant,
says which files the loader accepts (`Loads`) and makes the definitions of the
accepted one, with the revocation scope and the calendar years that the file states
elsewhere. `SyncDefinitions` is the sync of `metric_definition`.

Where the rows of the synthetic source are what a generator would draw (`IsWorld`),
`SyntheticSource` writes that world to the nine files, with the planted duplicates
or without, and reads it back as the connector does: files that are not the
manifest's are refused whole (`Accepted`), a row with an empty cell or a value out
of its vocabulary is rejected (`Admissible`), the judge at an instant and the rank
of a party are looked up in what the other files say (`BuildContext`), and a row
gives its drafts (`Normalize`). Of two judges assigned at one instant the code takes the greater
code, the model either; the generator assigns no two. `FilesGiveRows` says that the drafts are the rows.
Names, titles and amounts of money are left out of the files.

`CoverageStatistics` counts, by source, jurisdiction and court, how far the rows of
a frame support the figures; `OnlyIdentifiedCases` holds its idea of an identified
judge against the gates, and `StatisticsFit` says that its rows can be stored.

### ModelCatalog

| Variable | Code |
|---|---|
| `data`, `deployed` | the committed canonical tables; the release installed |
| `snaps`, `rows`, `obs` | `metric_snapshot`, `outcome_model`, `metric_observation` |
| `files` | the artifact of each model: absent, partial, whole |
| `proc` | the locals of a command and what it has written and not committed |
| `check` | the locals of a verify |
| `ingests`, `crashes` | what the bounds count |

| Actions | Code |
|---|---|
| `BeginFit`, `BeginCompute` | `models fit`; `metrics compute` over a scope |
| `FindSnapshot`, `InsertSnapshot`, `SnapshotConflict` | `upsert_snapshot` |
| `ListMissing`, `OpenArtifact`, `WriteArtifact`, `KeepArtifact`, `RefuseArtifact`, `RecordModel` | listing, fitting, the exclusive create of the artifact, the insert `ON CONFLICT DO NOTHING` |
| `ReadModels`, `Publish`, `Commit`, `Crash` | the models read back, one subject after another, the one commit |
| `Ingest` | a commit of other data, and a release |
| `StartVerify`, `CiteModels`, `LoadSubject`, `CompareSource`, `EndVerify` | the statements of `metrics verify` |

One subject's publication and the snapshot directories are `MetricPublication`'s
detail; here each is one step. So is `Ingest`: in the code its step 13 runs inside the longer
transaction of a run and waits for rows that a command holds; here it commits at once.

### Schema

`db` is the schema as tables with references, keys, checks and privileges, and
which of them hold rows; `revision` is alembic's; `written` is the latest revision
whose program wrote rows. `Upgrade` and `Downgrade` run a revision's statements in
one transaction; `Bootstrap` is the role script that runs again at every start;
`Fill` writes rows of one of five stages. Columns that no key, reference or check
names are left out.

## Runs

| Run | Instance | What it shows |
|---|---|---|
| `er_serial` | 1 session, 4 records of 2 sources, one of two names, 6 commands | nothing is left with a merged person, stored matches are one person, persons that share a name have been compared, decisions are final, and the committed state implements `PersonPartition` |
| `er_concurrent` | 2 sessions, 3 records, 3 commands, fairness | no merge cycle, nothing unaudited, no human decision replaced by the system, every started command ends |
| `er_stranded` (violation) | 2 sessions, 3 commands | a run publishes rows under a person merged away meanwhile |
| `er_stages` | 8 records, 6 scorer answers | symmetry, and that a match is never contradicted later |
| `ingest_runs` | 3 runs (2 in flight) of a whole-corpus connector, plain or forced, 2 artifacts of 2 contents, 2 parser versions, a crash, a retirement, 2 changes of the export | every record has its object and a run that succeeded; every recorded artifact is published |
| `ingest_artifacts` | 2 unforced runs in flight, artifact by artifact, a parser deployed while they fly, a row cited by another source, fairness | lineage stays honest; every run that is not killed ends |
| `cook` | every order of re-publications of five exports, edits of the tables (one edition is refused), unverified headers, retries, failures and forced runs | the rows of the recorded exports are shown as drafted; a reordered export writes nothing; no draft is lost without an issue; no row claims more than the source |
| `metrics_publish` | 2 commands in flight, 2 subjects, a descriptive and an adjusted slot, 4 contents, 2 registries, a kill, fairness | every stored figure is its snapshot's, cited snapshots open, step 13 keeps adjusted figures, every publisher that is not killed ends |
| `metrics_serial` | 4 commands one after the other, the same data | what a command commits is what its data give, one row for each slot |
| `figures` | 8 batches of rows of 2 sources, 2 persons, merges, stale publications, in every order | the world written to files and read back gives the rows, and figures are the generator's truth; they cohere with each other and their members; aliases and ids do not show, in coverage statistics either; no judge's figure counts a case that identifies no judge; designs know and read only what they state; ratios meet the figures; no list of figures tells what it withholds and pages of a comparison repeat and lose no row; step 13 leaves out only judges of two known kinds; chains last and give the counts of their figure, suppressed or not |
| `models` | 2 commands and a verify in flight, 3 releases, an ingest, a kill, fairness | recorded models are whole, ratios cite their own model, unsupported targets are stated, verify is honest, all of them end |
| `schema` | every path of upgrades and downgrades with rows of five stages and the role script in between | the head is what the models declare, migrations run, the public role never reads a restricted table |

Why the bounds are enough. Records 1, 2 and 3 are pairs for review or, without
a date of birth, rejected; in `er_serial` record 2 is published under one name or
another and record 3 under the second one alone, so that a person gains a second name
and hands it over when it is merged away (35280 states; `er_concurrent` has 17780, with one
name). Record 4 matches both 1 and 2 by rule, so one run
holds a pair to review, two matches that share a person, and a survivor that is
not the pair's own person. Four records reach a merge of a merge; six commands
reach ingest, review, re-ingest, rerun and two crashes. Two sessions give every
pairwise interleaving of statements; with three commands one session can
overtake two. The number of commands begun (`MaxTx`) is the only counter that is
capped, by `Begin`'s guard, so a behaviour does stop there and the runs say
`CHECK_DEADLOCK FALSE`; that no command is stuck is `CommandsEnd`. The run that
refutes a property uses records that are all alike and sessions that are
symmetric.

For ingestion, two runs in flight give every interleaving of two
sessions and the third starts from what they left; two contents and two changes
let an export return; two artifacts let one be new and the other known, or fail
between them; content `a` gives a row that parser 2 no longer draws, and `a` and
`b` agree on one row and differ on another. The bounds `MaxRuns`, `MaxChanges`,
`MaxCrashes` and `MaxRetires` stop a behaviour, so these runs say
`CHECK_DEADLOCK FALSE` as well; `RunsEnd` says that no run is stuck.

For publication, one cell moves the figures of one subject and the other those of
both, and takes away the drafts of the second subject for some data; the
definition of one slot changes with the registry, and the other slot keeps its
definition and changes its values. Two commands in flight give every interleaving
of two publishers, and what a third would read is what two have left; four in a row
let the data leave a content, get another registry and return. `MaxCommands` and `MaxCrashes` stop a behaviour, hence
`CHECK_DEADLOCK FALSE`; `PublishersEnd` says that no command is stuck.

For Cook County, two cases are drafted and a third has no filing date; the
initiation export has a second release that is the first one reordered,
dispositions and sentencing have a second one with more rows, diversion one that
repairs an unverified header; editions 1 and 3 of the tables are accepted, edition 2 is
refused. `Republish`, `EditTable` and `BumpVersion` are offered only where a run
could tell: between runs, while the run is at that export and, for the tables, before it
parses. Elsewhere they commute with the run's steps. Nothing is counted: releases and
editions only go forward, so the state space is finite by itself.

For the figures, a year has ten days, so that windows, years and follow-up end in
many orders within four of them; two courts, three judges of whom two share a name,
eight batches, a registry file of sixteen entries, twenty-one comparisons and six service records; designs of eleven
features of the real contract, three targets, windows of five and twelve days.
`Publish` may repeat a batch, so every order of batches and merges is reached: 668
states. One failure to appear comes with a decision that corrects an earlier one, so
that a follow-up starts under one judge and fails under another. The files are written
with no case planted twice and with every case planted twice. What the loaders refuse
(registry files, manifests, model specifications) is a list of changed files that TLC
evaluates as assumptions. For
the catalogue, three releases change the specification once and the registry once;
one ingest lets a command meet data its model is not of; one verify overlaps both
commands. `Schema` has no bounds: the revisions are the code's.

`SharedNamesJudged` asks of two standing persons that share a name that they, *or persons
since merged into them*, have been compared. It does not ask for a candidate of the two
themselves: `merge_persons` hands over a name and not the candidates. When A, with name
a, absorbs B, with names a and b, then A and C, with name b, share a name and have no candidate
of their own; the stored one of B and C names a merged person, so `decide`
refuses it (`queue.py:187`), and the pair is blocked again only when a later run publishes a
record of A or C, or `er run` covers their source. TLC refutes the stronger statement in
`er_serial`'s instance.

`FiguresFresh` speaks of subjects that have drafts: one that has lost them all
forms no group, is never visited and keeps its last figures (a hazard in
`PROJECT.json`; no document says otherwise). It is checked, and proved, for one
command at a time, because two refute it (see the observations below).

Two properties of ingestion depend on stated circumstances, and TLC refutes them
outside. `Traceable` fails when a parser is deployed while a *forced* run, or a run of a
whole-corpus connector, is in flight: the old process publishes its rows over
those of the new version and the record keeps the new version.
`RecordedMeansPublished` fails when `Foreign` is not empty: a retirement keeps the
record of a row another source cites, and the next run of the same bytes skips
it. Each is a hazard in `PROJECT.json`; the repository's documents claim neither.

Fairness. In `PersonResolution`, `FairSpec` assumes that a started command goes on
(weak fairness of each session's `Step`) and that the database resolves deadlocks (weak fairness
of `AbortDeadlocked`). It assumes nothing of `Crash` and nothing of new
commands. Both hold of the code: a command is a straight-line program that
blocks only in the database, which grants locks as their holders end and runs a
deadlock detector. In `IngestRun`, `FairSpec` assumes weak fairness of each run's
`Step`, for the same reason, and nothing of failures, crashes, new runs or the
world; so does `MetricPublication` of each command's `Step`. `ModelCatalog` assumes
less: while one of the running processes can take its next statement, one of them
does; commands are finite and their number is bounded, so no one can keep another
waiting for ever.

## Finding and observations

`er_stranded`: `merge.py` "re-points every person-bearing row of `drop` to `keep`",
but an ingest run that resolved its persons before the merge committed writes rows
of `drop` afterwards.

What else was met while modelling, and is refuted by TLC in instances that are not
kept as runs or was read in the code:

- Two reviewers: `merge_persons` checks both persons with an unlocked read and
  updates by id, so of two concurrent merges of one person the second redirects
  the first. The pointer still descends and both are audited.
- A third record that matches both persons of a pair a reviewer rejected joins them
  through itself; the documents promise only that the pair is not merged again.
- Content A, B, A of an artifact gets no third record, so the latest record by
  `retrieved_at` is that of B, where `cook_sao/stored.py` takes it for the current
  export. The Cook County portal never goes back, so `CurrentRowsPublished` holds.
- A forced or whole-corpus run under an old parser that is overtaken by a run of the
  new one publishes old rows under a record of the new version (`Traceable`'s
  hypothesis).
- Two publishers in flight leave rows of two snapshots current: each supersedes only
  what it has read. `docs/ARCHITECTURE.md` calls adjusted figures after step 13 "the
  one place a subject's current rows cite two snapshots".
- A row to revive is indexed without its definition's version (`publish.py:653`), so
  a snapshot with rows of two versions may hide the one looked for; the insert then
  meets `uq_metric_observation_key`.
- An exporter that loses the race for a snapshot's directory gives up when the
  winner has not written the manifest, its last file; if the winner dies in between,
  so does every later export of that content (`Unreadable`). In the same way a partial
  model artifact left by a kill blocks later fits of that snapshot by the same code.
- Step 13 closes over the rows a run drafted, never over the rows they replace and
  never over a charge's disposing judge (`runner.py:476`, `511`; `ARCHITECTURE.md:107`):
  `ImpactedButForJudges` says exactly which judges are missed.
- `metrics verify` skips adjusted observations that appear between its two loads
  and can report a mismatch on rows revived meanwhile; `VerifyHonest` speaks of rows
  that stood still.
- The registry's loader accepts a median of any measure over any population
  (`registry.py:614`), and `compute_median` fails where the population's rows have no such
  column (`MediansAssumption`).
- Readers: `ModelStatus` (`schemas/metrics.py:54`) lacks the status "unavailable" that
  `outcome_models.py:38` and `docs/API.md` list; the order of a comparison
  (`repositories/metrics.py:334`) ends with the dimension, so a judge with rows of two
  sources may stand twice at one position and pages may repeat or lose a row
  (the hypothesis of `PagesPartition`); a page past the end has no reference period.
- Cook County: upserts never delete, so a row no longer drafted stays until
  `ingest retire`; a digest pinned again without a new parser version is accepted and
  nothing is derived again; a group of probation terminations supersedes a sentence
  although it drafts none, and a later sentence of phase "original" does not
  (`case.py:969` against `sentence_rules.yaml:47`); sentences are grouped by instant
  and keyed by date; a 304 leaves the recorded rows-updated time old, so each run asks
  again.
- Synthetic connector: the disposing judge of a charge is taken from the assignments
  file, so a charge whose own file did not change keeps its old judge
  (`runner.py:785`). `SyntheticSource` reads all files at once; that unchanged ones are
  skipped is read, not modelled. Of the outcomes that a snapshot derives, the connector
  drafts events only of those that follow another case of the person
  (`FollowingOutcomes`).
- Schema: 0010 applied again labels adjusted reasons `below_threshold`; 0008 applied
  again permutes the keys of cases with ten parties or more; rows carried below 0002 to
  0005 make the upgrade fail (`MigrationsRun` names these).
- Suppression: `docs/API.md` (lines 320 to 322) says that the response schemas strip what a
  suppressed row withholds, "so no route can leak a withheld figure". The provenance route
  serves `counted` and `followed` for every observation (`services/metrics.py:659-671`,
  `schemas/metrics.py:511-522`), which for a suppressed one are the numerator and the denominator
  that its `observation` withholds (`test_api_metrics.py:508` tests it of `counted`, for an
  observation that is shown; where a figure counts people, `counted` is of their rows).
  `ChainsLast` states that the chain gives them back, suppressed or not; `ListsTellNothing`
  is limited to the routes that list figures, of which the document's claim holds.
- Features: the docstring of `features.py` (lines 19 and 20) promises more of
  `prior_cases` than its builder keeps; `NoHindsight` exempts that feature.

## Proofs

The theorems, and the property of a run that each states for every value of the constants:

| module | theorem | property |
|---|---|---|
| `PersonResolutionProofs` | `IndInvariant` | inductive invariant |
|  | `TypeCorrect` | `TypeOK` |
|  | `ChainsEnd` | `PointersDescend` |
|  | `NothingSilent` | `Audited` |
|  | `HumanDecisionsKept` | `SystemKeepsHumanDecisions` |
| `StagedDecisionsProofs` | `OrderNeverMatters` | `OrderIrrelevant` |
|  | `MatchesStand` | `NeverUnmatched` |
|  | `NeverOnNameAlone` | `MatchedOnEvidence` (no run lists it) |
|  | `AgreementStands` | `AgreementNotRejected` (no run lists it) |
| `IngestRunProofs` | `RunInvariant` | inductive invariant |
|  | `RecordsKept` | `RecordsStand` |
|  | `SkipsLoseNothing` | `RecordedMeansPublished` |
|  | `LineageHonest` | `Traceable` |
| `MetricPublicationProofs` | `PublishInvariant` | inductive invariant |
|  | `FiguresVerify` | `RowsVerify` |
|  | `StoreInvariant` | inductive invariant |
|  | `SnapshotsStayOpen` | `SnapshotsOpen` |
|  | `StepThirteenKeepsAdjusted` | `AdjustedKept` |
|  | `AloneInvariant` | inductive invariant |
|  | `CommittedFiguresFresh` | `FiguresFresh` |
| `SerialResolutionProofs` | `SerialInvariant` | inductive invariant |
|  | `MergesComplete` | `MergedPersonsEmpty` |
|  | `MatchesMerged` | `MatchedIsOnePerson` |
|  | `NoPairMissed` | `SharedNamesJudged` |
|  | `DecisionsFinal` | `HumanDecisionsFinal` |
|  | `ImplementsPartition` | `RefinesPartition` |
| `ModelCatalogProofs` | `CatalogueInvariant` | inductive invariant |
|  | `CatalogueTypeCorrect` | `TypeOK` |
|  | `ModelsReadable` | `CatalogueWhole` |
|  | `RatiosBacked` | `RatiosCiteTheirModel` |
|  | `UnavailableAlwaysStated` | `UnavailableStated` |
|  | `VerifyInvariant` | inductive invariant |
|  | `VerifyTellsTheTruth` | `VerifyHonest` |
| `CookCountyProofs` | `CookInvariant` | inductive invariant |
|  | `CurrentRowsShown` | `CurrentRowsPublished` |
|  | `RowsNeverClaimMore` | `RowsClaimNoMore` |
| `FigureProofs` | `FiguresInvariant` | inductive invariant |
|  | `AliasesNeverShow` | `AliasesInvisible` (a part of `FramesSound`) |
|  | `FinitelyManyRows` | `RowsFinite` (no run lists it) |
|  | `ListsNeverTell` | `ListsTellNothing` |
|  | `FramesAlwaysSound` | `FramesSound` |
|  | `PagesAlwaysPartition` | `PagesPartition` |
|  | `AcceptedRegistry` | lemma of interest: what a file that loads gives the engine |
|  | `AnchorsAgree` | of every file that loads |
|  | `SyncKeepsHistory` | of every sync |
|  | `StatisticsVerify` | of every publication of statistics |

`PersonResolutionProofs` proves, for all sets of persons, sessions, sources and
records and any bound on commands, that `IndInv` is an invariant, and from it
`TypeOK`, `PointersDescend`, `Audited` (merges and decisions) and the action
property `SystemKeepsHumanDecisions`. None of these is inductive by itself:

- `PointersDescend` needs that the pointers not yet committed descend too
  (`WritesDescend`), which needs that every merge under way has its survivor
  before its dropped person (`MergeTargets`); that rests on `KeptBeforeDropped`.
- `MergesAudited` needs that an uncommitted pointer has its audit row in the same
  transaction or already committed (`WritesAudited`).
- `DecisionsAudited` and `SystemKeepsHumanDecisions` need that a candidate row
  has one writer at a time and that a writer that found a human decision kept it
  (`CandidateWrites`): this is where the row lock and the `WHERE` of the upsert
  meet.

`StepIsLocal` says once that a step of one session leaves the others' locals
alone; every conjunct has its own step lemma (`TypeStep`, `TargetsStep`,
`PersonsStep`, `MergeAuditStep`, `CandidatesStep`). The first two merge-safety
results hold under full concurrency although the merges themselves race
(the first observation): a redirected merge still points down and is still audited.

`SerialResolutionProofs` proves what holds for one session at a time (`Serial`), for
any number of persons, records and sources: `MergedPersonsEmpty`,
`MatchedIsOnePerson`, `SharedNamesJudged`, `HumanDecisionsFinal` and the refinement of
`PersonPartition`, whatever drafts a record is published under. The invariant `SerialInv` has
a part about the committed rows (pointers lead to standing persons, the holder of every row,
identifiers included, stands (`KeptTogether`), matched pairs meet, persons that share a name
have been compared, they or persons merged into them (`AllJudged`)) and a part about the command at work:
which rows it has still to move, which pairs it has still to judge, and that what it
read is still so. A run judges every pair that a hash of its batch can bring together,
since the holder of every hash it adds is an anchor of its blocking; after a merge
the survivor shares a name only with persons that it or the person merged away shared one
with. Chains of merged persons are walked by a least counterexample
(the smallest person whose chain does not end), since no induction theorem can be
instantiated. The hypothesis is no convenience: `er_stranded` refutes the first of the
five with two sessions. The refinement maps the committed holder of every record to
its class: a commit joins classes, every other step leaves them.

`StagedDecisionsProofs` proves the two properties of `er_stages`, what a match rests on and
that persons who share name and date of birth are never rejected, for every set of records, thresholds and scorer answers. `EvaluateStages` reduces the pipeline
to its first decisive stage, `AgreementsGrow` says that attaching a record loses
no agreement, and `MatchesStand` follows. 
`IngestRunProofs` proves three inductive invariants for every number of runs,
artifacts, contents and versions. `RunInv` gives `RecordsStand` (`LakeBacksRecords` and
`RecordsOfSucceededRuns`): it adds to them that a run about to insert has put its
object (`StoredFirst`) and that a run that has succeeded takes no further step
(`SucceededIsOver`), so that no rollback can take a record back from it.
`PublishInv` gives `RecordedMeansPublished` under `Foreign = {}`: it adds that what
a run records or raises it also parses and that its rows are there and locked
from the upserts to the commit (`ParsedBeforeCommit`); the step that needs the
lock is `Retire`. `TraceInv` gives `Traceable` (`LineageHonest`), provided no parser is
deployed while runs fly, or no run is forced and artifacts are parsed one by one: it
adds that a run's rows are drawn from the keys it holds, that records it will raise
name an older version than its own (`OnlyStale`), and that with nothing deployed there is
one parser (`OneParser`). Outside the hypothesis TLC refutes it.

`MetricPublicationProofs` proves three inductive invariants for every number of
commands, subjects, slots, registries and contents. `PublishInv` gives `RowsVerify`
(every row, current or superseded, is what its snapshot gives under the registry
it states) and, with `StoreInv`, the action property `AdjustedKept`. It adds that
what a command has read is still there (`KnownThere`) and that step 13 has no
adjusted row in hand (`ScopeKept`). That two publishers race does not
harm either: a row superseded or revived by the wrong command still says the
truth about its own snapshot. `StoreInv` gives `SnapshotsOpen`: it adds that a directory
is complete before a command passes to the snapshot's row (`SnapshotReady`) and
that the row is written before the observations (`WritesCited`). `AloneInv`, for at
most one command in flight (`MaxActive <= 1`), gives `FiguresFresh`: what the command
exported is what it sees (`Exported`), the subjects it is done with hold exactly their
drafts (`SubjectsDone`), and of the one in hand no current row is left when rows are
written (`SubjectInHand`). Crashes, conflicts and failures are part of it.

`ModelCatalogProofs` proves two inductive invariants for every number of commands,
sources, targets, subjects and releases. `CatalogueInv` gives `CatalogueWhole`,
`RatiosCiteTheirModel` and `UnavailableStated`, for any number of commands at once:
every stored ratio is backed by a recorded model (`Backed`), the adjusted figures of a
subject appear together (`Together`), and each command keeps that what it has
opened, recorded and read is still so (`Fitting`, `Recording`, `Publishing`). The
argument is that a subject's uncommitted rows belong to one transaction and a model's
unique name to another, so no command can take from under a second what it rests on.
`VerifyInv` gives `VerifyHonest`: every observation that stood still since the verify
began is accounted for in one of its sets or still ahead of it (`Accounted`), the models
it read are still recorded (`ModelsKept`), what it holds of the source in hand is what
the snapshot gives (`AtHand`), and it meets the subjects of a source one after another
(`InTurn`).

`CookCountyProofs` proves one inductive invariant for every exports, releases, rule
tables and order of runs. `CookInv` says that recorded releases were published and
their recorded rows-updated time claims no more (`RecordsSound`); that what a run has
taken is the latest it knows, and that a run with nothing to parse found nothing new
(`RunSound`); that the rows drawn from the recorded exports are shown at every moment
unless a draft of theirs was rejected or contradicted (`RowsCurrent`); and that every
published row was drawn from tables the loader accepts (`RowsHonest`). It rests on lemmas
about every corpus: from accepted tables a decision claims no other's act
(`CorpusHonest`) and a closed case has only charges that have ended (`CorpusClosed`,
`ClosedCharges`); and on lemmas about the upsert: what is published was drawn
(`PublishedDrawn`) and what was drawn is shown (`PublishedShows`, `CorpusShown`).
`RowsNeverClaimMore` is unconditional. `CurrentRowsShown` says that
`CurrentRowsPublished` holds where `DraftsKeptWhole` does: of two drafts of one key that
differ only one can be shown, and whether exports hold such drafts is a matter of the
data (TLC checks in `NothingLost` that these do not).

`FigureProofs` proves `AliasesInvisible` for every batches, merges and definitions:
the figures are those of the rows with every alias replaced by its survivor, however long
the chain of merges. `FiguresInv` says that merges lead to earlier persons, that every
row has the columns that identify it, and that the figures are those of the rows as they
are. The rest is about operators: a chain of merges ends within as many steps as there are
persons, at a person that is not merged (`ChainEnds`, by counting the persons it has
left behind), so that a survivor is its own survivor (`SurvivorTwice`); and each table of
the resolved rows, each selection by case and each look for later events of a person
resolves to the same rows (`TableResolved`, `CaseRowsResolved`, `EventsResolved`), so
the frame of a source is the same (`FrameResolved`). Everything the engine computes
is computed from the frame.

It also proves `ListsTellNothing` for every definitions and queries
(`ListsNeverTell`): replacing the figures that suppressed rows withhold changes no list,
neither the metrics of a subject nor a comparison. The chain of one observation is not among
them: it serves the counts of every observation, and `ChainsLast` says that they are the
observation's. The argument: every kind of definition makes one draft for each period, window
and dimension (`CountSlots`, `WindowSlots`, `DistributionSlots`, `MedianSlots`), so no two
observations become one when their withheld figures are replaced (`OthersSize`); a row
is before another in a comparison exactly when it was (`OrderSame`), so places, pages,
totals and the most shared period are counted alike (`PositionSame`, `PageSame`,
`MostSharedSame`). Counting needs finite sets: rows are finitely many in every state
(`FinitelyManyRows`), hence frames, cohorts, drafts and observations are.

`FramesAlwaysSound` states the whole of `FramesSound` for every registry that loads.
That aliases do not show is `AliasesNeverShow` with the statistics of the same frame.
That only identified cases are behind a judge's figure goes gate by gate, population by
population and index event by index event (`GateIdentified`, `PopulationIdentified`,
`CohortIdentified`). A judge column names the judge on a row of the case; an assignment
is one of the two ways to identify; a disposed case takes the judge of its last disposed
charge, which exists because finitely many charges are ordered by instant and id
(`LastExists`); and a gate that could meet a row without a case's judge is refused by
the registry (`AcceptedRegistry`). That statistics fit is counting: the numerator's rows
are among the denominator's, both are finite, and source, scope and name determine the
row (`StatisticCounts`, `FrameStatisticsFit`).

`PagesAlwaysPartition` states `PagesPartition` for every rows, merges, registry, service
records and queries: following `next_offset` reads every row of a comparison exactly once
and only the last page is short. The rows of a comparison are a strict order
(`CohortOrdered`): they are sorted by a figure compared as a fraction, and comparing
fractions by cross products is transitive only where denominators are positive
(`CrossMultiplied`, `FiguresOrdered`). So the proof types every draft (`MeasureDated`,
`MetricTyped`): a count is a number, a median a doubled number, a rate has a positive
denominator, and the survival product, computed by recursion along the event times, stays
a fraction with a positive denominator (`SurvivalFraction`: the persons at risk at an event
time are never none). That in turn needs the days and ranks the figures are computed from:
`RowsDated`, the second inductive invariant here, says that every row has them, and
`FrameDated`, `TermsDated`, `EventsDated` and `CohortDated` carry it through merges,
frames, exposures, deferral past terms and first outcomes. Two rows that tie in everything
are of one judge, whom the hypothesis of `PagesPartition` gives one source and period, so
they are one row (`ObservationSlots`). Ranks in a finite strict order are the numbers below its size,
each once (`RanksOnce`), every rank lies on one page (`PageNumber`), and a page holds
as many rows as it has places or as are left (`PageSize`).

The registry's theorems have no state. `AcceptedRegistry`: of every file that loads, the
definitions are finitely many, one for each slug, and each has what its computation
reads. `AnchorsAgree`: the instant a file states for a population is the one the engine
uses. `SyncKeepsHistory`: a sync keeps the rows of other versions, has all of the file's
and writes nothing the second time. `StatisticsVerify` says of `coverage_statistic` what
`metrics verify` relies on: publication keeps other snapshots' rows, is idempotent, and
where nothing else is stored of the snapshot the comparison is empty.

Assumptions. On the data: `BoundsAssumption`, `InputsAssumption`, `DerivedAssumption`,
`DisjointAssumption`, `DataAssumption`, `ImpactedAssumption`, `DraftsAssumption`,
`BatchesAssumption` (with `Dated`: the columns that `db/models/cases.py` makes dates,
instants or integers are so, and not null where it says so), `ProfileAssumption`,
`ReadsAssumption` (collation ranks are numbers, sorts are those of the API),
`RegistryAssumption` (the file loads), `WindowsAssumption`,
`PersonsAssumption`, `CatalogBounds`, `CatalogData`, `CatalogScopes`, `NumberedAssumption` and
`ForcingAssumption` (numbers are numbers, functions have the domains they are used on);
`ThresholdAssumption` (checked by `Thresholds.__post_init__`), `ResultAssumption`,
`SentinelAssumption`, `NullAssumption` and `RowAssumption` (the sentinels are no real values),
`PersonAssumption`, `BoundAssumption`, `ProbabilityAssumption`. On the code:
`JudgesAlike`, that the judges of one source have figures for the same targets
(a target is observable for a source or it is not, and every judge gets every observable
one), and `OneSourceAfterAnother` (`verify.py:598` and the engine sort subjects by source
first); and `MediansAssumption`, that a median measures what the rows of its population
have. The loader does not check the last one: a median of another population loads and its
computation fails, so the figures in the model are those of registries that compute. TLC evaluates all of them in every run whose module has them.

Only model-checked:

- liveness (`CommandsEnd`, `RunsEnd`, `PublishersEnd`, `AllFinish`), which the prover
  does not reach;
- `NothingLost` and `ReorderWritesNothing`: what `SortSeq`, `SelectSeq` and the other folds
  of the library compute is an induction over data;
- the other properties of `figures` (`SourceTellsTruth`, `FiguresCohere`, `DesignsSound`,
  `ImpactedButForJudges`, `ChainsLast`): they compare folds and recursive functions over
  rows (deferral past terms, the survival product, members counted with their copies,
  encoded designs) for given rows.
- the properties of `schema`: the model has no constants, so TLC's run over all its
  states is already complete.

## Plan

The modules of the original plan are in place, except for the rate limiter. What is
left, in order of importance:

1. `TokenBucket`: the rate limiter with threads and its bound on keys.
2. Persons, pointers and the refusals of a retirement, in its order of deletes.
3. Quality checks, and the runs of the synthetic source one after another, with unchanged
   files skipped.

## Not modelled

The FJC connector, normalization and hashing translate values one at
a time and share no state; equality of hashes is all that the models use of them.
Quality checks and the validation reports change nothing published. The random draws of
the synthetic generator are any world. Intervals and numerical fitting
(`metrics/adjustment`) are arithmetic on reals. The methodology document, the read-only
routes and the web front end keep no state. The scripts `verify_phase01.py` to `verify_phase04.py` (7364 lines)
check deliverables of the repository itself, files and their contents, and run nothing
of the system. Two alembic processes at once are not modelled. Which parts are modelled in
part, and what of them is left out, is listed component by component in `PROJECT.json`.
