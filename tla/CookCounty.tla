------------------------------- MODULE CookCounty -------------------------------
(***************************************************************************)
(* The Cook County source end to end: the portal that re-publishes its     *)
(* exports, the rule tables that are edited, and the ingest runs that      *)
(* fetch, parse and publish, one run at a time (ingest/http.py,            *)
(* cook_sao/connector.py, ingest/runner.py).  Runs that overlap are the    *)
(* subject of IngestRun.                                                   *)
(*                                                                         *)
(* A release of an export is its number; its number stands for its digest  *)
(* and for its rows-updated time, and the portal never goes back to an     *)
(* earlier one.  Entity resolution and the recomputation of metrics, the   *)
(* steps that follow publication in the same transaction, are left out.    *)
(***************************************************************************)
EXTENDS SourcePublication

CONSTANTS
  Releases,  \* Releases[file]: what the portal publishes: rows, and verified headers or not
  Editions,  \* the successive contents of the rule tables
  Retries,   \* how often a download is tried again
  Forcing    \* the values of --force

Release(file) == DOMAIN Releases[file]
Edition == DOMAIN Editions

\* Releases and editions are numbered from one.
ASSUME NumberedAssumption ==
  /\ \A file \in File : 1 \in Release(file) /\ Release(file) \subseteq Nat \ {0}
  /\ 1 \in Edition /\ Edition \subseteq Nat
ASSUME ForcingAssumption == Forcing \subseteq BOOLEAN

NoRun == [pc |-> "none"]
FileAt(i) == Files[i]

Delivered(releases) == [file \in File |-> Releases[file][releases[file]].rows]
ReleaseVector == {v \in [File -> UNION {Release(file) : file \in File}] : \A file \in File : v[file] \in Release(file)}
ValidEdition == {e \in Edition : ValidTables(Editions[e])}
\* What the accepted tables draw from the releases, computed once.
CorpusOf(e, v, parsed, kept, findings) ==
  [edition |-> e, releases |-> v, drafts |-> kept, conflicts |-> Conflicts(parsed, kept), findings |-> findings]
ParsedCorpus(e, v, frames, parsed) ==
  CorpusOf(e, v, parsed, Deduplicated(parsed), Findings(Editions[e], frames) \cup ReadFindings(Delivered(v)))
DerivedCorpus(e, v, frames) == ParsedCorpus(e, v, frames, Parsed(Editions[e], frames))
Corpora == {DerivedCorpus(e, v, Frames(Delivered(v))) : e \in ValidEdition, v \in ReleaseVector}
Corpus(e, v) == CHOOSE corpus \in Corpora : corpus.edition = e /\ corpus.releases = v

VARIABLES
  portal,  \* the current release of each export
  disk,    \* the rule tables: their edition, the edition tables.yaml pins, their version
  code,    \* RULE_VERSIONS of the deployed code
  record,  \* source_record: file -> release -> its rows-updated time and parser version
  run,     \* the ingest run
  db,      \* the published rows
  issues   \* data_quality_issue: the findings persisted so far

vars == <<portal, disk, code, record, run, db, issues>>

Init ==
  /\ portal = [file \in File |-> 1]
  /\ disk = [edition |-> 1, pinned |-> 1, version |-> 1] /\ code = 1
  /\ record = [file \in File |-> <<>>]
  /\ run = NoRun /\ db = <<>> /\ issues = {}
-----------------------------------------------------------------------------
(* The portal and the tables.  They change at any time; a change commutes  *)
(* with every step of a run that does not read what it changes, and is     *)
(* taken only where a run could tell: between runs, while the run is at    *)
(* that export, and, for the tables, before it parses.                     *)

Idle == run.pc \in {"none", "succeeded", "failed"}

Republish(file) ==
  /\ portal[file] + 1 \in Release(file)
  /\ Idle \/ (run.pc \in {"metadata", "download"} /\ FileAt(run.at) = file)
  /\ portal' = [portal EXCEPT ![file] = @ + 1]
  /\ UNCHANGED <<disk, code, record, run, db, issues>>

\* A table is edited; its digest and its versions, here and in the code, follow.
EditTable ==
  /\ disk.edition + 1 \in Edition /\ disk.pinned = disk.edition
  /\ Idle \/ run.pc = "parse"
  /\ disk' = [disk EXCEPT !.edition = @ + 1]
  /\ UNCHANGED <<portal, code, record, run, db, issues>>
BumpVersion ==
  /\ disk.pinned # disk.edition
  /\ Idle \/ run.pc = "parse"
  /\ disk' = [disk EXCEPT !.pinned = disk.edition, !.version = @ + 1] /\ code' = code + 1
  /\ UNCHANGED <<portal, record, run, db, issues>>

\* load_rules: the digest and the version are the pinned ones, and every field is valid.
TablesAccepted ==
  /\ disk.pinned = disk.edition /\ disk.version = run.code
  /\ disk.edition \in ValidEdition
-----------------------------------------------------------------------------
(* Retrieving.  A run's process keeps the versions it was started with.    *)

Begin ==
  /\ Idle
  /\ \E force \in Forcing :
       run' = [pc |-> "metadata", code |-> code, parse |-> force, at |-> 1, updated |-> 0, attempt |-> 0,
               got |-> [file \in File |-> 0], pending |-> record]
  /\ UNCHANGED <<portal, disk, code, record, db, issues>>

\* _latest_record, as the run's session sees it: 0 when there is none.
Latest(records, file) == Max({0} \cup DOMAIN records[file])

\* mutant: a record of an earlier parser is taken as current.
RetrievedAnyParser(file, release, updated) ==
  LET known == release \in DOMAIN run.pending[file]
      entry == [updated |-> IF known THEN run.pending[file][release].updated ELSE updated,
                parser |-> run.code]
  IN  run' = [run EXCEPT !.pc = IF run.at = Len(Files) THEN "parse" ELSE "metadata",
                         !.at = @ + 1, !.attempt = 0, !.updated = 0,
                         !.got[file] = release, !.parse = @ \/ ~known,
                         !.pending[file] = Over([n \in {release} |-> entry], @)]
\* The artifact is known to hold this release: its record, new or found, and what is parsed.
Retrieved(file, release, updated) ==
  LET known   == release \in DOMAIN run.pending[file]
      stale   == known /\ run.pending[file][release].parser # run.code
      entry   == [updated |-> IF known THEN run.pending[file][release].updated ELSE updated,
                  parser |-> run.code]
  IN  run' = [run EXCEPT !.pc = IF run.at = Len(Files) THEN "parse" ELSE "metadata",
                         !.at = @ + 1, !.attempt = 0, !.updated = 0,
                         !.got[file] = release,
                         !.parse = @ \/ stale \/ ~known,
                         !.pending[file] = Over([n \in {release} |-> entry], @)]

\* The metadata is read first: an unchanged rows-updated time ends the fetch.
ReadMetadata ==
  LET file     == FileAt(run.at)
      previous == Latest(run.pending, file)
  IN  /\ run.pc = "metadata"
      /\ IF previous # 0 /\ run.pending[file][previous].updated = portal[file]
         THEN Retrieved(file, previous, portal[file])
         ELSE run' = [run EXCEPT !.pc = "download", !.updated = portal[file]]
      /\ UNCHANGED <<portal, disk, code, record, db, issues>>

\* The bytes are those of the release current now; 304 when it is the recorded one.
Download ==
  LET file == FileAt(run.at)
  IN  /\ run.pc = "download"
      /\ Retrieved(file, portal[file], run.updated)
      /\ UNCHANGED <<portal, disk, code, record, db, issues>>

\* A transport error or a retryable status: the part file is removed, and it is tried again.
TryAgain ==
  /\ run.pc = "download" /\ run.attempt < Retries
  /\ run' = [run EXCEPT !.attempt = @ + 1]
  /\ UNCHANGED <<portal, disk, code, record, db, issues>>

\* The retries are spent, or the status is final, or the body is too large.
DownloadFails ==
  /\ run.pc \in {"metadata", "download"}
  /\ run' = [NoRun EXCEPT !.pc = "failed"]
  /\ UNCHANGED <<portal, disk, code, record, db, issues>>
-----------------------------------------------------------------------------
(* Parsing and publishing, in the run's one transaction.                   *)

HeadersVerified == \A file \in File : Releases[file][run.got[file]].verified

\* Nothing to parse: the run succeeds and writes only the parser versions.
Unchanged ==
  /\ run.pc = "parse" /\ ~run.parse
  /\ record' = run.pending
  /\ run' = [NoRun EXCEPT !.pc = "succeeded"]
  /\ UNCHANGED <<portal, disk, code, db, issues>>

\* One artifact to parse: the connector parses the whole corpus.
Publish ==
  /\ run.pc = "parse" /\ run.parse
  /\ HeadersVerified /\ TablesAccepted
  /\ \E corpus \in {Corpus(disk.edition, run.got)} :
       /\ db' = Published(db, Resolved(db, corpus.drafts), run.got)
       /\ issues' = issues \cup corpus.findings
                    \cup {<<"unresolved", e>> : e \in Rejected(db, corpus.drafts)}
  /\ record' = run.pending
  /\ run' = [NoRun EXCEPT !.pc = "succeeded"]
  /\ UNCHANGED <<portal, disk, code>>

\* A header that is missing, or tables that are refused: everything is rolled back.
ParseFails ==
  /\ run.pc = "parse" /\ run.parse
  /\ ~(HeadersVerified /\ TablesAccepted)
  /\ run' = [NoRun EXCEPT !.pc = "failed"]
  /\ UNCHANGED <<portal, disk, code, record, db, issues>>

Next ==
  \/ \E file \in File : Republish(file)
  \/ EditTable \/ BumpVersion
  \/ Begin \/ ReadMetadata \/ Download \/ TryAgain \/ DownloadFails
  \/ Unchanged \/ Publish \/ ParseFails

Spec == Init /\ [][Next]_vars
-----------------------------------------------------------------------------
(* What the source's publication promises.                                 *)

Recorded == [file \in File |-> Latest(record, file)]
\* Every export is recorded under the code's versions, and the tables are the ones they name.
RecordsCurrent ==
  /\ disk.pinned = disk.edition
  /\ \A file \in File : Recorded[file] # 0 /\ record[file][Recorded[file]].parser = code
\* At the end of a run: records and rows change at no other time.
UpToDate == run.pc = "succeeded" /\ RecordsCurrent
CurrentCorpora == {corpus \in Corpora : corpus.edition = disk.edition /\ corpus.releases = Recorded}

RowsShowing(kind, d) ==
  {<<kind, d.key>>}
  \cup {<<table, d.key>> : table \in IF kind = "decision" /\ "release" \in DOMAIN d.cols
                                    THEN {"pretrial_release"} ELSE {}}
Shown(kind, d) ==
  \A row \in RowsShowing(kind, d) :
    /\ row \in DOMAIN db
    /\ \A column \in Compare[row[1]] : db[row].cols[column] = d.cols[column]

(* The rows drawn from the recorded exports under the tables in force are  *)
(* published with every column as drafted, whatever was published before;  *)
(* and a recorded rows-updated time never claims bytes newer than those    *)
(* recorded, so that no release is skipped (connector.fetch, _retrieve,    *)
(* upsert_rows).                                                           *)
CurrentRowsPublished ==
  /\ UpToDate => \A corpus \in CurrentCorpora : \A e \in corpus.drafts : Shown(e[1], e[2])
  /\ \A file \in File :
       Recorded[file] # 0 /\ record[file][Recorded[file]].updated = portal[file] =>
         Recorded[file] = portal[file]

(* A run over exports that hold the rows already recorded in another order *)
(* writes no row, not even its source record (read_export sorts by every   *)
(* column read, upsert_rows compares).                                     *)
SameRows(file, release) ==
  LET rows(n) == Releases[file][n].rows
  IN  /\ Len(rows(release)) = Len(rows(Recorded[file]))
      /\ ToSet(rows(release)) = ToSet(rows(Recorded[file]))
ReorderWritesNothing ==
  [][RecordsCurrent /\ run.pc = "parse" /\ run'.pc = "succeeded"
       /\ (\A file \in File : SameRows(file, run.got[file]))
     => db' = db]_vars

(* No two drafts of a corpus share a natural key and say different things, *)
(* and none is rejected: deduplication and resolution lose nothing         *)
(* (_deduplicate keeps the first and only logs a conflict, _resolve).      *)
DraftsKeptWhole ==
  /\ \A issue \in issues : issue[1] # "unresolved"
  /\ UpToDate => \A corpus \in CurrentCorpora : corpus.conflicts = {}

(* A published decision claims no more than the source records: a          *)
(* non-judicial actor never carries judicial discretion, an unknown actor  *)
(* has unknown discretion, and a detained or a monetary bond no release    *)
(* (rules.py _attribution, _parse_pretrial).                               *)
DecisionsClaimNoMore ==
  \A key \in {k \in DOMAIN db : k[1] = "decision"} :
    LET row == db[key].cols
    IN  /\ row.actor \in NonJudicialActors => row.discretion = "non_judicial"
        /\ row.actor = Unknown => row.discretion = Unknown
        /\ <<"pretrial_release", key[2]>> \in DOMAIN db =>
             LET release == db[<<"pretrial_release", key[2]>>].cols
             IN  release.releaseAt # NoDate => ~release.detained /\ release.release # "monetary_bond"

(* A case published as closed has no published charge that has not ended,  *)
(* among the charges of the corpus it was drawn from (_status, _charges).  *)
ClosedCasesEnded ==
  UpToDate =>
    \A corpus \in CurrentCorpora : \A case \in OfKind(corpus.drafts, "case") : case.cols.status = "closed" =>
      \A charge \in OfKind(corpus.drafts, "charge") : charge.cols.case = case.key =>
        charge.cols.disposition \in Vocabulary["final_charge_disposition"] \cup {"superseded", "transferred"}

(* Every row of a recorded export is published or named in an issue: a     *)
(* charge version as a charge, a sentencing row in a sentence or as the    *)
(* end of a probation (build_case, read_export, _persist_issues).          *)
Reported(reason, file, row) ==
  \E issue \in issues : issue[1] = reason /\ issue[2] = file /\ (Len(issue) = 2 \/ issue[3] = row)
ChargeOfRow(key, row) ==
  /\ key[1] = "charge" /\ key[2][1][2] = row.case /\ db[key].cols.person = Pid(row)
  /\ key[2][2][2] = row.charge /\ key[2][2][3] = row.version
SentenceOfRow(key, row) ==
  /\ key[1] = "sentence" /\ db[key].cols.case[2] = row.case /\ db[key].cols.person = Pid(row)
  /\ db[key].cols.at = row.sentencedAt /\ <<row.charge, row.version>> \in db[key].cols.charges
EndsProbation(row) == The(Listed(Editions[disk.edition].types, row.type)).terminates # Blank

CaseReported(row) == <<"case_without_filing_date", row.case>> \in issues
ChargeAccounted(file, row) ==
  \/ \E key \in DOMAIN db : ChargeOfRow(key, row)
  \/ Reported("court_unlisted", file, row) \/ CaseReported(row)
  \/ \E reason \in {"charge_version_replaced", "unmapped_value"} :
       <<reason, row.case, VersionKey(row)>> \in issues
SentenceAccounted(row) ==
  \/ \E key \in DOMAIN db : SentenceOfRow(key, row)
  \/ Reported("court_unlisted", "sentencing", row) \/ CaseReported(row)
  \/ \E reason \in {"sentence_unmatched", "sentence_without_date", "sentence_phase_ignored"} :
       Reported(reason, "sentencing", row)
  \/ EndsProbation(row)

NothingLeftOutSilently ==
  UpToDate =>
    \A file \in ToSet(VersionFiles) : \A row \in ToSet(Delivered(Recorded)[file]) :
      IF Identified(file, row)
      THEN /\ ChargeAccounted(file, CleanRow(row))
           /\ file = "sentencing" => SentenceAccounted(CleanRow(row))
      ELSE Reported("row_without_key", file, row)

\* No fact of a current export is lost on its way: every draft is kept whole, and
\* every row is published or named in an issue (build_case, _deduplicate,
\* _persist_issues).
NothingLost == DraftsKeptWhole /\ NothingLeftOutSilently

\* What is published claims no more than the export says: no act of another as a
\* judge's release, no case closed over an open charge (case.py).
RowsClaimNoMore == DecisionsClaimNoMore /\ ClosedCasesEnded
=============================================================================
