----------------------------- MODULE IngestRun -----------------------------
(***************************************************************************)
(* The ingest runner of one source: runs that retrieve its artifacts, put  *)
(* the bytes in the raw lake, record them, and publish the rows the parser *)
(* derives from them.  Every run is a process of its own (one CLI command) *)
(* with one database session: what it writes is seen by the others when it *)
(* commits, the rows it has written stay locked until then, and the lake,  *)
(* which is no database, keeps what was put there whatever becomes of the  *)
(* run.  `retire` deletes what a source left so that it can be ingested    *)
(* afresh.                                                                 *)
(*                                                                         *)
(* A key <<artifact, content>> stands for (external_record_id, raw_sha256),*)
(* on which source_record is unique; the bytes of an artifact are the      *)
(* content itself, so that its digest always names it.                     *)
(***************************************************************************)
EXTENDS Naturals, FiniteSets

CONSTANTS
  MaxRuns,        \* bound: the runs of a behaviour
  MaxActive,      \* how many of them may be in flight together
  NArtifacts,     \* the artifacts discover() lists, always in the same order
  Contents,       \* what an artifact's bytes can be
  Values,         \* what a canonical row can say
  Facts,          \* the natural keys of canonical rows
  NVersions,      \* parser versions 1 .. NVersions
  Derived,        \* Derived[key][version]: the rows the parser draws from the bytes
  Foreign,        \* the rows that a row of another source cites
  Forcing,        \* the values of --force
  Refusing,       \* may a run be refused: a synthetic source or fixture in production
  WholeCorpus,    \* does the connector parse every artifact once one must be (cook_sao)
  Rolling,        \* may a new parser be deployed while a run is in flight
  FirstExport,    \* what the source serves at first
  MaxChanges,     \* bound: how often it changes
  MaxCrashes,     \* bound: processes killed
  MaxRetires      \* bound: retirements

Runs == 1 .. MaxRuns
Artifacts == 1 .. NArtifacts
Versions == 1 .. NVersions
Keys == Artifacts \X Contents

\* f gives some of S a value in T.
Partial(f, S, T) == DOMAIN f \subseteq S /\ f \in [DOMAIN f -> T]

ASSUME BoundsAssumption ==
  /\ MaxRuns \in Nat /\ MaxActive \in Nat /\ NArtifacts \in Nat \ {0}
  /\ NVersions \in Nat \ {0} /\ MaxChanges \in Nat /\ MaxCrashes \in Nat
  /\ MaxRetires \in Nat
ASSUME InputsAssumption ==
  /\ Forcing \subseteq BOOLEAN /\ Refusing \in BOOLEAN
  /\ WholeCorpus \in BOOLEAN /\ Rolling \in BOOLEAN
  /\ Foreign \subseteq Facts
  /\ FirstExport \in [Artifacts -> Contents]
ASSUME DerivedAssumption ==
  \A k \in Keys : \A v \in Versions : Partial(Derived[k][v], Facts, Values)
\* A row is drawn from one artifact only (_deduplicate keeps one draft of a key).
ASSUME DisjointAssumption ==
  \A k, l \in Keys : \A v \in Versions :
    k[1] # l[1] => DOMAIN Derived[k][v] \cap DOMAIN Derived[l][v] = {}

VARIABLES
  export,      \* what the source serves now
  deployed,    \* the parser version the code has now
  lake,        \* the keys whose bytes the raw lake holds
  record,      \* source_record: key -> retrieved_at (a rank), parser_version, run
  canonical,   \* the published rows: fact -> value and the record it came from
  status,      \* ingest_run.status
  pc,          \* where each run is
  parser,      \* the connector's parser_version in the run's process
  forced,      \* --force
  at,          \* the artifact being retrieved
  loaded,      \* the source_record the run has loaded: key -> parser_version as read
  fetched,     \* what the fetch returned, a set of at most one key
  pending,     \* records flushed and not committed: key -> retrieved_at
  bumped,      \* records whose parser_version the run has changed, not committed
  reparse,     \* the keys the run will parse
  got,         \* the keys the run has retrieved
  overlay,     \* canonical rows written and not committed
  clock,       \* the next retrieved_at
  changes, crashes, retires

shared == <<export, deployed, lake, record, canonical, status>>
local == <<parser, forced, at, loaded, fetched, pending, bumped, reparse, got, overlay>>
bounds == <<changes, crashes, retires>>
vars == <<shared, pc, local, clock, bounds>>

-----------------------------------------------------------------------------
(* Readings of the state.                                                  *)

Retrieving == {"look", "fetch", "put", "insert", "reuse"}
InTransaction == Retrieving \cup {"publish", "finish"}
Alive == InTransaction \cup {"started", "failing"}

Override(f, g) ==
  [x \in DOMAIN f \cup DOMAIN g |-> IF x \in DOMAIN f THEN f[x] ELSE g[x]]

\* _latest_record: the newest record of an artifact by retrieved_at, if any.
Latest(a) ==
  {k \in DOMAIN record :
     /\ k[1] = a
     /\ \A l \in DOMAIN record : l[1] = a => record[l].at <= record[k].at}

\* The artifacts a run parses: the ones to parse again, or all as soon as there is one.
Parsed(r) == IF WholeCorpus /\ reparse[r] # {} THEN got[r] ELSE reparse[r]

\* The rows a run derives, and the key each of them comes from.
FactsOf(r) == UNION {DOMAIN Derived[k][parser[r]] : k \in Parsed(r)}
Origin(r, f) == CHOOSE k \in Parsed(r) : f \in DOMAIN Derived[k][parser[r]]
RowOf(r, f) == [value |-> Derived[Origin(r, f)][parser[r]][f], from |-> Origin(r, f)]

\* ON CONFLICT DO UPDATE locks the row it arbitrates on whether or not it writes it.
Locked(r) == IF pc[r] = "finish" THEN FactsOf(r) ELSE {}

-----------------------------------------------------------------------------
Nothing == [x \in {} |-> x]

Init ==
  /\ export = FirstExport
  /\ deployed = 1
  /\ lake = {}
  /\ record = Nothing
  /\ canonical = Nothing
  /\ status = [r \in Runs |-> "none"]
  /\ pc = [r \in Runs |-> "idle"]
  /\ parser = [r \in Runs |-> 1]
  /\ forced = [r \in Runs |-> FALSE]
  /\ at = [r \in Runs |-> 1]
  /\ loaded = [r \in Runs |-> Nothing]
  /\ fetched = [r \in Runs |-> {}]
  /\ pending = [r \in Runs |-> Nothing]
  /\ bumped = [r \in Runs |-> {}]
  /\ reparse = [r \in Runs |-> {}]
  /\ got = [r \in Runs |-> {}]
  /\ overlay = [r \in Runs |-> Nothing]
  /\ clock = 1
  /\ changes = 0 /\ crashes = 0 /\ retires = 0

-----------------------------------------------------------------------------
(* The run.                                                                *)

\* The session's transaction is gone: rolled back, or committed and over.
Forget(r) ==
  /\ parser' = [parser EXCEPT ![r] = 1]
  /\ forced' = [forced EXCEPT ![r] = FALSE]
  /\ at' = [at EXCEPT ![r] = 1]
  /\ loaded' = [loaded EXCEPT ![r] = Nothing]
  /\ fetched' = [fetched EXCEPT ![r] = {}]
  /\ pending' = [pending EXCEPT ![r] = Nothing]
  /\ bumped' = [bumped EXCEPT ![r] = {}]
  /\ reparse' = [reparse EXCEPT ![r] = {}]
  /\ got' = [got EXCEPT ![r] = {}]
  /\ overlay' = [overlay EXCEPT ![r] = Nothing]

\* run_ingest: the run row is committed as RUNNING before anything is done.  Runs are
\* numbered in the order they start.
Start(r) ==
  /\ pc[r] = "idle"
  /\ \A q \in Runs : q < r => pc[q] # "idle"
  /\ Cardinality({q \in Runs : pc[q] \in Alive}) < MaxActive
  /\ pc' = [pc EXCEPT ![r] = "started"]
  /\ status' = [status EXCEPT ![r] = "running"]
  /\ parser' = [parser EXCEPT ![r] = deployed]
  /\ \E f \in Forcing : forced' = [forced EXCEPT ![r] = f]
  /\ UNCHANGED <<export, deployed, lake, record, canonical, at, loaded, fetched, pending,
                 bumped, reparse, got, overlay, clock, bounds>>

\* The refusal of _refusal_reason ends the run with nothing done.
Refuse(r) ==
  /\ pc[r] = "started" /\ Refusing
  /\ pc' = [pc EXCEPT ![r] = "done"]
  /\ status' = [status EXCEPT ![r] = "refused"]
  /\ Forget(r)
  /\ UNCHANGED <<export, deployed, lake, record, canonical, clock, bounds>>

Execute(r) ==
  /\ pc[r] = "started"
  /\ pc' = [pc EXCEPT ![r] = "look"]
  /\ UNCHANGED <<shared, local, clock, bounds>>

\* _retrieve, before the fetch: the latest record gives the validators of the request.
Look(r) ==
  /\ pc[r] = "look"
  /\ pc' = [pc EXCEPT ![r] = "fetch"]
  /\ loaded' = [loaded EXCEPT ![r] = [k \in Latest(at[r]) |-> record[k].version]]
  /\ UNCHANGED <<shared, parser, forced, at, fetched, pending, bumped, reparse, got, overlay,
                 clock, bounds>>

\* The source answers "not modified" only when it serves what the validators name.
NotModified(r) ==
  /\ pc[r] = "fetch"
  /\ <<at[r], export[at[r]]>> \in DOMAIN loaded[r]
  /\ pc' = [pc EXCEPT ![r] = "reuse"]
  /\ fetched' = [fetched EXCEPT ![r] = {<<at[r], export[at[r]]>>}]
  /\ UNCHANGED <<shared, parser, forced, at, loaded, pending, bumped, reparse, got, overlay,
                 clock, bounds>>

\* The payload came: its digest is looked up.  A record already loaded keeps the
\* parser_version it was loaded with; an object missing from the lake is stored again.
FetchKnown(r) ==
  LET k == <<at[r], export[at[r]]>> IN
  /\ pc[r] = "fetch"
  /\ k \in DOMAIN record
  /\ pc' = [pc EXCEPT ![r] = "reuse"]
  /\ fetched' = [fetched EXCEPT ![r] = {k}]
  /\ loaded' = [loaded EXCEPT ![r] = Override(@, [l \in {k} |-> record[l].version])]
  /\ lake' = lake \cup {k}
  /\ UNCHANGED <<export, deployed, record, canonical, status, parser, forced, at, pending,
                 bumped, reparse, got, overlay, clock, bounds>>

\* Mutation of FetchNew: the record is written before its object is stored.
FetchNewUnstored(r) ==
  LET k == <<at[r], export[at[r]]>> IN
  /\ pc[r] = "fetch"
  /\ k \notin DOMAIN record
  /\ pc' = [pc EXCEPT ![r] = "insert"]
  /\ fetched' = [fetched EXCEPT ![r] = {k}]
  /\ UNCHANGED <<shared, parser, forced, at, loaded, pending, bumped, reparse, got, overlay,
                 clock, bounds>>

FetchNew(r) ==
  LET k == <<at[r], export[at[r]]>> IN
  /\ pc[r] = "fetch"
  /\ k \notin DOMAIN record
  /\ pc' = [pc EXCEPT ![r] = "put"]
  /\ fetched' = [fetched EXCEPT ![r] = {k}]
  /\ UNCHANGED <<shared, parser, forced, at, loaded, pending, bumped, reparse, got, overlay,
                 clock, bounds>>

\* Step 4: the object goes to the lake before its record exists, outside the transaction.
Put(r) ==
  /\ pc[r] = "put"
  /\ pc' = [pc EXCEPT ![r] = "insert"]
  /\ lake' = lake \cup fetched[r]
  /\ UNCHANGED <<export, deployed, record, canonical, status, local, clock, bounds>>

\* On to the next artifact, or to steps 6 to 12 after the last one.
Advance(r) ==
  /\ at' = [at EXCEPT ![r] = @ + 1]
  /\ pc' = [pc EXCEPT ![r] = IF at[r] = NArtifacts THEN "publish" ELSE "look"]
  /\ loaded' = [loaded EXCEPT ![r] = Nothing]
  /\ fetched' = [fetched EXCEPT ![r] = {}]
  /\ got' = [got EXCEPT ![r] = @ \cup fetched[r]]

\* Step 5: the insert waits for another session's insert of the same key to end.
Insert(r) ==
  /\ pc[r] = "insert"
  /\ \A k \in fetched[r] :
       /\ k \notin DOMAIN record
       /\ \A q \in Runs : k \notin DOMAIN pending[q]
  /\ pending' = [pending EXCEPT ![r] = Override([k \in fetched[r] |-> clock], @)]
  /\ clock' = clock + 1
  /\ reparse' = [reparse EXCEPT ![r] = @ \cup fetched[r]]
  /\ Advance(r)
  /\ UNCHANGED <<shared, parser, forced, bumped, overlay, bounds>>

\* Mutation of Reuse: another parser version is noted on the record and nothing is parsed.
ReuseUnparsed(r) ==
  LET stale == {k \in fetched[r] : loaded[r][k] # parser[r]} IN
  /\ pc[r] = "reuse"
  /\ stale \subseteq DOMAIN record
  /\ \A q \in Runs \ {r} : stale \cap bumped[q] = {}
  /\ bumped' = [bumped EXCEPT ![r] = @ \cup stale]
  /\ reparse' = [reparse EXCEPT ![r] = @ \cup (IF forced[r] THEN fetched[r] ELSE {})]
  /\ Advance(r)
  /\ UNCHANGED <<shared, parser, forced, pending, overlay, clock, bounds>>

\* An existing record is parsed again under --force or another parser version, which it
\* then carries: the update waits for another session's update of the row to end.
Reuse(r) ==
  LET stale == {k \in fetched[r] : loaded[r][k] # parser[r]} IN
  /\ pc[r] = "reuse"
  /\ stale \subseteq DOMAIN record
  /\ \A q \in Runs \ {r} : stale \cap bumped[q] = {}
  /\ (forced[r] \/ stale # {}) => fetched[r] \subseteq lake
  /\ bumped' = [bumped EXCEPT ![r] = @ \cup stale]
  /\ reparse' = [reparse EXCEPT ![r] = @ \cup (IF forced[r] THEN fetched[r] ELSE stale)]
  /\ Advance(r)
  /\ UNCHANGED <<shared, parser, forced, pending, overlay, clock, bounds>>

\* Steps 6 to 12: the upserts write the rows that differ from what is committed, after
\* waiting for every session that holds one of them; their record must still exist.
Publish(r) ==
  /\ pc[r] = "publish"
  /\ \A q \in Runs \ {r} : Locked(q) \cap FactsOf(r) = {}
  /\ Parsed(r) \subseteq DOMAIN record \cup DOMAIN pending[r]
  /\ overlay' = [overlay EXCEPT ![r] =
       [f \in {g \in FactsOf(r) :
                 g \in DOMAIN canonical => canonical[g].value # RowOf(r, g).value}
          |-> RowOf(r, f)]]
  /\ pc' = [pc EXCEPT ![r] = "finish"]
  /\ UNCHANGED <<shared, parser, forced, at, loaded, fetched, pending, bumped, reparse, got,
                 clock, bounds>>

\* The records as the run's commit leaves them.
Recorded(r) ==
  [k \in DOMAIN record \cup DOMAIN pending[r] |->
     IF k \in DOMAIN pending[r]
       THEN [at |-> pending[r][k], version |-> parser[r], run |-> r]
       ELSE IF k \in bumped[r] THEN [record[k] EXCEPT !.version = parser[r]]
       ELSE record[k]]

\* _finish with SUCCEEDED: one commit for the records, the rows and the run itself.
Finish(r) ==
  /\ pc[r] = "finish"
  /\ record' = Recorded(r)
  /\ canonical' = Override(overlay[r], canonical)
  /\ status' = [status EXCEPT ![r] = "succeeded"]
  /\ pc' = [pc EXCEPT ![r] = "done"]
  /\ Forget(r)
  /\ UNCHANGED <<export, deployed, lake, clock, bounds>>

\* Any exception (a fetch, a validation, a deadlock, a lost connection): rollback ...
Fail(r) ==
  /\ pc[r] \in InTransaction
  /\ pc' = [pc EXCEPT ![r] = "failing"]
  /\ Forget(r)
  /\ UNCHANGED <<shared, clock, bounds>>

\* ... and the ones the database itself raises: the key was inserted meanwhile, or the
\* record to update or to cite was deleted.
Conflict(r) ==
  /\ \/ pc[r] = "insert" /\ fetched[r] \cap DOMAIN record # {}
     \/ pc[r] = "reuse" /\ \E k \in fetched[r] \ DOMAIN record : loaded[r][k] # parser[r]
     \/ pc[r] = "publish" /\ ~(Parsed(r) \subseteq DOMAIN record \cup DOMAIN pending[r])
  /\ pc' = [pc EXCEPT ![r] = "failing"]
  /\ Forget(r)
  /\ UNCHANGED <<shared, clock, bounds>>

\* Mutation of RecordFailure: the exception leaves run_ingest before _finish.
RecordFailureLost(r) ==
  /\ pc[r] = "failing"
  /\ UNCHANGED vars

\* ... then _finish with FAILED, a commit of its own.
RecordFailure(r) ==
  /\ pc[r] = "failing"
  /\ pc' = [pc EXCEPT ![r] = "done"]
  /\ status' = [status EXCEPT ![r] = "failed"]
  /\ UNCHANGED <<export, deployed, lake, record, canonical, local, clock, bounds>>

\* The process is killed: its transaction is gone and its run row stays RUNNING.
Crash(r) ==
  /\ pc[r] \in Alive /\ crashes < MaxCrashes
  /\ crashes' = crashes + 1
  /\ pc' = [pc EXCEPT ![r] = "dead"]
  /\ Forget(r)
  /\ UNCHANGED <<shared, clock, changes, retires>>

-----------------------------------------------------------------------------
(* The rest of the world.                                                  *)

ChangeExport(a) ==
  /\ changes < MaxChanges
  /\ changes' = changes + 1
  /\ \E c \in Contents \ {export[a]} : export' = [export EXCEPT ![a] = c]
  /\ UNCHANGED <<deployed, lake, record, canonical, status, pc, local, clock, crashes, retires>>

Upgrade ==
  /\ deployed < NVersions
  /\ ~Rolling => \A r \in Runs : pc[r] \notin Alive
  /\ deployed' = deployed + 1
  /\ UNCHANGED <<export, lake, record, canonical, status, pc, local, clock, bounds>>

\* Mutation of Retire: the source's records are left behind.
RetireRows ==
  /\ retires < MaxRetires
  /\ \A r \in Runs : Locked(r) \cap (DOMAIN canonical \ Foreign) = {}
  /\ retires' = retires + 1
  /\ canonical' = [f \in DOMAIN canonical \cap Foreign |-> canonical[f]]
  /\ UNCHANGED <<export, deployed, lake, record, status, pc, local, clock, changes, crashes>>

\* retire_source: the rows go, then the records no surviving row cites.  Its deletes wait
\* for the sessions that hold a row, or that have updated or cited a record, among them.
Retire ==
  LET kept == DOMAIN canonical \cap Foreign
      cited == {canonical[f].from : f \in kept}
      gone == DOMAIN record \ cited IN
  /\ retires < MaxRetires
  /\ DOMAIN record # {}
  /\ \A r \in Runs :
       /\ Locked(r) \cap (DOMAIN canonical \ kept) = {}
       /\ bumped[r] \cap gone = {}
       /\ {overlay[r][f].from : f \in DOMAIN overlay[r]} \cap gone = {}
  /\ retires' = retires + 1
  /\ canonical' = [f \in kept |-> canonical[f]]
  /\ record' = [k \in DOMAIN record \ gone |-> record[k]]
  /\ UNCHANGED <<export, deployed, lake, status, pc, local, clock, changes, crashes>>

-----------------------------------------------------------------------------
Retrieve(r) ==
  Look(r) \/ NotModified(r) \/ FetchKnown(r) \/ FetchNew(r) \/ Put(r) \/ Insert(r) \/ Reuse(r)

\* What a live process goes on doing by itself.
Step(r) ==
  \/ Execute(r) \/ Retrieve(r) \/ Publish(r) \/ Finish(r) \/ Conflict(r) \/ RecordFailure(r)

Next ==
  \/ \E r \in Runs : Start(r) \/ Refuse(r) \/ Step(r) \/ Fail(r) \/ Crash(r)
  \/ \E a \in Artifacts : ChangeExport(a)
  \/ Upgrade
  \/ Retire

Spec == Init /\ [][Next]_vars
FairSpec == Spec /\ \A r \in Runs : WF_vars(Step(r))

-----------------------------------------------------------------------------
(* What the runs promise.                                                  *)

\* The lake holds the bytes of every record, committed or about to be: a trace from a
\* published row always reaches its raw object (put before the row, runner.py:943-956).
LakeBacksRecords ==
  /\ DOMAIN record \subseteq lake
  /\ \A r \in Runs : DOMAIN pending[r] \subseteq lake

\* A record is there only because the run it names succeeded: a failed or killed run
\* leaves its FAILED or RUNNING row and nothing else (one publish transaction).
RecordsOfSucceededRuns ==
  \A k \in DOMAIN record : status[record[k].run] = "succeeded"

\* What a record stands for: bytes that are there, and a run that committed.
RecordsStand == LakeBacksRecords /\ RecordsOfSucceededRuns

\* What makes it right not to parse a recorded artifact again: every row its bytes give
\* under the recorded parser version has been published and is still there.
RecordedMeansPublished ==
  \A k \in DOMAIN record : DOMAIN Derived[k][record[k].version] \subseteq DOMAIN canonical

\* The lineage of a published row is honest: its record is there, and if the parser of
\* that record's version still draws the row from the record's bytes, it draws this value.
Traceable ==
  \A f \in DOMAIN canonical :
    LET k == canonical[f].from IN
    /\ k \in DOMAIN record
    /\ LET rows == Derived[k][record[k].version] IN
       f \in DOMAIN rows => rows[f] = canonical[f].value

\* Why the first two hold: every table of the model has a place for each run; the object
\* is in the lake before the insert, and stays; a run that has succeeded takes no step.
Places ==
  /\ DOMAIN status = Runs /\ DOMAIN pc = Runs /\ DOMAIN parser = Runs
  /\ DOMAIN fetched = Runs /\ DOMAIN pending = Runs /\ DOMAIN bumped = Runs
  /\ DOMAIN reparse = Runs /\ DOMAIN overlay = Runs /\ DOMAIN got = Runs

StoredFirst == \A r \in Runs : pc[r] = "insert" => fetched[r] \subseteq lake

SucceededIsOver ==
  /\ \A k \in DOMAIN record : record[k].run \in Runs
  /\ \A r \in Runs : status[r] = "succeeded" => pc[r] = "done"

\* Why the third does: whatever a run records or raises to its version it parses, and
\* from its upserts to its commit the rows it parsed are written or there, and locked.
ParsedBeforeCommit ==
  \A r \in Runs :
    /\ DOMAIN pending[r] \subseteq reparse[r]
    /\ bumped[r] \subseteq reparse[r] /\ reparse[r] \subseteq got[r]
    /\ pc[r] = "finish" => FactsOf(r) \subseteq DOMAIN overlay[r] \cup DOMAIN canonical

\* The inductive invariant of the run: it implies the two properties of records.
RunInv == Places /\ LakeBacksRecords /\ StoredFirst /\ RecordsOfSucceededRuns /\ SucceededIsOver

\* The inductive invariant of publication, where no other source cites the rows.
PublishInv == Places /\ ParsedBeforeCommit /\ RecordedMeansPublished

\* Why the lineage stays honest: a run has at most one key of an artifact, behind it in the
\* order of discovery, and parses what it inserts or raises to its own version; ...
OneKeyEach ==
  \A r \in Runs :
    /\ got[r] \cup fetched[r] \subseteq Keys
    /\ \A k \in got[r] : k[1] < at[r]
    /\ \A k, l \in got[r] : k[1] = l[1] => k = l
    /\ \A k \in fetched[r] : k[1] = at[r] /\ \A l \in fetched[r] : k = l
    /\ pc[r] = "reuse" => fetched[r] \subseteq DOMAIN loaded[r]
    /\ pc[r] = "idle" => got[r] = {} /\ DOMAIN loaded[r] = {}
    /\ pc[r] \notin {"publish", "finish"} => at[r] \in Artifacts

\* ... nobody else holds a key it inserts or a record it raises; ...
KeysHeld ==
  /\ \A r \in Runs : /\ DOMAIN pending[r] \cap DOMAIN record = {}
                     /\ bumped[r] \subseteq DOMAIN record
  /\ \A r, q \in Runs : r # q => /\ DOMAIN pending[r] \cap DOMAIN pending[q] = {}
                                 /\ bumped[r] \cap bumped[q] = {}

\* ... the rows it has written say what its parser draws, the ones it has not already do, ...
RowsDrawn ==
  /\ \A r \in Runs : pc[r] = "finish" =>
       /\ \A f \in DOMAIN overlay[r] :
            LET k == overlay[r][f].from IN
            /\ k \in Parsed(r) \cap (DOMAIN record \cup DOMAIN pending[r])
            /\ f \in DOMAIN Derived[k][parser[r]]
            /\ overlay[r][f].value = Derived[k][parser[r]][f]
       /\ \A k \in Parsed(r) : \A f \in DOMAIN Derived[k][parser[r]] \ DOMAIN overlay[r] :
            f \in DOMAIN canonical /\ canonical[f].value = Derived[k][parser[r]][f]
  /\ \A r, q \in Runs : r # q => Locked(r) \cap Locked(q) = {}

\* ... and the records it parses without raising them carry its version already: it parses
\* none, unless every run in flight has one parser.
Parsing == InTransaction \cup {"started"}
OneParser ==
  \A r \in Runs : pc[r] \in Parsing =>
    /\ parser[r] = deployed
    /\ \A k \in DOMAIN loaded[r] \cap DOMAIN record :
         loaded[r][k] = deployed => record[k].version = deployed
    /\ \A k \in got[r] \cap DOMAIN record : k \in bumped[r] \/ record[k].version = deployed
OnlyStale ==
  \A r \in Runs : forced[r] = FALSE /\ reparse[r] \subseteq DOMAIN pending[r] \cup bumped[r]

\* The inductive invariant of lineage.
Shape ==
  /\ Places /\ DOMAIN forced = Runs /\ DOMAIN loaded = Runs
  /\ at \in [Runs -> Nat] /\ export \in [Artifacts -> Contents]
  /\ deployed \in Versions /\ \A r \in Runs : parser[r] \in Versions
  /\ \A r \in Runs : DOMAIN pending[r] \cup bumped[r] \subseteq reparse[r]
                    /\ reparse[r] \subseteq got[r]
TraceInv ==
  /\ Shape /\ OneKeyEach /\ KeysHeld /\ RowsDrawn /\ Traceable
  /\ ~Rolling => OneParser
  /\ Rolling => OnlyStale

\* A run that is not killed ends: no wait of one session for another lasts for ever, and
\* its row never stays RUNNING behind a live process.
RunsEnd == \A r \in Runs : pc[r] = "started" ~> pc[r] \in {"done", "dead"}

=============================================================================
