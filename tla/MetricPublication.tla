-------------------------- MODULE MetricPublication --------------------------
(***************************************************************************)
(* Publishing the figures of judges and courts.  A command (a full         *)
(* `metrics compute`, or step 13 of an ingest run inside the run's own     *)
(* transaction) exports the canonical tables to a snapshot named by their  *)
(* content, computes every selected subject's figures from it, and         *)
(* replaces the subject's current observations by them: what is unchanged  *)
(* stays, what is not is superseded, and a row that the same snapshot and  *)
(* definition had before is revived instead of inserted.                   *)
(*                                                                         *)
(* Each statement is a step; a statement sees what is committed when it    *)
(* starts and its own transaction's writes, and a write of a row another   *)
(* transaction has written waits for it.  The snapshot directory is no     *)
(* database: what was made there stays.  Figures are any function of the   *)
(* data and the registry; an observation's source, period, window, year    *)
(* and dimension are part of its slot.                                     *)
(***************************************************************************)
EXTENDS Naturals, FiniteSets

CONSTANTS
  MaxCommands,    \* bound: the commands of a behaviour
  MaxActive,      \* how many of them may be in flight together
  NSubjects,      \* judges and courts, in the order they are published
  Slots,          \* what a subject's observations are keyed by
  Adjusted,       \* the slots of the kind observed_expected
  Cells,          \* the parts of the canonical data that change
  Levels,         \* what a part can be
  NRegistries,    \* registry versions 1 .. NRegistries
  Values,         \* what an observation can say
  Definition,     \* Definition[slot][registry]: the version of the slot's definition
  Drafts,         \* Drafts[content][registry][subject]: slot -> value, for the slots drafted
  Impacted,       \* Impacted[cell]: the subjects step 13 recomputes
  Ids,            \* the order of the random ids of observations
  FirstData,
  MaxCrashes      \* bound: processes killed

Commands == 1 .. MaxCommands
Subjects == 1 .. NSubjects
Registries == 1 .. NRegistries
Contents == [Cells -> Levels]
Versions == {Definition[t][r] : t \in Slots, r \in Registries}

\* uq_metric_observation_key: subject, slot, definition version, snapshot.
Keys == Subjects \X Slots \X Versions \X Contents
Rows == [value : Values, registry : Registries, current : BOOLEAN, id : Ids]

\* f gives some of S a value in T.
Partial(f, S, T) == DOMAIN f \subseteq S /\ f \in [DOMAIN f -> T]

ASSUME BoundsAssumption ==
  /\ MaxCommands \in Nat /\ MaxActive \in Nat /\ NSubjects \in Nat /\ MaxCrashes \in Nat
  /\ NRegistries \in Nat \ {0}
ASSUME DataAssumption == FirstData \in Contents /\ Adjusted \subseteq Slots
ASSUME ImpactedAssumption == Impacted \in [Cells -> SUBSET Subjects]
ASSUME DraftsAssumption ==
  \A c \in Contents, r \in Registries, s \in Subjects : Partial(Drafts[c][r][s], Slots, Values)

VARIABLES
  data,        \* the committed canonical tables
  deployed,    \* the registry version the code has now
  dir,         \* the snapshot directories: absent, made, complete
  snap,        \* metric_snapshot: content -> registry_version
  obs,         \* metric_observation
  pc,          \* where each command is
  full,        \* is it a full compute, or step 13
  cell,        \* what the command's ingest run has changed and not committed
  registry,    \* the registry version in its process
  content,     \* the content it exported, a set of at most one
  todo,        \* the subjects it has still to publish
  known,       \* the observations it has read: to supersede, then to revive
  newSnap,     \* metric_snapshot written and not committed
  write,       \* observations written and not committed
  crashes

shared == <<data, deployed, dir, snap, obs>>
local == <<full, cell, registry, content, todo, known, newSnap, write>>
vars == <<shared, pc, local, crashes>>

-----------------------------------------------------------------------------
Over == {"done", "failed", "conflict", "unreadable", "dead"}
Alive == {"export", "mkdir", "fill", "row", "insert", "load", "supersede", "revive", "write",
          "commit"}
Nothing == [x \in {} |-> x]

Override(f, g) ==
  [x \in DOMAIN f \cup DOMAIN g |-> IF x \in DOMAIN f THEN f[x] ELSE g[x]]

\* The data and the observations as the session sees them.
View(p) == Override(cell[p], data)
Seen(p) == Override(write[p], obs)

\* Mutation of Scope: step 13 publishes every kind.
ScopeAll(p) == Slots

\* The subjects and the kinds the command computes (kinds=DESCRIPTIVE_KINDS at step 13).
Selected(p) == IF full[p] THEN Subjects ELSE UNION {Impacted[c] : c \in DOMAIN cell[p]}
Scope(p) == IF full[p] THEN Slots ELSE Slots \ Adjusted

\* What a snapshot of content c gives subject s, and the rows that hold it.
Figures(p, c, s) ==
  LET drafts == Drafts[c][registry[p]][s] IN [t \in DOMAIN drafts \cap Scope(p) |-> drafts[t]]
Targets(p, c, s) ==
  {<<s, t, Definition[t][registry[p]], c>> : t \in DOMAIN Figures(p, c, s)}

\* load_observations of the subject's current rows, of the kinds in scope.
Current(p, s) ==
  {k \in DOMAIN Seen(p) : k[1] = s /\ k[2] \in Scope(p) /\ Seen(p)[k].current}

\* Mutation of Unchanged: the values are not compared.
UnchangedKeys(p, c, s) ==
  /\ {k[2] : k \in Current(p, s)} = DOMAIN Figures(p, c, s)
  /\ \A k \in Current(p, s) :
       k[3] = Definition[k[2]][registry[p]] /\ Seen(p)[k].registry = registry[p]

\* _unchanged: one current row per draft, of the same definition and registry, with its value.
Unchanged(p, c, s) ==
  /\ {k[2] : k \in Current(p, s)} = DOMAIN Figures(p, c, s)
  /\ \A k, l \in Current(p, s) : k[2] = l[2] => k = l
  /\ \A k \in Current(p, s) :
       /\ k[3] = Definition[k[2]][registry[p]]
       /\ Seen(p)[k].value = Figures(p, c, s)[k[2]]
       /\ Seen(p)[k].registry = registry[p]

First(S) == CHOOSE s \in S : \A t \in S : s <= t

\* No other transaction has written one of the rows.
Free(p, keys) == \A q \in Commands \ {p} : keys \cap DOMAIN write[q] = {}

-----------------------------------------------------------------------------
Init ==
  /\ data = FirstData
  /\ deployed = 1
  /\ dir = [c \in Contents |-> "absent"]
  /\ snap = Nothing
  /\ obs = Nothing
  /\ pc = [p \in Commands |-> "idle"]
  /\ full = [p \in Commands |-> TRUE]
  /\ cell = [p \in Commands |-> Nothing]
  /\ registry = [p \in Commands |-> 1]
  /\ content = [p \in Commands |-> {}]
  /\ todo = [p \in Commands |-> {}]
  /\ known = [p \in Commands |-> {}]
  /\ newSnap = [p \in Commands |-> Nothing]
  /\ write = [p \in Commands |-> Nothing]
  /\ crashes = 0

-----------------------------------------------------------------------------
(* Beginning, and exporting the snapshot.                                  *)

\* Commands are numbered in the order they begin.
Begin(p) ==
  /\ pc[p] = "idle"
  /\ \A q \in Commands : q < p => pc[q] # "idle"
  /\ Cardinality({q \in Commands : pc[q] \in Alive}) < MaxActive
  /\ registry' = [registry EXCEPT ![p] = deployed]
  /\ UNCHANGED <<shared, content, todo, known, newSnap, write, crashes>>

BeginCompute(p) ==
  /\ Begin(p)
  /\ pc' = [pc EXCEPT ![p] = "export"]
  /\ full' = [full EXCEPT ![p] = TRUE]
  /\ UNCHANGED cell

\* An ingest run that has upserted its rows (and waited for the session that held them)
\* comes to step 13, or defers it to the next full compute when it touched too much.
BeginIngest(p) ==
  /\ Begin(p)
  /\ \E next \in {"export", "commit"} : pc' = [pc EXCEPT ![p] = next]
  /\ full' = [full EXCEPT ![p] = FALSE]
  /\ \E c \in Cells :
       /\ \A q \in Commands : c \notin DOMAIN cell[q]
       /\ \E l \in Levels \ {data[c]} : cell' = [cell EXCEPT ![p] = [d \in {c} |-> l]]

\* export_snapshot: a directory with that name is reused, if it can be read.
Export(p) ==
  /\ pc[p] = "export" /\ dir[View(p)] # "made"
  /\ content' = [content EXCEPT ![p] = {View(p)}]
  /\ pc' = [pc EXCEPT ![p] = IF dir[View(p)] = "absent" THEN "mkdir" ELSE "row"]
  /\ UNCHANGED <<shared, full, cell, registry, todo, known, newSnap, write, crashes>>

\* mkdir(exist_ok=False); whoever loses the race for the name reads the winner's directory.
MakeDirectory(p) ==
  /\ pc[p] = "mkdir"
  /\ \E c \in content[p] :
       /\ dir[c] # "made"
       /\ dir' = [dir EXCEPT ![c] = IF @ = "absent" THEN "made" ELSE @]
       /\ pc' = [pc EXCEPT ![p] = IF dir[c] = "absent" THEN "fill" ELSE "row"]
  /\ UNCHANGED <<data, deployed, snap, obs, local, crashes>>

\* Mutation of FillDirectory: the files are moved and the manifest is never written.
FillNoManifest(p) ==
  /\ pc[p] = "fill"
  /\ pc' = [pc EXCEPT ![p] = "row"]
  /\ UNCHANGED <<shared, local, crashes>>

\* The files move in and the manifest is written last: then it is complete.
FillDirectory(p) ==
  /\ pc[p] = "fill"
  /\ \E c \in content[p] : dir' = [dir EXCEPT ![c] = "complete"]
  /\ pc' = [pc EXCEPT ![p] = "row"]
  /\ UNCHANGED <<data, deployed, snap, obs, local, crashes>>

-----------------------------------------------------------------------------
(* Ending.                                                                 *)

\* The locals of a command whose transaction is over.
Forget(p) ==
  /\ full' = [full EXCEPT ![p] = TRUE]
  /\ cell' = [cell EXCEPT ![p] = Nothing]
  /\ registry' = [registry EXCEPT ![p] = 1]
  /\ content' = [content EXCEPT ![p] = {}]
  /\ todo' = [todo EXCEPT ![p] = {}]
  /\ known' = [known EXCEPT ![p] = {}]
  /\ newSnap' = [newSnap EXCEPT ![p] = Nothing]
  /\ write' = [write EXCEPT ![p] = Nothing]

\* The command gives up, or is killed: its transaction is rolled back and the directory
\* stays as it is.
Rollback(p, outcome) ==
  /\ pc' = [pc EXCEPT ![p] = outcome]
  /\ Forget(p)
  /\ UNCHANGED shared

\* _read_manifest of a directory whose manifest is not there: SnapshotError.
Unreadable(p) ==
  /\ \/ pc[p] = "export" /\ dir[View(p)] = "made"
     \/ pc[p] = "mkdir" /\ \E c \in content[p] : dir[c] = "made"
  /\ Rollback(p, "unreadable")
  /\ UNCHANGED crashes

Fail(p) == pc[p] \in Alive /\ Rollback(p, "failed") /\ UNCHANGED crashes

Crash(p) ==
  /\ pc[p] \in Alive /\ crashes < MaxCrashes
  /\ crashes' = crashes + 1
  /\ Rollback(p, "dead")

Commit(p) ==
  /\ \/ pc[p] = "load" /\ todo[p] = {}
     \/ pc[p] = "commit"
  /\ data' = View(p)
  /\ snap' = Override(newSnap[p], snap)
  /\ obs' = Seen(p)
  /\ pc' = [pc EXCEPT ![p] = "done"]
  /\ Forget(p)
  /\ UNCHANGED <<deployed, dir, crashes>>

-----------------------------------------------------------------------------
(* The snapshot's row, then the observations of one subject after another. *)

\* A subject is published if it has drafts.
StartSubjects(p) ==
  todo' = [todo EXCEPT ![p] =
    {s \in Selected(p) : \E c \in content[p] : DOMAIN Figures(p, c, s) # {}}]

\* upsert_snapshot found the row: it states the registry of its latest publish.
ReuseSnapshot(p) ==
  /\ pc[p] = "row" /\ content[p] \subseteq DOMAIN snap
  /\ LET stale == {c \in content[p] : snap[c] # registry[p]} IN
     /\ \A q \in Commands \ {p} : stale \cap DOMAIN newSnap[q] = {}
     /\ newSnap' = [newSnap EXCEPT ![p] = [c \in stale |-> registry[p]]]
  /\ StartSubjects(p)
  /\ pc' = [pc EXCEPT ![p] = "load"]
  /\ UNCHANGED <<shared, full, cell, registry, content, known, write, crashes>>

MissSnapshot(p) ==
  /\ pc[p] = "row" /\ content[p] \cap DOMAIN snap = {}
  /\ pc' = [pc EXCEPT ![p] = "insert"]
  /\ UNCHANGED <<shared, local, crashes>>

InsertSnapshot(p) ==
  /\ pc[p] = "insert"
  /\ content[p] \cap DOMAIN snap = {}
  /\ \A q \in Commands \ {p} : content[p] \cap DOMAIN newSnap[q] = {}
  /\ newSnap' = [newSnap EXCEPT ![p] = [c \in content[p] |-> registry[p]]]
  /\ StartSubjects(p)
  /\ pc' = [pc EXCEPT ![p] = "load"]
  /\ UNCHANGED <<shared, full, cell, registry, content, known, write, crashes>>

\* The row was inserted meanwhile: its hash is unique.
SnapshotConflict(p) ==
  /\ pc[p] = "insert" /\ content[p] \cap DOMAIN snap # {}
  /\ Rollback(p, "failed")
  /\ UNCHANGED crashes

\* Mutation of SkipUnchanged: the subject is never taken off the list.
SkipUnchangedAgain(p) ==
  /\ pc[p] = "load" /\ todo[p] # {}
  /\ \A c \in content[p] : Unchanged(p, c, First(todo[p]))
  /\ UNCHANGED vars

\* _publish_subject leaves an unchanged subject in place.
SkipUnchanged(p) ==
  /\ pc[p] = "load" /\ todo[p] # {}
  /\ \A c \in content[p] : Unchanged(p, c, First(todo[p]))
  /\ todo' = [todo EXCEPT ![p] = @ \ {First(@)}]
  /\ UNCHANGED <<shared, pc, full, cell, registry, content, known, newSnap, write, crashes>>

LoadChanged(p) ==
  /\ pc[p] = "load" /\ todo[p] # {}
  /\ \E c \in content[p] : ~Unchanged(p, c, First(todo[p]))
  /\ known' = [known EXCEPT ![p] = Current(p, First(todo[p]))]
  /\ pc' = [pc EXCEPT ![p] = "supersede"]
  /\ UNCHANGED <<shared, full, cell, registry, content, todo, newSnap, write, crashes>>

Superseded(row) ==
  [value |-> row.value, registry |-> row.registry, current |-> FALSE, id |-> row.id]

\* UPDATE ... WHERE id IN (the rows that were read): they are superseded whatever another
\* transaction has made of them meanwhile.
Supersede(p) ==
  /\ pc[p] = "supersede"
  /\ Free(p, known[p])
  /\ write' = [write EXCEPT ![p] =
       Override([k \in known[p] |-> Superseded(Seen(p)[k])], @)]
  /\ pc' = [pc EXCEPT ![p] = "revive"]
  /\ UNCHANGED <<shared, full, cell, registry, content, todo, known, newSnap, crashes>>

\* The revivable rows are indexed by key without the definition's version, in the order of
\* their ids: the last one read stands for its key.
FindRevivable(p) ==
  /\ pc[p] = "revive"
  /\ LET s == First(todo[p])
         last(k) == \A l \in DOMAIN Seen(p) :
                      l[1] = k[1] /\ l[2] = k[2] /\ l[4] = k[4] => Seen(p)[l].id <= Seen(p)[k].id
     IN known' = [known EXCEPT ![p] =
          {k \in DOMAIN Seen(p) : (\E c \in content[p] : k \in Targets(p, c, s)) /\ last(k)}]
  /\ pc' = [pc EXCEPT ![p] = "write"]
  /\ UNCHANGED <<shared, full, cell, registry, content, todo, newSnap, write, crashes>>

\* Mutation of NewRow: a revived row keeps its value and states the new registry.
NewRowKept(p, k, id) ==
  IF k \in known[p]
    THEN [Seen(p)[k] EXCEPT !.current = TRUE, !.registry = registry[p]]
    ELSE [value |-> Figures(p, k[4], k[1])[k[2]], registry |-> registry[p],
          current |-> TRUE, id |-> id]

\* The row of a draft: every stored column is the draft's; a revived row keeps its id.
NewRow(p, k, id) ==
  [value |-> Figures(p, k[4], k[1])[k[2]], registry |-> registry[p], current |-> TRUE,
   id |-> IF k \in known[p] THEN Seen(p)[k].id ELSE id]

\* _revive and INSERT_OBSERVATION, after waiting for whoever has written one of the rows.
WriteRows(p) ==
  /\ pc[p] = "write"
  /\ LET s == First(todo[p])
         rows == UNION {Targets(p, c, s) : c \in content[p]}
         new == rows \ known[p]
     IN
     /\ Free(p, rows)
     /\ new \cap DOMAIN Seen(p) = {}
     /\ \E id \in Ids :
          /\ \A k \in new : \A l \in DOMAIN Seen(p) :
               l[1] = k[1] /\ l[2] = k[2] /\ l[4] = k[4] => Seen(p)[l].id # id
          /\ write' = [write EXCEPT ![p] = Override([k \in rows |-> NewRow(p, k, id)], @)]
     /\ todo' = [todo EXCEPT ![p] = @ \ {s}]
  /\ known' = [known EXCEPT ![p] = {}]
  /\ pc' = [pc EXCEPT ![p] = "load"]
  /\ UNCHANGED <<shared, full, cell, registry, content, newSnap, crashes>>

\* uq_metric_observation_key refuses the insert of a row that is there.
RowConflict(p) ==
  /\ pc[p] = "write"
  /\ \E c \in content[p] :
       (Targets(p, c, First(todo[p])) \ known[p]) \cap DOMAIN Seen(p) # {}
  /\ Rollback(p, "conflict")
  /\ UNCHANGED crashes

Upgrade ==
  /\ deployed < NRegistries
  /\ deployed' = deployed + 1
  /\ UNCHANGED <<data, dir, snap, obs, pc, local, crashes>>

-----------------------------------------------------------------------------
\* What a live process goes on doing by itself.
Step(p) ==
  \/ Export(p) \/ MakeDirectory(p) \/ FillDirectory(p) \/ Unreadable(p)
  \/ ReuseSnapshot(p) \/ MissSnapshot(p) \/ InsertSnapshot(p) \/ SnapshotConflict(p)
  \/ SkipUnchanged(p) \/ LoadChanged(p) \/ Supersede(p) \/ FindRevivable(p)
  \/ WriteRows(p) \/ RowConflict(p) \/ Commit(p)

Next ==
  \/ \E p \in Commands :
       BeginCompute(p) \/ BeginIngest(p) \/ Step(p) \/ Fail(p) \/ Crash(p)
  \/ Upgrade

Spec == Init /\ [][Next]_vars
FairSpec == Spec /\ \A p \in Commands : WF_vars(Step(p))

-----------------------------------------------------------------------------
(* What publishing promises.                                               *)

\* `metrics verify` would find nothing: a row, current or superseded, committed or not,
\* holds what its own snapshot gives under the registry it records.
Verifies(k, row) ==
  LET drafts == Drafts[k[4]][row.registry][k[1]] IN
  /\ k[3] = Definition[k[2]][row.registry]
  /\ k[2] \in DOMAIN drafts /\ row.value = drafts[k[2]]

RowsVerify ==
  /\ \A k \in DOMAIN obs : Verifies(k, obs[k])
  /\ \A p \in Commands : \A k \in DOMAIN write[p] : Verifies(k, write[p][k])

\* Every observation's snapshot is recorded and can be opened, whatever was killed or
\* raced: it is complete on disk before its row and its observations exist.
SnapshotsOpen ==
  /\ \A k \in DOMAIN obs : k[4] \in DOMAIN snap
  /\ \A c \in DOMAIN snap : dir[c] = "complete"

\* An ingest run changes no adjusted observation: it neither compares nor supersedes them.
AdjustedKept ==
  [][data' # data =>
       \A k \in DOMAIN obs' :
         k[2] \in Adjusted => k \in DOMAIN obs /\ obs'[k] = obs[k]]_vars

\* The rows with these keys hold the figures, one row for each slot, no more and no less.
Holding(rows, keys, figures) ==
  /\ {k[2] : k \in keys} = DOMAIN figures
  /\ \A k \in keys : rows[k].value = figures[k[2]]
  /\ \A k, l \in keys : k[2] = l[2] => k = l

\* Publishing does what it is for: once a command has committed, the current rows of the
\* subjects and kinds it published are its drafts of the data.
FiguresFresh ==
  [][\A p \in Commands :
       pc[p] = "load" /\ pc'[p] = "done" =>
         \A s \in Selected(p) :
           DOMAIN Figures(p, data', s) # {} =>
             Holding(obs', {k \in DOMAIN obs' : obs'[k].current /\ k[1] = s /\ k[2] \in Scope(p)},
                     Figures(p, data', s))]_vars

\* Why the rows verify, and the adjusted ones are kept: the tables of the model have a place
\* for each command; what a command has read is there; step 13 has no adjusted row in hand.
Places ==
  /\ DOMAIN pc = Commands /\ DOMAIN full = Commands /\ DOMAIN cell = Commands
  /\ DOMAIN registry = Commands /\ DOMAIN content = Commands /\ DOMAIN todo = Commands
  /\ DOMAIN known = Commands /\ DOMAIN newSnap = Commands /\ DOMAIN write = Commands

KnownThere == \A p \in Commands : known[p] \subseteq DOMAIN obs \cup DOMAIN write[p]

ScopeKept ==
  \A p \in Commands :
    /\ pc[p] = "idle" => cell[p] = Nothing /\ known[p] = {} /\ write[p] = Nothing
    /\ full[p] => cell[p] = Nothing
    /\ ~full[p] => \A k \in known[p] \cup DOMAIN write[p] : k[2] \notin Adjusted

\* The inductive invariant of the rows.
PublishInv == Places /\ KnownThere /\ RowsVerify /\ ScopeKept

\* Why the snapshots open: data and changes make contents; a directory is complete before
\* the command goes on to the row, and the row is written before the observations.
DataTyped ==
  /\ data \in Contents
  /\ dir \in [Contents -> {"absent", "made", "complete"}]
  /\ DOMAIN snap \subseteq Contents
  /\ \A p \in Commands :
       /\ Partial(cell[p], Cells, Levels) /\ DOMAIN newSnap[p] \subseteq Contents
       /\ content[p] \subseteq Contents /\ \A c, d \in content[p] : c = d

SnapshotReady ==
  \A p \in Commands :
    /\ pc[p] \in {"row", "insert", "load", "supersede", "revive", "write"} =>
         \A c \in content[p] : dir[c] = "complete"
    /\ pc[p] \in {"load", "supersede", "revive", "write"} =>
         content[p] \subseteq DOMAIN snap \cup DOMAIN newSnap[p]
    /\ \A c \in DOMAIN newSnap[p] : dir[c] = "complete"

WritesCited ==
  \A p \in Commands :
    /\ pc[p] \in {"idle", "export", "mkdir", "fill", "row", "insert"} =>
         known[p] = {} /\ write[p] = Nothing
    /\ \A k \in known[p] \cup DOMAIN write[p] : k[4] \in DOMAIN snap \cup DOMAIN newSnap[p]

\* The inductive invariant of the snapshots.
StoreInv == Places /\ DataTyped /\ SnapshotReady /\ WritesCited /\ SnapshotsOpen

\* Why the figures are fresh when one command runs after the other.  Nobody else is in
\* flight; what the command exported is what it sees; the subjects it is done with hold their
\* drafts, and of the one in hand the rows it read are the current ones, then none is.
AloneInFlight == \A p, q \in Commands : pc[p] \in Alive /\ pc[q] \in Alive => p = q

Rewriting == {"supersede", "revive", "write"}
Drawn(p, s) == Figures(p, View(p), s)
Due(p) == {s \in Selected(p) : DOMAIN Drawn(p, s) # {}}
Published(p, s) == Holding(Seen(p), Current(p, s), Drawn(p, s))

Exported(p) ==
  pc[p] \in {"mkdir", "fill", "row", "insert", "load"} \cup Rewriting => content[p] = {View(p)}
SubjectsDone(p) ==
  \A s \in Due(p) \ todo[p] :
    pc[p] = "load" \/ (pc[p] \in Rewriting /\ s # First(todo[p])) => Published(p, s)
SubjectInHand(p) ==
  /\ pc[p] = "supersede" => known[p] = Current(p, First(todo[p]))
  /\ pc[p] \in {"revive", "write"} => Current(p, First(todo[p])) = {}

\* The inductive invariant of one publisher at a time.
AloneInv ==
  /\ AloneInFlight
  /\ \A p \in Commands : Exported(p) /\ SubjectsDone(p) /\ SubjectInHand(p)

\* A command that is not killed ends: no wait of one session for another lasts for ever.
PublishersEnd == \A p \in Commands : pc[p] = "export" ~> pc[p] \in Over

=============================================================================
