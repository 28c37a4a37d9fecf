---------------------------- MODULE ModelCatalog ----------------------------
(***************************************************************************)
(* The catalogue of expected-outcome models, the adjusted figures that     *)
(* cite them, and `metrics verify`.  A command (`models fit`, or a         *)
(* `metrics compute` over some sources or subjects) lists the models its   *)
(* snapshot lacks, fits them and writes each one's artifact once, records  *)
(* their rows where none stands (ON CONFLICT DO NOTHING), reads the        *)
(* snapshot's models back from their artifacts, and publishes one subject  *)
(* after another in the same transaction.                                  *)
(*                                                                         *)
(* A statement sees what is committed when it starts and its own           *)
(* transaction's writes; writing what another transaction has written      *)
(* waits for it.  Files are no database: what was written there stays.  A  *)
(* model is named by the hash of its artifact, which is a function of the  *)
(* snapshot, the source and target, the specification and the code that    *)
(* fitted it; a target stands for a target and window.  The steps of one   *)
(* subject's publication, and the snapshot directories, are                *)
(* MetricPublication's: here a subject is one step.                        *)
(***************************************************************************)
EXTENDS Naturals, FiniteSets

CONSTANTS
  MaxCommands,   \* bound: the commands of a behaviour
  MaxActive,     \* how many of them, and a verify, may be in flight together
  MaxIngests,    \* bound: commits that change the canonical data
  MaxCrashes,    \* bound: commands killed
  Data,          \* what the canonical data can be: a snapshot is named by it
  Sources, Targets,
  Subjects,      \* in the order they are published, one source after another
  SourceOf,      \* SourceOf[subject]
  Drafted,       \* Drafted[subject]: the targets it has an adjusted figure for
  NReleases,     \* releases of the program 1 .. NReleases
  Specification, \* Specification[release]: the version of the model specification
  Registry,      \* Registry[release]: the version of the metric registry
  Unavailable,   \* Unavailable[source]: the targets it cannot support
  Rate,          \* Rate[subject][data]: its descriptive figure
  Place,         \* Place[source, target]: the order models are fitted in
  Scopes         \* what `metrics compute` may be restricted to

Commands == 1 .. MaxCommands
Releases == 1 .. NReleases
Versions == {Specification[r] : r \in Releases}

\* uq_outcome_model_key is <<snapshot, key, specification>>; the content hash adds the code.
ModelKeys == Sources \X Targets
Models == Data \X ModelKeys \X Versions \X Releases
Unique(m) == <<m[1], m[2], m[3]>>

Plain == "rate"
Slots == Targets \cup {Plain}
None == <<>>

\* An observation's row: a snapshot's figure that is revived keeps it.
Figures == Data \X Subjects \X Slots
Cells == [model : Models \cup {None}, release : Releases, current : BOOLEAN]

ASSUME CatalogBounds ==
  /\ MaxCommands \in Nat /\ MaxActive \in Nat /\ MaxIngests \in Nat /\ MaxCrashes \in Nat
  /\ NReleases \in Nat \ {0}
ASSUME CatalogData ==
  /\ 1 \in Data /\ Data \subseteq Nat /\ Subjects \subseteq Nat /\ Plain \notin Targets
  /\ SourceOf \in [Subjects -> Sources] /\ Drafted \in [Subjects -> SUBSET Targets]
  /\ Unavailable \in [Sources -> SUBSET Targets]
  /\ Specification \in [Releases -> Nat] /\ Registry \in [Releases -> Nat]
\* A source's judges have figures for the same targets, its courts for none.
ASSUME JudgesAlike ==
  \A s, t \in Subjects :
    SourceOf[s] = SourceOf[t] /\ Drafted[s] # {} /\ Drafted[t] # {} => Drafted[s] = Drafted[t]
\* The subjects of a source follow one another.
ASSUME OneSourceAfterAnother ==
  \A s, t, u \in Subjects :
    s < t /\ t < u /\ SourceOf[s] = SourceOf[u] => SourceOf[t] = SourceOf[s]
ASSUME CatalogScopes ==
  \A s \in Scopes : s.sources \subseteq Sources /\ s.subjects \subseteq Subjects

VARIABLES
  data,      \* the committed canonical tables
  deployed,  \* the release installed, as the last process to start found it
  snaps,     \* metric_snapshot
  rows,      \* outcome_model
  files,     \* the artifacts: absent, partial, whole
  obs,       \* metric_observation
  proc,      \* the commands
  check,     \* one `metrics verify`
  ingests, crashes

vars == <<data, deployed, snaps, rows, files, obs, proc, check, ingests, crashes>>

-----------------------------------------------------------------------------
\* f over g.
Over(f, g) == [x \in DOMAIN f \cup DOMAIN g |-> IF x \in DOMAIN f THEN f[x] ELSE g[x]]
Nothing == [x \in {} |-> x]

Idle ==
  [pc |-> "idle", release |-> 1, snapshot |-> {}, fresh |-> {}, sources |-> {}, subjects |-> {},
   todo |-> {}, fitted |-> {}, mine |-> {}, models |-> {}, write |-> Nothing]

Ended == {"idle", "over"}
Alive(p) == proc[p].pc \notin Ended

Snapshot(p) == CHOOSE n \in proc[p].snapshot : TRUE
Spec_(p) == Specification[proc[p].release]
Seen(p) == Over(proc[p].write, obs)
Visible(p) == rows \cup proc[p].mine

\* Mutation of First: the order of a set.
InAnyOrder(keys) == keys

\* The model of some that is fitted, or recorded, before the others.
First(keys) == {k \in keys : \A l \in keys : Place[k] <= Place[l]}
NextSubject(S) == CHOOSE s \in S : \A t \in S : s <= t

\* What a fit of key k by command p is called.
Artifact(p, k) == <<Snapshot(p), k, Spec_(p), proc[p].release>>

\* Mutation of Wanted: those of the selected sources only.
WantedOfSelected(p) == {k \in ModelKeys : k[1] \in proc[p].sources}

\* The targets of every source that cannot support them, and all those of the selected
\* sources.
Wanted(p) ==
  {k \in ModelKeys : k[1] \in proc[p].sources \/ k[2] \in Unavailable[k[1]]}

Existing(p) == {m[2] : m \in {m \in Visible(p) : m[1] \in proc[p].snapshot /\ m[3] = Spec_(p)}}

\* After the catalogue: a fit commits, a compute reads the models back.
Then(subjects) == IF subjects = {} THEN "commit" ELSE "read"

-----------------------------------------------------------------------------
(* What a publish writes, and what a verify finds.                         *)

\* The row of each slot's draft: the descriptive figure, and the adjusted ones under the
\* models given.
Drafts(s, scope, models) ==
  [t \in scope \cap (Drafted[s] \cup {Plain}) |->
     IF t = Plain THEN None ELSE CHOOSE m \in models : m[2] = <<SourceOf[s], t>>]

Current(seen, s, scope) ==
  {k \in DOMAIN seen : k[2] = s /\ k[3] \in scope /\ seen[k].current}

\* _unchanged: every column but the code's version, the model's hash among them.
Unchanged(seen, n, s, scope, drafts, release) ==
  /\ {k[3] : k \in Current(seen, s, scope)} = DOMAIN drafts
  /\ \A k \in Current(seen, s, scope) :
       /\ seen[k].model = drafts[k[3]]
       /\ Registry[seen[k].release] = Registry[release]
       /\ Rate[s][k[1]] = Rate[s][n]

\* _publish_subject of the kinds in scope: what it writes.
Publication(seen, n, s, scope, drafts, release) ==
  IF Unchanged(seen, n, s, scope, drafts, release) THEN Nothing
  ELSE Over([k \in {<<n, s, t>> : t \in DOMAIN drafts} |->
               [model |-> drafts[k[3]], release |-> release, current |-> TRUE]],
            [k \in Current(seen, s, scope) |-> [seen[k] EXCEPT !.current = FALSE]])

\* No other transaction has written a row of the subject.
Free(p, s) == \A q \in Commands \ {p} : \A k \in DOMAIN proc[q].write : k[2] # s

\* The rows a verify is looking at that stay as they were when it began (not the program's:
\* what is said of a verify is said of these).
Watch(new) ==
  check' = [check EXCEPT !.still = {k \in @ : new[k] = obs[k]}]

-----------------------------------------------------------------------------
Unbegun ==
  [pc |-> "idle", release |-> 1, todo |-> {}, held |-> Nothing, at |-> {}, kept |-> {},
   models |-> {}, loading |-> {}, items |-> Nothing, verified |-> {}, unverifiable |-> {},
   mismatched |-> {}, still |-> {}]

Init ==
  /\ data = 1
  /\ deployed = 1
  /\ snaps = {}
  /\ rows = {}
  /\ files = [m \in Models |-> "absent"]
  /\ obs = Nothing
  /\ proc = [p \in Commands |-> Idle]
  /\ check = Unbegun
  /\ ingests = 0
  /\ crashes = 0

-----------------------------------------------------------------------------
(* A command begins, and finds or makes its snapshot's row.                *)

Room ==
  Cardinality({q \in Commands : Alive(q)})
    + (IF check.pc \in {"idle", "over"} THEN 0 ELSE 1) < MaxActive

Begin(p) ==
  /\ proc[p].pc = "idle" /\ Room
  /\ \A q \in Commands : q < p => proc[q].pc # "idle"

\* The next release may have been installed since.
Install(r) == r \in {deployed, deployed + 1} /\ deployed' = r

Unshared == <<data, deployed, snaps, rows, files, obs, check, ingests, crashes>>

\* models fit [--snapshot]: of a committed snapshot.
BeginFit(p) ==
  /\ Begin(p)
  /\ \E r \in Releases, n \in snaps :
       /\ Install(r)
       /\ proc' = [proc EXCEPT ![p] =
            [Idle EXCEPT !.pc = "list", !.release = r, !.snapshot = {n}, !.sources = Sources]]
  /\ UNCHANGED <<data, snaps, rows, files, obs, check, ingests, crashes>>

\* metrics compute [--source] [--subject]: the tables are exported as they stand.
BeginCompute(p) ==
  /\ Begin(p)
  /\ \E r \in Releases, s \in Scopes :
       /\ Install(r)
       /\ proc' = [proc EXCEPT ![p] =
            [Idle EXCEPT !.pc = "row", !.release = r, !.snapshot = {data},
                         !.sources = s.sources, !.subjects = s.subjects]]
  /\ UNCHANGED <<data, snaps, rows, files, obs, check, ingests, crashes>>

Go(p, where) == proc' = [proc EXCEPT ![p].pc = where]

\* The transaction is over: committed, or rolled back (what it wrote to the snapshot directory
\* stays).
Leave(p) == proc' = [proc EXCEPT ![p] = [Idle EXCEPT !.pc = "over"]]

FindSnapshot(p) ==
  /\ proc[p].pc = "row"
  /\ Go(p, IF proc[p].snapshot \subseteq snaps THEN "list" ELSE "insert")
  /\ UNCHANGED Unshared

InsertSnapshot(p) ==
  /\ proc[p].pc = "insert" /\ proc[p].snapshot \cap snaps = {}
  /\ \A q \in Commands \ {p} : proc[p].snapshot \cap proc[q].fresh = {}
  /\ proc' = [proc EXCEPT ![p].pc = "list", ![p].fresh = proc[p].snapshot]
  /\ UNCHANGED Unshared

\* It was inserted meanwhile: its hash is unique.
SnapshotConflict(p) ==
  /\ proc[p].pc = "insert" /\ proc[p].snapshot \subseteq snaps
  /\ Leave(p)
  /\ UNCHANGED Unshared

-----------------------------------------------------------------------------
(* fit_snapshot: the missing models are fitted, written, recorded.         *)

ListMissing(p) ==
  /\ proc[p].pc = "list"
  /\ LET missing == Wanted(p) \ Existing(p) IN
     proc' = [proc EXCEPT ![p].todo = missing,
                          ![p].pc = IF missing = {} THEN Then(proc[p].subjects) ELSE "open"]
  /\ UNCHANGED Unshared

\* One artifact is in place; after the last the rows are recorded.
Keep(p, k) ==
  proc' = [proc EXCEPT ![p].todo = @ \ {k}, ![p].fitted = @ \cup {k},
                       ![p].pc = IF proc[p].todo = {k} THEN "record" ELSE "open"]

\* open(path, "xb"): the file is there, and empty.
OpenArtifact(p) ==
  /\ proc[p].pc = "open"
  /\ \E k \in First(proc[p].todo) :
       /\ files[Artifact(p, k)] = "absent"
       /\ files' = [files EXCEPT ![Artifact(p, k)] = "partial"]
  /\ Go(p, "write")
  /\ UNCHANGED <<data, deployed, snaps, rows, obs, check, ingests, crashes>>

WriteArtifact(p) ==
  /\ proc[p].pc = "write"
  /\ \E k \in First(proc[p].todo) :
       /\ files' = [files EXCEPT ![Artifact(p, k)] = "whole"]
       /\ Keep(p, k)
  /\ UNCHANGED <<data, deployed, snaps, rows, obs, check, ingests, crashes>>

\* Mutation of KeepArtifact: the bytes are not compared.
KeepAnyArtifact(p) ==
  /\ proc[p].pc = "open"
  /\ \E k \in First(proc[p].todo) : files[Artifact(p, k)] # "absent" /\ Keep(p, k)
  /\ UNCHANGED Unshared

\* FileExistsError, and the bytes are equal.
KeepArtifact(p) ==
  /\ proc[p].pc = "open"
  /\ \E k \in First(proc[p].todo) : files[Artifact(p, k)] = "whole" /\ Keep(p, k)
  /\ UNCHANGED Unshared

\* FileExistsError, and they differ: another command is writing it, or died writing it.
RefuseArtifact(p) ==
  /\ proc[p].pc = "open"
  /\ \E k \in First(proc[p].todo) : files[Artifact(p, k)] = "partial"
  /\ Leave(p)
  /\ UNCHANGED Unshared

\* INSERT ... ON CONFLICT DO NOTHING, row after row: it waits for a transaction that has
\* written the same key.
RecordModel(p) ==
  /\ proc[p].pc = "record"
  /\ \E k \in First(proc[p].fitted) :
       LET m == Artifact(p, k)
           taken == \E r \in rows : Unique(r) = Unique(m)
       IN /\ \A q \in Commands \ {p} : \A r \in proc[q].mine : Unique(r) # Unique(m)
          /\ proc' = [proc EXCEPT
               ![p].fitted = @ \ {k},
               ![p].mine = IF taken THEN @ ELSE @ \cup {m},
               ![p].pc = IF proc[p].fitted = {k} THEN Then(proc[p].subjects) ELSE "record"]
  /\ UNCHANGED Unshared

-----------------------------------------------------------------------------
(* The figures are computed with the models read back, and published.      *)

\* Mutation of Parameters: of any specification.
AnyParameters(p) == {m \in Visible(p) : m[1] \in proc[p].snapshot}

\* The snapshot's models of the specification, of every source.
Parameters(p) == {m \in Visible(p) : m[1] \in proc[p].snapshot /\ m[3] = Spec_(p)}

\* snapshot_parameters.
ReadModels(p) ==
  /\ proc[p].pc = "read"
  /\ LET cited == Parameters(p) IN
     IF \A m \in cited : files[m] = "whole"
     THEN proc' = [proc EXCEPT ![p].models = cited, ![p].pc = "publish"]
     ELSE Leave(p)
  /\ UNCHANGED Unshared

\* One subject: a figure without a model is a RatioError.
Publish(p) ==
  /\ proc[p].pc = "publish" /\ proc[p].subjects # {}
  /\ LET s == NextSubject(proc[p].subjects)
         drafts == Drafts(s, Slots, proc[p].models)
     IN IF \E t \in Drafted[s] : \A m \in proc[p].models : m[2] # <<SourceOf[s], t>>
        THEN Leave(p)
        ELSE /\ Free(p, s)
             /\ proc' = [proc EXCEPT
                  ![p].subjects = @ \ {s},
                  ![p].write = Over(Publication(Seen(p), Snapshot(p), s, Slots, drafts,
                                                proc[p].release), @)]
  /\ UNCHANGED Unshared

Commit(p) ==
  /\ \/ proc[p].pc = "commit"
     \/ proc[p].pc = "publish" /\ proc[p].subjects = {}
  /\ snaps' = snaps \cup proc[p].fresh
  /\ rows' = rows \cup proc[p].mine
  /\ obs' = Seen(p)
  /\ Watch(Seen(p))
  /\ Leave(p)
  /\ UNCHANGED <<data, deployed, files, ingests, crashes>>

Crash(p) ==
  /\ Alive(p) /\ crashes < MaxCrashes
  /\ crashes' = crashes + 1
  /\ Leave(p)
  /\ UNCHANGED <<data, deployed, snaps, rows, files, obs, check, ingests>>

-----------------------------------------------------------------------------
(* What else moves: ingest runs.                                           *)

\* A run commits other data, with the descriptive figures of step 13.
Ingest(d, r) ==
  /\ ingests < MaxIngests /\ d # data
  /\ Install(r)
  /\ \A q \in Commands : d \notin proc[q].fresh /\ proc[q].write = Nothing
  /\ data' = d
  /\ snaps' = snaps \cup {d}
  /\ LET new(s) == Publication(obs, d, s, {Plain}, Drafts(s, {Plain}, {}), r)
         written == [k \in UNION {DOMAIN new(s) : s \in Subjects} |-> new(k[2])[k]]
     IN obs' = Over(written, obs) /\ Watch(Over(written, obs))
  /\ ingests' = ingests + 1
  /\ UNCHANGED <<rows, files, proc, crashes>>

-----------------------------------------------------------------------------
(* metrics verify: one read after another, at READ COMMITTED.              *)

Rest == <<data, deployed, snaps, rows, files, obs, proc, ingests, crashes>>
Standing == {k \in DOMAIN obs : obs[k].current}
RegistryOf(k) == Registry[obs[k].release]

\* _groups: every current observation, by the snapshot it cites.
StartVerify ==
  /\ check.pc = "idle" /\ Standing # {} /\ Room
  /\ \E r \in Releases : Install(r) /\ check' = [Unbegun EXCEPT
       !.pc = "cite", !.release = r, !.todo = {k[1] : k \in Standing},
       !.held = [k \in Standing |-> RegistryOf(k)], !.still = Standing]
  /\ UNCHANGED <<data, snaps, rows, files, obs, proc, ingests, crashes>>

\* Mutation of Stale: the specification's version is not compared.
NoneStale(r, adjusted) == {}

\* Of some adjusted observations, those whose model was fitted under another specification,
\* and those that cite one model where others cite another for their source and target.
Stale(r, adjusted) == {k \in adjusted : obs[k].model[3] # Specification[r]}
Doubled(cited) ==
  {k \in cited : \E l \in cited :
     obs[l].model[2] = obs[k].model[2] /\ obs[l].model # obs[k].model}

\* _cited_models of the next snapshot: the models of its adjusted observations, read from
\* their artifacts.
CiteModels ==
  /\ check.pc = "cite" /\ check.todo # {}
  /\ LET n == CHOOSE n \in check.todo : \A o \in check.todo : n <= o
         ours == Registry[check.release]
         adjusted ==
           IF \E k \in DOMAIN check.held : k[1] = n /\ k[3] # Plain /\ check.held[k] = ours
           THEN {k \in Standing : k[1] = n /\ k[3] # Plain /\ RegistryOf(k) = ours}
           ELSE {}
         broken == {k \in adjusted : files[obs[k].model] # "whole"}
         stale == Stale(check.release, adjusted \ broken)
         cited == adjusted \ (broken \cup stale)
         two == Doubled(cited)
     IN check' = [check EXCEPT
          !.pc = "load", !.todo = @ \ {n}, !.at = {n},
          !.loading = {k[2] : k \in {k \in DOMAIN check.held : k[1] = n}},
          !.kept = cited \ two, !.models = {obs[k].model : k \in cited \ two},
          !.mismatched = @ \cup broken,
          !.unverifiable = @ \cup stale \cup two]
  /\ UNCHANGED Rest

\* _verify_source's first loop: a subject's observations of the snapshot as they are now.
\* Those of another registry are reported; an adjusted one whose model was not kept has been.
LoadSubject ==
  /\ check.pc = "load" /\ check.loading # {}
  /\ LET s == NextSubject(check.loading)
         ours == Registry[check.release]
         found == {k \in Standing : k[1] \in check.at /\ k[2] = s}
         pending == {k \in found : RegistryOf(k) = ours /\ (k[3] = Plain \/ k \in check.kept)}
     IN check' = [check EXCEPT
          !.loading = @ \ {s},
          !.items = Over([k \in pending |-> obs[k].model], @),
          !.unverifiable = @ \cup {k \in found : RegistryOf(k) # ours},
          !.pc = IF \E t \in check.loading \ {s} : SourceOf[t] = SourceOf[s]
                 THEN "load" ELSE "compare"]
  /\ UNCHANGED Rest

\* The source's subjects are recomputed, in the kinds the snapshot held when the verify
\* began, with the models kept; each item is compared with its draft.
CompareSource ==
  /\ check.pc = "compare"
  /\ LET items == DOMAIN check.items
         subjects == {k[2] : k \in items}
         sources == {SourceOf[s] : s \in subjects}
         heldHere == {k \in DOMAIN check.held :
                        /\ k[1] \in check.at /\ SourceOf[k[2]] \in sources
                        /\ check.held[k] = Registry[check.release]}
         models == {m \in check.models : m[2][1] \in sources}
         adjusted == models # {} /\ \E k \in heldHere : k[3] # Plain
         plain == \E k \in heldHere : k[3] = Plain
         lacking == adjusted /\ \E s \in subjects : \E t \in Drafted[s] :
                      \A m \in models : m[2] # <<SourceOf[s], t>>
         kinds == (IF adjusted THEN Targets ELSE {}) \cup (IF plain THEN {Plain} ELSE {})
         drafts(s) == Drafts(s, kinds, models)
         equal == {k \in items : /\ k[3] \in DOMAIN drafts(k[2])
                                 /\ drafts(k[2])[k[3]] = check.items[k]}
         absent == {k \in Figures :
                      /\ k[1] \in check.at /\ k[2] \in subjects /\ k \notin items
                      /\ k[3] \in DOMAIN drafts(k[2])
                      /\ \E l \in items : l[2] = k[2] /\ (l[3] = Plain <=> k[3] = Plain)}
     IN check' = [check EXCEPT
          !.items = Nothing,
          !.unverifiable = IF lacking THEN @ \cup items ELSE @,
          !.verified = IF lacking THEN @ ELSE @ \cup equal,
          !.mismatched = IF lacking THEN @ ELSE @ \cup (items \ equal) \cup absent,
          !.pc = IF check.loading # {} THEN "load"
                 ELSE IF check.todo # {} THEN "cite" ELSE "done"]
  /\ UNCHANGED Rest

\* The report is printed.
EndVerify ==
  /\ check.pc = "done"
  /\ check' = [Unbegun EXCEPT !.pc = "over"]
  /\ UNCHANGED Rest

-----------------------------------------------------------------------------
FitStep(p) ==
  \/ FindSnapshot(p) \/ InsertSnapshot(p) \/ SnapshotConflict(p)
  \/ ListMissing(p) \/ OpenArtifact(p) \/ WriteArtifact(p) \/ KeepArtifact(p)
  \/ RefuseArtifact(p) \/ RecordModel(p)
  \/ ReadModels(p) \/ Publish(p) \/ Commit(p)

VerifyStep == CiteModels \/ LoadSubject \/ CompareSource \/ EndVerify

Next ==
  \/ \E p \in Commands : BeginFit(p) \/ BeginCompute(p) \/ FitStep(p) \/ Crash(p)
  \/ \E d \in Data, r \in Releases : Ingest(d, r)
  \/ StartVerify \/ VerifyStep

Spec == Init /\ [][Next]_vars

Running == \E p \in Commands : Alive(p)
Quiet == ~Running /\ check.pc \in {"idle", "over"}

\* While one of the running processes can take its next statement, one of them does.
FairSpec == Spec /\ WF_vars((\E p \in Commands : FitStep(p)) \/ VerifyStep)

-----------------------------------------------------------------------------
TypeOK ==
  /\ data \in Data /\ deployed \in Releases
  /\ snaps \subseteq Data /\ rows \subseteq Models
  /\ files \in [Models -> {"absent", "partial", "whole"}]
  /\ DOMAIN obs \subseteq Figures
  /\ \A k \in DOMAIN obs : obs[k] \in Cells

\* Every recorded model can be read back as it was fitted, and the catalogue holds one model
\* of a snapshot, source, target and specification: no row waits for an artifact that a
\* killed or slower command never finished, and a verify never finds two models for a figure.
CatalogueWhole ==
  /\ \A m \in rows : files[m] = "whole"
  /\ \A m, r \in rows : Unique(m) = Unique(r) => m = r

\* What a reader of a ratio finds of its model: the card of a recorded model while the
\* snapshot has a current observation, and the chain's check of the artifact.
HasCard(m) == m \in rows /\ \E k \in Standing : k[1] = m[1]
ArtifactHolds(m) == files[m] = "whole"

\* A published ratio cites a recorded model of its own snapshot, source and target, fitted
\* under the specification of the release that published it, whoever fitted it; while it is
\* current a reader finds the model's card, and its chain is complete.
RatiosCiteTheirModel ==
  \A k \in DOMAIN obs : k[3] # Plain =>
    LET m == obs[k].model IN
    /\ m \in rows
    /\ m[1] = k[1] /\ m[2] = <<SourceOf[k[2]], k[3]>>
    /\ m[3] = Specification[obs[k].release]
    /\ ArtifactHolds(m) /\ (k \in Standing => HasCard(m))

\* Where a compute has published ratios of a snapshot under a specification, the catalogue
\* states every target that a source of the snapshot cannot support, whatever the compute
\* was restricted to.
UnavailableStated ==
  \A k \in DOMAIN obs : k[3] # Plain =>
    \A s \in Sources : \A t \in Unavailable[s] :
      \E m \in rows : Unique(m) = <<k[1], <<s, t>>, Specification[obs[k].release]>>

\* What a verify says of the observations that stayed as they were while it ran: each is
\* verified or reported, none as a mismatch, and none as unverifiable unless it was made under
\* another registry or specification than the verify's.
VerifyHonest ==
  check.pc = "done" =>
    /\ check.still \subseteq check.verified \cup check.unverifiable \cup check.mismatched
    /\ check.still \cap check.mismatched = {}
    /\ \A k \in check.still \cap check.unverifiable :
         \/ RegistryOf(k) # Registry[check.release]
         \/ k[3] # Plain /\ Specification[obs[k].release] # Specification[check.release]

\* However commands and a verify overlap, all of them end: no two wait for each other's rows.
AllFinish == []<>Quiet

=============================================================================
