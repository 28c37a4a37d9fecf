---------------------- MODULE MetricPublicationProofs ----------------------
(***************************************************************************)
(* Proofs about MetricPublication, for every number of commands, subjects, *)
(* slots and registries: every stored figure is the one its snapshot gives *)
(* under its registry, every cited snapshot can be opened, an ingest run   *)
(* leaves the adjusted figures alone, and where one command runs after the *)
(* other what a command commits is fresh.                                  *)
(***************************************************************************)
EXTENDS MetricPublication, FiniteSetTheorems, TLAPS

\* The initial state satisfies both inductive invariants.
LEMMA InitInv == Init => PublishInv /\ StoreInv
BY DataAssumption DEF Init, Nothing, PublishInv, StoreInv, Places, KnownThere, RowsVerify,
   ScopeKept, DataTyped, SnapshotReady, WritesCited, SnapshotsOpen, Partial

\* What a session sees is committed data with its own change, and is a content.
LEMMA ViewIsContent ==
  ASSUME NEW p \in Commands, data \in Contents, Partial(cell[p], Cells, Levels)
  PROVE  View(p) \in Contents
BY DEF View, Override, Partial, Contents

\* What a full compute sees is the committed data: it changes nothing itself.
LEMMA ComputeSeesData ==
  ASSUME NEW p \in Commands, data \in Contents, cell[p] = Nothing
  PROVE  View(p) = data
BY DEF View, Override, Nothing, Contents

\* A row that a command sees verifies, whoever wrote it.
LEMMA SeenVerifies ==
  ASSUME RowsVerify, NEW p \in Commands, NEW k \in DOMAIN Seen(p)
  PROVE  Verifies(k, Seen(p)[k])
BY DEF RowsVerify, Seen, Override

\* Superseding a row changes nothing it says.
LEMMA SupersededVerifies ==
  ASSUME NEW k, NEW row, Verifies(k, row)
  PROVE  Verifies(k, Superseded(row))
BY DEF Verifies, Superseded

\* The row of a draft verifies: its key is the definition's of the registry it records.
LEMMA DraftVerifies ==
  ASSUME NEW p \in Commands, NEW c, NEW s, NEW k \in Targets(p, c, s), NEW id
  PROVE  Verifies(k, NewRow(p, k, id))
<1>1. PICK t \in DOMAIN Figures(p, c, s) : k = <<s, t, Definition[t][registry[p]], c>>
  BY DEF Targets
<1>2. /\ t \in DOMAIN Drafts[c][registry[p]][s]
      /\ Figures(p, c, s)[t] = Drafts[c][registry[p]][s][t]
  BY DEF Figures
<1>3. /\ NewRow(p, k, id).registry = registry[p]
      /\ NewRow(p, k, id).value = Figures(p, c, s)[t]
  BY <1>1 DEF NewRow
<1> QED
  BY <1>1, <1>2, <1>3 DEF Verifies

\* A draft is of a slot in scope.
LEMMA TargetsInScope ==
  ASSUME NEW p \in Commands, NEW c, NEW s, NEW k \in Targets(p, c, s)
  PROVE  k[2] \in Scope(p) /\ k[4] = c
BY DEF Targets, Figures

-----------------------------------------------------------------------------
\* Rows that nobody writes go on verifying.
LEMMA RowsStand ==
  ASSUME RowsVerify, UNCHANGED <<obs, write>>
  PROVE  RowsVerify'
BY DEF RowsVerify, Verifies

\* The rows verify after a step if each of them does.
LEMMA RowsPrimed ==
  ASSUME \A k \in DOMAIN obs' : Verifies(k, obs'[k]),
         \A q \in Commands : \A k \in DOMAIN write'[q] : Verifies(k, write'[q][k])
  PROVE  RowsVerify'
BY DEF RowsVerify, Verifies

\* A transaction that writes verifying rows leaves verifying rows, where it had them or not.
LEMMA RowsWritten ==
  ASSUME RowsVerify, DOMAIN write = Commands, NEW p \in Commands, NEW f, obs' = obs,
         write' = [write EXCEPT ![p] = Override(f, write[p])],
         \A k \in DOMAIN f : Verifies(k, f[k])
  PROVE  /\ RowsVerify'
         /\ DOMAIN write' = Commands
         /\ DOMAIN write'[p] = DOMAIN f \cup DOMAIN write[p]
         /\ \A q \in Commands \ {p} : write'[q] = write[q]
<1>1. /\ DOMAIN write' = Commands
      /\ write'[p] = Override(f, write[p])
      /\ \A q \in Commands \ {p} : write'[q] = write[q]
  OBVIOUS
<1>2. DOMAIN write'[p] = DOMAIN f \cup DOMAIN write[p]
  BY <1>1 DEF Override
<1>3. ASSUME NEW k \in DOMAIN write'[p] PROVE Verifies(k, write'[p][k])
  <2>1. CASE k \in DOMAIN f
    <3>1. write'[p][k] = f[k]
      BY <1>1, <2>1 DEF Override
    <3> QED
      BY <2>1, <3>1
  <2>2. CASE k \notin DOMAIN f
    <3>1. k \in DOMAIN write[p] /\ write'[p][k] = write[p][k]
      BY <1>1, <1>2, <2>2 DEF Override
    <3> QED
      BY <3>1 DEF RowsVerify
  <2> QED
    BY <2>1, <2>2
<1>4. \A q \in Commands : \A k \in DOMAIN write'[q] : Verifies(k, write'[q][k])
  BY <1>1, <1>3 DEF RowsVerify
<1>5. RowsVerify'
  BY <1>4, RowsPrimed DEF RowsVerify
<1> QED
  BY <1>1, <1>2, <1>5

\* A command whose transaction ends, whatever the outcome, holds nothing any more.
LEMMA ForgetKeeps ==
  ASSUME PublishInv, NEW p \in Commands, NEW o \in Over, pc' = [pc EXCEPT ![p] = o], Forget(p),
         \A k \in DOMAIN obs' : Verifies(k, obs'[k]),
         DOMAIN obs \cup DOMAIN write[p] \subseteq DOMAIN obs' \/ obs' = obs
  PROVE  PublishInv'
<1> USE DEF PublishInv, Places
<1>1. Places'
  BY DEF Forget
<1>2. /\ pc'[p] # "idle" /\ write'[p] = Nothing /\ known'[p] = {} /\ cell'[p] = Nothing
      /\ full'[p] = TRUE
      /\ \A q \in Commands \ {p} :
           /\ pc'[q] = pc[q] /\ full'[q] = full[q] /\ cell'[q] = cell[q]
           /\ known'[q] = known[q] /\ write'[q] = write[q]
  BY DEF Forget, Over
<1>3. \A q \in Commands : \A k \in DOMAIN write'[q] : Verifies(k, write'[q][k])
  BY <1>2 DEF RowsVerify, Nothing
<1>4. RowsVerify'
  BY <1>3, RowsPrimed
<1>5. KnownThere'
  BY <1>2 DEF KnownThere
<1>6. ScopeKept'
  BY <1>2 DEF ScopeKept, Nothing
<1> QED
  BY <1>1, <1>4, <1>5, <1>6

\* The rows: one step per action.
LEMMA PublishStep == PublishInv /\ [Next]_vars => PublishInv'
<1> SUFFICES ASSUME PublishInv, [Next]_vars PROVE PublishInv'
  OBVIOUS
<1> USE DEF PublishInv, Places
<1>1. ASSUME NEW p \in Commands, BeginCompute(p) PROVE PublishInv'
  BY <1>1, RowsStand DEF BeginCompute, Begin, shared, KnownThere, ScopeKept
<1>2. ASSUME NEW p \in Commands, BeginIngest(p) PROVE PublishInv'
  <2>1. pc[p] = "idle" /\ \E o \in {"export", "commit"} : pc' = [pc EXCEPT ![p] = o]
    BY <1>2 DEF BeginIngest, Begin
  <2>2. /\ \E f : cell' = [cell EXCEPT ![p] = f]
        /\ full' = [full EXCEPT ![p] = FALSE]
        /\ registry' = [registry EXCEPT ![p] = deployed]
        /\ UNCHANGED <<obs, content, todo, known, newSnap, write>>
    BY <1>2 DEF BeginIngest, Begin, shared
  <2> QED
    BY <2>1, <2>2, RowsStand DEF KnownThere, ScopeKept, Nothing
<1>3. ASSUME NEW p \in Commands, Export(p) PROVE PublishInv'
  BY <1>3, RowsStand DEF Export, shared, KnownThere, ScopeKept
<1>4. ASSUME NEW p \in Commands, MakeDirectory(p) \/ FillDirectory(p) PROVE PublishInv'
  <2>1. /\ \E o \in {"fill", "row"} : pc' = [pc EXCEPT ![p] = o]
        /\ UNCHANGED <<obs, local>>
    BY <1>4 DEF MakeDirectory, FillDirectory
  <2> QED
    BY <2>1, RowsStand DEF local, KnownThere, ScopeKept
<1>5. ASSUME NEW p \in Commands, Unreadable(p) \/ SnapshotConflict(p) \/ RowConflict(p)
                                  \/ Fail(p) \/ Crash(p)
      PROVE PublishInv'
  <2>1. PICK o \in Over : Rollback(p, o)
    BY <1>5 DEF Unreadable, SnapshotConflict, RowConflict, Fail, Crash, Over
  <2>2. pc' = [pc EXCEPT ![p] = o] /\ Forget(p) /\ obs' = obs
    BY <2>1 DEF Rollback, shared
  <2>3. \A k \in DOMAIN obs' : Verifies(k, obs'[k])
    BY <2>2 DEF RowsVerify
  <2> QED
    BY <2>2, <2>3, ForgetKeeps
<1>6. ASSUME NEW p \in Commands, ReuseSnapshot(p) \/ InsertSnapshot(p) PROVE PublishInv'
  <2>1. /\ pc' = [pc EXCEPT ![p] = "load"]
        /\ \E S : todo' = [todo EXCEPT ![p] = S]
        /\ \E f : newSnap' = [newSnap EXCEPT ![p] = f]
        /\ UNCHANGED <<obs, full, cell, registry, content, known, write>>
    BY <1>6 DEF ReuseSnapshot, InsertSnapshot, StartSubjects, shared
  <2> QED
    BY <2>1, RowsStand DEF KnownThere, ScopeKept
<1>7. ASSUME NEW p \in Commands, MissSnapshot(p) PROVE PublishInv'
  BY <1>7, RowsStand DEF MissSnapshot, shared, local, KnownThere, ScopeKept
<1>8. ASSUME NEW p \in Commands, SkipUnchanged(p) PROVE PublishInv'
  BY <1>8, RowsStand DEF SkipUnchanged, shared, KnownThere, ScopeKept
<1>9. ASSUME NEW p \in Commands, LoadChanged(p) PROVE PublishInv'
  <2>1. \A k \in Current(p, First(todo[p])) : k \in DOMAIN Seen(p) /\ k[2] \in Scope(p)
    BY DEF Current
  <2>2. DOMAIN Seen(p) = DOMAIN obs \cup DOMAIN write[p]
    BY DEF Seen, Override
  <2> QED
    BY <1>9, <2>1, <2>2, RowsStand DEF LoadChanged, Scope, shared, KnownThere, ScopeKept
<1>10. ASSUME NEW p \in Commands, Supersede(p) PROVE PublishInv'
  <2> DEFINE f == [k \in known[p] |-> Superseded(Seen(p)[k])]
  <2>1. \A k \in known[p] : k \in DOMAIN Seen(p)
    BY DEF KnownThere, Seen, Override
  <2>2. \A k \in DOMAIN f : Verifies(k, f[k])
    BY <2>1, SeenVerifies, SupersededVerifies
  <2>3. /\ write' = [write EXCEPT ![p] = Override(f, write[p])]
        /\ pc' = [pc EXCEPT ![p] = "revive"]
        /\ UNCHANGED <<obs, full, cell, registry, content, todo, known, newSnap>>
    BY <1>10 DEF Supersede, shared
  <2>4. DOMAIN f = known[p]
    OBVIOUS
  <2> HIDE DEF f
  <2>5. /\ RowsVerify' /\ DOMAIN write' = Commands
        /\ DOMAIN write'[p] = known[p] \cup DOMAIN write[p]
        /\ \A q \in Commands \ {p} : write'[q] = write[q]
    BY <2>2, <2>3, <2>4, RowsWritten
  <2> QED
    BY <2>3, <2>5 DEF KnownThere, ScopeKept
<1>11. ASSUME NEW p \in Commands, FindRevivable(p) PROVE PublishInv'
  <2> DEFINE S == {k \in DOMAIN Seen(p) :
                     /\ \E c \in content[p] : k \in Targets(p, c, First(todo[p]))
                     /\ \A l \in DOMAIN Seen(p) :
                          l[1] = k[1] /\ l[2] = k[2] /\ l[4] = k[4]
                            => Seen(p)[l].id <= Seen(p)[k].id}
  <2>1. known' = [known EXCEPT ![p] = S]
    BY <1>11, Zenon DEF FindRevivable
  <2>2. \A k \in S : k \in DOMAIN Seen(p) /\ k[2] \in Scope(p)
    BY TargetsInScope
  <2> HIDE DEF S
  <2>3. DOMAIN Seen(p) = DOMAIN obs \cup DOMAIN write[p]
    BY DEF Seen, Override
  <2>4. /\ pc' = [pc EXCEPT ![p] = "write"]
        /\ UNCHANGED <<obs, full, cell, registry, content, todo, newSnap, write>>
    BY <1>11 DEF FindRevivable, shared
  <2> QED
    BY <2>1, <2>2, <2>3, <2>4, RowsStand DEF Scope, KnownThere, ScopeKept
<1>12. ASSUME NEW p \in Commands, WriteRows(p) PROVE PublishInv'
  <2> DEFINE rows == UNION {Targets(p, c, First(todo[p])) : c \in content[p]}
  <2>1. PICK id \in Ids :
          write' = [write EXCEPT ![p] = Override([k \in rows |-> NewRow(p, k, id)], @)]
    BY <1>12 DEF WriteRows
  <2> DEFINE f == [k \in rows |-> NewRow(p, k, id)]
  <2>2. \A k \in rows : Verifies(k, NewRow(p, k, id)) /\ k[2] \in Scope(p)
    BY DraftVerifies, TargetsInScope
  <2>3. /\ \E S : todo' = [todo EXCEPT ![p] = S]
        /\ known' = [known EXCEPT ![p] = {}]
        /\ pc' = [pc EXCEPT ![p] = "load"]
        /\ UNCHANGED <<obs, full, cell, registry, content, newSnap>>
    BY <1>12 DEF WriteRows, shared
  <2> HIDE DEF rows
  <2>4. DOMAIN f = rows /\ \A k \in DOMAIN f : Verifies(k, f[k])
    BY <2>2
  <2>5. write' = [write EXCEPT ![p] = Override(f, write[p])]
    BY <2>1
  <2> HIDE DEF f
  <2>6. /\ RowsVerify' /\ DOMAIN write' = Commands
        /\ DOMAIN write'[p] = rows \cup DOMAIN write[p]
        /\ \A q \in Commands \ {p} : write'[q] = write[q]
    BY <2>3, <2>4, <2>5, RowsWritten
  <2> QED
    BY <2>2, <2>3, <2>6 DEF KnownThere, ScopeKept, Scope
<1>13. ASSUME NEW p \in Commands, Commit(p) PROVE PublishInv'
  <2>1. /\ obs' = Seen(p) /\ pc' = [pc EXCEPT ![p] = "done"]
        /\ Forget(p)
    BY <1>13 DEF Commit
  <2>2. \A k \in DOMAIN obs' : Verifies(k, obs'[k])
    BY <2>1, SeenVerifies
  <2>3. DOMAIN obs' = DOMAIN obs \cup DOMAIN write[p]
    BY <2>1 DEF Seen, Override
  <2> QED
    BY <2>1, <2>2, <2>3, ForgetKeeps DEF Over
<1>14. CASE Upgrade
  BY <1>14, RowsStand DEF Upgrade, local, KnownThere, ScopeKept
<1>15. CASE UNCHANGED vars
  BY <1>15, RowsStand DEF vars, shared, local, KnownThere, ScopeKept
<1> QED
  BY <1>1, <1>2, <1>3, <1>4, <1>5, <1>6, <1>7, <1>8, <1>9, <1>10, <1>11, <1>12, <1>13, <1>14,
     <1>15 DEF Next, Step

-----------------------------------------------------------------------------
\* A command that ends, with its transaction committed or not, leaves the store in order.
LEMMA ForgetOpens ==
  ASSUME StoreInv, NEW p \in Commands, NEW o \in Over, pc' = [pc EXCEPT ![p] = o], Forget(p),
         dir' = dir, data' \in Contents, SnapshotsOpen',
         DOMAIN snap \subseteq DOMAIN snap', DOMAIN snap' \subseteq Contents
  PROVE  StoreInv'
<1> USE DEF StoreInv, Places
<1>1. Places'
  BY DEF Forget
<1>2. /\ pc'[p] = o /\ write'[p] = Nothing /\ known'[p] = {} /\ cell'[p] = Nothing
      /\ content'[p] = {} /\ newSnap'[p] = Nothing
      /\ \A q \in Commands \ {p} :
           /\ pc'[q] = pc[q] /\ content'[q] = content[q] /\ cell'[q] = cell[q]
           /\ known'[q] = known[q] /\ write'[q] = write[q] /\ newSnap'[q] = newSnap[q]
  BY DEF Forget
<1>3. DataTyped'
  <2>1. DOMAIN Nothing = {} /\ Partial(Nothing, Cells, Levels)
    BY DEF Partial, Nothing
  <2>2. \A q \in Commands : Partial(cell'[q], Cells, Levels)
    BY <1>2, <2>1 DEF DataTyped
  <2>3. \A q \in Commands : DOMAIN newSnap'[q] \subseteq Contents
    BY <1>2, <2>1 DEF DataTyped
  <2>4. \A q \in Commands : content'[q] \subseteq Contents /\ \A c, d \in content'[q] : c = d
    BY <1>2 DEF DataTyped
  <2> QED
    BY <2>2, <2>3, <2>4 DEF DataTyped, Partial
<1>4. SnapshotReady'
  BY <1>2 DEF SnapshotReady, Nothing, Over
<1>5. WritesCited'
  BY <1>2 DEF WritesCited, Nothing
<1> QED
  BY <1>1, <1>3, <1>4, <1>5

\* The store: one step per action.
LEMMA StoreStep == StoreInv /\ [Next]_vars => StoreInv'
<1> SUFFICES ASSUME StoreInv, [Next]_vars PROVE StoreInv'
  OBVIOUS
<1> USE DEF StoreInv, Places
<1>1. ASSUME NEW p \in Commands, BeginCompute(p) PROVE StoreInv'
  BY <1>1 DEF BeginCompute, Begin, shared, DataTyped, SnapshotReady, WritesCited, SnapshotsOpen
<1>2. ASSUME NEW p \in Commands, BeginIngest(p) PROVE StoreInv'
  <2>1. PICK o \in {"export", "commit"} : pc[p] = "idle" /\ pc' = [pc EXCEPT ![p] = o]
    BY <1>2 DEF BeginIngest, Begin
  <2>2. \E c \in Cells : \E l \in Levels \ {data[c]} : cell' = [cell EXCEPT ![p] = [d \in {c} |-> l]]
    BY <1>2, Zenon DEF BeginIngest
  <2>3. PICK c \in Cells, l \in Levels : cell' = [cell EXCEPT ![p] = [d \in {c} |-> l]]
    BY <2>2
  <2>4. /\ \E f : full' = [full EXCEPT ![p] = f]
        /\ \E r : registry' = [registry EXCEPT ![p] = r]
        /\ UNCHANGED <<data, dir, snap, obs, content, todo, known, newSnap, write>>
    BY <1>2 DEF BeginIngest, Begin, shared
  <2>5. DataTyped'
    BY <2>3, <2>4 DEF DataTyped, Partial
  <2> QED
    BY <2>1, <2>3, <2>4, <2>5 DEF SnapshotReady, WritesCited, SnapshotsOpen
<1>3. ASSUME NEW p \in Commands, Export(p) PROVE StoreInv'
  <2>1. View(p) \in Contents
    BY ViewIsContent DEF DataTyped
  <2>2. dir[View(p)] # "absent" => dir[View(p)] = "complete"
    BY <1>3, <2>1 DEF Export, DataTyped
  <2> QED
    BY <1>3, <2>1, <2>2 DEF Export, shared, DataTyped, SnapshotReady, WritesCited, SnapshotsOpen
<1>4. ASSUME NEW p \in Commands, MakeDirectory(p) PROVE StoreInv'
  <2>1. PICK c \in content[p] :
          /\ dir[c] # "made"
          /\ dir' = [dir EXCEPT ![c] = IF @ = "absent" THEN "made" ELSE @]
          /\ pc' = [pc EXCEPT ![p] = IF dir[c] = "absent" THEN "fill" ELSE "row"]
    BY <1>4 DEF MakeDirectory
  <2>2. pc[p] = "mkdir" /\ UNCHANGED <<data, snap, obs, local>>
    BY <1>4 DEF MakeDirectory
  <2>3. /\ c \in Contents /\ content[p] = {c}
        /\ dir[c] # "absent" => dir[c] = "complete"
    BY <2>1 DEF DataTyped
  <2>4. /\ dir' \in [Contents -> {"absent", "made", "complete"}]
        /\ \A d \in Contents : dir[d] = "complete" => dir'[d] = "complete"
    BY <2>1, <2>3 DEF DataTyped
  <2> QED
    BY <2>1, <2>2, <2>3, <2>4 DEF local, DataTyped, SnapshotReady, WritesCited, SnapshotsOpen
<1>5. ASSUME NEW p \in Commands, FillDirectory(p) PROVE StoreInv'
  <2>1. /\ pc[p] = "fill" /\ pc' = [pc EXCEPT ![p] = "row"]
        /\ UNCHANGED <<data, snap, obs, local>>
    BY <1>5 DEF FillDirectory
  <2>2. PICK c \in content[p] : dir' = [dir EXCEPT ![c] = "complete"]
    BY <1>5 DEF FillDirectory
  <2>3. c \in Contents /\ content[p] = {c}
    BY DEF DataTyped
  <2>4. /\ dir' \in [Contents -> {"absent", "made", "complete"}]
        /\ \A d \in Contents : dir[d] = "complete" \/ d = c => dir'[d] = "complete"
    BY <2>2, <2>3 DEF DataTyped
  <2>5. SnapshotReady'
    BY <2>1, <2>3, <2>4 DEF local, DataTyped, SnapshotReady
  <2>6. SnapshotsOpen'
    BY <2>1, <2>4 DEF DataTyped, SnapshotsOpen
  <2> QED
    BY <2>1, <2>4, <2>5, <2>6 DEF local, DataTyped, WritesCited
<1>6. ASSUME NEW p \in Commands, Unreadable(p) \/ SnapshotConflict(p) \/ RowConflict(p)
                                  \/ Fail(p) \/ Crash(p)
      PROVE StoreInv'
  <2>1. PICK o \in Over : Rollback(p, o)
    BY <1>6 DEF Unreadable, SnapshotConflict, RowConflict, Fail, Crash, Over
  <2>2. pc' = [pc EXCEPT ![p] = o] /\ Forget(p) /\ UNCHANGED <<data, dir, snap, obs>>
    BY <2>1 DEF Rollback, shared
  <2>3. SnapshotsOpen' /\ data' \in Contents
    BY <2>2 DEF SnapshotsOpen, DataTyped
  <2> QED
    BY <2>2, <2>3, ForgetOpens DEF DataTyped
<1>7. ASSUME NEW p \in Commands, ReuseSnapshot(p) \/ InsertSnapshot(p) PROVE StoreInv'
  <2>1. PICK S \in SUBSET content[p] : newSnap' = [newSnap EXCEPT ![p] = [c \in S |-> registry[p]]]
    BY <1>7 DEF ReuseSnapshot, InsertSnapshot
  <2>2. content[p] \subseteq DOMAIN snap \/ DOMAIN newSnap'[p] = content[p]
    BY <1>7 DEF ReuseSnapshot, InsertSnapshot
  <2>3. /\ pc[p] \in {"row", "insert"} /\ pc' = [pc EXCEPT ![p] = "load"]
        /\ \E T : todo' = [todo EXCEPT ![p] = T]
        /\ UNCHANGED <<data, dir, snap, obs, full, cell, registry, content, known, write>>
    BY <1>7 DEF ReuseSnapshot, InsertSnapshot, StartSubjects, shared
  <2>4. DOMAIN newSnap'[p] = S
    BY <2>1
  <2>5. SnapshotReady'
    BY <2>1, <2>2, <2>3, <2>4 DEF SnapshotReady
  <2>6. WritesCited'
    BY <2>1, <2>3 DEF WritesCited, Nothing
  <2> QED
    BY <2>1, <2>3, <2>4, <2>5, <2>6 DEF DataTyped, SnapshotsOpen
<1>8. ASSUME NEW p \in Commands, MissSnapshot(p) PROVE StoreInv'
  BY <1>8 DEF MissSnapshot, shared, local, DataTyped, SnapshotReady, WritesCited, SnapshotsOpen
<1>9. ASSUME NEW p \in Commands, SkipUnchanged(p) PROVE StoreInv'
  BY <1>9 DEF SkipUnchanged, shared, DataTyped, SnapshotReady, WritesCited, SnapshotsOpen
<1>10. ASSUME NEW p \in Commands, LoadChanged(p) PROVE StoreInv'
  <2>1. \A k \in Current(p, First(todo[p])) : k \in DOMAIN obs \cup DOMAIN write[p]
    BY DEF Current, Seen, Override
  <2>2. \A k \in Current(p, First(todo[p])) : k[4] \in DOMAIN snap \cup DOMAIN newSnap[p]
    BY <2>1 DEF WritesCited, SnapshotsOpen
  <2>3. /\ pc[p] = "load" /\ pc' = [pc EXCEPT ![p] = "supersede"]
        /\ known' = [known EXCEPT ![p] = Current(p, First(todo[p]))]
        /\ UNCHANGED <<shared, full, cell, registry, content, todo, newSnap, write>>
    BY <1>10 DEF LoadChanged
  <2> QED
    BY <2>2, <2>3 DEF shared, DataTyped, SnapshotReady, WritesCited, SnapshotsOpen
<1>11. ASSUME NEW p \in Commands, Supersede(p) PROVE StoreInv'
  <2>1. PICK f : DOMAIN f = known[p] /\ write' = [write EXCEPT ![p] = Override(f, write[p])]
    BY <1>11 DEF Supersede
  <2>2. DOMAIN write'[p] = known[p] \cup DOMAIN write[p]
    BY <2>1 DEF Override
  <2>3. /\ pc[p] = "supersede" /\ pc' = [pc EXCEPT ![p] = "revive"]
        /\ UNCHANGED <<shared, full, cell, registry, content, todo, known, newSnap>>
    BY <1>11 DEF Supersede
  <2> QED
    BY <2>1, <2>2, <2>3 DEF shared, DataTyped, SnapshotReady, WritesCited, SnapshotsOpen
<1>12. ASSUME NEW p \in Commands, FindRevivable(p) PROVE StoreInv'
  <2> DEFINE S == {k \in DOMAIN Seen(p) :
                     /\ \E c \in content[p] : k \in Targets(p, c, First(todo[p]))
                     /\ \A l \in DOMAIN Seen(p) :
                          l[1] = k[1] /\ l[2] = k[2] /\ l[4] = k[4]
                            => Seen(p)[l].id <= Seen(p)[k].id}
  <2>1. known' = [known EXCEPT ![p] = S]
    BY <1>12, Zenon DEF FindRevivable
  <2>2. /\ pc[p] = "revive" /\ pc' = [pc EXCEPT ![p] = "write"]
        /\ UNCHANGED <<shared, full, cell, registry, content, todo, newSnap, write>>
    BY <1>12 DEF FindRevivable
  <2>3. \A k \in S : k[4] \in DOMAIN snap \cup DOMAIN newSnap[p]
    BY <2>2, TargetsInScope DEF SnapshotReady
  <2> HIDE DEF S
  <2> QED
    BY <2>1, <2>2, <2>3 DEF shared, DataTyped, SnapshotReady, WritesCited, SnapshotsOpen
<1>13. ASSUME NEW p \in Commands, WriteRows(p) PROVE StoreInv'
  <2> DEFINE rows == UNION {Targets(p, c, First(todo[p])) : c \in content[p]}
  <2>1. PICK id \in Ids :
          write' = [write EXCEPT ![p] = Override([k \in rows |-> NewRow(p, k, id)], @)]
    BY <1>13 DEF WriteRows
  <2>2. /\ pc[p] = "write" /\ pc' = [pc EXCEPT ![p] = "load"]
        /\ \E T : todo' = [todo EXCEPT ![p] = T]
        /\ known' = [known EXCEPT ![p] = {}]
        /\ UNCHANGED <<shared, full, cell, registry, content, newSnap>>
    BY <1>13 DEF WriteRows
  <2>3. \A k \in rows : k[4] \in DOMAIN snap \cup DOMAIN newSnap[p]
    BY <2>2, TargetsInScope DEF SnapshotReady
  <2> HIDE DEF rows
  <2>4. DOMAIN write'[p] = rows \cup DOMAIN write[p]
    BY <2>1 DEF Override
  <2> QED
    BY <2>1, <2>2, <2>3, <2>4 DEF shared, DataTyped, SnapshotReady, WritesCited, SnapshotsOpen
<1>14. ASSUME NEW p \in Commands, Commit(p) PROVE StoreInv'
  <2>1. /\ data' = View(p) /\ obs' = Seen(p) /\ snap' = Override(newSnap[p], snap)
        /\ pc' = [pc EXCEPT ![p] = "done"] /\ Forget(p) /\ dir' = dir
    BY <1>14 DEF Commit
  <2>2. data' \in Contents
    BY <2>1, ViewIsContent DEF DataTyped
  <2>3. /\ DOMAIN obs' = DOMAIN obs \cup DOMAIN write[p]
        /\ DOMAIN snap' = DOMAIN snap \cup DOMAIN newSnap[p]
    BY <2>1 DEF Seen, Override
  <2>4. SnapshotsOpen'
    BY <2>1, <2>3 DEF SnapshotsOpen, WritesCited, SnapshotReady
  <2> QED
    BY <2>1, <2>2, <2>3, <2>4, ForgetOpens DEF Over, DataTyped
<1>15. CASE Upgrade
  BY <1>15 DEF Upgrade, local, DataTyped, SnapshotReady, WritesCited, SnapshotsOpen
<1>16. CASE UNCHANGED vars
  BY <1>16 DEF vars, shared, local, DataTyped, SnapshotReady, WritesCited, SnapshotsOpen
<1> QED
  BY <1>1, <1>2, <1>3, <1>4, <1>5, <1>6, <1>7, <1>8, <1>9, <1>10, <1>11, <1>12, <1>13, <1>14,
     <1>15, <1>16 DEF Next, Step

-----------------------------------------------------------------------------
\* The inductive invariant of the rows holds of every behaviour of the publishers.
THEOREM PublishInvariant == Spec => []PublishInv
BY InitInv, PublishStep, PTL DEF Spec

\* The inductive invariant of the snapshots holds of every behaviour of the publishers.
THEOREM StoreInvariant == Spec => []StoreInv
BY InitInv, StoreStep, PTL DEF Spec

\* Every stored figure, current or superseded, is the one that its snapshot gives under the
\* registry it records: what `metrics verify` recomputes (publish.py, _revive).
THEOREM FiguresVerify == Spec => []RowsVerify
<1>1. PublishInv => RowsVerify
  BY DEF PublishInv
<1> QED
  BY <1>1, PublishInvariant, PTL

\* Every snapshot that a figure cites is recorded and complete on disk, whoever was killed
\* while exporting it (snapshot.py, export_snapshot: the manifest is written last).
THEOREM SnapshotsStayOpen == Spec => []SnapshotsOpen
<1>1. StoreInv => SnapshotsOpen
  BY DEF StoreInv
<1> QED
  BY <1>1, StoreInvariant, PTL

\* Step 13 of an ingest run neither adds nor changes an adjusted observation.
THEOREM StepThirteenKeepsAdjusted == Spec => AdjustedKept
<1> DEFINE Kept == data' # data =>
      \A k \in DOMAIN obs' : k[2] \in Adjusted => k \in DOMAIN obs /\ obs'[k] = obs[k]
<1>1. PublishInv /\ StoreInv /\ [Next]_vars => [Kept]_vars
  <2> SUFFICES ASSUME PublishInv, StoreInv, [Next]_vars, data' # data PROVE Kept
    OBVIOUS
  <2>1. PICK p \in Commands : Commit(p)
    BY DEF Next, Step, vars, shared, BeginCompute, BeginIngest, Begin, Export, MakeDirectory,
       FillDirectory, Unreadable, ReuseSnapshot, MissSnapshot, InsertSnapshot, SnapshotConflict,
       SkipUnchanged, LoadChanged, Supersede, FindRevivable, WriteRows, RowConflict, Fail, Crash,
       Rollback, Upgrade
  <2>2. data' = View(p) /\ obs' = Seen(p)
    BY <2>1 DEF Commit
  <2>3. cell[p] # Nothing
    BY <2>2, ComputeSeesData DEF StoreInv, DataTyped
  <2>4. \A k \in DOMAIN write[p] : k[2] \notin Adjusted
    BY <2>3 DEF PublishInv, ScopeKept
  <2> QED
    BY <2>2, <2>4 DEF Seen, Override
<1> QED
  BY <1>1, PublishInvariant, StoreInvariant, PTL DEF Spec, AdjustedKept

-----------------------------------------------------------------------------
(* One command at a time: what a command commits is fresh.                 *)

\* Below the bound of one, a command begins only when no other is in flight.
LEMMA NobodyInFlight ==
  ASSUME MaxActive <= 1, NEW p \in Commands, Begin(p)
  PROVE  \A q \in Commands : pc[q] \notin Alive
<1> DEFINE Flying == {q \in Commands : pc[q] \in Alive}
<1>1. IsFiniteSet(Commands)
  BY BoundsAssumption, FS_Interval DEF Commands
<1>2. IsFiniteSet(Flying)
  BY <1>1, FS_Subset
<1>3. Cardinality(Flying) \in Nat /\ Cardinality(Flying) < MaxActive
  BY <1>2, FS_CardinalityType DEF Begin
<1>4. Cardinality(Flying) = 0
  BY <1>3, BoundsAssumption
<1> QED
  BY <1>2, <1>4, FS_EmptySet

\* The command that moves stays the only one in flight.
LEMMA OnlyActor ==
  ASSUME AloneInFlight, NEW p \in Commands,
         pc[p] \in Alive \/ (\A q \in Commands : pc[q] \notin Alive),
         \A q \in Commands \ {p} : pc'[q] = pc[q]
  PROVE  AloneInFlight' /\ \A q \in Commands \ {p} : pc'[q] \notin Alive
BY DEF AloneInFlight

\* Of a command that is not in flight nothing is asked.
LEMMA OverIsSound ==
  ASSUME NEW p \in Commands, pc[p] \notin Alive \/ pc[p] \in {"export", "commit"}
  PROVE  Exported(p) /\ SubjectsDone(p) /\ SubjectInHand(p)
BY DEF Alive, Rewriting, Exported, SubjectsDone, SubjectInHand

\* Primed: who is not in flight after a step is sound after it.
LEMMA OverStaysSound ==
  ASSUME NEW p \in Commands, pc'[p] \notin Alive \/ pc'[p] \in {"export", "commit"}
  PROVE  Exported(p)' /\ SubjectsDone(p)' /\ SubjectInHand(p)'
BY DEF Alive, Rewriting, Exported, SubjectsDone, SubjectInHand

\* A step of the one command in flight keeps the invariant if it keeps the command's part.
LEMMA ActorSound ==
  ASSUME AloneInFlight, NEW p \in Commands,
         pc[p] \in Alive \/ (\A q \in Commands : pc[q] \notin Alive),
         \A q \in Commands \ {p} : pc'[q] = pc[q],
         Exported(p)' /\ SubjectsDone(p)' /\ SubjectInHand(p)'
  PROVE  AloneInv'
<1>1. AloneInFlight' /\ \A q \in Commands \ {p} : pc'[q] \notin Alive
  BY OnlyActor
<1>2. \A q \in Commands \ {p} : Exported(q)' /\ SubjectsDone(q)' /\ SubjectInHand(q)'
  BY <1>1, OverStaysSound
<1> QED
  BY <1>1, <1>2 DEF AloneInv

\* A command that ends, or starts, keeps it.
LEMMA ActorAtRest ==
  ASSUME AloneInFlight, NEW p \in Commands, DOMAIN pc = Commands, NEW o,
         pc[p] \in Alive \/ (\A q \in Commands : pc[q] \notin Alive),
         pc' = [pc EXCEPT ![p] = o], o \notin Alive \/ o \in {"export", "commit"}
  PROVE  AloneInv'
<1>1. pc'[p] = o /\ \A q \in Commands \ {p} : pc'[q] = pc[q]
  OBVIOUS
<1>2. Exported(p)' /\ SubjectsDone(p)' /\ SubjectInHand(p)'
  BY <1>1, OverStaysSound
<1> QED
  BY <1>1, <1>2, ActorSound

\* Nothing that a command draws changes while it only walks on.
LEMMA ViewStands ==
  ASSUME NEW p \in Commands, UNCHANGED <<data, cell, full, registry>>
  PROVE  /\ View(p)' = View(p) /\ Due(p)' = Due(p) /\ Scope(p)' = Scope(p)
         /\ \A s : Drawn(p, s)' = Drawn(p, s)
BY DEF View, Due, Selected, Drawn, Figures, Scope

\* A subject whose current rows are the same rows is published as it was.
LEMMA PublishedStands ==
  ASSUME NEW p \in Commands, NEW s, Published(p, s), Drawn(p, s)' = Drawn(p, s),
         Current(p, s)' = Current(p, s), \A k \in Current(p, s) : Seen(p)'[k] = Seen(p)[k]
  PROVE  Published(p, s)'
BY DEF Published, Holding

\* Where neither table changes every subject keeps its rows.
LEMMA RowsUnchanged ==
  ASSUME NEW p \in Commands, UNCHANGED <<obs, write, full>>, NEW s
  PROVE  Current(p, s)' = Current(p, s) /\ Seen(p)' = Seen(p)
BY DEF Current, Seen, Scope

\* Writing rows of one subject leaves the other subjects' rows alone.
LEMMA OtherSubjects ==
  ASSUME NEW p \in Commands, NEW f, UNCHANGED <<obs, full>>,
         write'[p] = Override(f, write[p]),
         NEW s, \A k \in DOMAIN f : k[1] # s
  PROVE  Current(p, s)' = Current(p, s) /\ \A k \in Current(p, s) : Seen(p)'[k] = Seen(p)[k]
<1>2. \A k : k[1] = s => (k \in DOMAIN Seen(p)' <=> k \in DOMAIN Seen(p))
  BY DEF Seen, Override
<1>3. \A k \in DOMAIN Seen(p) : k[1] = s => Seen(p)'[k] = Seen(p)[k]
  BY DEF Seen, Override
<1>4. Scope(p)' = Scope(p)
  BY DEF Scope
<1> QED
  BY <1>2, <1>3, <1>4 DEF Current

\* What a written table holds.
LEMMA WrittenRows ==
  ASSUME NEW p \in Commands, NEW f, obs' = obs, write'[p] = Override(f, write[p])
  PROVE  /\ DOMAIN Seen(p)' = DOMAIN f \cup DOMAIN Seen(p)
         /\ \A k \in DOMAIN f : Seen(p)'[k] = f[k]
         /\ \A k \in DOMAIN Seen(p) \ DOMAIN f : Seen(p)'[k] = Seen(p)[k]
BY DEF Seen, Override

\* Superseding the current rows of a subject leaves it none.
LEMMA SupersededGone ==
  ASSUME NEW p \in Commands, UNCHANGED <<obs, full>>, NEW s,
         NEW f, DOMAIN f = Current(p, s), \A k \in DOMAIN f : f[k] = Superseded(Seen(p)[k]),
         write'[p] = Override(f, write[p])
  PROVE  Current(p, s)' = {}
<1>1. /\ DOMAIN Seen(p)' = DOMAIN f \cup DOMAIN Seen(p)
      /\ \A k \in DOMAIN f : Seen(p)'[k] = f[k]
      /\ \A k \in DOMAIN Seen(p) \ DOMAIN f : Seen(p)'[k] = Seen(p)[k]
  BY WrittenRows
<1>2. \A k \in Current(p, s) : ~Seen(p)'[k].current
  BY <1>1 DEF Superseded
<1>3. \A k \in DOMAIN Seen(p)' :
        k \in Current(p, s) \/ (k \in DOMAIN Seen(p) /\ Seen(p)'[k] = Seen(p)[k])
  BY <1>1 DEF Current
<1>4. Scope(p)' = Scope(p)
  BY DEF Scope
<1> QED
  BY <1>2, <1>3, <1>4 DEF Current

\* The rows of a subject's drafts: one for each slot drawn, of a slot in scope.
LEMMA DrawnTargets ==
  ASSUME NEW p \in Commands, NEW s
  PROVE  /\ \A k \in Targets(p, View(p), s) :
              k[1] = s /\ k[2] \in DOMAIN Drawn(p, s) /\ k[2] \in Scope(p) /\ k[4] = View(p)
         /\ {k[2] : k \in Targets(p, View(p), s)} = DOMAIN Drawn(p, s)
         /\ \A k, l \in Targets(p, View(p), s) : k[2] = l[2] => k = l
<1>1. ASSUME NEW k \in Targets(p, View(p), s)
      PROVE  k[1] = s /\ k[2] \in DOMAIN Drawn(p, s) /\ k[2] \in Scope(p) /\ k[4] = View(p)
  <2>1. PICK t \in DOMAIN Figures(p, View(p), s) :
          k = <<s, t, Definition[t][registry[p]], View(p)>>
    BY DEF Targets
  <2>2. t \in Scope(p)
    BY DEF Figures
  <2> QED
    BY <2>1, <2>2 DEF Drawn
<1>2. ASSUME NEW t \in DOMAIN Drawn(p, s) PROVE \E k \in Targets(p, View(p), s) : k[2] = t
  <2>1. <<s, t, Definition[t][registry[p]], View(p)>> \in Targets(p, View(p), s)
    BY DEF Targets, Drawn
  <2> QED
    BY <2>1
<1>3. \A k, l \in Targets(p, View(p), s) : k[2] = l[2] => k = l
  BY DEF Targets
<1>4. {k[2] : k \in Targets(p, View(p), s)} = DOMAIN Drawn(p, s)
  BY <1>1, <1>2
<1> QED
  BY <1>1, <1>3, <1>4

\* Writing the rows of a subject's drafts, when it has no current row, publishes it.
LEMMA WrittenPublished ==
  ASSUME NEW p \in Commands, UNCHANGED <<obs, full>>, NEW s,
         Drawn(p, s)' = Drawn(p, s), Current(p, s) = {}, NEW id, NEW f,
         DOMAIN f = Targets(p, View(p), s), \A k \in DOMAIN f : f[k] = NewRow(p, k, id),
         write'[p] = Override(f, write[p])
  PROVE  Published(p, s)'
<1>1. /\ DOMAIN Seen(p)' = DOMAIN f \cup DOMAIN Seen(p)
      /\ \A k \in DOMAIN f : Seen(p)'[k] = f[k]
      /\ \A k \in DOMAIN Seen(p) \ DOMAIN f : Seen(p)'[k] = Seen(p)[k]
  BY WrittenRows
<1>2. ASSUME NEW k \in Targets(p, View(p), s)
      PROVE  /\ k[1] = s /\ k[2] \in DOMAIN Drawn(p, s) /\ k[2] \in Scope(p)
             /\ NewRow(p, k, id).current = TRUE /\ NewRow(p, k, id).value = Drawn(p, s)[k[2]]
  <2>1. k[1] = s /\ k[2] \in DOMAIN Drawn(p, s) /\ k[2] \in Scope(p) /\ k[4] = View(p)
    BY DrawnTargets
  <2> QED
    BY <2>1 DEF NewRow, Drawn
<1>3. {k[2] : k \in Targets(p, View(p), s)} = DOMAIN Drawn(p, s)
  BY DrawnTargets
<1>4. \A k, l \in Targets(p, View(p), s) : k[2] = l[2] => k = l
  BY DrawnTargets
<1>5. Scope(p)' = Scope(p)
  BY DEF Scope
<1>6. Current(p, s)' = Targets(p, View(p), s)
  <2>1. ASSUME NEW k \in Current(p, s)' PROVE k \in Targets(p, View(p), s)
    <3>1. k \in DOMAIN Seen(p)' /\ k[1] = s /\ k[2] \in Scope(p) /\ Seen(p)'[k].current
      BY <1>5, <2>1 DEF Current
    <3>2. ASSUME k \notin DOMAIN f PROVE FALSE
      <4>1. k \in DOMAIN Seen(p) /\ Seen(p)[k].current
        BY <1>1, <3>1, <3>2
      <4> QED
        BY <3>1, <4>1 DEF Current
    <3> QED
      BY <3>2
  <2>2. ASSUME NEW k \in Targets(p, View(p), s) PROVE k \in Current(p, s)'
    <3>1. k \in DOMAIN Seen(p)' /\ Seen(p)'[k] = NewRow(p, k, id)
      BY <1>1
    <3>2. k[1] = s /\ k[2] \in Scope(p)' /\ Seen(p)'[k].current
      BY <1>2, <1>5, <3>1
    <3> QED
      BY <3>1, <3>2 DEF Current
  <2> QED
    BY <2>1, <2>2
<1>7. ASSUME NEW k \in Current(p, s)' PROVE Seen(p)'[k].value = Drawn(p, s)[k[2]]
  <2>1. k \in Targets(p, View(p), s) /\ Seen(p)'[k] = NewRow(p, k, id)
    BY <1>1, <1>6
  <2> QED
    BY <1>2, <2>1
<1>8. {k[2] : k \in Current(p, s)'} = DOMAIN Drawn(p, s)
  BY <1>3, <1>6
<1>9. \A k, l \in Current(p, s)' : k[2] = l[2] => k = l
  BY <1>4, <1>6
<1> QED
  BY <1>7, <1>8, <1>9 DEF Published, Holding

\* A step that goes on to the next statement and reads or writes nothing of the tables.
LEMMA WalksOn ==
  ASSUME AloneInv, NEW p \in Commands,
         pc[p] \in {"mkdir", "fill", "row"}, pc'[p] \in {"fill", "row", "insert"},
         \A q \in Commands \ {p} : pc'[q] = pc[q], UNCHANGED <<data, local>>
  PROVE  AloneInv'
<1>1. pc[p] \in Alive
  BY DEF Alive
<1>2. View(p)' = View(p) /\ content[p] = {View(p)}
  BY ViewStands DEF local, AloneInv, Exported
<1>3. Exported(p)'
  BY <1>2 DEF Exported, local
<1>4. SubjectsDone(p)' /\ SubjectInHand(p)'
  BY <1>1 DEF SubjectsDone, SubjectInHand, Rewriting
<1> QED
  BY <1>1, <1>3, <1>4, ActorSound DEF AloneInv

\* The snapshot's row is there: every subject that has drafts is still to be published.
LEMMA SubjectsStart ==
  ASSUME AloneInv, Places, NEW p \in Commands, pc[p] \in {"row", "insert"}, StartSubjects(p),
         pc' = [pc EXCEPT ![p] = "load"], UNCHANGED <<data, full, cell, registry, content>>
  PROVE  AloneInv'
<1> USE DEF Places
<1>1. pc'[p] = "load" /\ pc[p] \in Alive
  BY DEF Alive
<1>2. View(p)' = View(p) /\ Due(p)' = Due(p) /\ content[p] = {View(p)}
  BY ViewStands DEF AloneInv, Exported
<1>3. todo'[p] = Due(p)
  BY <1>2 DEF StartSubjects, Due, Drawn
<1>4. Exported(p)'
  BY <1>2 DEF Exported
<1>5. SubjectsDone(p)'
  BY <1>2, <1>3 DEF SubjectsDone
<1>6. SubjectInHand(p)'
  BY <1>1 DEF SubjectInHand
<1> QED
  BY <1>1, <1>4, <1>5, <1>6, ActorSound DEF AloneInv

\* A subject whose rows are unchanged is published already.
LEMMA UnchangedPublished ==
  ASSUME NEW p \in Commands, NEW s, Unchanged(p, View(p), s)
  PROVE  Published(p, s)
BY DEF Unchanged, Published, Holding, Drawn

\* Skipping a subject whose rows hold its drafts.
LEMMA SkipSound ==
  ASSUME AloneInv, Places, NEW p \in Commands, SkipUnchanged(p)
  PROVE  AloneInv'
<1> USE DEF Places
<1> DEFINE s0 == First(todo[p])
<1>1. /\ pc[p] = "load" /\ pc[p] \in Alive /\ pc' = pc /\ UNCHANGED <<data, full, cell, registry>>
      /\ UNCHANGED <<content, obs, write>> /\ todo'[p] = todo[p] \ {s0}
  BY DEF SkipUnchanged, shared, Alive
<1>2. \A q \in Commands \ {p} : pc'[q] = pc[q]
  BY <1>1
<1>3. /\ View(p)' = View(p) /\ Due(p)' = Due(p) /\ content[p] = {View(p)}
      /\ \A s : Drawn(p, s)' = Drawn(p, s)
  BY <1>1, ViewStands DEF AloneInv, Exported
<1>4. Published(p, s0)
  BY <1>3, UnchangedPublished DEF SkipUnchanged
<1>5. Exported(p)'
  BY <1>1, <1>3 DEF Exported
<1>6. SubjectsDone(p)'
  <2>1. ASSUME NEW s \in Due(p)' \ todo'[p] PROVE Published(p, s)'
    <3>1. Published(p, s)
      BY <1>1, <1>3, <1>4, <2>1 DEF AloneInv, SubjectsDone
    <3>2. Current(p, s)' = Current(p, s) /\ Seen(p)' = Seen(p)
      BY <1>1, RowsUnchanged
    <3> QED
      BY <1>3, <3>1, <3>2, PublishedStands
  <2> QED
    BY <2>1 DEF SubjectsDone
<1>7. SubjectInHand(p)'
  BY <1>1 DEF SubjectInHand
<1> QED
  BY <1>1, <1>2, <1>5, <1>6, <1>7, ActorSound DEF AloneInv

\* Reading the rows of a subject that changed, or the rows to revive.
LEMMA ReadSound ==
  ASSUME AloneInv, Places, NEW p \in Commands, LoadChanged(p) \/ FindRevivable(p)
  PROVE  AloneInv'
<1> USE DEF Places
<1> DEFINE o == IF pc[p] = "load" THEN "supersede" ELSE "write"
<1>1. /\ pc[p] \in {"load", "revive"} /\ pc[p] \in Alive /\ pc' = [pc EXCEPT ![p] = o]
      /\ UNCHANGED <<data, full, cell, registry>> /\ UNCHANGED <<content, todo, obs, write>>
  BY DEF LoadChanged, FindRevivable, shared, Alive
<1>2. /\ View(p)' = View(p) /\ Due(p)' = Due(p) /\ content[p] = {View(p)}
      /\ \A s : Drawn(p, s)' = Drawn(p, s)
  BY <1>1, ViewStands DEF AloneInv, Exported, Rewriting
<1>3. \A s : Current(p, s)' = Current(p, s) /\ Seen(p)' = Seen(p)
  BY <1>1, RowsUnchanged
<1>4. Exported(p)'
  BY <1>1, <1>2 DEF Exported
<1>5. SubjectsDone(p)'
  <2>1. ASSUME NEW s \in Due(p)' \ todo'[p], s # First(todo'[p]) PROVE Published(p, s)'
    <3>1. Published(p, s)
      BY <1>1, <1>2, <2>1 DEF AloneInv, SubjectsDone, Rewriting
    <3> QED
      BY <1>2, <1>3, <3>1, PublishedStands
  <2> QED
    BY <1>1, <2>1 DEF SubjectsDone
<1>6. SubjectInHand(p)'
  <2>1. CASE pc[p] = "load"
    <3>1. pc'[p] = "supersede" /\ known'[p] = Current(p, First(todo[p]))
      BY <1>1, <2>1 DEF LoadChanged, FindRevivable
    <3> QED
      BY <1>1, <1>3, <3>1 DEF SubjectInHand
  <2>2. CASE pc[p] = "revive"
    <3>1. pc'[p] = "write" /\ Current(p, First(todo[p])) = {}
      BY <1>1, <2>2 DEF AloneInv, SubjectInHand
    <3> QED
      BY <1>1, <1>3, <3>1 DEF SubjectInHand
  <2> QED
    BY <1>1, <2>1, <2>2
<1> QED
  BY <1>1, <1>4, <1>5, <1>6, ActorSound DEF AloneInv

\* Superseding the rows it read leaves the subject no current row, and the others theirs.
LEMMA SupersedeSound ==
  ASSUME AloneInv, Places, NEW p \in Commands, Supersede(p)
  PROVE  AloneInv'
<1> USE DEF Places
<1> DEFINE s0 == First(todo[p])
           f == [k \in Current(p, s0) |-> Superseded(Seen(p)[k])]
<1>1. /\ pc[p] = "supersede" /\ pc[p] \in Alive /\ pc' = [pc EXCEPT ![p] = "revive"]
      /\ UNCHANGED <<data, full, cell, registry>> /\ UNCHANGED <<content, todo, obs>>
      /\ known[p] = Current(p, s0)
  BY DEF Supersede, shared, Alive, AloneInv, SubjectInHand
<1>2. write'[p] = Override(f, write[p])
  BY <1>1 DEF Supersede
<1>3. /\ View(p)' = View(p) /\ Due(p)' = Due(p) /\ content[p] = {View(p)}
      /\ \A s : Drawn(p, s)' = Drawn(p, s)
  BY <1>1, ViewStands DEF AloneInv, Exported, Rewriting
<1>4. Exported(p)'
  BY <1>1, <1>3 DEF Exported
<1>5. SubjectsDone(p)'
  <2>1. ASSUME NEW s \in Due(p)' \ todo'[p], s # First(todo'[p]) PROVE Published(p, s)'
    <3>1. Published(p, s)
      BY <1>1, <1>3, <2>1 DEF AloneInv, SubjectsDone, Rewriting
    <3>2. \A k \in DOMAIN f : k[1] # s
      BY <1>1, <2>1 DEF Current
    <3>3. Current(p, s)' = Current(p, s) /\ \A k \in Current(p, s) : Seen(p)'[k] = Seen(p)[k]
      <4> HIDE DEF f
      <4> QED
        BY <1>1, <1>2, <3>2, OtherSubjects
    <3> QED
      BY <1>3, <3>1, <3>3, PublishedStands
  <2> QED
    BY <1>1, <2>1 DEF SubjectsDone
<1>6. Current(p, s0)' = {}
  <2>1. DOMAIN f = Current(p, s0) /\ \A k \in DOMAIN f : f[k] = Superseded(Seen(p)[k])
    OBVIOUS
  <2> HIDE DEF f
  <2>2. \A s : s = s0 => Current(p, s)' = {}
    BY <1>1, <1>2, <2>1, SupersededGone
  <2> QED
    BY <1>1, <2>2
<1>7. SubjectInHand(p)'
  BY <1>1, <1>6 DEF SubjectInHand
<1> QED
  BY <1>1, <1>4, <1>5, <1>7, ActorSound DEF AloneInv

\* Writing its drafts' rows publishes the subject, and leaves the others their rows.
LEMMA WriteSound ==
  ASSUME AloneInv, Places, NEW p \in Commands, WriteRows(p)
  PROVE  AloneInv'
<1> USE DEF Places
<1> DEFINE s0 == First(todo[p])
<1>1. /\ pc[p] = "write" /\ pc[p] \in Alive /\ pc' = [pc EXCEPT ![p] = "load"]
      /\ UNCHANGED <<data, full, cell, registry>> /\ UNCHANGED <<content, obs>>
      /\ todo'[p] = todo[p] \ {s0}
  BY DEF WriteRows, shared, Alive
<1>2. /\ View(p)' = View(p) /\ Due(p)' = Due(p) /\ content[p] = {View(p)}
      /\ \A s : Drawn(p, s)' = Drawn(p, s)
  BY <1>1, ViewStands DEF AloneInv, Exported, Rewriting
<1>3. UNION {Targets(p, c, s0) : c \in content[p]} = Targets(p, View(p), s0)
  BY <1>2
<1>4. PICK id \in Ids :
        write'[p] = Override([k \in Targets(p, View(p), s0) |-> NewRow(p, k, id)], write[p])
  BY <1>3 DEF WriteRows
<1> DEFINE f == [k \in Targets(p, View(p), s0) |-> NewRow(p, k, id)]
<1>5. /\ write'[p] = Override(f, write[p])
      /\ DOMAIN f = Targets(p, View(p), s0) /\ \A k \in DOMAIN f : f[k] = NewRow(p, k, id)
  BY <1>4
<1> HIDE DEF f
<1>6. \A s : s = s0 => Published(p, s)'
  <2>1. Current(p, s0) = {}
    BY <1>1 DEF AloneInv, SubjectInHand
  <2> QED
    BY <1>1, <1>2, <1>5, <2>1, WrittenPublished
<1>7. Exported(p)'
  BY <1>1, <1>2 DEF Exported
<1>8. SubjectsDone(p)'
  <2>1. ASSUME NEW s \in Due(p)' \ todo'[p], s # s0 PROVE Published(p, s)'
    <3>1. Published(p, s)
      BY <1>1, <1>2, <2>1 DEF AloneInv, SubjectsDone, Rewriting
    <3>2. \A k \in DOMAIN f : k[1] # s
      BY <1>5, <2>1, DrawnTargets
    <3>3. Current(p, s)' = Current(p, s) /\ \A k \in Current(p, s) : Seen(p)'[k] = Seen(p)[k]
      BY <1>1, <1>5, <3>2, OtherSubjects
    <3> QED
      BY <1>2, <3>1, <3>3, PublishedStands
  <2>2. \A s \in Due(p)' \ todo'[p] : Published(p, s)'
    BY <1>6, <2>1
  <2> QED
    BY <2>2 DEF SubjectsDone
<1>9. SubjectInHand(p)'
  BY <1>1 DEF SubjectInHand
<1> QED
  BY <1>1, <1>7, <1>8, <1>9, ActorSound DEF AloneInv

\* Where no command moves, and no table, every part stands.
LEMMA NobodyMoves ==
  ASSUME AloneInv,
         UNCHANGED <<data, obs, pc, full, cell, registry, content, todo, known, write>>
  PROVE  AloneInv'
<1>1. ASSUME NEW p \in Commands PROVE Exported(p)' /\ SubjectsDone(p)' /\ SubjectInHand(p)'
  <2>1. /\ View(p)' = View(p) /\ Due(p)' = Due(p) /\ \A s : Drawn(p, s)' = Drawn(p, s)
        /\ \A s : Current(p, s)' = Current(p, s) /\ Seen(p)' = Seen(p)
    BY ViewStands, RowsUnchanged
  <2>2. Exported(p)'
    BY <2>1 DEF AloneInv, Exported
  <2>3. SubjectsDone(p)'
    <3>1. ASSUME NEW s \in Due(p)' \ todo'[p],
                 pc'[p] = "load" \/ (pc'[p] \in Rewriting /\ s # First(todo'[p]))
          PROVE  Published(p, s)'
      <4>1. Published(p, s)
        BY <2>1, <3>1 DEF AloneInv, SubjectsDone
      <4> QED
        BY <2>1, <4>1, PublishedStands
    <3> QED
      BY <3>1 DEF SubjectsDone
  <2>4. SubjectInHand(p)'
    BY <2>1 DEF AloneInv, SubjectInHand
  <2> QED
    BY <2>2, <2>3, <2>4
<1>2. AloneInFlight'
  BY DEF AloneInv, AloneInFlight
<1> QED
  BY <1>1, <1>2 DEF AloneInv

\* The command in flight: one step per action.
LEMMA AloneStep ==
  MaxActive <= 1 /\ PublishInv /\ AloneInv /\ [Next]_vars => AloneInv'
<1> SUFFICES ASSUME MaxActive <= 1, PublishInv, AloneInv, [Next]_vars PROVE AloneInv'
  OBVIOUS
<1>p. Places /\ AloneInFlight
  BY DEF PublishInv, AloneInv
<1>d. DOMAIN pc = Commands
  BY <1>p DEF Places
<1>1. ASSUME NEW p \in Commands, BeginCompute(p) \/ BeginIngest(p) PROVE AloneInv'
  <2>1. PICK o \in {"export", "commit"} : pc' = [pc EXCEPT ![p] = o]
    BY <1>1 DEF BeginCompute, BeginIngest
  <2>2. \A q \in Commands : pc[q] \notin Alive
    BY <1>1, NobodyInFlight DEF BeginCompute, BeginIngest
  <2> QED
    BY <1>p, <1>d, <2>1, <2>2, ActorAtRest
<1>2. ASSUME NEW p \in Commands, NEW o \in Over, pc[p] \in Alive, pc' = [pc EXCEPT ![p] = o]
      PROVE  AloneInv'
  <2>1. o \notin Alive
    BY DEF Over, Alive
  <2> QED
    BY <1>p, <1>d, <1>2, <2>1, ActorAtRest
<1>3. ASSUME NEW p \in Commands,
             \/ Unreadable(p) \/ SnapshotConflict(p) \/ RowConflict(p) \/ Fail(p) \/ Crash(p)
             \/ Commit(p)
      PROVE  AloneInv'
  <2>1. pc[p] \in Alive /\ \E o \in Over : pc' = [pc EXCEPT ![p] = o]
    BY <1>3 DEF Unreadable, SnapshotConflict, RowConflict, Fail, Crash, Commit, Rollback, Over,
       Alive
  <2> QED
    BY <1>2, <2>1
<1>4. ASSUME NEW p \in Commands, Export(p) PROVE AloneInv'
  <2>1. /\ pc[p] \in Alive /\ pc'[p] \in {"mkdir", "row"}
        /\ \A q \in Commands \ {p} : pc'[q] = pc[q]
        /\ content'[p] = {View(p)} /\ UNCHANGED <<data, full, cell, registry>>
    BY <1>p, <1>4 DEF Export, shared, Places, Alive
  <2>2. Exported(p)' /\ SubjectsDone(p)' /\ SubjectInHand(p)'
    <3>1. View(p)' = View(p)
      BY <2>1, ViewStands
    <3> QED
      BY <2>1, <3>1 DEF Exported, SubjectsDone, SubjectInHand, Rewriting
  <2> QED
    BY <1>p, <2>1, <2>2, ActorSound
<1>5. ASSUME NEW p \in Commands, MakeDirectory(p) \/ FillDirectory(p) \/ MissSnapshot(p)
      PROVE  AloneInv'
  <2>1. /\ pc[p] \in {"mkdir", "fill", "row"} /\ UNCHANGED <<data, local>>
        /\ pc'[p] \in {"fill", "row", "insert"} /\ \A q \in Commands \ {p} : pc'[q] = pc[q]
    BY <1>d, <1>5 DEF MakeDirectory, FillDirectory, MissSnapshot, shared
  <2> QED
    BY <2>1, WalksOn
<1>6. ASSUME NEW p \in Commands, ReuseSnapshot(p) \/ InsertSnapshot(p) PROVE AloneInv'
  <2>1. /\ pc[p] \in {"row", "insert"} /\ StartSubjects(p) /\ pc' = [pc EXCEPT ![p] = "load"]
        /\ UNCHANGED <<data, full, cell, registry, content>>
    BY <1>6 DEF ReuseSnapshot, InsertSnapshot, shared
  <2> QED
    BY <1>p, <2>1, SubjectsStart
<1>7. ASSUME NEW p \in Commands, Step(p) PROVE AloneInv'
  BY <1>p, <1>3, <1>4, <1>5, <1>6, <1>7, SkipSound, ReadSound, SupersedeSound, WriteSound DEF Step
<1>8. ASSUME Upgrade PROVE AloneInv'
  <2>1. UNCHANGED <<data, obs, pc, full, cell, registry, content, todo, known, write>>
    BY <1>8 DEF Upgrade, local
  <2> QED
    BY <2>1, NobodyMoves
<1>9. ASSUME UNCHANGED vars PROVE AloneInv'
  <2>1. UNCHANGED <<data, obs, pc, full, cell, registry, content, todo, known, write>>
    BY <1>9 DEF vars, shared, local
  <2> QED
    BY <2>1, NobodyMoves
<1> QED
  BY <1>1, <1>3, <1>7, <1>8, <1>9 DEF Next

\* At first nobody is in flight.
LEMMA AloneInit == Init => AloneInv
<1> SUFFICES ASSUME Init PROVE AloneInv
  OBVIOUS
<1>1. \A p \in Commands : pc[p] \notin Alive
  BY DEF Init, Alive
<1> QED
  BY <1>1, OverIsSound DEF AloneInv, AloneInFlight

\* The inductive invariant of one publisher at a time.
THEOREM AloneInvariant ==
  ASSUME MaxActive <= 1
  PROVE  Spec => []AloneInv
<1>1. PublishInv /\ AloneInv /\ [Next]_vars => AloneInv'
  BY AloneStep
<1> QED
  BY <1>1, AloneInit, PublishInvariant, PTL DEF Spec

\* A command that was publishing and is done has committed.
LEMMA OnlyCommitEnds ==
  ASSUME Places, [Next]_vars, NEW p \in Commands, pc[p] = "load", pc'[p] = "done"
  PROVE  Commit(p)
<1>1. ASSUME NEW q \in Commands, NEW o, pc' = [pc EXCEPT ![q] = o], o # "done" PROVE FALSE
  BY <1>1 DEF Places
<1>2. ASSUME NEW q \in Commands, Commit(q) PROVE Commit(p)
  BY <1>2 DEF Commit, Places
<1>3. ASSUME pc' = pc PROVE FALSE
  BY <1>3
<1>4. ASSUME NEW q \in Commands, BeginCompute(q) \/ BeginIngest(q) \/ Fail(q) \/ Crash(q)
      PROVE  FALSE
  BY <1>1, <1>4 DEF BeginCompute, BeginIngest, Fail, Crash, Rollback
<1>5. ASSUME NEW q \in Commands,
             \/ Export(q) \/ MakeDirectory(q) \/ FillDirectory(q) \/ Unreadable(q)
             \/ ReuseSnapshot(q) \/ MissSnapshot(q) \/ InsertSnapshot(q) \/ SnapshotConflict(q)
      PROVE  FALSE
  <2>1. \E o : pc' = [pc EXCEPT ![q] = o] /\ o # "done"
    BY <1>5 DEF Export, MakeDirectory, FillDirectory, Unreadable, ReuseSnapshot, MissSnapshot,
       InsertSnapshot, SnapshotConflict, Rollback
  <2> QED
    BY <1>1, <2>1
<1>6. ASSUME NEW q \in Commands,
             \/ SkipUnchanged(q) \/ LoadChanged(q) \/ Supersede(q) \/ FindRevivable(q)
             \/ WriteRows(q) \/ RowConflict(q)
      PROVE  FALSE
  BY <1>1, <1>3, <1>6 DEF SkipUnchanged, LoadChanged, Supersede, FindRevivable, WriteRows,
     RowConflict, Rollback
<1>7. ASSUME Upgrade \/ UNCHANGED vars PROVE FALSE
  BY <1>3, <1>7 DEF Upgrade, vars
<1> QED
  BY <1>2, <1>4, <1>5, <1>6, <1>7 DEF Next, Step

\* When one command runs after the other, however many there are and whatever fails, what a
\* command commits is fresh: each subject and kind it published has for current rows exactly
\* its drafts of the committed data, one row for each slot (publish.py, _publish_subject:
\* compare, supersede, revive or insert).
THEOREM CommittedFiguresFresh ==
  ASSUME MaxActive <= 1
  PROVE  Spec => FiguresFresh
<1> DEFINE Fresh(p) ==
      pc[p] = "load" /\ pc'[p] = "done" =>
        \A s \in Selected(p) :
          DOMAIN Figures(p, data', s) # {} =>
            Holding(obs', {k \in DOMAIN obs' : obs'[k].current /\ k[1] = s /\ k[2] \in Scope(p)},
                    Figures(p, data', s))
<1>1. PublishInv /\ AloneInv /\ [Next]_vars => \A p \in Commands : Fresh(p)
  <2> SUFFICES ASSUME PublishInv, AloneInv, [Next]_vars, NEW p \in Commands,
                      pc[p] = "load", pc'[p] = "done"
               PROVE  Fresh(p)
    OBVIOUS
  <2>1. Commit(p)
    BY OnlyCommitEnds DEF PublishInv
  <2>2. data' = View(p) /\ obs' = Seen(p) /\ todo[p] = {}
    BY <2>1 DEF Commit
  <2>3. \A s : Figures(p, data', s) = Drawn(p, s)
    BY <2>2 DEF Drawn
  <2>4. \A s : {k \in DOMAIN obs' : obs'[k].current /\ k[1] = s /\ k[2] \in Scope(p)}
                = Current(p, s)
    BY <2>2 DEF Current
  <2>5. ASSUME NEW s \in Selected(p), DOMAIN Drawn(p, s) # {} PROVE Published(p, s)
    BY <2>2, <2>5 DEF AloneInv, SubjectsDone, Due
  <2> QED
    BY <2>2, <2>3, <2>4, <2>5 DEF Published
<1>2. PublishInv /\ AloneInv /\ [Next]_vars => [\A p \in Commands : Fresh(p)]_vars
  BY <1>1
<1> QED
  BY <1>2, PublishInvariant, AloneInvariant, PTL DEF Spec, FiguresFresh

=============================================================================
