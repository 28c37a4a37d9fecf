-------------------------- MODULE IngestRunProofs --------------------------
(***************************************************************************)
(* Proofs about IngestRun: whatever runs interleave, fail or are killed,   *)
(* whatever the source serves and the parser becomes, every record has its *)
(* object in the lake and its run succeeded; and a recorded artifact has   *)
(* been published, so that not parsing it again loses nothing.             *)
(***************************************************************************)
EXTENDS IngestRun, TLAPS

\* The initial state satisfies both inductive invariants.
LEMMA InitInv == Init => RunInv /\ PublishInv
BY DEF Init, Nothing, RunInv, PublishInv, Places, LakeBacksRecords, StoredFirst,
       RecordsOfSucceededRuns, SucceededIsOver, ParsedBeforeCommit, RecordedMeansPublished,
       FactsOf, Parsed, Runs

\* Records, objects and outcomes: no step of any run or of the world breaks their order.
LEMMA RunStep == RunInv /\ [Next]_vars => RunInv'
<1> SUFFICES ASSUME RunInv, [Next]_vars PROVE RunInv'
  OBVIOUS
<1> USE DEF RunInv, Places, LakeBacksRecords, StoredFirst, RecordsOfSucceededRuns,
            SucceededIsOver
<1>1. ASSUME NEW r \in Runs, Start(r) PROVE RunInv'
  BY <1>1 DEF Start, bounds
<1>2. ASSUME NEW r \in Runs, Refuse(r) PROVE RunInv'
  BY <1>2 DEF Refuse, Forget, Nothing, bounds
<1>3. ASSUME NEW r \in Runs, Execute(r) PROVE RunInv'
  BY <1>3 DEF Execute, shared, local, bounds
<1>4. ASSUME NEW r \in Runs, Look(r) PROVE RunInv'
  BY <1>4 DEF Look, shared, bounds
<1>5. ASSUME NEW r \in Runs, NotModified(r) PROVE RunInv'
  BY <1>5 DEF NotModified, shared, bounds
<1>6. ASSUME NEW r \in Runs, FetchKnown(r) PROVE RunInv'
  BY <1>6 DEF FetchKnown, bounds
<1>7. ASSUME NEW r \in Runs, FetchNew(r) PROVE RunInv'
  BY <1>7 DEF FetchNew, shared, bounds
<1>8. ASSUME NEW r \in Runs, Put(r) PROVE RunInv'
  BY <1>8 DEF Put, local, bounds
<1>9. ASSUME NEW r \in Runs, Insert(r) PROVE RunInv'
  BY <1>9 DEF Insert, Advance, Override, shared, bounds
<1>10. ASSUME NEW r \in Runs, Reuse(r) PROVE RunInv'
  BY <1>10 DEF Reuse, Advance, shared, bounds
<1>11. ASSUME NEW r \in Runs, Publish(r) PROVE RunInv'
  BY <1>11 DEF Publish, shared, bounds
<1>12. ASSUME NEW r \in Runs, Finish(r) PROVE RunInv'
  BY <1>12 DEF Finish, Forget, Nothing, Recorded, bounds
<1>13. ASSUME NEW r \in Runs, Fail(r) \/ Conflict(r) PROVE RunInv'
  BY <1>13 DEF Fail, Conflict, Forget, Nothing, InTransaction, Retrieving, shared, bounds
<1>14. ASSUME NEW r \in Runs, RecordFailure(r) PROVE RunInv'
  BY <1>14 DEF RecordFailure, local, bounds
<1>15. ASSUME NEW r \in Runs, Crash(r) PROVE RunInv'
  BY <1>15 DEF Crash, Forget, Nothing, Alive, InTransaction, Retrieving, shared
<1>16. ASSUME NEW a \in Artifacts, ChangeExport(a) PROVE RunInv'
  BY <1>16 DEF ChangeExport, local
<1>17. CASE Upgrade
  BY <1>17 DEF Upgrade, local
<1>18. CASE Retire
  BY <1>18 DEF Retire, local
<1>19. CASE UNCHANGED vars
  BY <1>19 DEF vars, shared, local, bounds
<1> QED
  BY <1>1, <1>2, <1>3, <1>4, <1>5, <1>6, <1>7, <1>8, <1>9, <1>10, <1>11, <1>12, <1>13,
     <1>14, <1>15, <1>16, <1>17, <1>18, <1>19 DEF Next, Step, Retrieve

\* The run's inductive invariant holds in every reachable state.
THEOREM RunInvariant == Spec => []RunInv
<1>1. Init => RunInv
  BY InitInv
<1>2. RunInv /\ [Next]_vars => RunInv'
  BY RunStep
<1> QED
  BY <1>1, <1>2, PTL DEF Spec

\* Every record, committed or flushed, has its bytes in the lake, whatever failed or was
\* killed between the put and the commit (runner.py:943-956), and no record outlives a run
\* that did not succeed: rollback first, FAILED after (runner.py:356-361).
THEOREM RecordsKept == Spec => []RecordsStand
<1>1. RunInv => RecordsStand
  BY DEF RunInv, RecordsStand
<1> QED
  BY <1>1, RunInvariant, PTL

\* Publication: no step of a run separates a record from the rows its bytes give, and a
\* retirement takes both.
LEMMA PublishStep ==
  ASSUME Foreign = {}, PublishInv, [Next]_vars
  PROVE  PublishInv'
<1> USE DEF PublishInv, Places, ParsedBeforeCommit, RecordedMeansPublished, FactsOf, Parsed
<1>1. ASSUME NEW r \in Runs, Start(r) PROVE PublishInv'
  BY <1>1 DEF Start, bounds
<1>2. ASSUME NEW r \in Runs, Refuse(r) PROVE PublishInv'
  BY <1>2 DEF Refuse, Forget, Nothing, bounds
<1>3. ASSUME NEW r \in Runs, Execute(r) PROVE PublishInv'
  BY <1>3 DEF Execute, shared, local, bounds
<1>4. ASSUME NEW r \in Runs, Look(r) PROVE PublishInv'
  BY <1>4 DEF Look, shared, bounds
<1>5. ASSUME NEW r \in Runs, NotModified(r) PROVE PublishInv'
  BY <1>5 DEF NotModified, shared, bounds
<1>6. ASSUME NEW r \in Runs, FetchKnown(r) PROVE PublishInv'
  BY <1>6 DEF FetchKnown, bounds
<1>7. ASSUME NEW r \in Runs, FetchNew(r) PROVE PublishInv'
  BY <1>7 DEF FetchNew, shared, bounds
<1>8. ASSUME NEW r \in Runs, Put(r) PROVE PublishInv'
  BY <1>8 DEF Put, local, bounds
<1>9. ASSUME NEW r \in Runs, Insert(r) PROVE PublishInv'
  BY <1>9 DEF Insert, Advance, Override, shared, bounds
<1>10. ASSUME NEW r \in Runs, Reuse(r) PROVE PublishInv'
  BY <1>10 DEF Reuse, Advance, shared, bounds
<1>11. ASSUME NEW r \in Runs, Publish(r) PROVE PublishInv'
  BY <1>11 DEF Publish, shared, bounds
<1>12. ASSUME NEW r \in Runs, Finish(r) PROVE PublishInv'
  BY <1>12 DEF Finish, Forget, Nothing, Recorded, Override, bounds
<1>13. ASSUME NEW r \in Runs, Fail(r) \/ Conflict(r) PROVE PublishInv'
  BY <1>13 DEF Fail, Conflict, Forget, Nothing, shared, bounds
<1>14. ASSUME NEW r \in Runs, RecordFailure(r) PROVE PublishInv'
  BY <1>14 DEF RecordFailure, local, bounds
<1>15. ASSUME NEW r \in Runs, Crash(r) PROVE PublishInv'
  BY <1>15 DEF Crash, Forget, Nothing, shared
<1>16. ASSUME NEW a \in Artifacts, ChangeExport(a) PROVE PublishInv'
  BY <1>16 DEF ChangeExport, local
<1>17. CASE Upgrade
  BY <1>17 DEF Upgrade, local
<1>18. CASE Retire
  BY <1>18 DEF Retire, Locked, local
<1>19. CASE UNCHANGED vars
  BY <1>19 DEF vars, shared, local, bounds
<1> QED
  BY <1>1, <1>2, <1>3, <1>4, <1>5, <1>6, <1>7, <1>8, <1>9, <1>10, <1>11, <1>12, <1>13,
     <1>14, <1>15, <1>16, <1>17, <1>18, <1>19 DEF Next, Step, Retrieve

\* What justifies skipping a recorded artifact (docs/ARCHITECTURE.md, idempotency rule 1):
\* its rows are published, for every interleaving of runs and retirements, as long as no
\* other source's row cites one of them.
THEOREM SkipsLoseNothing ==
  ASSUME Foreign = {}
  PROVE  Spec => []RecordedMeansPublished
<1>1. Init => PublishInv
  BY InitInv
<1>2. PublishInv /\ [Next]_vars => PublishInv'
  BY PublishStep
<1>3. PublishInv => RecordedMeansPublished
  BY DEF PublishInv
<1> QED
  BY <1>1, <1>2, <1>3, PTL DEF Spec

-----------------------------------------------------------------------------
\* Every table keeps a place for each run, and a run only records or raises what it parses.
LEMMA ShapeStep ==
  ASSUME Shape, OneKeyEach, [Next]_vars
  PROVE  Shape'
<1> USE BoundsAssumption, InputsAssumption DEF Shape, Places, Versions
<1>1. ASSUME NEW r \in Runs, Start(r) PROVE Shape'
  BY <1>1 DEF Start, bounds
<1>2. ASSUME NEW r \in Runs, Refuse(r) PROVE Shape'
  BY <1>2 DEF Refuse, Forget, Nothing, bounds
<1>3. ASSUME NEW r \in Runs, Execute(r) PROVE Shape'
  BY <1>3 DEF Execute, shared, local, bounds
<1>4. ASSUME NEW r \in Runs, Look(r) PROVE Shape'
  BY <1>4 DEF Look, Latest, shared, bounds
<1>5. ASSUME NEW r \in Runs, NotModified(r) PROVE Shape'
  BY <1>5 DEF NotModified, shared, bounds
<1>6. ASSUME NEW r \in Runs, FetchKnown(r) PROVE Shape'
  BY <1>6 DEF FetchKnown, Override, bounds
<1>7. ASSUME NEW r \in Runs, FetchNew(r) PROVE Shape'
  BY <1>7 DEF FetchNew, shared, bounds
<1>8. ASSUME NEW r \in Runs, Put(r) PROVE Shape'
  BY <1>8 DEF Put, local, bounds
<1>9. ASSUME NEW r \in Runs, Insert(r) PROVE Shape'
  BY <1>9 DEF Insert, Advance, Override, shared, bounds
<1>10. ASSUME NEW r \in Runs, Reuse(r) PROVE Shape'
  BY <1>10 DEF Reuse, Advance, shared, bounds
<1>11. ASSUME NEW r \in Runs, Publish(r) PROVE Shape'
  BY <1>11 DEF Publish, shared, bounds
<1>12. ASSUME NEW r \in Runs, Finish(r) PROVE Shape'
  BY <1>12 DEF Finish, Forget, Nothing, Recorded, bounds
<1>13. ASSUME NEW r \in Runs, Fail(r) \/ Conflict(r) PROVE Shape'
  <2>1. Forget(r) /\ UNCHANGED shared /\ pc' = [pc EXCEPT ![r] = "failing"]
    BY <1>13 DEF Fail, Conflict
  <2> QED
    BY <2>1 DEF Forget, Nothing, shared
<1>14. ASSUME NEW r \in Runs, RecordFailure(r) PROVE Shape'
  BY <1>14 DEF RecordFailure, local, bounds
<1>15. ASSUME NEW r \in Runs, Crash(r) PROVE Shape'
  BY <1>15 DEF Crash, Forget, Nothing, shared
<1>16. ASSUME NEW a \in Artifacts, ChangeExport(a) PROVE Shape'
  BY <1>16 DEF ChangeExport, local
<1>17. ASSUME Upgrade PROVE Shape'
  BY <1>17 DEF Upgrade, local
<1>18. ASSUME Retire PROVE Shape'
  BY <1>18 DEF Retire, local
<1>19. ASSUME UNCHANGED vars PROVE Shape'
  BY <1>19 DEF vars, shared, local, bounds
<1> QED
  BY <1>1, <1>2, <1>3, <1>4, <1>5, <1>6, <1>7, <1>8, <1>9, <1>10, <1>11, <1>12, <1>13, <1>14, <1>15, <1>16, <1>17, <1>18, <1>19 DEF Next, Step, Retrieve

\* A fetch finds the one key its artifact has at that moment.
LEMMA Found ==
  ASSUME Shape, OneKeyEach, NEW r \in Runs, pc[r] = "fetch",
         fetched' = [fetched EXCEPT ![r] = {<<at[r], export[at[r]]>>}],
         \/ pc' = [pc EXCEPT ![r] = "put"] /\ UNCHANGED loaded
         \/ /\ pc' = [pc EXCEPT ![r] = "reuse"]
            /\ <<at[r], export[at[r]]>> \in DOMAIN loaded'[r]
            /\ \A q \in Runs \ {r} : loaded'[q] = loaded[q],
         UNCHANGED <<at, got>>
  PROVE  OneKeyEach'
<1> USE DEF Shape, Places, OneKeyEach
<1>1. at[r] \in Artifacts /\ <<at[r], export[at[r]]>> \in Keys
  BY DEF Keys
<1>2. ASSUME NEW q \in Runs, q # r
      PROVE  /\ UNCHANGED <<fetched[q], pc[q], loaded[q], at[q], got[q]>>
  BY <1>2
<1>3. /\ fetched'[r] = {<<at[r], export[at[r]]>>}
      /\ pc'[r] = "reuse" => fetched'[r] \subseteq DOMAIN loaded'[r]
      /\ pc'[r] \in {"put", "reuse"}
  OBVIOUS
<1> QED
  BY <1>1, <1>2, <1>3

\* Advancing to the next artifact takes the key of this one with it.
LEMMA Taken ==
  ASSUME Shape, OneKeyEach, NEW r \in Runs, Advance(r), pc[r] \in {"insert", "reuse"},
         UNCHANGED export
  PROVE  OneKeyEach'
<1> USE BoundsAssumption DEF Shape, Places, OneKeyEach
<1>1. /\ at' = [at EXCEPT ![r] = at[r] + 1]
      /\ got' = [got EXCEPT ![r] = got[r] \cup fetched[r]]
      /\ fetched' = [fetched EXCEPT ![r] = {}]
      /\ pc' = [pc EXCEPT ![r] = IF at[r] = NArtifacts THEN "publish" ELSE "look"]
      /\ loaded' = [loaded EXCEPT ![r] = Nothing]
  BY DEF Advance
<1>2. at[r] \in 1 .. NArtifacts
  BY DEF Artifacts
<1>3. \A k \in got[r] \cup fetched[r] : k \in Keys /\ k[1] \in Nat /\ k[1] < at[r] + 1
  <2>1. \A k \in Keys : k[1] \in Nat
    BY DEF Keys, Artifacts
  <2> QED
    BY <1>2, <2>1
<1>4. \A k, l \in got[r] \cup fetched[r] : k[1] = l[1] => k = l
  <2>1. \A k \in got[r], l \in fetched[r] : k[1] # l[1]
    BY <1>2, <1>3
  <2> QED
    BY <2>1
<1>5. at'[r] \in Artifacts \/ pc'[r] = "publish"
  BY <1>1, <1>2 DEF Artifacts
<1> QED
  BY <1>1, <1>3, <1>4, <1>5

\* A run has one key of an artifact, which it takes in the order of discovery.
LEMMA OneKeyStep ==
  ASSUME Shape, OneKeyEach, [Next]_vars
  PROVE  OneKeyEach'
<1> USE BoundsAssumption, InputsAssumption DEF Shape, Places, OneKeyEach, Artifacts, Keys
<1>1. ASSUME NEW r \in Runs, Start(r) PROVE OneKeyEach'
  BY <1>1 DEF Start, bounds
<1>2. ASSUME NEW r \in Runs, Refuse(r) PROVE OneKeyEach'
  BY <1>2 DEF Refuse, Forget, Nothing, bounds
<1>3. ASSUME NEW r \in Runs, Execute(r) PROVE OneKeyEach'
  BY <1>3 DEF Execute, shared, local, bounds
<1>4. ASSUME NEW r \in Runs, Look(r) PROVE OneKeyEach'
  BY <1>4 DEF Look, Latest, shared, bounds
<1>5. ASSUME NEW r \in Runs, NotModified(r) PROVE OneKeyEach'
  BY <1>5, Found DEF NotModified, shared
<1>6. ASSUME NEW r \in Runs, FetchKnown(r) PROVE OneKeyEach'
  BY <1>6, Found DEF FetchKnown, Override
<1>7. ASSUME NEW r \in Runs, FetchNew(r) PROVE OneKeyEach'
  BY <1>7, Found DEF FetchNew, shared
<1>8. ASSUME NEW r \in Runs, Put(r) PROVE OneKeyEach'
  BY <1>8 DEF Put, local, bounds
<1>9. ASSUME NEW r \in Runs, Insert(r) PROVE OneKeyEach'
  BY <1>9, Taken DEF Insert, shared
<1>10. ASSUME NEW r \in Runs, Reuse(r) PROVE OneKeyEach'
  BY <1>10, Taken DEF Reuse, shared
<1>11. ASSUME NEW r \in Runs, Publish(r) PROVE OneKeyEach'
  BY <1>11 DEF Publish, shared, bounds
<1>12. ASSUME NEW r \in Runs, Finish(r) PROVE OneKeyEach'
  BY <1>12 DEF Finish, Forget, Nothing, Recorded, bounds
<1>13. ASSUME NEW r \in Runs, Fail(r) \/ Conflict(r) PROVE OneKeyEach'
  <2>1. Forget(r) /\ UNCHANGED shared /\ pc' = [pc EXCEPT ![r] = "failing"]
    BY <1>13 DEF Fail, Conflict
  <2> QED
    BY <2>1 DEF Forget, Nothing, shared
<1>14. ASSUME NEW r \in Runs, RecordFailure(r) PROVE OneKeyEach'
  BY <1>14 DEF RecordFailure, local, bounds
<1>15. ASSUME NEW r \in Runs, Crash(r) PROVE OneKeyEach'
  BY <1>15 DEF Crash, Forget, Nothing, shared
<1>16. ASSUME NEW a \in Artifacts, ChangeExport(a) PROVE OneKeyEach'
  BY <1>16 DEF ChangeExport, local
<1>17. ASSUME Upgrade PROVE OneKeyEach'
  BY <1>17 DEF Upgrade, local
<1>18. ASSUME Retire PROVE OneKeyEach'
  BY <1>18 DEF Retire, local
<1>19. ASSUME UNCHANGED vars PROVE OneKeyEach'
  BY <1>19 DEF vars, shared, local, bounds
<1> QED
  BY <1>1, <1>2, <1>3, <1>4, <1>5, <1>6, <1>7, <1>8, <1>9, <1>10, <1>11, <1>12, <1>13, <1>14, <1>15, <1>16, <1>17, <1>18, <1>19 DEF Next, Step, Retrieve

\* Nobody else holds a key a run inserts, nor a record it raises to its version.
LEMMA KeysHeldStep ==
  ASSUME Shape, OneKeyEach, KeysHeld, [Next]_vars
  PROVE  KeysHeld'
<1> USE DEF Shape, Places, KeysHeld
<1>1. ASSUME NEW r \in Runs, Start(r) PROVE KeysHeld'
  BY <1>1 DEF Start, bounds
<1>2. ASSUME NEW r \in Runs, Refuse(r) PROVE KeysHeld'
  BY <1>2 DEF Refuse, Forget, Nothing, bounds
<1>3. ASSUME NEW r \in Runs, Execute(r) PROVE KeysHeld'
  BY <1>3 DEF Execute, shared, local, bounds
<1>4. ASSUME NEW r \in Runs, Look(r) PROVE KeysHeld'
  BY <1>4 DEF Look, Latest, shared, bounds
<1>5. ASSUME NEW r \in Runs, NotModified(r) PROVE KeysHeld'
  BY <1>5 DEF NotModified, shared, bounds
<1>6. ASSUME NEW r \in Runs, FetchKnown(r) PROVE KeysHeld'
  BY <1>6 DEF FetchKnown, Override, bounds
<1>7. ASSUME NEW r \in Runs, FetchNew(r) PROVE KeysHeld'
  BY <1>7 DEF FetchNew, shared, bounds
<1>8. ASSUME NEW r \in Runs, Put(r) PROVE KeysHeld'
  BY <1>8 DEF Put, local, bounds
<1>9. ASSUME NEW r \in Runs, Insert(r) PROVE KeysHeld'
  BY <1>9 DEF Insert, Advance, Override, shared, bounds
<1>10. ASSUME NEW r \in Runs, Reuse(r) PROVE KeysHeld'
  BY <1>10 DEF Reuse, Advance, shared, bounds
<1>11. ASSUME NEW r \in Runs, Publish(r) PROVE KeysHeld'
  BY <1>11 DEF Publish, shared, bounds
<1>12. ASSUME NEW r \in Runs, Finish(r) PROVE KeysHeld'
  BY <1>12 DEF Finish, Forget, Nothing, Recorded, bounds
<1>13. ASSUME NEW r \in Runs, Fail(r) \/ Conflict(r) PROVE KeysHeld'
  <2>1. Forget(r) /\ UNCHANGED shared
    BY <1>13 DEF Fail, Conflict
  <2> QED
    BY <2>1 DEF Forget, Nothing, shared
<1>14. ASSUME NEW r \in Runs, RecordFailure(r) PROVE KeysHeld'
  BY <1>14 DEF RecordFailure, local, bounds
<1>15. ASSUME NEW r \in Runs, Crash(r) PROVE KeysHeld'
  BY <1>15 DEF Crash, Forget, Nothing, shared
<1>16. ASSUME NEW a \in Artifacts, ChangeExport(a) PROVE KeysHeld'
  BY <1>16 DEF ChangeExport, local
<1>17. ASSUME Upgrade PROVE KeysHeld'
  BY <1>17 DEF Upgrade, local
<1>18. ASSUME Retire PROVE KeysHeld'
  BY <1>18 DEF Retire, local
<1>19. ASSUME UNCHANGED vars PROVE KeysHeld'
  BY <1>19 DEF vars, shared, local, bounds
<1> QED
  BY <1>1, <1>2, <1>3, <1>4, <1>5, <1>6, <1>7, <1>8, <1>9, <1>10, <1>11, <1>12, <1>13, <1>14, <1>15, <1>16, <1>17, <1>18, <1>19 DEF Next, Step, Retrieve

\* Where no parser is deployed under a run, the records a run leaves unparsed carry the
\* version it has.
LEMMA OneParserStep ==
  ASSUME ~Rolling, Shape, OneKeyEach, OneParser, [Next]_vars
  PROVE  OneParser'
<1> USE DEF Shape, Places, OneKeyEach, OneParser, Parsing, InTransaction, Retrieving
<1>1. ASSUME NEW r \in Runs, Start(r) PROVE OneParser'
  <2>1. got[r] = {} /\ DOMAIN loaded[r] = {}
    BY <1>1 DEF Start
  <2> QED
    BY <1>1, <2>1 DEF Start, bounds
<1>2. ASSUME NEW r \in Runs, Refuse(r) PROVE OneParser'
  BY <1>2 DEF Refuse, Forget, Nothing, bounds
<1>3. ASSUME NEW r \in Runs, Execute(r) PROVE OneParser'
  BY <1>3 DEF Execute, shared, local, bounds
<1>4. ASSUME NEW r \in Runs, Look(r) PROVE OneParser'
  BY <1>4 DEF Look, Latest, shared, bounds
<1>5. ASSUME NEW r \in Runs, NotModified(r) PROVE OneParser'
  BY <1>5 DEF NotModified, shared, bounds
<1>6. ASSUME NEW r \in Runs, FetchKnown(r) PROVE OneParser'
  BY <1>6 DEF FetchKnown, Override, bounds
<1>7. ASSUME NEW r \in Runs, FetchNew(r) PROVE OneParser'
  BY <1>7 DEF FetchNew, shared, bounds
<1>8. ASSUME NEW r \in Runs, Put(r) PROVE OneParser'
  BY <1>8 DEF Put, local, bounds
<1>9. ASSUME NEW r \in Runs, Insert(r) PROVE OneParser'
  <2>1. /\ UNCHANGED <<record, deployed, parser, bumped>>
        /\ fetched[r] \cap DOMAIN record = {} /\ pc[r] = "insert"
        /\ got' = [got EXCEPT ![r] = got[r] \cup fetched[r]]
        /\ loaded' = [loaded EXCEPT ![r] = Nothing]
        /\ \A q \in Runs \ {r} : pc'[q] = pc[q]
    BY <1>9 DEF Insert, Advance, shared
  <2> QED
    BY <2>1 DEF Nothing
<1>10. ASSUME NEW r \in Runs, Reuse(r) PROVE OneParser'
  <2>1. /\ UNCHANGED <<record, deployed, parser>> /\ pc[r] = "reuse"
        /\ bumped' = [bumped EXCEPT ![r] = bumped[r] \cup {k \in fetched[r] : loaded[r][k] # parser[r]}]
        /\ got' = [got EXCEPT ![r] = got[r] \cup fetched[r]]
        /\ loaded' = [loaded EXCEPT ![r] = Nothing]
        /\ \A q \in Runs \ {r} : pc'[q] = pc[q]
    BY <1>10 DEF Reuse, Advance, shared
  <2>2. \A k \in got'[r] \cap DOMAIN record : k \in bumped'[r] \/ record[k].version = deployed
    BY <2>1
  <2> QED
    BY <2>1, <2>2 DEF Nothing
<1>11. ASSUME NEW r \in Runs, Publish(r) PROVE OneParser'
  BY <1>11 DEF Publish, shared, bounds
<1>12. ASSUME NEW r \in Runs, Finish(r) PROVE OneParser'
  BY <1>12 DEF Finish, Forget, Nothing, Recorded, bounds
<1>13. ASSUME NEW r \in Runs, Fail(r) \/ Conflict(r) PROVE OneParser'
  <2>1. Forget(r) /\ UNCHANGED shared /\ pc' = [pc EXCEPT ![r] = "failing"]
    BY <1>13 DEF Fail, Conflict
  <2> QED
    BY <2>1 DEF Forget, Nothing, shared
<1>14. ASSUME NEW r \in Runs, RecordFailure(r) PROVE OneParser'
  BY <1>14 DEF RecordFailure, local, bounds
<1>15. ASSUME NEW r \in Runs, Crash(r) PROVE OneParser'
  BY <1>15 DEF Crash, Forget, Nothing, shared
<1>16. ASSUME NEW a \in Artifacts, ChangeExport(a) PROVE OneParser'
  BY <1>16 DEF ChangeExport, local
<1>17. ASSUME Upgrade PROVE OneParser'
  BY <1>17 DEF Upgrade, local, Alive
<1>18. ASSUME Retire PROVE OneParser'
  BY <1>18 DEF Retire, local
<1>19. ASSUME UNCHANGED vars PROVE OneParser'
  BY <1>19 DEF vars, shared, local, bounds
<1> QED
  BY <1>1, <1>2, <1>3, <1>4, <1>5, <1>6, <1>7, <1>8, <1>9, <1>10, <1>11, <1>12, <1>13, <1>14, <1>15, <1>16, <1>17, <1>18, <1>19 DEF Next, Step, Retrieve

\* Where no run is forced, a run parses the records it inserts or raises and no other.
LEMMA OnlyStaleStep ==
  ASSUME Forcing \subseteq {FALSE}, Shape, OneKeyEach, OnlyStale, [Next]_vars
  PROVE  OnlyStale'
<1> USE DEF Shape, Places, OneKeyEach, OnlyStale
<1>1. ASSUME NEW r \in Runs, Start(r) PROVE OnlyStale'
  <2>1. PICK f \in Forcing : forced' = [forced EXCEPT ![r] = f]
    BY <1>1 DEF Start
  <2> QED
    BY <1>1, <2>1 DEF Start
<1>2. ASSUME NEW r \in Runs, Refuse(r) PROVE OnlyStale'
  BY <1>2 DEF Refuse, Forget, Nothing, bounds
<1>3. ASSUME NEW r \in Runs, Execute(r) PROVE OnlyStale'
  BY <1>3 DEF Execute, shared, local, bounds
<1>4. ASSUME NEW r \in Runs, Look(r) PROVE OnlyStale'
  BY <1>4 DEF Look, Latest, shared, bounds
<1>5. ASSUME NEW r \in Runs, NotModified(r) PROVE OnlyStale'
  BY <1>5 DEF NotModified, shared, bounds
<1>6. ASSUME NEW r \in Runs, FetchKnown(r) PROVE OnlyStale'
  BY <1>6 DEF FetchKnown, Override, bounds
<1>7. ASSUME NEW r \in Runs, FetchNew(r) PROVE OnlyStale'
  BY <1>7 DEF FetchNew, shared, bounds
<1>8. ASSUME NEW r \in Runs, Put(r) PROVE OnlyStale'
  BY <1>8 DEF Put, local, bounds
<1>9. ASSUME NEW r \in Runs, Insert(r) PROVE OnlyStale'
  BY <1>9 DEF Insert, Advance, Override, shared, bounds
<1>10. ASSUME NEW r \in Runs, Reuse(r) PROVE OnlyStale'
  BY <1>10 DEF Reuse, Advance, shared, bounds
<1>11. ASSUME NEW r \in Runs, Publish(r) PROVE OnlyStale'
  BY <1>11 DEF Publish, shared, bounds
<1>12. ASSUME NEW r \in Runs, Finish(r) PROVE OnlyStale'
  BY <1>12 DEF Finish, Forget, Nothing, Recorded, bounds
<1>13. ASSUME NEW r \in Runs, Fail(r) \/ Conflict(r) PROVE OnlyStale'
  <2>1. Forget(r) /\ UNCHANGED shared /\ pc' = [pc EXCEPT ![r] = "failing"]
    BY <1>13 DEF Fail, Conflict
  <2> QED
    BY <2>1 DEF Forget, Nothing, shared
<1>14. ASSUME NEW r \in Runs, RecordFailure(r) PROVE OnlyStale'
  BY <1>14 DEF RecordFailure, local, bounds
<1>15. ASSUME NEW r \in Runs, Crash(r) PROVE OnlyStale'
  BY <1>15 DEF Crash, Forget, Nothing, shared
<1>16. ASSUME NEW a \in Artifacts, ChangeExport(a) PROVE OnlyStale'
  BY <1>16 DEF ChangeExport, local
<1>17. ASSUME Upgrade PROVE OnlyStale'
  BY <1>17 DEF Upgrade, local
<1>18. ASSUME Retire PROVE OnlyStale'
  BY <1>18 DEF Retire, local
<1>19. ASSUME UNCHANGED vars PROVE OnlyStale'
  BY <1>19 DEF vars, shared, local, bounds
<1> QED
  BY <1>1, <1>2, <1>3, <1>4, <1>5, <1>6, <1>7, <1>8, <1>9, <1>10, <1>11, <1>12, <1>13, <1>14, <1>15, <1>16, <1>17, <1>18, <1>19 DEF Next, Step, Retrieve

\* A row comes from the one key among the parsed that draws it.
LEMMA OneOrigin ==
  ASSUME Shape, OneKeyEach, NEW r \in Runs, NEW k \in Parsed(r),
         NEW f \in DOMAIN Derived[k][parser[r]]
  PROVE  /\ f \in FactsOf(r)
         /\ Origin(r, f) = k
         /\ RowOf(r, f) = [value |-> Derived[k][parser[r]][f], from |-> k]
<1>1. parser[r] \in Versions /\ Parsed(r) \subseteq got[r] /\ got[r] \subseteq Keys
  BY DEF Shape, OneKeyEach, Parsed
<1>2. ASSUME NEW l \in Parsed(r), f \in DOMAIN Derived[l][parser[r]]
      PROVE  l = k
  <2>1. k \in Keys /\ l \in Keys /\ k \in got[r] /\ l \in got[r]
    BY <1>1
  <2>2. k[1] = l[1]
    BY <1>1, <1>2, <2>1, DisjointAssumption
  <2> QED
    BY <2>1, <2>2 DEF OneKeyEach
<1>3. Origin(r, f) = k
  BY <1>2 DEF Origin
<1> QED
  BY <1>3 DEF FactsOf, RowOf

\* A step that writes no row and moves no other run leaves the rows as they were drawn.
LEMMA RowsKept ==
  ASSUME Shape, RowsDrawn, NEW r \in Runs, DOMAIN pc' = Runs, pc'[r] # "finish",
         UNCHANGED <<canonical, record>>,
         \A q \in Runs \ {r} :
           UNCHANGED <<pc[q], parser[q], reparse[q], got[q], overlay[q], pending[q]>>
  PROVE  RowsDrawn'
<1>1. \A q \in Runs \ {r} : Parsed(q)' = Parsed(q) /\ FactsOf(q)' = FactsOf(q)
  BY DEF Parsed, FactsOf
<1>2. Locked(r)' = {} /\ \A q \in Runs \ {r} : Locked(q)' = Locked(q)
  BY <1>1 DEF Locked
<1>3. ASSUME NEW q \in Runs, pc'[q] = "finish"
      PROVE  q # r /\ pc[q] = "finish"
  BY <1>3
<1> QED
  BY <1>1, <1>2, <1>3 DEF RowsDrawn

\* The rows a run has written, or left as they are, say what its parser draws, and no other
\* run can touch them before it ends.
LEMMA RowsStep ==
  ASSUME Shape, OneKeyEach, KeysHeld, RowsDrawn, [Next]_vars
  PROVE  RowsDrawn'
<1>1. ASSUME NEW r \in Runs,
             Start(r) \/ Refuse(r) \/ Execute(r) \/ Look(r) \/ NotModified(r)
      PROVE  RowsDrawn'
  BY <1>1, RowsKept
  DEF Start, Refuse, Execute, Look, NotModified, Forget, shared, local, Shape, Places
<1>2. ASSUME NEW r \in Runs, FetchKnown(r) \/ FetchNew(r) \/ Put(r)
      PROVE  RowsDrawn'
  BY <1>2, RowsKept DEF FetchKnown, FetchNew, Put, shared, local, Shape, Places
<1>3. ASSUME NEW r \in Runs, Insert(r) \/ Reuse(r)
      PROVE  RowsDrawn'
  BY <1>3, RowsKept DEF Insert, Reuse, Advance, shared, local, Shape, Places
<1>4. ASSUME NEW r \in Runs, Fail(r) \/ Conflict(r) \/ RecordFailure(r) \/ Crash(r)
      PROVE  RowsDrawn'
  <2>1. /\ UNCHANGED shared \/ UNCHANGED <<canonical, record>>
        /\ Forget(r) \/ UNCHANGED local
        /\ \/ pc' = [pc EXCEPT ![r] = "failing"] \/ pc' = [pc EXCEPT ![r] = "done"]
           \/ pc' = [pc EXCEPT ![r] = "dead"]
    BY <1>4 DEF Fail, Conflict, RecordFailure, Crash
  <2> QED
    BY <2>1, RowsKept DEF Forget, shared, local, Shape, Places
<1>5. ASSUME NEW r \in Runs, Publish(r)
      PROVE  RowsDrawn'
  <2> DEFINE same(q) == UNCHANGED <<parser[q], reparse[q], got[q], pending[q]>>
  <2>1. /\ UNCHANGED <<canonical, record>> /\ \A q \in Runs : same(q)
        /\ pc' = [pc EXCEPT ![r] = "finish"] /\ pc[r] = "publish"
        /\ \A q \in Runs \ {r} : UNCHANGED <<pc[q], overlay[q]>>
        /\ pc'[r] = "finish"
        /\ Parsed(r) \subseteq DOMAIN record \cup DOMAIN pending[r]
        /\ \A q \in Runs \ {r} : Locked(q) \cap FactsOf(r) = {}
    BY <1>5 DEF Publish, shared, Shape, Places
  <2>2. overlay'[r] = [f \in {g \in FactsOf(r) : g \in DOMAIN canonical =>
                                                canonical[g].value # RowOf(r, g).value}
                         |-> RowOf(r, f)]
    BY <1>5 DEF Publish, Shape, Places
  <2>3. \A q \in Runs : Parsed(q)' = Parsed(q) /\ FactsOf(q)' = FactsOf(q)
    BY <2>1 DEF Parsed, FactsOf
  <2>4. Locked(r)' = FactsOf(r) /\ \A q \in Runs \ {r} : Locked(q)' = Locked(q)
    BY <2>1, <2>3 DEF Locked
  <2>5. \A q, p \in Runs : q # p => Locked(q)' \cap Locked(p)' = {}
    BY <2>1, <2>4 DEF RowsDrawn
  <2>6. ASSUME NEW f \in DOMAIN overlay'[r]
        PROVE  LET k == overlay'[r][f].from IN
               /\ k \in Parsed(r)
               /\ f \in DOMAIN Derived[k][parser[r]]
               /\ overlay'[r][f].value = Derived[k][parser[r]][f]
    <3>1. f \in FactsOf(r) /\ overlay'[r][f] = RowOf(r, f)
      BY <2>2
    <3>2. PICK k \in Parsed(r) : f \in DOMAIN Derived[k][parser[r]]
      BY <3>1 DEF FactsOf
    <3> QED
      BY <3>1, <3>2, OneOrigin
  <2>7. ASSUME NEW k \in Parsed(r), NEW f \in DOMAIN Derived[k][parser[r]] \ DOMAIN overlay'[r]
        PROVE  f \in DOMAIN canonical /\ canonical[f].value = Derived[k][parser[r]][f]
    BY <2>2, OneOrigin
  <2>8. ASSUME NEW q \in Runs \ {r}, pc'[q] = "finish"
        PROVE  pc[q] = "finish" /\ overlay'[q] = overlay[q] /\ same(q)
    BY <2>1, <2>8
  <2> QED
    BY <2>1, <2>3, <2>5, <2>6, <2>7, <2>8 DEF RowsDrawn
<1>6. ASSUME NEW r \in Runs, Finish(r)
      PROVE  RowsDrawn'
  <2>1. /\ record' = Recorded(r) /\ canonical' = Override(overlay[r], canonical)
        /\ pc' = [pc EXCEPT ![r] = "done"] /\ pc[r] = "finish" /\ pc'[r] = "done"
        /\ \A q \in Runs \ {r} :
             UNCHANGED <<pc[q], parser[q], reparse[q], got[q], overlay[q], pending[q]>>
    BY <1>6 DEF Finish, Forget, Shape, Places
  <2>2. \A q \in Runs \ {r} : Parsed(q)' = Parsed(q) /\ FactsOf(q)' = FactsOf(q)
    BY <2>1 DEF Parsed, FactsOf
  <2>3. Locked(r)' = {} /\ \A q \in Runs \ {r} : Locked(q)' = Locked(q)
    BY <2>1, <2>2 DEF Locked
  <2>4. DOMAIN overlay[r] \subseteq Locked(r)
    BY <2>1 DEF Locked, FactsOf, RowsDrawn
  <2>5. DOMAIN record \subseteq DOMAIN record'
    BY <2>1 DEF Recorded
  <2>6. ASSUME NEW q \in Runs \ {r}, pc[q] = "finish", NEW f \in Locked(q)
        PROVE  f \in DOMAIN canonical => f \in DOMAIN canonical' /\ canonical'[f] = canonical[f]
    <3>1. f \notin DOMAIN overlay[r]
      BY <2>4 DEF RowsDrawn
    <3> QED
      BY <2>1, <3>1 DEF Override
  <2>7. ASSUME NEW q \in Runs, pc'[q] = "finish"
        PROVE  q \in Runs \ {r} /\ pc[q] = "finish" /\ Locked(q) = FactsOf(q)
    BY <2>1, <2>7 DEF Locked
  <2>8. ASSUME NEW q \in Runs, pc'[q] = "finish", NEW k \in Parsed(q),
               NEW f \in DOMAIN Derived[k][parser[q]] \ DOMAIN overlay[q]
        PROVE  f \in DOMAIN canonical' /\ canonical'[f].value = Derived[k][parser[q]][f]
    <3>1. f \in DOMAIN canonical /\ canonical[f].value = Derived[k][parser[q]][f]
      BY <2>7, <2>8 DEF RowsDrawn
    <3>2. f \in Locked(q)
      BY <2>7, <2>8 DEF FactsOf
    <3> QED
      BY <2>6, <2>7, <2>8, <3>1, <3>2
  <2> QED
    BY <2>1, <2>2, <2>3, <2>5, <2>7, <2>8 DEF RowsDrawn
<1>7. ASSUME Retire
      PROVE  RowsDrawn'
  <2> DEFINE kept == DOMAIN canonical \cap Foreign
             gone == DOMAIN record \ {canonical[f].from : f \in kept}
  <2>1. /\ canonical' = [f \in kept |-> canonical[f]]
        /\ record' = [k \in DOMAIN record \ gone |-> record[k]]
        /\ \A r \in Runs : /\ Locked(r) \cap (DOMAIN canonical \ kept) = {}
                           /\ {overlay[r][f].from : f \in DOMAIN overlay[r]} \cap gone = {}
        /\ UNCHANGED <<pc, local>>
    BY <1>7 DEF Retire
  <2> HIDE DEF kept, gone
  <2>2. \A q \in Runs : Parsed(q)' = Parsed(q) /\ FactsOf(q)' = FactsOf(q)
                      /\ Locked(q)' = Locked(q)
    BY <2>1 DEF Parsed, FactsOf, Locked, local
  <2>3. ASSUME NEW q \in Runs, pc[q] = "finish", NEW f \in FactsOf(q) \cap DOMAIN canonical
        PROVE  f \in DOMAIN canonical' /\ canonical'[f] = canonical[f]
    BY <2>1, <2>3 DEF Locked
  <2>4. ASSUME NEW q \in Runs, NEW f \in DOMAIN overlay[q], overlay[q][f].from \in DOMAIN record
        PROVE  overlay[q][f].from \in DOMAIN record'
    BY <2>1, <2>4
  <2>5. ASSUME NEW q \in Runs, pc[q] = "finish", NEW k \in Parsed(q),
               NEW f \in DOMAIN Derived[k][parser[q]] \ DOMAIN overlay[q]
        PROVE  f \in DOMAIN canonical' /\ canonical'[f].value = Derived[k][parser[q]][f]
    <3>1. f \in FactsOf(q)
      BY <2>5 DEF FactsOf
    <3>2. f \in DOMAIN canonical /\ canonical[f].value = Derived[k][parser[q]][f]
      BY <2>5 DEF RowsDrawn
    <3> QED
      BY <2>3, <2>5, <3>1, <3>2
  <2>6. UNCHANGED <<pc, parser, overlay, pending>>
    BY <2>1 DEF local
  <2>7. ASSUME NEW q \in Runs, pc[q] = "finish", NEW f \in DOMAIN overlay[q]
        PROVE  overlay[q][f].from \in Parsed(q) \cap (DOMAIN record' \cup DOMAIN pending[q])
    BY <2>4, <2>7 DEF RowsDrawn
  <2>8. \A q, p \in Runs : q # p => Locked(q)' \cap Locked(p)' = {}
    BY <2>2 DEF RowsDrawn
  <2>9. ASSUME NEW q \in Runs, pc'[q] = "finish", NEW f \in DOMAIN overlay'[q]
        PROVE  LET k == overlay'[q][f].from IN
               /\ k \in Parsed(q)' \cap (DOMAIN record' \cup DOMAIN pending'[q])
               /\ f \in DOMAIN Derived[k][parser'[q]]
               /\ overlay'[q][f].value = Derived[k][parser'[q]][f]
    BY <2>2, <2>6, <2>7, <2>9 DEF RowsDrawn
  <2>10. ASSUME NEW q \in Runs, pc'[q] = "finish", NEW k \in Parsed(q)',
                NEW f \in DOMAIN Derived[k][parser'[q]] \ DOMAIN overlay'[q]
         PROVE  f \in DOMAIN canonical' /\ canonical'[f].value = Derived[k][parser'[q]][f]
    BY <2>2, <2>5, <2>6, <2>10
  <2> QED
    BY <2>8, <2>9, <2>10 DEF RowsDrawn
<1>8. CASE UNCHANGED <<pc, record, canonical, parser, reparse, got, overlay, pending>>
  <2>1. \A q \in Runs : /\ Parsed(q)' = Parsed(q) /\ FactsOf(q)' = FactsOf(q)
                      /\ Locked(q)' = Locked(q)
    BY <1>8 DEF Parsed, FactsOf, Locked
  <2> QED
    BY <1>8, <2>1 DEF RowsDrawn
<1> QED
  BY <1>1, <1>2, <1>3, <1>4, <1>5, <1>6, <1>7, <1>8
  DEF Next, Step, Retrieve, ChangeExport, Upgrade, vars, shared, local

\* What a run records carries the version of the parser whose rows it publishes.
LEMMA VersionsMeet ==
  ASSUME Shape, ~Rolling => OneParser, Rolling => OnlyStale /\ ~WholeCorpus,
         NEW r \in Runs, pc[r] = "finish", NEW k \in Parsed(r), k \in DOMAIN Recorded(r)
  PROVE  Recorded(r)[k].version = parser[r]
<1>1. k \in DOMAIN pending[r] \/ k \in bumped[r] \/ record[k].version = parser[r]
  <2>1. CASE Rolling
    BY <2>1 DEF OnlyStale, Parsed
  <2>2. CASE ~Rolling
    <3>1. k \in got[r]
      BY DEF Shape, Parsed
    <3> QED
      BY <2>2, <3>1 DEF OneParser, Parsing, InTransaction, Recorded
  <2> QED
    BY <2>1, <2>2
<1> QED
  BY <1>1 DEF Recorded

\* A commit and a retirement, the only steps that move records or rows, keep lineage honest.
LEMMA TraceStep ==
  ASSUME Shape, OneKeyEach, KeysHeld, RowsDrawn, Traceable, ~Rolling => OneParser,
         Rolling => OnlyStale /\ ~WholeCorpus, [Next]_vars
  PROVE  Traceable'
<1>1. ASSUME NEW r \in Runs, Finish(r)
      PROVE  Traceable'
  <2>1. /\ record' = Recorded(r) /\ canonical' = Override(overlay[r], canonical)
        /\ pc[r] = "finish"
    BY <1>1 DEF Finish
  <2>2. DOMAIN record' = DOMAIN record \cup DOMAIN pending[r]
    BY <2>1 DEF Recorded
  <2>3. ASSUME NEW f \in DOMAIN overlay[r]
        PROVE  LET k == overlay[r][f].from IN
               /\ k \in DOMAIN record'
               /\ Derived[k][record'[k].version][f] = overlay[r][f].value
    <3> DEFINE k == overlay[r][f].from
    <3>1. /\ k \in Parsed(r) /\ k \in DOMAIN record'
          /\ overlay[r][f].value = Derived[k][parser[r]][f]
      BY <2>1, <2>2 DEF RowsDrawn
    <3>2. record'[k].version = parser[r]
      BY <2>1, <3>1, VersionsMeet
    <3> QED
      BY <3>1, <3>2
  <2>4. ASSUME NEW f \in DOMAIN canonical \ DOMAIN overlay[r]
        PROVE  LET k == canonical[f].from IN
               /\ k \in DOMAIN record'
               /\ f \in DOMAIN Derived[k][record'[k].version] =>
                    Derived[k][record'[k].version][f] = canonical[f].value
    <3> DEFINE k == canonical[f].from
    <3>1. k \in DOMAIN record /\ k \notin DOMAIN pending[r]
      BY DEF Traceable, KeysHeld
    <3>2. CASE k \in bumped[r]
      <4>1. record'[k].version = parser[r]
        BY <2>1, <3>1, <3>2 DEF Recorded
      <4>2. k \in Parsed(r)
        BY <3>2 DEF Shape, Parsed
      <4> QED
        BY <2>1, <2>2, <3>1, <4>1, <4>2 DEF RowsDrawn
    <3>3. CASE k \notin bumped[r]
      BY <2>1, <2>2, <3>1, <3>3 DEF Recorded, Traceable
    <3> QED
      BY <3>2, <3>3
  <2> QED
    BY <2>1, <2>3, <2>4 DEF Traceable, Override
<1>2. CASE Retire
  BY <1>2 DEF Retire, Traceable
<1>3. CASE UNCHANGED <<record, canonical>>
  BY <1>3 DEF Traceable
<1> QED
  BY <1>1, <1>2, <1>3
  DEF Next, Step, Retrieve, Start, Refuse, Execute, Look, NotModified, FetchKnown, FetchNew,
      Put, Insert, Reuse, Publish, Fail, Conflict, RecordFailure, Crash, ChangeExport,
      Upgrade, vars, shared

\* The lineage of every published row is honest, for every interleaving of runs, failures,
\* kills, changes of the source and retirements: its record exists, and its value is what the
\* parser of the record's version draws from the record's bytes.  Either no parser is deployed
\* under a run in flight, or no run is forced and none parses what is not stale: a forced run
\* that an upgraded one overtakes would leave the older parser's rows under the newer version.
THEOREM LineageHonest ==
  ASSUME ~Rolling \/ (Forcing \subseteq {FALSE} /\ ~WholeCorpus)
  PROVE  Spec => []Traceable
<1>1. Init => TraceInv
  BY BoundsAssumption, InputsAssumption
  DEF Init, Nothing, TraceInv, Shape, Places, OneKeyEach, KeysHeld, RowsDrawn, Traceable,
      OneParser, OnlyStale, Parsing, InTransaction, Retrieving, Locked, Versions, Artifacts
<1>2. TraceInv /\ [Next]_vars => TraceInv'
  BY ShapeStep, OneKeyStep, KeysHeldStep, RowsStep, TraceStep, OneParserStep, OnlyStaleStep
  DEF TraceInv
<1>3. TraceInv => Traceable
  BY DEF TraceInv
<1> QED
  BY <1>1, <1>2, <1>3, PTL DEF Spec

=============================================================================
