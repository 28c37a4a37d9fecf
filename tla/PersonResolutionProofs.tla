---------------------- MODULE PersonResolutionProofs ----------------------
(***************************************************************************)
(* Machine-checked safety of PersonResolution for every set of persons,    *)
(* sources, cases and concurrent sessions.                                 *)
(***************************************************************************)
EXTENDS PersonResolution, TLAPS

\* The stages always reach one of the three decisions (pipeline.evaluate): a pair is never
\* stored without one.
LEMMA EvaluateDecides ==
    ASSUME NEW f, NEW probability
    PROVE  Evaluate(f, probability).decision \in Decisions
<1> DEFINE results == << DeterministicDecide(f), RulesDecide(f), ScoringDecide(probability) >>
<1>1. ASSUME NEW i \in 1..3, results[i] # None
      PROVE  results[i].decision \in Decisions
  <2>1. CASE i = 1
    BY <1>1, <2>1 DEF DeterministicDecide, Result, Decisions
  <2>2. CASE i = 2
    BY <1>1, <2>2 DEF RulesDecide, Result, Decisions
  <2>3. CASE i = 3
    BY <1>1, <2>3 DEF ScoringDecide, Result, Decisions
  <2> QED
    BY <2>1, <2>2, <2>3
<1> DEFINE decisive == {i \in 1..3 : results[i] # None /\ Decisive(results[i])}
           pending == {i \in 2..3 : results[i] # None}
           First(S) == CHOOSE i \in S : \A j \in S : i <= j
<1> HIDE DEF results
<1>0. ASSUME NEW S \in SUBSET (1..3), S # {}
      PROVE  First(S) \in S
  <2>1. \E i \in S : \A j \in S : i <= j
    <3>1. CASE 1 \in S
      BY <3>1
    <3>2. CASE 1 \notin S /\ 2 \in S
      BY <3>2
    <3>3. CASE 1 \notin S /\ 2 \notin S
      <4>1. PICK i \in S : TRUE
        BY <1>0
      <4>2. \A j \in S : j \in 1..3 /\ j # 1 /\ j # 2
        BY <1>0, <3>3
      <4>3. \A j \in S : j = 3
        BY <4>2
      <4> QED
        BY <4>1, <4>3
    <3> QED
      BY <3>1, <3>2, <3>3
  <2> QED
    BY <2>1
<1>5. Evaluate(f, probability) = IF decisive # {} THEN results[First(decisive)]
                                 ELSE IF pending # {} THEN results[First(pending)]
                                 ELSE Result("review", 50, "review")
  BY Zenon DEF Evaluate, results
<1>2. CASE decisive # {}
  <2>1. First(decisive) \in decisive
    BY <1>0, <1>2
  <2> QED
    BY <1>1, <1>2, <1>5, <2>1
<1>3. CASE decisive = {} /\ pending # {}
  <2>1. First(pending) \in pending
    BY <1>0, <1>3
  <2> QED
    BY <1>1, <1>3, <1>5, <2>1
<1>4. CASE decisive = {} /\ pending = {}
  BY <1>4, <1>5 DEF Result, Decisions
<1> QED
  BY <1>2, <1>3, <1>4

\* A candidate pair is two different persons, the earlier-created first.
LEMMA PairParts ==
    ASSUME NEW p \in Pair
    PROVE  /\ p[1] \in Person /\ p[2] \in Person
           /\ p[1] < p[2]
           /\ p = << p[1], p[2] >>
  BY DEF Pair

\* Whatever the survivors of a matched pair are, the kept and the dropped person are two
\* persons, the earlier-created kept.
LEMMA KeptBeforeDropped ==
    ASSUME NEW left \in Person, NEW right \in Person
    PROVE  /\ KeepAndDrop(left, right)[1] \in Person
           /\ KeepAndDrop(left, right)[2] \in Person
           /\ left # right =>
                 << KeepAndDrop(left, right)[1], KeepAndDrop(left, right)[2] >> \in Pair
<1>1. CASE left < right
  BY <1>1, PersonAssumption DEF KeepAndDrop, Pair
<1>2. CASE ~(left < right)
  BY <1>2, PersonAssumption DEF KeepAndDrop, Pair
<1> QED
  BY <1>1, <1>2

\* The end of a transaction clears its writes and targets and no other transaction's.
LEMMA ForgetClears ==
    ASSUME TypeOK, NEW t \in Tx, Forget(t)
    PROVE  /\ \A p \in Person : wPerson'[t][p] = NoWrite
           /\ \A p \in Pair : wCand'[t][p] = NoWrite
           /\ wAudit'[t] = {}
           /\ pc'[t] = "idle"
           /\ \A u \in Tx \ {t} : /\ wPerson'[u] = wPerson[u]
                                  /\ wCand'[u] = wCand[u]
                                  /\ wAudit'[u] = wAudit[u]
                                  /\ pc'[u] = pc[u]
                                  /\ kind'[u] = kind[u]
                                  /\ choice'[u] = choice[u]
                                  /\ current'[u] = current[u]
                                  /\ keep'[u] = keep[u]
                                  /\ drop'[u] = drop[u]
  BY DEF Forget, Go, TypeOK

\* Dropping a handled pair from the list leads to the next pair or to the commit.
LEMMA AdvanceTyped ==
    ASSUME TypeOK, NEW t \in Tx, NEW pair, Advance(t, pair)
    PROVE  /\ todo' \in [Tx -> SUBSET Pair]
           /\ pc' \in [Tx -> Steps]
<1>1. todo' = [todo EXCEPT ![t] = todo[t] \ {pair}]
  BY DEF Advance
<1>2. PICK step \in Steps : pc' = [pc EXCEPT ![t] = step]
  BY DEF Advance, Go, Steps
<1> QED
  BY <1>1, <1>2 DEF TypeOK

\* A transaction's writes of identifier rows stay rows, and what it sees of them.
LEMMA IdentsTyped ==
    ASSUME TypeOK, NEW t \in Tx
    PROVE  /\ IdentSeen(t) \in SUBSET IdentifierRow
           /\ \A deletes, inserts \in SUBSET IdentifierRow :
                 WriteIdents(t, deletes, inserts) =>
                    wIdent' \in [Tx -> [inserted : SUBSET IdentifierRow,
                                        deleted : SUBSET IdentifierRow]]
<1> DEFINE Written == [inserted : SUBSET IdentifierRow, deleted : SUBSET IdentifierRow]
<1>1. wIdent \in [Tx -> Written] /\ ident \in SUBSET IdentifierRow
  BY DEF TypeOK
<1>2. wIdent[t].inserted \in SUBSET IdentifierRow /\ wIdent[t].deleted \in SUBSET IdentifierRow
  BY <1>1
<1>3. IdentSeen(t) \in SUBSET IdentifierRow
  BY <1>1, <1>2 DEF IdentSeen
<1>4. ASSUME NEW deletes \in SUBSET IdentifierRow, NEW inserts \in SUBSET IdentifierRow,
             WriteIdents(t, deletes, inserts)
      PROVE  wIdent' \in [Tx -> Written]
  <2>1. [inserted |-> (wIdent[t].inserted \ deletes) \cup inserts,
         deleted |-> (wIdent[t].deleted \ inserts) \cup deletes] \in Written
    BY <1>2
  <2> HIDE DEF Written
  <2> QED
    BY <1>1, <1>4, <2>1 DEF WriteIdents
<1> QED
  BY <1>3, <1>4

\* Each step preserves the types, given where the merges in progress stand.
LEMMA TypeStep ==
    ASSUME TypeOK, MergeTargets, [Next]_vars
    PROVE  TypeOK'
<1> USE DEF TypeOK
<1>1. ASSUME NEW t \in Tx, BeginIngest(t) PROVE TypeOK'
  BY <1>1, BoundAssumption DEF BeginIngest, Begin, Go, store, writes, work, merging, Kinds, Steps
<1>2. ASSUME NEW t \in Tx, BeginRerun(t) PROVE TypeOK'
  BY <1>2, BoundAssumption DEF BeginRerun, Begin, Go, store, writes, work, merging, Kinds, Steps
<1>3. ASSUME NEW t \in Tx, BeginReview(t) PROVE TypeOK'
  BY <1>3, BoundAssumption, PairParts
  DEF BeginReview, Begin, Go, store, writes, work, Kinds, Steps, Decisions
<1>4. ASSUME NEW t \in Tx, ResolvePersons(t) PROVE TypeOK'
  <2>1. /\ ids' \in [Tx -> [Person -> Person \cup {None}]]
        /\ \A r \in batch[t] : ids'[t][r] \in Person
    BY <1>4 DEF ResolvePersons, RowSeen, RecordRow
  <2>2. due' \in [Tx -> SUBSET IdentifierRow]
    <3>1. PICK draft \in [batch[t] -> UNION {Drafts[r] : r \in batch[t]}] :
             /\ \A r \in batch[t] : draft[r] \in Drafts[r]
             /\ due' = [due EXCEPT ![t] =
                          UNION {{ids'[t][r]} \X Hashes(draft[r]) : r \in batch[t]}]
      BY <1>4 DEF ResolvePersons
    <3>2. \A r \in batch[t] : Hashes(draft[r]) \subseteq Hash
      BY <3>1 DEF Hash
    <3> HIDE DEF TypeOK
    <3>3. UNION {{ids'[t][r]} \X Hashes(draft[r]) : r \in batch[t]} \subseteq IdentifierRow
      BY <2>1, <3>2 DEF IdentifierRow
    <3> QED
      BY <3>1, <3>3 DEF TypeOK
  <2>3. /\ wPerson' \in [Tx -> [Person -> PersonRow \cup {NoWrite}]]
        /\ wRow' \in [Tx -> [Person -> RecordRow \cup {NoWrite}]]
        /\ pc' \in [Tx -> Steps]
    BY <1>4 DEF ResolvePersons, Go, Steps, Resolved, PersonRow, RecordRow
  <2> QED
    BY <1>4, <2>1, <2>2, <2>3 DEF ResolvePersons, store, work, merging
<1>17. ASSUME NEW t \in Tx, UpsertIdentifiers(t) PROVE TypeOK'
  <2>1. wIdent' \in [Tx -> [inserted : SUBSET IdentifierRow, deleted : SUBSET IdentifierRow]]
    <3>1. /\ {} \in SUBSET IdentifierRow /\ due[t] \ IdentSeen(t) \in SUBSET IdentifierRow
          /\ WriteIdents(t, {}, due[t] \ IdentSeen(t))
      BY <1>17 DEF UpsertIdentifiers
    <3> HIDE DEF TypeOK
    <3> QED
      BY <3>1, IdentsTyped
  <2> QED
    BY <1>17, <2>1 DEF UpsertIdentifiers, Go, store, work, merging, Steps
<1>5. ASSUME NEW t \in Tx, Publish(t) PROVE TypeOK'
  BY <1>5 DEF Publish, Go, store, plan, work, merging, Steps, RowSeen, RecordRow
<1>6. ASSUME NEW t \in Tx, Block(t) PROVE TypeOK'
  BY <1>6 DEF Block, Go, store, writes, plan, merging, Steps, CandidatePairs
<1>7. ASSUME NEW t \in Tx, EvaluatePairs(t) PROVE TypeOK'
  <2>1. \A p \in Pair : Outcome(t, p).decision \in Decisions
    BY EvaluateDecides DEF Outcome
  <2> QED
    BY <1>7, <2>1 DEF EvaluatePairs, Go, store, writes, plan, merging, Steps
<1>8. ASSUME NEW t \in Tx, UpsertCandidates(t) PROVE TypeOK'
  BY <1>8
  DEF UpsertCandidates, Go, store, plan, merging, Steps, Upserted, SystemCandidate, CandSeen,
      Candidate
<1>9. ASSUME NEW t \in Tx, NextMatched(t) PROVE TypeOK'
  <2>1. PICK pair \in todo[t], left \in Person, right \in Person :
           \/ Advance(t, pair) /\ UNCHANGED merging
           \/ StartMerge(t, pair, KeepAndDrop(left, right)) /\ UNCHANGED todo
    BY <1>9 DEF NextMatched
  <2>2. pc' \in [Tx -> Steps] /\ todo' \in [Tx -> SUBSET Pair]
    BY <2>1, AdvanceTyped DEF StartMerge, Go, Steps
  <2>3. /\ current' \in [Tx -> Pair \cup {None}]
        /\ keep' \in [Tx -> Person \cup {None}]
        /\ drop' \in [Tx -> Person \cup {None}]
    <3>1. CASE UNCHANGED merging
      BY <3>1 DEF merging
    <3>2. CASE StartMerge(t, pair, KeepAndDrop(left, right))
      BY <2>1, <3>2, KeptBeforeDropped DEF StartMerge
    <3> QED
      BY <2>1, <3>1, <3>2
  <2> QED
    BY <1>9, <2>2, <2>3 DEF NextMatched, store, writes, plan
<1>10. ASSUME NEW t \in Tx, CheckMerge(t) PROVE TypeOK'
  <2>1. pc' \in [Tx -> Steps] /\ todo' \in [Tx -> SUBSET Pair]
    <3>1. CASE Advance(t, current[t])
      BY <3>1, AdvanceTyped
    <3>2. CASE Go(t, "move") /\ UNCHANGED todo
      BY <3>2 DEF Go, Steps
    <3> QED
      BY <1>10, <3>1, <3>2 DEF CheckMerge
  <2> QED
    BY <1>10, <2>1 DEF CheckMerge, store, writes, plan, merging
<1>11. ASSUME NEW t \in Tx, MoveRows(t) PROVE TypeOK'
  <2>1. wIdent' \in [Tx -> [inserted : SUBSET IdentifierRow, deleted : SUBSET IdentifierRow]]
    <3>1. keep[t] \in Person
      BY <1>11, PairParts DEF MoveRows, MergeTargets, MergeTarget, Underway
    <3> HIDE DEF TypeOK
    <3>2. IdentSeen(t) \in SUBSET IdentifierRow
      BY IdentsTyped
    <3>3. /\ MovedIdents(t) \in SUBSET IdentifierRow
          /\ TakenIdents(t) \in SUBSET IdentifierRow
      BY <3>1, <3>2 DEF MovedIdents, TakenIdents, IdentifierRow
    <3>4. TakenIdents(t) \ IdentSeen(t) \in SUBSET IdentifierRow
      BY <3>3
    <3> QED
      BY <1>11, <3>3, <3>4, IdentsTyped DEF MoveRows
  <2>2. /\ wRow' \in [Tx -> [Person -> RecordRow \cup {NoWrite}]]
        /\ pc' \in [Tx -> Steps]
    <3>1. keep[t] \in Person
      BY <1>11, PairParts DEF MoveRows, MergeTargets, MergeTarget, Underway
    <3> QED
      BY <1>11, <3>1 DEF MoveRows, Go, Steps, Repoint, RowSeen, RecordRow
  <2> QED
    BY <1>11, <2>1, <2>2 DEF MoveRows, store, plan, work, merging
<1>12. ASSUME NEW t \in Tx, MarkMerged(t) PROVE TypeOK'
  <2>1. keep[t] \in Person /\ drop[t] \in Person /\ << keep[t], drop[t] >> \in Pair
    BY <1>12, PairParts DEF MarkMerged, MergeTargets, MergeTarget, Underway
  <2>2. /\ wPerson' \in [Tx -> [Person -> PersonRow \cup {NoWrite}]]
        /\ wAudit' \in [Tx -> SUBSET AuditRow]
    <3>1. /\ [state |-> "merged", into |-> keep[t]] \in PersonRow
          /\ [state |-> "resolved", into |-> PersonSeen(t, keep[t]).into] \in PersonRow
      BY <2>1 DEF PersonSeen, PersonRow
    <3>2. MergeAudit(t) \subseteq AuditRow
      BY <2>1 DEF MergeAudit, AuditRow
    <3> QED
      BY <1>12, <3>1, <3>2 DEF MarkMerged
  <2>3. pc' \in [Tx -> Steps] /\ todo' \in [Tx -> SUBSET Pair]
    BY <1>12, AdvanceTyped DEF MarkMerged, Go, Steps
  <2> QED
    BY <1>12, <2>2, <2>3 DEF MarkMerged, store, plan, merging
<1>13. ASSUME NEW t \in Tx, DecideCandidate(t) PROVE TypeOK'
  <2>1. current[t] \in Pair
    BY <1>13 DEF DecideCandidate, MergeTargets, MergeTarget
  <2> QED
    BY <1>13, <2>1
    DEF DecideCandidate, RejectionAudit, Go, store, plan, work, merging, Steps, Candidate, AuditRow
<1>14. ASSUME NEW t \in Tx, Commit(t) PROVE TypeOK'
  BY <1>14
  DEF Commit, Forget, Go, Steps, Kinds, Decisions, PersonSeen, RowSeen, CandSeen, IdentSeen, NoRows
<1>15. ASSUME NEW t \in Tx, FailReview(t) \/ Crash(t) \/ AbortDeadlocked(t) PROVE TypeOK'
  <2>1. Forget(t) /\ UNCHANGED store
    BY <1>15 DEF FailReview, Crash, AbortDeadlocked
  <2> QED
    BY <2>1 DEF Forget, Go, store, Steps, Kinds, Decisions, NoRows
<1>16. CASE UNCHANGED vars
  BY <1>16 DEF vars, store, writes, plan, work, merging
<1> QED
  BY <1>1, <1>2, <1>3, <1>4, <1>5, <1>6, <1>7, <1>8, <1>9, <1>10, <1>11, <1>12, <1>13,
     <1>14, <1>15, <1>16, <1>17 DEF Next, Step

\* A step moves only its own transaction.
LEMMA StepIsLocal ==
    ASSUME TypeOK, NEW t \in Tx, NEW u \in Tx \ {t},
           \/ BeginIngest(t) \/ BeginRerun(t) \/ BeginReview(t)
           \/ Step(t) \/ Crash(t) \/ AbortDeadlocked(t)
    PROVE  UNCHANGED << wPerson[u], wRow[u], wCand[u], wAudit[u], pc[u], kind[u], choice[u],
                        current[u], keep[u], drop[u] >>
<1> USE DEF TypeOK
<1>1. CASE BeginIngest(t) \/ BeginRerun(t) \/ BeginReview(t)
  BY <1>1 DEF BeginIngest, BeginRerun, BeginReview, Begin, Go, store, writes, work, merging
<1>2. CASE ResolvePersons(t) \/ UpsertIdentifiers(t) \/ Publish(t) \/ Block(t)
  BY <1>2 DEF ResolvePersons, UpsertIdentifiers, Publish, Block, Go, store, writes, plan, work, merging
<1>3. CASE EvaluatePairs(t) \/ UpsertCandidates(t) \/ MoveRows(t)
  BY <1>3 DEF EvaluatePairs, UpsertCandidates, MoveRows, Go, store, writes, plan, work, merging
<1>4. CASE NextMatched(t)
  BY <1>4 DEF NextMatched, Advance, StartMerge, Go, store, writes, plan, merging
<1>5. CASE CheckMerge(t)
  BY <1>5 DEF CheckMerge, Advance, Go, store, writes, plan, merging
<1>6. CASE MarkMerged(t)
  BY <1>6 DEF MarkMerged, Advance, Go, store, plan, merging
<1>7. CASE DecideCandidate(t)
  BY <1>7 DEF DecideCandidate, Go, store, plan, work, merging
<1>8. CASE Forget(t)
  BY <1>8, ForgetClears DEF Forget
<1> QED
  BY <1>1, <1>2, <1>3, <1>4, <1>5, <1>6, <1>7, <1>8
  DEF Step, Commit, FailReview, Crash, AbortDeadlocked

\* Where the merges in progress stand: a merge works on an ordered pair of persons, and a
\* reviewer's match is audited before the candidate is decided.
LEMMA TargetsStep ==
    ASSUME TypeOK, MergeTargets, [Next]_vars
    PROVE  MergeTargets'
<1> USE DEF TypeOK
<1>1. ASSUME NEW t \in Tx, NEW u \in Tx \ {t},
             \/ BeginIngest(t) \/ BeginRerun(t) \/ BeginReview(t)
             \/ Step(t) \/ Crash(t) \/ AbortDeadlocked(t)
      PROVE  MergeTarget(u)'
  <2>1. UNCHANGED << wAudit[u], pc[u], kind[u], choice[u], current[u], keep[u], drop[u] >>
    BY <1>1, StepIsLocal
  <2>2. MergeTarget(u)
    BY DEF MergeTargets
  <2> QED
    BY <2>1, <2>2 DEF MergeTarget, Underway
<1>2. ASSUME NEW t \in Tx,
             \/ BeginIngest(t) \/ BeginRerun(t) \/ BeginReview(t)
             \/ Step(t) \/ Crash(t) \/ AbortDeadlocked(t)
      PROVE  MergeTarget(t)'
  <2>0. MergeTarget(t)
    BY DEF MergeTargets
  <2>1. CASE BeginIngest(t) \/ BeginRerun(t)
    BY <2>1 DEF BeginIngest, BeginRerun, Begin, Go, MergeTarget, Underway
  <2>2. CASE BeginReview(t)
    <3>1. PICK pair \in Pair, decision \in {"matched", "rejected"} :
             /\ current' = [current EXCEPT ![t] = pair]
             /\ keep' = [keep EXCEPT ![t] = pair[1]]
             /\ drop' = [drop EXCEPT ![t] = pair[2]]
             /\ choice' = [choice EXCEPT ![t] = decision]
             /\ Go(t, IF decision = "matched" THEN "check" ELSE "decide")
      BY <2>2 DEF BeginReview
    <3>2. << pair[1], pair[2] >> = pair
      BY PairParts
    <3> QED
      BY <3>1, <3>2 DEF Go, MergeTarget, Underway
  <2>3. CASE ResolvePersons(t) \/ UpsertIdentifiers(t) \/ Publish(t)
    BY <2>0, <2>3 DEF ResolvePersons, UpsertIdentifiers, Publish, Go, plan, MergeTarget, Underway
  <2>4. CASE Block(t) \/ EvaluatePairs(t) \/ UpsertCandidates(t)
    BY <2>0, <2>4 DEF Block, EvaluatePairs, UpsertCandidates, Go, plan, MergeTarget, Underway
  <2>5. CASE NextMatched(t)
    <3>1. kind[t] # "review" /\ kind' = kind /\ pc[t] = "next"
      BY <2>0, <2>5 DEF NextMatched, plan, MergeTarget
    <3>2. PICK pair \in todo[t], left \in Person, right \in Person :
             \/ Advance(t, pair)
             \/ left # right /\ StartMerge(t, pair, KeepAndDrop(left, right))
      BY <2>5 DEF NextMatched
    <3>3. CASE Advance(t, pair)
      BY <3>1, <3>3 DEF Advance, Go, MergeTarget, Underway
    <3>4. CASE left # right /\ StartMerge(t, pair, KeepAndDrop(left, right))
      <4>1. pc'[t] = "check" /\ current'[t] = pair /\ pair \in Pair
        BY <3>4 DEF StartMerge, Go
      <4>2. << keep'[t], drop'[t] >> \in Pair
        BY <3>4, KeptBeforeDropped DEF StartMerge
      <4> QED
        BY <3>1, <4>1, <4>2 DEF MergeTarget, Underway
    <3> QED
      BY <3>2, <3>3, <3>4
  <2>6. CASE CheckMerge(t)
    BY <2>0, <2>6 DEF CheckMerge, Advance, Go, plan, merging, writes, MergeTarget, Underway
  <2>7. CASE MoveRows(t)
    BY <2>0, <2>7 DEF MoveRows, Go, plan, merging, MergeTarget, Underway
  <2>8. CASE MarkMerged(t)
    <3>1. /\ UNCHANGED << kind[t], choice[t], current[t], keep[t], drop[t] >>
          /\ kind[t] = "review" => /\ pc'[t] = "decide"
                                   /\ current[t] = << keep[t], drop[t] >> /\ current[t] \in Pair
          /\ kind[t] # "review" => pc'[t] \in {"next", "commit"}
      BY <2>0, <2>8 DEF MarkMerged, Advance, Go, plan, merging, MergeTarget, Underway
    <3>2. kind[t] = "review" =>
             [action |-> "er.decide", what |-> << keep[t], drop[t] >>] \in wAudit'[t]
      BY <2>8 DEF MarkMerged, MergeAudit
    <3> QED
      BY <3>1, <3>2 DEF MergeTarget, Underway
  <2>9. CASE DecideCandidate(t) \/ Forget(t)
    BY <2>9, ForgetClears DEF DecideCandidate, Go, MergeTarget, Underway
  <2> QED
    BY <1>2, <2>1, <2>2, <2>3, <2>4, <2>5, <2>6, <2>7, <2>8, <2>9
    DEF Step, Commit, FailReview, Crash, AbortDeadlocked
<1>3. CASE UNCHANGED vars
  BY <1>3 DEF vars, writes, plan, merging, MergeTargets, MergeTarget, Underway
<1> QED
  BY <1>1, <1>2, <1>3 DEF Next, MergeTargets

\* What a step does to the persons: a transaction creates them unmerged or points the dropped
\* one of an ordered pair at the other; only a commit changes the committed rows.
LEMMA PersonsStep ==
    ASSUME TypeOK, MergeTargets, PointersDescend, WritesDescend, [Next]_vars
    PROVE  PointersDescend' /\ WritesDescend'
<1> USE DEF TypeOK
<1>0. ASSUME NEW t \in Tx, Forget(t) PROVE WritesDescend'
  <2>1. ASSUME NEW u \in Tx, NEW p \in Person
        PROVE  wPerson'[u][p] = NoWrite \/ wPerson'[u][p] = wPerson[u][p]
    BY <1>0, ForgetClears
  <2> QED
    BY <2>1 DEF WritesDescend
<1>1. ASSUME NEW t \in Tx, ResolvePersons(t) PROVE PointersDescend' /\ WritesDescend'
  BY <1>1 DEF ResolvePersons, store, PointersDescend, WritesDescend, Resolved
<1>2. ASSUME NEW t \in Tx, MarkMerged(t) PROVE PointersDescend' /\ WritesDescend'
  <2>1. /\ keep[t] \in Person /\ drop[t] \in Person /\ keep[t] < drop[t]
    BY <1>2, PairParts DEF MarkMerged, MergeTargets, MergeTarget, Underway
  <2>2. PersonSeen(t, keep[t]).into # None => PersonSeen(t, keep[t]).into < keep[t]
    BY <2>1 DEF PersonSeen, PointersDescend, WritesDescend
  <2>3. wPerson' = [wPerson EXCEPT ![t] =
                      [wPerson[t] EXCEPT ![drop[t]] = [state |-> "merged", into |-> keep[t]],
                                         ![keep[t]] = [state |-> "resolved",
                                                       into |-> PersonSeen(t, keep[t]).into]]]
    BY <1>2 DEF MarkMerged
  <2>4. ASSUME NEW u \in Tx, NEW p \in Person,
               wPerson'[u][p] # NoWrite, wPerson'[u][p].into # None
        PROVE  wPerson'[u][p].into < p
    BY <2>1, <2>2, <2>3, <2>4 DEF WritesDescend
  <2>5. person' = person
    BY <1>2 DEF MarkMerged, store
  <2> QED
    BY <2>4, <2>5 DEF PointersDescend, WritesDescend
<1>3. ASSUME NEW t \in Tx, Commit(t) PROVE PointersDescend' /\ WritesDescend'
  <2>1. WritesDescend'
    BY <1>0, <1>3 DEF Commit
  <2>2. PointersDescend'
    BY <1>3 DEF Commit, PersonSeen, PointersDescend, WritesDescend
  <2> QED
    BY <2>1, <2>2
<1>4. ASSUME NEW t \in Tx, FailReview(t) \/ Crash(t) \/ AbortDeadlocked(t)
      PROVE  PointersDescend' /\ WritesDescend'
  BY <1>0, <1>4 DEF FailReview, Crash, AbortDeadlocked, store, PointersDescend
<1>5. CASE UNCHANGED << person, wPerson >>
  BY <1>5 DEF PointersDescend, WritesDescend
<1> QED
  BY <1>1, <1>2, <1>3, <1>4, <1>5
  DEF Next, Step, vars, store, writes, BeginIngest, BeginRerun, BeginReview, UpsertIdentifiers,
      Publish, Block, EvaluatePairs, UpsertCandidates, NextMatched, CheckMerge, MoveRows, DecideCandidate

\* Merges and their audit rows: a transaction writes both together, and they commit together.
LEMMA MergeAuditStep ==
    ASSUME TypeOK, MergeTargets, MergesAudited, WritesAudited, [Next]_vars
    PROVE  MergesAudited' /\ WritesAudited'
<1> USE DEF TypeOK
<1>0. ASSUME NEW t \in Tx, Forget(t), audit \subseteq audit' PROVE WritesAudited'
  <2>1. ASSUME NEW u \in Tx, NEW p \in Person
        PROVE  \/ wPerson'[u][p] = NoWrite
               \/ wPerson'[u][p] = wPerson[u][p] /\ wAudit'[u] = wAudit[u]
    BY <1>0, ForgetClears
  <2>2. ASSUME NEW u \in Tx, NEW p \in Person,
               wPerson'[u][p] # NoWrite, wPerson'[u][p].into # None
        PROVE  \E a \in audit' \cup wAudit'[u] : a.what = << wPerson'[u][p].into, p >>
    <3>1. wPerson'[u][p] = wPerson[u][p] /\ wAudit'[u] = wAudit[u]
      BY <2>1, <2>2
    <3>2. \E a \in audit \cup wAudit[u] : a.what = << wPerson[u][p].into, p >>
      BY <2>2, <3>1 DEF WritesAudited
    <3> QED
      BY <1>0, <3>1, <3>2
  <2> QED
    BY <2>2 DEF WritesAudited
<1>1. ASSUME NEW t \in Tx, ResolvePersons(t) PROVE MergesAudited' /\ WritesAudited'
  <2>0. /\ UNCHANGED << person, audit, wAudit >>
        /\ \E new : wPerson' = [wPerson EXCEPT ![t] =
                       [p \in Person |-> IF p \in new THEN Resolved ELSE wPerson[t][p]]]
    BY <1>1, Zenon DEF ResolvePersons, store
  <2>1. /\ \A u \in Tx \ {t} : wPerson'[u] = wPerson[u]
        /\ \A p \in Person : wPerson'[t][p] = Resolved \/ wPerson'[t][p] = wPerson[t][p]
    BY <2>0
  <2>2. ASSUME NEW u \in Tx, NEW p \in Person
        PROVE  wPerson'[u][p] = wPerson[u][p] \/ wPerson'[u][p].into = None
    <3>1. CASE u = t
      <4>1. wPerson'[t][p] = Resolved \/ wPerson'[t][p] = wPerson[t][p]
        BY <2>1
      <4> QED
        BY <3>1, <4>1 DEF Resolved
    <3>2. CASE u # t
      BY <2>1, <3>2
    <3> QED
      BY <3>1, <3>2
  <2>3. MergesAudited'
    BY <2>0 DEF MergesAudited
  <2>4. ASSUME NEW u \in Tx, NEW p \in Person,
               wPerson'[u][p] # NoWrite, wPerson'[u][p].into # None
        PROVE  \E a \in audit' \cup wAudit'[u] : a.what = << wPerson'[u][p].into, p >>
    <3>1. wPerson'[u][p] = wPerson[u][p]
      BY <2>2, <2>4
    <3>2. \E a \in audit \cup wAudit[u] : a.what = << wPerson[u][p].into, p >>
      BY <2>4, <3>1 DEF WritesAudited
    <3> QED
      BY <2>0, <3>1, <3>2
  <2> QED
    BY <2>3, <2>4 DEF WritesAudited
<1>2. ASSUME NEW t \in Tx, MarkMerged(t) PROVE MergesAudited' /\ WritesAudited'
  <2>1. keep[t] \in Person /\ drop[t] \in Person /\ keep[t] < drop[t]
    BY <1>2, PairParts DEF MarkMerged, MergeTargets, MergeTarget, Underway
  <2>2. UNCHANGED << person, audit >>
    BY <1>2 DEF MarkMerged, store
  <2>3. wPerson' = [wPerson EXCEPT ![t] =
                      [wPerson[t] EXCEPT ![drop[t]] = [state |-> "merged", into |-> keep[t]],
                                         ![keep[t]] = [state |-> "resolved",
                                                       into |-> PersonSeen(t, keep[t]).into]]]
    BY <1>2 DEF MarkMerged
  <2>4. /\ \A u \in Tx \ {t} : wAudit'[u] = wAudit[u]
        /\ wAudit[t] \subseteq wAudit'[t]
        /\ \E a \in wAudit'[t] : a.what = << keep[t], drop[t] >>
    <3>1. wAudit' = [wAudit EXCEPT ![t] = wAudit[t] \cup MergeAudit(t)]
      BY <1>2 DEF MarkMerged
    <3>2. \E a \in MergeAudit(t) : a.what = << keep[t], drop[t] >>
      BY DEF MergeAudit
    <3> QED
      BY <3>1, <3>2
  <2>5. ASSUME NEW u \in Tx, NEW p \in Person,
               wPerson'[u][p] # NoWrite, wPerson'[u][p].into # None
        PROVE  \E a \in audit' \cup wAudit'[u] : a.what = << wPerson'[u][p].into, p >>
    <3>1. CASE u = t /\ p = drop[t]
      <4>1. wPerson'[u][p].into = keep[t]
        BY <2>1, <2>3, <3>1
      <4> QED
        BY <2>4, <3>1, <4>1
    <3>2. CASE u = t /\ p = keep[t]
      <4>1. wPerson'[u][p].into = PersonSeen(t, p).into
        BY <2>1, <2>3, <3>2
      <4>2. \E a \in audit \cup wAudit[t] : a.what = << PersonSeen(t, p).into, p >>
        BY <2>5, <4>1 DEF PersonSeen, MergesAudited, WritesAudited
      <4> QED
        BY <2>2, <2>4, <3>2, <4>1, <4>2
    <3>3. CASE u # t \/ p \notin {keep[t], drop[t]}
      <4>1. wPerson'[u][p] = wPerson[u][p]
        BY <2>1, <2>3, <3>3
      <4>2. \E a \in audit \cup wAudit[u] : a.what = << wPerson[u][p].into, p >>
        BY <2>5, <4>1 DEF WritesAudited
      <4> QED
        BY <2>2, <2>4, <4>1, <4>2
    <3> QED
      BY <3>1, <3>2, <3>3
  <2> QED
    BY <2>2, <2>5 DEF MergesAudited, WritesAudited
<1>3. ASSUME NEW t \in Tx, Commit(t) PROVE MergesAudited' /\ WritesAudited'
  <2>1. WritesAudited'
    BY <1>0, <1>3 DEF Commit
  <2>2. ASSUME NEW p \in Person, person'[p].into # None
        PROVE  \E a \in audit' : a.what = << person'[p].into, p >>
    <3>1. person'[p] = PersonSeen(t, p) /\ audit' = audit \cup wAudit[t]
      BY <1>3 DEF Commit
    <3> QED
      BY <2>2, <3>1 DEF PersonSeen, MergesAudited, WritesAudited
  <2> QED
    BY <2>1, <2>2 DEF MergesAudited
<1>4. ASSUME NEW t \in Tx, FailReview(t) \/ Crash(t) \/ AbortDeadlocked(t)
      PROVE  MergesAudited' /\ WritesAudited'
  BY <1>0, <1>4 DEF FailReview, Crash, AbortDeadlocked, store, MergesAudited
<1>5. ASSUME NEW t \in Tx, DecideCandidate(t) PROVE MergesAudited' /\ WritesAudited'
  <2>1. /\ UNCHANGED << person, audit, wPerson >>
        /\ \A u \in Tx : wAudit[u] \subseteq wAudit'[u]
    BY <1>5 DEF DecideCandidate, store
  <2> QED
    BY <2>1 DEF MergesAudited, WritesAudited
<1>6. CASE UNCHANGED << person, audit, wPerson, wAudit >>
  BY <1>6 DEF MergesAudited, WritesAudited
<1> QED
  BY <1>1, <1>2, <1>3, <1>4, <1>5, <1>6
  DEF Next, Step, vars, store, writes, BeginIngest, BeginRerun, BeginReview, UpsertIdentifiers,
      Publish, Block, EvaluatePairs, UpsertCandidates, NextMatched, CheckMerge, MoveRows

\* A candidate row is written by one transaction at a time, and never a reviewer's decision by
\* the system.
LEMMA CandidatesStep ==
    ASSUME TypeOK, MergeTargets, DecisionsAudited, CandidateWrites, [Next]_vars
    PROVE  DecisionsAudited' /\ CandidateWrites'
<1> USE DEF TypeOK
<1>0. ASSUME NEW t \in Tx, Forget(t), audit \subseteq audit',
             \A p \in Pair : cand'[p] # cand[p] => wCand[t][p] # NoWrite
      PROVE  CandidateWrites'
  <2>1. ASSUME NEW u \in Tx, NEW p \in Pair
        PROVE  \/ wCand'[u][p] = NoWrite
               \/ u # t /\ wCand'[u][p] = wCand[u][p] /\ wAudit'[u] = wAudit[u]
    BY <1>0, ForgetClears
  <2>2. ASSUME NEW u \in Tx, NEW p \in Pair, wCand'[u][p] # NoWrite
        PROVE  /\ \A v \in Tx \ {u} : wCand'[v][p] = NoWrite
               /\ cand'[p] # None /\ HumanDecided(cand'[p]) => HumanDecided(wCand'[u][p])
               /\ HumanDecided(wCand'[u][p]) =>
                     [action |-> "er.decide", what |-> p] \in audit' \cup wAudit'[u]
    <3>1. u # t /\ wCand'[u][p] = wCand[u][p] /\ wAudit'[u] = wAudit[u]
      BY <2>1, <2>2
    <3>2. \A v \in Tx \ {u} : wCand[v][p] = NoWrite
      BY <2>2, <3>1 DEF CandidateWrites
    <3>3. \A v \in Tx \ {u} : wCand'[v][p] = NoWrite
      BY <2>1, <3>2
    <3>4. cand'[p] = cand[p]
      BY <1>0, <3>1, <3>2
    <3>5. /\ cand[p] # None /\ HumanDecided(cand[p]) => HumanDecided(wCand[u][p])
          /\ HumanDecided(wCand[u][p]) =>
                [action |-> "er.decide", what |-> p] \in audit \cup wAudit[u]
      BY <2>2, <3>1 DEF CandidateWrites
    <3> QED
      BY <1>0, <3>1, <3>3, <3>4, <3>5
  <2> QED
    BY <2>2 DEF CandidateWrites
<1>1. ASSUME NEW t \in Tx, UpsertCandidates(t) PROVE DecisionsAudited' /\ CandidateWrites'
  <2> DEFINE stored == {p \in Pair : verdict[t][p] # None}
  <2>1. /\ UNCHANGED << cand, audit, wAudit >>
        /\ \A p \in stored : ~CandLocked(t, p)
        /\ wCand' = [wCand EXCEPT ![t] =
                        [p \in Pair |-> IF p \in stored
                                        THEN Upserted(CandSeen(t, p), verdict[t][p])
                                        ELSE wCand[t][p]]]
    BY <1>1 DEF UpsertCandidates, store
  <2>2. ASSUME NEW p \in Pair, p \in stored
        PROVE  /\ CandSeen(t, p) # None /\ HumanDecided(CandSeen(t, p))
                     => wCand'[t][p] = CandSeen(t, p)
               /\ HumanDecided(wCand'[t][p])
                     => CandSeen(t, p) # None /\ wCand'[t][p] = CandSeen(t, p)
    BY <2>1, <2>2, SentinelAssumption DEF Upserted, SystemCandidate, HumanDecided
  <2>3. ASSUME NEW u \in Tx, NEW p \in Pair, wCand'[u][p] # NoWrite
        PROVE  /\ \A v \in Tx \ {u} : wCand'[v][p] = NoWrite
               /\ cand[p] # None /\ HumanDecided(cand[p]) => HumanDecided(wCand'[u][p])
               /\ HumanDecided(wCand'[u][p]) =>
                     [action |-> "er.decide", what |-> p] \in audit \cup wAudit[u]
    <3>1. CASE u = t /\ p \in stored
      <4>1. \A v \in Tx \ {u} : wCand'[v][p] = NoWrite
        BY <2>1, <3>1 DEF CandLocked
      <4>2. cand[p] # None /\ HumanDecided(cand[p]) => HumanDecided(wCand'[t][p])
        <5>1. wCand[t][p] \in Candidate \cup {NoWrite}
          OBVIOUS
        <5>2. CASE wCand[t][p] = NoWrite
          BY <2>2, <3>1, <5>2 DEF CandSeen
        <5>3. CASE wCand[t][p] # NoWrite
          BY <2>2, <3>1, <5>1, <5>3, RowAssumption DEF CandSeen, CandidateWrites
        <5> QED
          BY <5>2, <5>3
      <4>3. HumanDecided(wCand'[t][p]) =>
               [action |-> "er.decide", what |-> p] \in audit \cup wAudit[t]
        BY <2>2, <3>1 DEF CandSeen, CandidateWrites, DecisionsAudited
      <4> QED
        BY <3>1, <4>1, <4>2, <4>3
    <3>2. CASE u # t /\ p \in stored
      <4>1. wCand'[u][p] = wCand[u][p]
        BY <2>1, <3>2
      <4> QED
        BY <2>1, <2>3, <3>2, <4>1 DEF CandLocked
    <3>3. CASE p \notin stored
      <4>1. \A v \in Tx : wCand'[v][p] = wCand[v][p]
        BY <2>1, <3>3
      <4> QED
        BY <2>3, <4>1 DEF CandidateWrites
    <3> QED
      BY <3>1, <3>2, <3>3
  <2> QED
    BY <2>1, <2>3 DEF DecisionsAudited, CandidateWrites
<1>2. ASSUME NEW t \in Tx, DecideCandidate(t) PROVE DecisionsAudited' /\ CandidateWrites'
  <2>1. /\ current[t] \in Pair
        /\ choice[t] = "matched" => [action |-> "er.decide", what |-> current[t]] \in wAudit[t]
    BY <1>2 DEF DecideCandidate, MergeTargets, MergeTarget
  <2>2. /\ UNCHANGED << cand, audit >>
        /\ ~CandLocked(t, current[t])
        /\ wCand' = [wCand EXCEPT ![t] =
                        [wCand[t] EXCEPT ![current[t]] = [decision |-> choice[t], by |-> t]]]
        /\ \A u \in Tx : wAudit[u] \subseteq wAudit'[u]
    BY <1>2 DEF DecideCandidate, store
  <2>3. [action |-> "er.decide", what |-> current[t]] \in wAudit'[t]
    BY <1>2, <2>1 DEF DecideCandidate, RejectionAudit
  <2>4. ASSUME NEW u \in Tx, NEW p \in Pair, wCand'[u][p] # NoWrite
        PROVE  /\ \A v \in Tx \ {u} : wCand'[v][p] = NoWrite
               /\ cand[p] # None /\ HumanDecided(cand[p]) => HumanDecided(wCand'[u][p])
               /\ HumanDecided(wCand'[u][p]) =>
                     [action |-> "er.decide", what |-> p] \in audit \cup wAudit'[u]
    <3>1. CASE u = t /\ p = current[t]
      <4>1. HumanDecided(wCand'[u][p])
        BY <2>1, <2>2, <3>1 DEF HumanDecided
      <4>2. \A v \in Tx \ {u} : wCand'[v][p] = NoWrite
        BY <2>1, <2>2, <3>1 DEF CandLocked
      <4> QED
        BY <2>3, <3>1, <4>1, <4>2
    <3>2. CASE u # t /\ p = current[t]
      <4>1. wCand'[u][p] = wCand[u][p]
        BY <2>2, <3>2
      <4> QED
        BY <2>2, <2>4, <3>2, <4>1 DEF CandLocked
    <3>3. CASE p # current[t]
      <4>1. \A v \in Tx : wCand'[v][p] = wCand[v][p]
        BY <2>1, <2>2, <3>3
      <4> QED
        BY <2>2, <2>4, <4>1 DEF CandidateWrites
    <3> QED
      BY <3>1, <3>2, <3>3
  <2> QED
    BY <2>2, <2>4 DEF DecisionsAudited, CandidateWrites
<1>3. ASSUME NEW t \in Tx, Commit(t) PROVE DecisionsAudited' /\ CandidateWrites'
  <2>1. /\ audit' = audit \cup wAudit[t]
        /\ Forget(t)
        /\ \A p \in Pair : cand'[p] = CandSeen(t, p)
    BY <1>3 DEF Commit
  <2>2. CandidateWrites'
    BY <1>0, <2>1 DEF CandSeen
  <2>3. ASSUME NEW p \in Pair, cand'[p] # None, HumanDecided(cand'[p])
        PROVE  [action |-> "er.decide", what |-> p] \in audit'
    BY <2>1, <2>3 DEF CandSeen, DecisionsAudited, CandidateWrites
  <2> QED
    BY <2>2, <2>3 DEF DecisionsAudited
<1>4. ASSUME NEW t \in Tx, FailReview(t) \/ Crash(t) \/ AbortDeadlocked(t)
      PROVE  DecisionsAudited' /\ CandidateWrites'
  BY <1>0, <1>4 DEF FailReview, Crash, AbortDeadlocked, store, DecisionsAudited
<1>5. ASSUME NEW t \in Tx, MarkMerged(t) PROVE DecisionsAudited' /\ CandidateWrites'
  <2>1. /\ UNCHANGED << cand, audit, wCand >>
        /\ \A u \in Tx : wAudit[u] \subseteq wAudit'[u]
    BY <1>5 DEF MarkMerged, store
  <2> QED
    BY <2>1 DEF DecisionsAudited, CandidateWrites
<1>6. CASE UNCHANGED << cand, audit, wCand, wAudit >>
  BY <1>6 DEF DecisionsAudited, CandidateWrites
<1> QED
  BY <1>1, <1>2, <1>3, <1>4, <1>5, <1>6
  DEF Next, Step, vars, store, writes, BeginIngest, BeginRerun, BeginReview, ResolvePersons,
      UpsertIdentifiers, Publish, Block, EvaluatePairs, NextMatched, CheckMerge, MoveRows
-----------------------------------------------------------------------------
(* The inductive invariant and what follows from it.                       *)

\* The running transactions are where the code says they can be, and nothing they are about
\* to commit can break what is committed.
THEOREM IndInvariant == Spec => []IndInv
<1>1. Init => IndInv
  <2> SUFFICES ASSUME Init PROVE IndInv
    OBVIOUS
  <2>1. TypeOK
    BY SentinelAssumption, BoundAssumption
    DEF Init, TypeOK, PersonRow, RecordRow, Absent, Steps, Kinds, Decisions, NoRows
  <2>2. MergeTargets
    BY DEF Init, MergeTargets, MergeTarget, Underway
  <2>3. PointersDescend /\ MergesAudited /\ DecisionsAudited
    BY DEF Init, Absent, PointersDescend, MergesAudited, DecisionsAudited
  <2>4. WritesDescend /\ WritesAudited /\ CandidateWrites
    BY DEF Init, WritesDescend, WritesAudited, CandidateWrites
  <2> QED
    BY <2>1, <2>2, <2>3, <2>4 DEF IndInv
<1>2. IndInv /\ [Next]_vars => IndInv'
  BY TypeStep, TargetsStep, PersonsStep, MergeAuditStep, CandidatesStep DEF IndInv
<1> QED
  BY <1>1, <1>2, PTL DEF Spec

\* No operation of any command leaves a row, a candidate or a transaction ill-formed.
THEOREM TypeCorrect == Spec => []TypeOK
<1>1. IndInv => TypeOK
  BY DEF IndInv
<1> QED
  BY <1>1, IndInvariant, PTL

\* Merge pointers always lead to earlier-created persons: chains end, whatever interleaves.
THEOREM ChainsEnd == Spec => []PointersDescend
<1>1. IndInv => PointersDescend
  BY DEF IndInv
<1> QED
  BY <1>1, IndInvariant, PTL

\* Every merge in force and every reviewer's decision in force has its audit row.
THEOREM NothingSilent == Spec => []Audited
<1>1. IndInv => Audited
  BY DEF IndInv, Audited
<1> QED
  BY <1>1, IndInvariant, PTL

\* The system never replaces a reviewer's decision: the upsert keeps a decided row, and the
\* row's lock keeps a decision from arriving between its read and its write.
THEOREM HumanDecisionsKept == Spec => SystemKeepsHumanDecisions
<1>1. IndInv /\ [Next]_vars =>
         [\A p \in Pair : cand[p] # None /\ HumanDecided(cand[p]) => HumanDecided(cand'[p])]_vars
  <2> SUFFICES ASSUME IndInv, Next, NEW p \in Pair, cand[p] # None, HumanDecided(cand[p])
               PROVE  HumanDecided(cand'[p])
    OBVIOUS
  <2>1. CASE UNCHANGED cand
    BY <2>1
  <2>2. ASSUME NEW t \in Tx, Commit(t) PROVE HumanDecided(cand'[p])
    BY <2>2 DEF Commit, CandSeen, IndInv, CandidateWrites
  <2> QED
    BY <2>1, <2>2
    DEF Next, Step, store, writes, BeginIngest, BeginRerun, BeginReview, ResolvePersons,
        UpsertIdentifiers, Publish, Block, EvaluatePairs, UpsertCandidates, NextMatched, CheckMerge, FailReview, MoveRows,
        MarkMerged, DecideCandidate, Crash, AbortDeadlocked
<1> QED
  BY <1>1, IndInvariant, PTL DEF Spec, SystemKeepsHumanDecisions
=============================================================================
