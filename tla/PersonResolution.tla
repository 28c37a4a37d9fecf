------------------------- MODULE PersonResolution -------------------------
(***************************************************************************)
(* Person entity resolution as concurrent database transactions            *)
(* (entity_resolution/pipeline.py, merge.py, queue.py, candidates.py).     *)
(*                                                                         *)
(* Three programs write persons, each in one PostgreSQL transaction at the *)
(* default READ COMMITTED isolation: an ingest run (resolve_persons,       *)
(* publish, resolve_candidates), "er run" (rerun) and "er review decide"   *)
(* (decide).  Every statement that reads or writes shared rows is a step.  *)
(* A transaction's own writes stay in an overlay until it commits; another *)
(* transaction's write of the same row waits for it, as row locks make it. *)
(*                                                                         *)
(* A participant record of a source and the person first created for it    *)
(* share one number: a stable identifier creates at most one person.       *)
(* Numbers are the order (created_at, id) merges keep the smaller of.      *)
(***************************************************************************)
EXTENDS ResolutionStages, FiniteSets

CONSTANTS
    Person,         \* participant records, and the persons created for them
    Tx,             \* database sessions (operator commands running at once)
    Source,         \* sources of records
    NoWrite,        \* a row the transaction has not written
    System,         \* decided_by of the stages (the label system:<model version>)
    MaxTx,          \* bound: transactions begun in a behaviour
    SourceOf,       \* record -> source
    Drafts,         \* record -> the drafts [name, dob] its source may publish of it: a name or a
                    \* date of birth (None: none given) may be corrected from one to the next
    Cases           \* record -> set of case references [id, court, number, cites]

ASSUME PersonAssumption == Person \subseteq Nat
ASSUME SentinelAssumption ==
    /\ None \notin Person
    /\ System \notin Tx
    /\ None \notin Tx \cup {System}
    /\ NoWrite # None
ASSUME BoundAssumption == MaxTx \in Nat
ASSUME DraftAssumption == \A r \in Person : Drafts[r] # {}

VARIABLES
    person,     \* committed person rows
    row,        \* committed rows of each record: its stable identifier and its party rows
    ident,      \* committed identifier rows of the other kinds, << person, hash >>
    cand,       \* committed candidate rows, one per ordered pair
    audit,      \* committed audit rows
    wPerson, wRow, wIdent, wCand, wAudit,   \* each transaction's uncommitted writes
    pc, kind,   \* where each transaction stands, and which program it runs
    batch,      \* ingest: the records it publishes;  rerun: the records of the sources it covers
    ids,        \* ingest: the person id each record was resolved to
    due,        \* ingest: the identifier rows it has still to insert
    pairs,      \* the pairs blocked
    verdict,    \* the outcomes to store
    todo,       \* matched pairs still to be merged
    current,    \* the pair being merged or decided
    choice,     \* review: the reviewer's decision
    keep, drop, \* the survivor and the person merged away
    begun       \* transactions begun so far

store == << person, row, ident, cand, audit >>
writes == << wPerson, wRow, wIdent, wCand, wAudit >>
plan == << kind, batch, ids, due, choice, begun >>
work == << pairs, verdict, todo >>
merging == << current, keep, drop >>
vars == << store, writes, pc, plan, work, merging >>

Pair == {p \in Person \X Person : p[1] < p[2]}
PersonRow == [state : {"absent", "resolved", "merged"}, into : Person \cup {None}]
RecordRow == [holder : Person \cup {None}, party : Person \cup {None}]

\* person_draft: the hashes of a draft beside its stable identifier.  Each is its kind and value.
FullName(d) == << "full_name", d.name, None >>
DateOfBirth(d) == << "date_of_birth", None, d.dob >>
NameDob(d) == << "name_dob", d.name, d.dob >>
Hashes(d) == {h \in {FullName(d), DateOfBirth(d), NameDob(d)} :
                 /\ h[1] # "date_of_birth" => d.name # None
                 /\ h[1] # "full_name" => d.dob # None}
Hash == UNION {UNION {Hashes(d) : d \in Drafts[r]} : r \in Person}
OfKind(type) == {h \in Hash : h[1] = type}
IdentifierRow == Person \X Hash
Candidate == [decision : Decisions, by : Tx \cup {System, None}]
ASSUME RowAssumption ==
    /\ None \notin Candidate \cup Decisions
    /\ NoWrite \notin Candidate \cup PersonRow \cup RecordRow
AuditRow == [action : {"er.merge", "er.decide"}, what : Pair]
Kinds == {"ingest", "rerun", "review"}
Steps == {"idle", "resolve", "identify", "publish", "block", "evaluate", "upsert", "next",
          "check", "move", "mark", "decide", "commit"}

Absent == [state |-> "absent", into |-> None]
Resolved == [state |-> "resolved", into |-> None]
HumanDecided(c) == c.by \in Tx

-----------------------------------------------------------------------------
(* What a transaction sees: the committed rows under its own writes.       *)

PersonSeen(t, p) == IF wPerson[t][p] = NoWrite THEN person[p] ELSE wPerson[t][p]
RowSeen(t, r) == IF wRow[t][r] = NoWrite THEN row[r] ELSE wRow[t][r]
CandSeen(t, p) == IF wCand[t][p] = NoWrite THEN cand[p] ELSE wCand[t][p]

\* Identifier rows are inserted and deleted; a move deletes the old key and inserts the new one.
IdentSeen(t) == (ident \ wIdent[t].deleted) \cup wIdent[t].inserted
HashesSeen(t, p, type) == {h \in OfKind(type) : << p, h >> \in IdentSeen(t)}

PersonLocked(t, p) == \E u \in Tx \ {t} : wPerson[u][p] # NoWrite
RowLocked(t, r) == \E u \in Tx \ {t} : wRow[u][r] # NoWrite
CandLocked(t, p) == \E u \in Tx \ {t} : wCand[u][p] # NoWrite
WroteIdents(u, rows) == rows \cap (wIdent[u].inserted \cup wIdent[u].deleted) # {}
IdentsLocked(t, rows) == \E u \in Tx \ {t} : WroteIdents(u, rows)
\* The unique index on stable identifiers: an insert of one waits for whoever is moving it.
MovesHolder(u, r) == wRow[u][r] # NoWrite /\ wRow[u][r].holder # row[r].holder

Unmerged(t, p) == PersonSeen(t, p).state # "absent" /\ PersonSeen(t, p).into = None

\* canonical_person_id: the survivor at the end of the chain.
Canonical(t) ==
    LET chain[p \in Person] ==
            IF PersonSeen(t, p).into = None THEN p ELSE chain[PersonSeen(t, p).into]
    IN  chain

-----------------------------------------------------------------------------
(* Blocking and features, from the rows a transaction sees.                *)

\* load_profiles: hashes from the identifier rows a person holds, cases from its party rows.
Profile(t, p) ==
    LET held == {r \in Person : RowSeen(t, r).holder = p}
        seen == {r \in Person : RowSeen(t, r).party = p}
    IN  [ source_ids |-> held,
          names      |-> HashesSeen(t, p, "full_name"),
          dobs       |-> HashesSeen(t, p, "date_of_birth"),
          name_dobs  |-> HashesSeen(t, p, "name_dob"),
          cases      |-> UNION {Cases[r] : r \in seen} ]

\* Mutations of CandidatePairs: a pair may come both ways round; both persons must be anchored.
UnorderedPairs(t, anchor) ==
    {p \in anchor \X anchor :
        /\ p[1] # p[2]
        /\ Unmerged(t, p[1]) /\ Unmerged(t, p[2])
        /\ HasSignal(ComputeFeatures(Profile(t, p[1]), Profile(t, p[2])))}
BothAnchored(t, anchor) == {p \in UnorderedPairs(t, anchor) : p[1] < p[2]}

\* blocks_for, candidate_pairs: unmerged persons that share a blocking hash, touching the anchor.
CandidatePairs(t, anchor) ==
    {p \in Pair :
        /\ Unmerged(t, p[1]) /\ Unmerged(t, p[2])
        /\ p[1] \in anchor \/ p[2] \in anchor
        /\ HasSignal(ComputeFeatures(Profile(t, p[1]), Profile(t, p[2])))}

Outcome(t, p) == Evaluate(ComputeFeatures(Profile(t, p[1]), Profile(t, p[2])), None)
-----------------------------------------------------------------------------
NoRows == [inserted |-> {}, deleted |-> {}]

Init ==
    /\ person = [p \in Person |-> Absent]
    /\ row = [r \in Person |-> [holder |-> None, party |-> None]]
    /\ ident = {}
    /\ cand = [p \in Pair |-> None]
    /\ audit = {}
    /\ wPerson = [t \in Tx |-> [p \in Person |-> NoWrite]]
    /\ wRow = [t \in Tx |-> [r \in Person |-> NoWrite]]
    /\ wIdent = [t \in Tx |-> NoRows]
    /\ wCand = [t \in Tx |-> [p \in Pair |-> NoWrite]]
    /\ wAudit = [t \in Tx |-> {}]
    /\ pc = [t \in Tx |-> "idle"]
    /\ kind = [t \in Tx |-> "rerun"]
    /\ batch = [t \in Tx |-> {}]
    /\ ids = [t \in Tx |-> [r \in Person |-> None]]
    /\ due = [t \in Tx |-> {}]
    /\ choice = [t \in Tx |-> "review"]
    /\ begun = 0
    /\ pairs = [t \in Tx |-> {}]
    /\ verdict = [t \in Tx |-> [p \in Pair |-> None]]
    /\ todo = [t \in Tx |-> {}]
    /\ current = [t \in Tx |-> None]
    /\ keep = [t \in Tx |-> None]
    /\ drop = [t \in Tx |-> None]

Go(t, step) == pc' = [pc EXCEPT ![t] = step]
Begin(t, k, b) ==
    /\ pc[t] = "idle"
    /\ begun < MaxTx
    /\ begun' = begun + 1
    /\ kind' = [kind EXCEPT ![t] = k]
    /\ batch' = [batch EXCEPT ![t] = b]

\* What is forgotten when a transaction ends, committed or not.
Forget(t) ==
    /\ wPerson' = [wPerson EXCEPT ![t] = [p \in Person |-> NoWrite]]
    /\ wRow' = [wRow EXCEPT ![t] = [r \in Person |-> NoWrite]]
    /\ wIdent' = [wIdent EXCEPT ![t] = NoRows]
    /\ wCand' = [wCand EXCEPT ![t] = [p \in Pair |-> NoWrite]]
    /\ wAudit' = [wAudit EXCEPT ![t] = {}]
    /\ kind' = [kind EXCEPT ![t] = "rerun"]
    /\ batch' = [batch EXCEPT ![t] = {}]
    /\ ids' = [ids EXCEPT ![t] = [r \in Person |-> None]]
    /\ due' = [due EXCEPT ![t] = {}]
    /\ choice' = [choice EXCEPT ![t] = "review"]
    /\ pairs' = [pairs EXCEPT ![t] = {}]
    /\ verdict' = [verdict EXCEPT ![t] = [p \in Pair |-> None]]
    /\ todo' = [todo EXCEPT ![t] = {}]
    /\ current' = [current EXCEPT ![t] = None]
    /\ keep' = [keep EXCEPT ![t] = None]
    /\ drop' = [drop EXCEPT ![t] = None]
    /\ Go(t, "idle")
    /\ begun' = begun

-----------------------------------------------------------------------------
(* Ingest: find or create the persons, publish, then resolve candidates.   *)

\* The artifact of a run names records never seen and records seen before.  Two runs over one
\* new artifact collide on its source_record, so no two create one record's person; a person
\* created later sorts after every person that exists or is being created.
BeginIngest(t) ==
    /\ \E records \in SUBSET Person \ {{}} :
        /\ \A r \in {s \in records : person[s] = Absent}, q \in Person :
              \/ person[q] # Absent
              \/ \E u \in Tx : kind[u] = "ingest" /\ q \in batch[u]
              => q < r
        /\ Begin(t, "ingest", records)
    /\ Go(t, "resolve")
    /\ UNCHANGED << store, writes, ids, due, choice, work, merging >>

\* resolve_persons: the holder of the record's stable identifier, or a new person with that
\* identifier (nobody else can be inserting it: two runs over one artifact collide before).
ResolvePersons(t) ==
    LET new == {r \in batch[t] : RowSeen(t, r).holder = None}
    IN  /\ pc[t] = "resolve"
        /\ ids' = [ids EXCEPT ![t] =
                     [r \in Person |-> IF r \notin batch[t] THEN None
                                       ELSE IF r \in new THEN r ELSE RowSeen(t, r).holder]]
        /\ wPerson' = [wPerson EXCEPT ![t] =
                         [p \in Person |-> IF p \in new THEN Resolved ELSE @[p]]]
        /\ wRow' = [wRow EXCEPT ![t] =
                      [r \in Person |-> IF r \in new THEN [holder |-> r, party |-> None] ELSE @[r]]]
        /\ \E draft \in [batch[t] -> UNION {Drafts[r] : r \in batch[t]}] :
            /\ \A r \in batch[t] : draft[r] \in Drafts[r]
            /\ due' = [due EXCEPT ![t] = UNION {{ids'[t][r]} \X Hashes(draft[r]) : r \in batch[t]}]
        /\ Go(t, "identify")
        /\ UNCHANGED << store, wIdent, wCand, wAudit, kind, batch, choice, begun, work, merging >>

\* A transaction's deletes and inserts of identifier rows, over those it has already made.
WriteIdents(t, deletes, inserts) ==
    wIdent' = [wIdent EXCEPT ![t] = [inserted |-> (@.inserted \ deletes) \cup inserts,
                                     deleted |-> (@.deleted \ inserts) \cup deletes]]

\* upsert_person_identifiers: a person, new or known, gains every hash of its drafts that it does
\* not hold (ON CONFLICT DO NOTHING).  The stable identifier of a known record only waits.
UpsertIdentifiers(t) ==
    /\ pc[t] = "identify"
    /\ ~IdentsLocked(t, due[t])
    /\ \A u \in Tx \ {t}, r \in batch[t] : ~MovesHolder(u, r)
    /\ WriteIdents(t, {}, due[t] \ IdentSeen(t))
    /\ due' = [due EXCEPT ![t] = {}]
    /\ Go(t, "publish")
    /\ UNCHANGED << store, wPerson, wRow, wCand, wAudit, kind, batch, ids, choice, begun, work,
                    merging >>

\* _publish: the party rows are upserted with the person id resolved at step 10.
Publish(t) ==
    /\ pc[t] = "publish"
    /\ \A r \in batch[t] : ~RowLocked(t, r)
    /\ wRow' = [wRow EXCEPT ![t] =
                  [r \in Person |-> IF r \in batch[t]
                                    THEN [holder |-> RowSeen(t, r).holder, party |-> ids[t][r]]
                                    ELSE @[r]]]
    /\ Go(t, "block")
    /\ UNCHANGED << store, wPerson, wIdent, wCand, wAudit, plan, work, merging >>

-----------------------------------------------------------------------------
(* resolve_candidates and rerun.                                           *)

BeginRerun(t) ==
    /\ \E sources \in {Source} \cup {{s} : s \in Source} :
          Begin(t, "rerun", {r \in Person : SourceOf[r] \in sources})
    /\ Go(t, "block")
    /\ UNCHANGED << store, writes, ids, due, choice, work, merging >>

Anchor(t) ==
    IF kind[t] = "ingest" THEN {Canonical(t)[ids[t][r]] : r \in batch[t]}
    ELSE {p \in batch[t] : Unmerged(t, p)}

Block(t) ==
    /\ pc[t] = "block"
    /\ pairs' = [pairs EXCEPT ![t] = CandidatePairs(t, Anchor(t))]
    /\ Go(t, IF pairs'[t] = {} THEN "commit" ELSE "evaluate")
    /\ UNCHANGED << store, writes, plan, verdict, todo, merging >>

\* The pairs that still carry a signal and no human decision get the stages' outcome.
EvaluatePairs(t) ==
    LET judged == {p \in pairs[t] :
                      /\ HasSignal(ComputeFeatures(Profile(t, p[1]), Profile(t, p[2])))
                      /\ CandSeen(t, p) = None \/ ~HumanDecided(CandSeen(t, p))}
    IN  /\ pc[t] = "evaluate"
        /\ verdict' = [verdict EXCEPT ![t] =
                         [p \in Pair |-> IF p \in judged THEN Outcome(t, p).decision ELSE None]]
        /\ Go(t, IF judged = {} THEN "commit" ELSE "upsert")
        /\ UNCHANGED << store, writes, plan, pairs, todo, merging >>

SystemCandidate(decision) ==
    [decision |-> decision, by |-> IF decision = "review" THEN None ELSE System]

\* Mutation of Upserted: the update without its WHERE.
UpsertedAlways(old, decision) == SystemCandidate(decision)

\* The ON CONFLICT arm: a human decision is kept, anything else takes the new outcome.
Upserted(old, decision) ==
    IF old # None /\ HumanDecided(old) THEN old ELSE SystemCandidate(decision)

\* upsert_candidates, then the effective rows: a conflicting row is locked and re-read first.
UpsertCandidates(t) ==
    LET stored == {p \in Pair : verdict[t][p] # None}
    IN  /\ pc[t] = "upsert"
        /\ \A p \in stored : ~CandLocked(t, p)
        /\ wCand' = [wCand EXCEPT ![t] =
                       [p \in Pair |-> IF p \in stored THEN Upserted(CandSeen(t, p), verdict[t][p])
                                       ELSE @[p]]]
        /\ todo' = [todo EXCEPT ![t] = {p \in stored : wCand'[t][p] = SystemCandidate("matched")}]
        /\ Go(t, IF todo'[t] = {} THEN "commit" ELSE "next")
        /\ UNCHANGED << store, wPerson, wRow, wIdent, wAudit, plan, pairs, verdict, merging >>

\* Mutation of Advance: only the first matched pair is handled.
AdvanceToCommit(t, pair) ==
    /\ todo' = [todo EXCEPT ![t] = {}]
    /\ Go(t, "commit")

\* The candidate just handled leaves the list; the next one follows, or the commit.
Advance(t, pair) ==
    /\ todo' = [todo EXCEPT ![t] = @ \ {pair}]
    /\ Go(t, IF todo[t] \ {pair} = {} THEN "commit" ELSE "next")

\* Mutation of KeepAndDrop: the survivor of the pair's first person is kept.
KeepFirst(left, right) == << left, right >>

KeepAndDrop(left, right) == IF left < right THEN << left, right >> ELSE << right, left >>

StartMerge(t, pair, persons) ==
    /\ current' = [current EXCEPT ![t] = pair]
    /\ keep' = [keep EXCEPT ![t] = persons[1]]
    /\ drop' = [drop EXCEPT ![t] = persons[2]]
    /\ Go(t, "check")

\* _apply_system_merge, first half: the survivors of the pair's two persons, which one stays.
NextMatched(t) ==
    /\ pc[t] = "next"
    /\ \E pair \in todo[t], left \in Person, right \in Person :
        /\ left = Canonical(t)[pair[1]]
        /\ right = Canonical(t)[pair[2]]
        /\ \/ /\ left = right
              /\ Advance(t, pair)
              /\ UNCHANGED merging
           \/ /\ left # right
              /\ StartMerge(t, pair, KeepAndDrop(left, right))
              /\ UNCHANGED todo
    /\ UNCHANGED << store, writes, plan, pairs, verdict >>

-----------------------------------------------------------------------------
(* merge_persons.                                                          *)

\* Mutation of CheckMerge: a merge that cannot go on is tried again.
CheckMergeAgain(t) ==
    /\ pc[t] = "check"
    /\ IF Unmerged(t, keep[t]) /\ Unmerged(t, drop[t])
       THEN Go(t, "move")
       ELSE kind[t] # "review" /\ Go(t, "check")
    /\ UNCHANGED << store, writes, plan, work, merging >>

\* The unlocked read of both persons.  A merged person is a MergeError: the pipeline skips the
\* pair, "er review decide" dies on it (FailReview).
CheckMerge(t) ==
    /\ pc[t] = "check"
    /\ IF Unmerged(t, keep[t]) /\ Unmerged(t, drop[t])
       THEN Go(t, "move") /\ UNCHANGED todo
       ELSE kind[t] # "review" /\ Advance(t, current[t])
    /\ UNCHANGED << store, writes, plan, pairs, verdict, merging >>

FailReview(t) ==
    /\ pc[t] = "check"
    /\ kind[t] = "review"
    /\ ~(Unmerged(t, keep[t]) /\ Unmerged(t, drop[t]))
    /\ Forget(t)
    /\ UNCHANGED store

\* The rows an UPDATE ... WHERE person_id = drop finds, and what it makes of them.
RowsOf(t, p) == {r \in Person : RowSeen(t, r).holder = p \/ RowSeen(t, r).party = p}

\* Mutation of Repoint: a person-bearing table is left out.
RepointIdentifiers(old, from, to) ==
    [old EXCEPT !.holder = IF old.holder = from THEN to ELSE old.holder]

Repoint(old, from, to) ==
    [holder |-> IF old.holder = from THEN to ELSE old.holder,
     party |-> IF old.party = from THEN to ELSE old.party]

\* The identifier rows of the person merged away, and the same hashes under the survivor.
MovedIdents(t) == {x \in IdentSeen(t) : x[1] = drop[t]}
TakenIdents(t) == {<< keep[t], x[2] >> : x \in MovedIdents(t)}

\* _move_unique: a hash the survivor holds already is deleted, the others change hands.  A key
\* that another transaction puts under the survivor between the read and the update is an
\* integrity error: Crash.
MoveRows(t) ==
    LET moved == RowsOf(t, drop[t])
    IN  /\ pc[t] = "move"
        /\ \A r \in moved : ~RowLocked(t, r)
        /\ ~IdentsLocked(t, MovedIdents(t) \cup TakenIdents(t))
        /\ WriteIdents(t, MovedIdents(t), TakenIdents(t) \ IdentSeen(t))
        /\ wRow' = [wRow EXCEPT ![t] =
                      [r \in Person |-> IF r \in moved
                                        THEN Repoint(RowSeen(t, r), drop[t], keep[t]) ELSE @[r]]]
        /\ Go(t, "mark")
        /\ UNCHANGED << store, wPerson, wCand, wAudit, plan, work, merging >>

\* Mutation of MergeAudit: only a reviewer's merge is audited.
ReviewerMergeAudit(t) ==
    IF kind[t] # "review" THEN {}
    ELSE {[action |-> "er.decide", what |-> << keep[t], drop[t] >>]}

MergeAudit(t) == {[action |-> IF kind[t] = "review" THEN "er.decide" ELSE "er.merge",
                   what |-> << keep[t], drop[t] >>]}

\* The two UPDATEs of person and the audit row.  The survivor's row keeps whatever pointer it
\* has by then; only its status is written.
MarkMerged(t) ==
    /\ pc[t] = "mark"
    /\ ~PersonLocked(t, keep[t]) /\ ~PersonLocked(t, drop[t])
    /\ wPerson' = [wPerson EXCEPT ![t] =
                     [@ EXCEPT ![drop[t]] = [state |-> "merged", into |-> keep[t]],
                               ![keep[t]] = [state |-> "resolved",
                                             into |-> PersonSeen(t, keep[t]).into]]]
    /\ wAudit' = [wAudit EXCEPT ![t] = @ \cup MergeAudit(t)]
    /\ IF kind[t] = "review"
       THEN Go(t, "decide") /\ UNCHANGED todo
       ELSE Advance(t, current[t])
    /\ UNCHANGED << store, wRow, wIdent, wCand, plan, pairs, verdict, merging >>

-----------------------------------------------------------------------------
(* The review queue.                                                       *)

\* Mutation of Reviewable: a decided candidate can be decided again.
ReviewableAgain(t, pair) ==
    cand[pair] # None /\ Unmerged(t, pair[1]) /\ Unmerged(t, pair[2])

\* decide: only an undecided review candidate of two unmerged persons passes.
Reviewable(t, pair) ==
    /\ cand[pair] = SystemCandidate("review")
    /\ Unmerged(t, pair[1]) /\ Unmerged(t, pair[2])

BeginReview(t) ==
    /\ \E pair \in Pair, decision \in {"matched", "rejected"} :
        /\ Reviewable(t, pair)
        /\ current' = [current EXCEPT ![t] = pair]
        /\ keep' = [keep EXCEPT ![t] = pair[1]]
        /\ drop' = [drop EXCEPT ![t] = pair[2]]
        /\ choice' = [choice EXCEPT ![t] = decision]
        /\ Go(t, IF decision = "matched" THEN "check" ELSE "decide")
    /\ Begin(t, "review", {})
    /\ UNCHANGED << store, writes, ids, due, work >>

\* A rejection writes its own audit row; a match has the merge's.
RejectionAudit(t) ==
    IF choice[t] = "matched" THEN {}
    ELSE {[action |-> "er.decide", what |-> current[t]]}

\* The candidate is updated by its id alone.
DecideCandidate(t) ==
    /\ pc[t] = "decide"
    /\ ~CandLocked(t, current[t])
    /\ wCand' = [wCand EXCEPT ![t] =
                   [@ EXCEPT ![current[t]] = [decision |-> choice[t], by |-> t]]]
    /\ wAudit' = [wAudit EXCEPT ![t] = @ \cup RejectionAudit(t)]
    /\ Go(t, "commit")
    /\ UNCHANGED << store, wPerson, wRow, wIdent, plan, work, merging >>

-----------------------------------------------------------------------------
(* The end of a transaction.                                               *)

Commit(t) ==
    /\ pc[t] = "commit"
    /\ person' = [p \in Person |-> PersonSeen(t, p)]
    /\ row' = [r \in Person |-> RowSeen(t, r)]
    /\ ident' = IdentSeen(t)
    /\ cand' = [p \in Pair |-> CandSeen(t, p)]
    /\ audit' = audit \cup wAudit[t]
    /\ Forget(t)

\* A crash of the process, or any error that rolls the transaction back.
Crash(t) ==
    /\ pc[t] # "idle"
    /\ Forget(t)
    /\ UNCHANGED store

\* Whom t waits for, and PostgreSQL's deadlock detector: one of a waiting cycle is rolled back.
WaitsFor(t, u) ==
    /\ u # t
    /\ \/ pc[t] = "identify" /\ (WroteIdents(u, due[t]) \/ \E r \in batch[t] : MovesHolder(u, r))
       \/ pc[t] = "publish" /\ \E r \in batch[t] : wRow[u][r] # NoWrite
       \/ pc[t] = "upsert" /\ \E p \in Pair : verdict[t][p] # None /\ wCand[u][p] # NoWrite
       \/ pc[t] = "move" /\ \E r \in RowsOf(t, drop[t]) : wRow[u][r] # NoWrite
       \/ pc[t] = "move" /\ WroteIdents(u, MovedIdents(t) \cup TakenIdents(t))
       \/ pc[t] = "mark" /\ wPerson[u][keep[t]] # NoWrite
       \/ pc[t] = "mark" /\ wPerson[u][drop[t]] # NoWrite
       \/ pc[t] = "decide" /\ wCand[u][current[t]] # NoWrite

AbortDeadlocked(t) ==
    /\ \E ring \in SUBSET Tx :
        /\ t \in ring
        /\ \A u \in ring : \E v \in ring : WaitsFor(u, v)
    /\ Forget(t)
    /\ UNCHANGED store

Step(t) ==
    \/ ResolvePersons(t) \/ UpsertIdentifiers(t) \/ Publish(t)
    \/ Block(t) \/ EvaluatePairs(t) \/ UpsertCandidates(t) \/ NextMatched(t)
    \/ CheckMerge(t) \/ FailReview(t) \/ MoveRows(t) \/ MarkMerged(t)
    \/ DecideCandidate(t) \/ Commit(t)

Next == \E t \in Tx :
    \/ BeginIngest(t) \/ BeginRerun(t) \/ BeginReview(t)
    \/ Step(t) \/ Crash(t) \/ AbortDeadlocked(t)

\* A started command runs on until it ends, and the database resolves deadlocks.
Fairness == \A t \in Tx : WF_vars(Step(t)) /\ WF_vars(AbortDeadlocked(t))

Spec == Init /\ [][Next]_vars
FairSpec == Spec /\ Fairness
-----------------------------------------------------------------------------
(* Properties.                                                             *)

TypeOK ==
    /\ person \in [Person -> PersonRow]
    /\ row \in [Person -> RecordRow]
    /\ ident \in SUBSET IdentifierRow
    /\ cand \in [Pair -> Candidate \cup {None}]
    /\ audit \in SUBSET AuditRow
    /\ wPerson \in [Tx -> [Person -> PersonRow \cup {NoWrite}]]
    /\ wRow \in [Tx -> [Person -> RecordRow \cup {NoWrite}]]
    /\ wIdent \in [Tx -> [inserted : SUBSET IdentifierRow, deleted : SUBSET IdentifierRow]]
    /\ wCand \in [Tx -> [Pair -> Candidate \cup {NoWrite}]]
    /\ wAudit \in [Tx -> SUBSET AuditRow]
    /\ pc \in [Tx -> Steps]
    /\ kind \in [Tx -> Kinds]
    /\ batch \in [Tx -> SUBSET Person]
    /\ ids \in [Tx -> [Person -> Person \cup {None}]]
    /\ due \in [Tx -> SUBSET IdentifierRow]
    /\ choice \in [Tx -> Decisions]
    /\ begun \in 0..MaxTx
    /\ pairs \in [Tx -> SUBSET Pair]
    /\ verdict \in [Tx -> [Pair -> Decisions \cup {None}]]
    /\ todo \in [Tx -> SUBSET Pair]
    /\ current \in [Tx -> Pair \cup {None}]
    /\ keep \in [Tx -> Person \cup {None}]
    /\ drop \in [Tx -> Person \cup {None}]

\* Whatever transactions interleave, a merge pointer leads to an earlier-created person: no
\* chain of merges closes on itself, so canonical_person_id always ends ("merge cycle" in
\* merge.py is never raised).
PointersDescend == \A p \in Person : person[p].into # None => person[p].into < p

\* Every merge in force and every reviewer's decision in force has its audit row, however
\* commands interleave or crash (docs/ENTITY_RESOLUTION.md: "every merge and every reviewer
\* decision writes an append-only audit row").
MergesAudited == \A p \in Person : person[p].into # None =>
    \E a \in audit : a.what = << person[p].into, p >>
DecisionsAudited == \A p \in Pair : cand[p] # None /\ HumanDecided(cand[p]) =>
    [action |-> "er.decide", what |-> p] \in audit
Audited == MergesAudited /\ DecisionsAudited

\* The system never overwrites a reviewer's decision, even one committed between the moment it
\* read the candidate and the moment it writes it (the WHERE of upsert_candidates).
SystemKeepsHumanDecisions ==
    [][\A p \in Pair : cand[p] # None /\ HumanDecided(cand[p]) => HumanDecided(cand'[p])]_vars

\* What the proofs strengthen the above with (PersonResolutionProofs), about the transactions
\* still running: which persons and which pair a merge works on, ...
Underway(t) == pc[t] \in {"check", "move", "mark"}
MergeTarget(t) ==
    /\ pc[t] \in {"resolve", "identify", "publish", "block", "evaluate", "upsert", "next"} =>
          kind[t] # "review"
    /\ Underway(t) => /\ << keep[t], drop[t] >> \in Pair
                      /\ current[t] \in Pair
                      /\ kind[t] = "review" => /\ current[t] = << keep[t], drop[t] >>
                                               /\ choice[t] = "matched"
    /\ pc[t] = "decide" => /\ current[t] \in Pair
                           /\ choice[t] = "matched"
                                => [action |-> "er.decide", what |-> current[t]] \in wAudit[t]
MergeTargets == \A t \in Tx : MergeTarget(t)

\* ... the pointers and the audit rows it has not committed yet, ...
WritesDescend == \A t \in Tx, p \in Person :
    wPerson[t][p] # NoWrite /\ wPerson[t][p].into # None => wPerson[t][p].into < p
WritesAudited == \A t \in Tx, p \in Person :
    wPerson[t][p] # NoWrite /\ wPerson[t][p].into # None =>
        \E a \in audit \cup wAudit[t] : a.what = << wPerson[t][p].into, p >>

\* ... and the candidate rows it has locked: nobody else has, and no human decision under one
\* of them is about to be replaced by a system decision.
CandidateWrites == \A t \in Tx, p \in Pair : wCand[t][p] # NoWrite =>
    /\ \A u \in Tx \ {t} : wCand[u][p] = NoWrite
    /\ cand[p] # None /\ HumanDecided(cand[p]) => HumanDecided(wCand[t][p])
    /\ HumanDecided(wCand[t][p]) =>
          [action |-> "er.decide", what |-> p] \in audit \cup wAudit[t]

IndInv ==
    /\ TypeOK
    /\ MergeTargets
    /\ PointersDescend /\ WritesDescend
    /\ MergesAudited /\ WritesAudited
    /\ DecisionsAudited /\ CandidateWrites

\* Every started command ends: waits for row locks, deadlocks and skipped merges included.
CommandsEnd == \A t \in Tx : pc[t] # "idle" ~> pc[t] = "idle"

\* A merged person holds no row any more, and exactly the merged persons carry a pointer
\* (merge.py: re-points every person-bearing row of drop to keep; drop keeps its row with
\* merged_into_person_id = keep and resolution_status = merged).
MergedPersonsEmpty == \A p \in Person :
    /\ (person[p].state = "merged") <=> (person[p].into # None)
    /\ person[p].into # None => /\ \A r \in Person : row[r].holder # p /\ row[r].party # p
                                /\ \A x \in ident : x[1] # p

\* A reviewer's decision is final: decide refuses a candidate that is already decided.
HumanDecisionsFinal ==
    [][\A p \in Pair : cand[p] # None /\ HumanDecided(cand[p]) => cand'[p] = cand[p]]_vars

\* The committed survivor of each person.
Survivor ==
    LET chain[p \in Person] == IF person[p].into = None THEN p ELSE chain[person[p].into]
    IN  chain

\* The detailed system implements the abstract one: what is committed is a partition of the
\* known persons that only coarsens, each class under its earliest-created person, and no
\* half of a merge is ever visible.
Partition == INSTANCE PersonPartition
    WITH survivor <- [p \in Person |-> IF person[p] = Absent THEN None ELSE Survivor[p]]
RefinesPartition == Partition!Spec

\* Two persons with a matched candidate are one person: no decided match is left unmerged.
MatchedIsOnePerson == \A p \in Pair :
    cand[p] # None /\ cand[p].decision = "matched" => Survivor[p[1]] = Survivor[p[2]]

\* Two unmerged persons share a name through the identifier rows they hold.
SharedName(p) == \E h \in OfKind("full_name") : << p[1], h >> \in ident /\ << p[2], h >> \in ident

\* Blocking misses no pair: when two unmerged persons share a name, then they, or persons since
\* merged into them, have been compared.  A candidate of the two themselves need not exist: a
\* merge hands over a name and not the candidates (merge.py), so the survivor is compared under
\* it only when a later run anchors one of the two.
SharedNamesJudged == \A p \in Pair :
    person[p[1]].state = "resolved" /\ person[p[2]].state = "resolved" /\ SharedName(p) =>
        \E q \in Pair : cand[q] # None /\ {Survivor[q[1]], Survivor[q[2]]} = {p[1], p[2]}
=============================================================================
