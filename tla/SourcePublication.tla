--------------------------- MODULE SourcePublication ---------------------------
(***************************************************************************)
(* Steps 9, 10 and 12 of an ingest run: the drafts of a run are            *)
(* deduplicated, their references resolved, and each is upserted on its    *)
(* natural key (ingest/runner.py, ingest/publish.py).  Nothing is ever     *)
(* deleted.                                                                *)
(*                                                                         *)
(* db is a function from <<table, key>> to the row's columns and the       *)
(* source record it is attributed to.  Row ids, which the code looks up    *)
(* again after each upsert, are the keys themselves.                       *)
(***************************************************************************)
EXTENDS CookExports

\* The columns an upsert compares; the others of a draft are its key, or constant.
ComparedPlaces == [jurisdiction |-> {}, court |-> {"jurisdiction"}, judge |-> {"status"}]
ComparedService == [judge_service |-> {"end"}]
ComparedPersons == [person |-> {}]
ComparedCases == [case |-> {"filed", "closed", "status"}]
ComparedParties == [case_party |-> {"person"}, party_attribute |-> {"value"}]
ComparedCharges ==
  [charge |-> {"person", "judge", "category", "severity", "filed", "at", "disposition", "actor"},
   court_event |-> {"person", "judge", "type", "at", "actor"}]
ComparedDecisions ==
  [decision |-> {"person", "judge", "type", "at", "outcome", "actor", "discretion"},
   pretrial_release |-> {"release", "detained", "releaseAt", "monitored"}]
ComparedSentences ==
  [sentence |-> {"person", "judge", "at", "phase", "charges", "incarceration", "probation",
                 "superseded", "replaced"}]
ComparedEvents == [justice_event |-> {}]
Compare ==
  ComparedPlaces @@ ComparedService @@ ComparedPersons @@ ComparedCases @@ ComparedParties
  @@ ComparedCharges @@ ComparedDecisions @@ ComparedSentences @@ ComparedEvents
-----------------------------------------------------------------------------
(* The drafts of a run are pairs of a kind and a draft.                    *)

OfKind(drafts, kind) == {e[2] : e \in {e \in drafts : e[1] = kind}}
SameKey(e, f) == e[1] = f[1] /\ e[2].key = f[2].key

\* Deduplication: the first draft of a natural key is kept.  Drafts of one key in one batch
\* are all kept here; when they differ they are a conflict, whichever the code keeps.
Deduplicated(parsed) ==
  LET earlier(b) == UNION {a.drafts : a \in {a \in parsed : YieldedBefore(a, b)}}
  IN  UNION {{e \in b.drafts : \A f \in earlier(b) : ~SameKey(e, f)} : b \in parsed}

\* The kept drafts that a draft of the same key contradicts.
Conflicts(parsed, kept) ==
  LET drafted == UNION {b.drafts : b \in parsed}
  IN  {e \in kept : \E f \in drafted : SameKey(e, f) /\ f[2].cols # e[2].cols}
-----------------------------------------------------------------------------
(* Resolution: a draft whose references neither the run nor db knows is rejected. *)

\* What a column refers to.
Referred == [jurisdiction |-> "jurisdiction", court |-> "court", judge |-> "judge", person |-> "person",
             case |-> "case", party |-> "case_party"]
ReferredKey(column, value) == IF column \in {"court", "judge", "person"} THEN <<value>> ELSE value

\* The keys of a kind that the run drafts or that are stored.
KnownKeys(db, drafts, kind) ==
  {d.key : d \in OfKind(drafts, kind)} \cup {k[2] : k \in {k \in DOMAIN db : k[1] = kind}}
\* A draft may name no judge.
Resolves(e, column, known) ==
  column \in DOMAIN e[2].cols =>
    LET value == e[2].cols[column] IN (column = "judge" /\ value = Blank) \/ ReferredKey(column, value) \in known

Resolving(db, drafts, column) ==
  LET known == KnownKeys(db, drafts, Referred[column]) IN {e \in drafts : Resolves(e, column, known)}
\* One reference after the other: what refers to a rejected draft is rejected with it.
Resolved(db, kept) ==
  LET placed     == Resolving(db, kept, "jurisdiction")
      seated     == Resolving(db, placed, "court")
      judged     == Resolving(db, seated, "judge")
      identified == Resolving(db, judged, "person")
      filed      == Resolving(db, identified, "case")
  IN  Resolving(db, filed, "party")

Rejected(db, kept) == kept \ Resolved(db, kept)
-----------------------------------------------------------------------------
(* Publication. *)

\* A pretrial-release row is the child of its decision; it has no record of its own.
Drafted(resolved) ==
  resolved
  \cup {"pretrial_release"} \X {d \in OfKind(resolved, "decision") : "release" \in DOMAIN d.cols}

\* Of a row's columns, Compare[table] are stored; the others are its key's.
Row(table, d, source) ==
  [cols |-> d.cols, from |-> IF table = "pretrial_release" THEN <<>> ELSE <<d.home, source[d.home]>>]
Rows(resolved, source) ==
  LET drafted == Drafted(resolved)
      keys    == {<<e[1], e[2].key>> : e \in drafted}
  IN  [k \in keys |-> Row(k[1], (CHOOSE e \in drafted : e[1] = k[1] /\ e[2].key = k[2])[2], source)]

\* A stored row is written, and its record moves, only when a compared column differs.
Differs(table, old, new) == \E column \in Compare[table] : old.cols[column] # new.cols[column]
Published(db, resolved, source) ==
  LET rows    == Rows(resolved, source)
      written == {k \in DOMAIN rows : k \in DOMAIN db => Differs(k[1], db[k], rows[k])}
  IN  Over([k \in written |-> rows[k]], db)
=============================================================================
